--------------------------- MODULE ThemeFlashProofs ---------------------------
(***************************************************************************)
(* Proofs about ThemeFlash, for every layout of bitmaps, sectors and pages *)
(* and every number of calls and faults, where answers are not late: what  *)
(* the answers to reads and writes say of the flash is true, and nothing   *)
(* is erased that was not saved.                                           *)
(***************************************************************************)
EXTENDS ThemeFlash, TLAPS

--------------------------------------------------------------------------------
\* Arithmetic of sectors and pages.

LEMMA Floor ==
    ASSUME NEW a \in Nat, NEW b \in Nat \ {0}
    PROVE  a \div b \in Nat /\ (a \div b) * b <= a /\ a < (a \div b) * b + b
BY SMTT(30)

LEMMA IsMultiple ==
    ASSUME NEW n \in Nat, NEW b \in Nat \ {0}, n % b = 0
    PROVE  n \div b \in Nat /\ n = (n \div b) * b
BY SMTT(30)

LEMMA MultipleHasNoRest ==
    ASSUME NEW n \in Nat, NEW b \in Nat \ {0}
    PROVE  (n * b) % b = 0
BY SMTT(30)

\* A multiple without one more page is still a multiple.
LEMMA OnePageLess ==
    ASSUME NEW n \in Nat, NEW p \in Nat \ {0}, n % p = 0, n > p
    PROVE  (n - p) % p = 0
<1>1. n = (n \div p) * p /\ n \div p \in Nat
  BY IsMultiple
<1>2. n \div p - 1 \in Nat /\ n - p = (n \div p - 1) * p
  BY <1>1, SMTT(30)
<1> QED BY <1>2, MultipleHasNoRest

\* A multiple that is not zero has a page.
LEMMA HasAPage ==
    ASSUME NEW n \in Nat \ {0}, NEW p \in Nat \ {0}, n % p = 0
    PROVE  n >= p
<1>1. n = (n \div p) * p /\ n \div p \in Nat
  BY IsMultiple
<1> QED BY <1>1, SMTT(30)

\* The sectors of a bitmap are whole, in the flash, and contain it.
LEMMA SectorFacts ==
    ASSUME NEW s \in Slots
    PROVE  /\ {First[s], Size[s], SectorStart(s), SectorEnd(s)} \subseteq Nat /\ Size[s] > 0
           /\ SectorStart(s) <= First[s] /\ First[s] + Size[s] <= SectorEnd(s)
           /\ SectorEnd(s) <= NumCells
           /\ (SectorEnd(s) - SectorStart(s)) % PageCells = 0
           /\ Bitmap(s) \subseteq Sectors(s) /\ Sectors(s) \subseteq Cells
<1> DEFINE a == First[s]
           b == First[s] + Size[s] + SectorCells - 1
<1>1. /\ First[s] \in Nat /\ Size[s] \in Nat \ {0} /\ Bitmap(s) \subseteq Cells
      /\ {NumCells, SectorCells, PageCells} \subseteq Nat \ {0}
      /\ SectorCells % PageCells = 0 /\ NumCells % SectorCells = 0
  BY SlotsAssumption, SizesAssumption
<1>2. First[s] + Size[s] <= NumCells
  <2>1. First[s] + Size[s] - 1 \in Bitmap(s)
    BY <1>1 DEF Bitmap
  <2> QED BY <1>1, <2>1 DEF Cells
<1>3. /\ a \div SectorCells \in Nat /\ (a \div SectorCells) * SectorCells <= a
      /\ a < (a \div SectorCells) * SectorCells + SectorCells
  <2>1. a \in Nat /\ SectorCells \in Nat \ {0}
    BY <1>1
  <2> HIDE DEF a
  <2> QED BY <2>1, Floor
<1>4. /\ b \in Nat /\ b \div SectorCells \in Nat /\ (b \div SectorCells) * SectorCells <= b
      /\ b < (b \div SectorCells) * SectorCells + SectorCells
  <2>1. b \in Nat /\ SectorCells \in Nat \ {0}
    BY <1>1
  <2> HIDE DEF b
  <2> QED BY <2>1, Floor
<1>5. PICK k \in Nat : NumCells = k * SectorCells
  <2>1. NumCells \in Nat /\ SectorCells \in Nat \ {0}
    BY <1>1
  <2> QED BY <1>1, <2>1, IsMultiple
<1>6. PICK r \in Nat : SectorCells = r * PageCells
  <2>1. SectorCells \in Nat /\ PageCells \in Nat \ {0}
    BY <1>1
  <2> QED BY <1>1, <2>1, IsMultiple
<1> DEFINE q == a \div SectorCells
           t == b \div SectorCells
<1>7. q \in Nat /\ t \in Nat /\ SectorStart(s) = q * SectorCells
      /\ SectorEnd(s) = t * SectorCells
  BY <1>3, <1>4 DEF SectorStart, SectorEnd
<1> HIDE DEF q, t
<1>8. SectorStart(s) \in Nat /\ SectorEnd(s) \in Nat
  BY <1>1, <1>7, SMTT(30)
<1>9. SectorStart(s) <= First[s] /\ First[s] + Size[s] <= SectorEnd(s)
  BY <1>1, <1>3, <1>4, <1>8 DEF SectorStart, SectorEnd
<1>10. SectorEnd(s) <= NumCells
  <2>1. t * SectorCells < (k + 1) * SectorCells
    BY <1>1, <1>2, <1>4, <1>5, <1>7 DEF SectorEnd
  <2>2. t <= k
    BY <1>1, <1>5, <1>7, <2>1, SMTT(30)
  <2> QED BY <1>1, <1>5, <1>7, <2>2, SMTT(30)
<1>11. (SectorEnd(s) - SectorStart(s)) % PageCells = 0
  <2>1. q <= t
    BY <1>1, <1>7, <1>8, <1>9, SMTT(30)
  <2>2. (t - q) * r \in Nat /\ SectorEnd(s) - SectorStart(s) = ((t - q) * r) * PageCells
    BY <1>1, <1>6, <1>7, <2>1, SMTT(30)
  <2> QED BY <1>1, <2>2, MultipleHasNoRest
<1> QED BY <1>1, <1>8, <1>9, <1>10, <1>11 DEF Bitmap, Sectors, Cells

--------------------------------------------------------------------------------
\* The job and its range.

LEMMA JobFacts ==
    ASSUME KindsOK, job.stage # "none"
    PROVE  job \in Job /\ job # Idle /\ job.call \in Call /\ job.call.slot \in Slots
<1>1. job # Idle
  BY DEF Idle
<1>2. job \in Job
  BY <1>1 DEF KindsOK
<1> QED BY <1>1, <1>2 DEF Job, Call

LEMMA BusyStages ==
    ASSUME KindsOK, job \in Job
    PROVE  job.stage # "none" /\ job # Idle
BY DEF Job, Stages, Idle

LEMMA RangeFacts ==
    ASSUME KindsOK, PlaceOK, OnLine
    PROVE  /\ job \in Job /\ job.call \in Call /\ job.call.slot \in Slots /\ job.at \in Nat
           /\ Start(job) \in Nat /\ End(job) \in Nat /\ End(job) <= NumCells
           /\ Start(job) <= job.at /\ job.at < End(job)
           /\ PageLen \in Nat /\ 0 < PageLen /\ PageLen <= PageCells
           /\ job.at + PageLen <= End(job)
           /\ LastPage => job.at + PageLen = End(job)
           /\ ~LastPage => PageLen = PageCells
           /\ PageCells \in Nat \ {0} /\ NumCells \in Nat
<1>1. job.stage # "none"
  BY DEF OnLine, Reading
<1>2. job \in Job /\ job.call \in Call /\ job.call.slot \in Slots /\ job.at \in Nat
  BY <1>1, JobFacts DEF Job
<1>3. PageCells \in Nat \ {0} /\ NumCells \in Nat
  BY SizesAssumption
<1>4. Start(job) \in Nat /\ End(job) \in Nat /\ End(job) <= NumCells
  BY <1>2, <1>3, SectorFacts DEF Start, End
<1>5. Start(job) <= job.at /\ job.at < End(job)
  BY DEF PlaceOK
<1> QED BY <1>2, <1>3, <1>4, <1>5 DEF PageLen, LastPage

LEMMA WantedKind ==
    ASSUME KindsOK, job \in Job
    PROVE  Wanted \in [Cells -> Nat]
<1>1. job.call \in Call /\ job.call.n \in Nat
  BY BoundsAssumption DEF Job, Call
<1>2. \A x \in Cells : Pixel(job.call.n, x) \in Nat
  BY <1>1, SizesAssumption DEF Pixel, Cells
<1> QED BY <1>2 DEF Wanted, Patched, KindsOK

--------------------------------------------------------------------------------
\* How a job moves on.

\* What To does to a job.
LEMMA ToEffect ==
    ASSUME KindsOK, job \in Job, NEW s \in {"asset", "backup", "erase", "program", "check"},
           NEW u \in BOOLEAN, To(s, u)
    PROVE  /\ job' \in Job /\ job'.stage = s /\ job'.undoing = u /\ job'.call = job.call
           /\ job'.at = Start(job') /\ ~job'.sent
           /\ Start(job') = IF s = "asset" THEN First[job.call.slot]
                            ELSE SectorStart(job.call.slot)
<1>1. job.call \in Call /\ job.call.slot \in Slots /\ 1 \in 1..MaxAttempts
  BY SizesAssumption DEF Job, Call
<1> DEFINE at == IF s = "asset" THEN First[job.call.slot] ELSE SectorStart(job.call.slot)
<1>2. job' = [job EXCEPT !.stage = s, !.undoing = u, !.attempt = 1, !.sent = FALSE, !.at = at]
  BY DEF To, Start, Job
<1>3. at \in Nat
  BY <1>1, SectorFacts
<1>4. job' = [call |-> job.call, stage |-> s, undoing |-> u, at |-> at, attempt |-> 1,
              sent |-> FALSE, result |-> job.result]
  BY <1>2 DEF Job
<1> HIDE DEF at
<1>5. job' \in Job /\ job'.stage = s /\ job'.undoing = u /\ job'.call = job.call /\ job'.at = at
      /\ ~job'.sent
  BY <1>1, <1>3, <1>4 DEF Job, Stages
<1>6. Start(job') = at
  BY <1>5 DEF Start, at
<1> QED BY <1>5, <1>6 DEF at

\* A job at the start of another stage, with nothing on the line.
LEMMA StartPreserves ==
    ASSUME Inductive, job \in Job, todo = <<>>, todo' = todo,
           job' \in Job, job'.stage \in {"asset", "backup", "erase", "program", "check"},
           job'.call = job.call, job'.at = Start(job'), ~job'.sent,
           job'.stage = "asset" => job.call.op = "read",
           job'.stage # "asset" => job.call.op = "write",
           UNCHANGED <<queue, flash, before, report>>,
           input' \in Seq(Nat), backup' \in [Cells -> Nat], copy' \in [Cells -> Nat],
           job'.stage \in {"asset", "backup"} => flash = before,
           job'.stage \in {"erase", "program", "check"} =>
              /\ \A x \in Sectors(job.call.slot) : backup'[x] = before[x]
              /\ \A x \in Cells \ Sectors(job.call.slot) : flash[x] = before[x]
    PROVE  Inductive'
<1> DEFINE s == job'.stage
<1>1. KindsOK /\ ResultsOK /\ job.call \in Call /\ job.call.slot \in Slots
  BY DEF Inductive, Job, Call
<1>2. Start(job') = IF s = "asset" THEN First[job.call.slot] ELSE SectorStart(job.call.slot)
  BY DEF Start
<1>3. KindsOK'
  BY <1>1 DEF KindsOK
<1>4. LineOK'
  BY DEF LineOK
<1>5. PlaceOK'
  <2>1. End(job') = IF s = "asset" THEN First[job.call.slot] + Size[job.call.slot]
                    ELSE SectorEnd(job.call.slot)
    BY <1>2 DEF End
  <2>2. Start(job') < End(job') /\ Start(job') \in Nat
    BY <1>1, <1>2, <2>1, SectorFacts
  <2>3. s # "asset" => (End(job') - Start(job')) % PageCells = 0
    BY <1>1, <1>2, <2>1, SectorFacts
  <2> QED BY <1>2, <2>2, <2>3 DEF PlaceOK
<1>6. KindOfJob'
  BY DEF KindOfJob
<1>7. ContentsOK'
  <2>1. job'.at \in Nat /\ \A x : x \notin Start(job') .. job'.at - 1
    BY DEF Job
  <2> QED BY <2>1 DEF ContentsOK
<1>8. ResultsOK'
  BY <1>1, BusyStages DEF ResultsOK
<1> QED BY <1>3, <1>4, <1>5, <1>6, <1>7, <1>8 DEF Inductive

\* The end of a transfer, with a result that is true.
LEMMA FinishPreserves ==
    ASSUME Inductive, job \in Job, todo = <<>>, todo' = todo,
           NEW r \in Results, Finish(r),
           UNCHANGED <<queue, flash, before, report, backup>>,
           input' \in Seq(Nat), copy' \in [Cells -> Nat],
           job.call.op = "read" =>
              /\ flash = before /\ r \in ReadResults
              /\ r = "Ok" => \A x \in Bitmap(job.call.slot) : copy'[x] = flash[x],
           job.call.op = "write" =>
              /\ r = "Ok" => flash = Patched(before, job.call)
              /\ r \in Untouched => flash = before
    PROVE  Inductive'
<1>1. KindsOK /\ ResultsOK /\ job.call \in Call /\ job.call.op \in {"read", "write"}
  BY DEF Inductive, Job, Call
<1>2. job' \in Job /\ job'.stage = "resume" /\ job'.result = r /\ job'.call = job.call
  BY DEF Finish, Job, Stages
<1>3. KindsOK'
  BY <1>1, <1>2 DEF KindsOK
<1>4. LineOK' /\ PlaceOK' /\ KindOfJob' /\ ContentsOK'
  BY <1>2 DEF LineOK, PlaceOK, KindOfJob, ContentsOK, OnLine, Reading
<1>5. Truth(job.call, r)'
  BY <1>1, <1>2 DEF Truth, Patched
<1>6. ResultsOK'
  BY <1>1, <1>2, <1>5, BusyStages DEF ResultsOK, Truth, Patched
<1> QED BY <1>3, <1>4, <1>6 DEF Inductive

\* A failure: nothing was changed yet, or it is undone, or it is admitted.
LEMMA FailPreserves ==
    ASSUME Inductive, OnLine, todo = <<>>, todo' = todo, Fail,
           UNCHANGED <<queue, flash, before, report, backup>>,
           input' \in Seq(Nat), copy' \in [Cells -> Nat]
    PROVE  Inductive'
<1>1. KindsOK /\ PlaceOK /\ KindOfJob /\ ContentsOK
  BY DEF Inductive
<1>2. job \in Job /\ job.call.op \in {"read", "write"} /\ backup' \in [Cells -> Nat]
  BY <1>1, RangeFacts DEF Call, KindsOK
<1>3. CASE job.stage \in {"asset", "backup"}
  <2>1. /\ Finish("Transport") /\ flash = before
        /\ "Transport" \in Results /\ "Transport" \in ReadResults
    BY <1>1, <1>3 DEF Fail, ContentsOK, Results, ReadResults
  <2> QED BY <1>2, <2>1, FinishPreserves
<1>4. CASE job.stage \notin {"asset", "backup"} /\ job.undoing
  <2>1. Finish("RollbackFailed") /\ "RollbackFailed" \in Results
        /\ "RollbackFailed" \notin Untouched /\ job.call.op = "write"
    BY <1>1, <1>4 DEF Fail, Results, Untouched, OnLine, Reading, KindOfJob
  <2> QED BY <1>2, <2>1, FinishPreserves
<1>5. CASE job.stage \notin {"asset", "backup"} /\ ~job.undoing
  <2>1. To("erase", TRUE) /\ job.stage \in {"erase", "program", "check"}
    BY <1>5 DEF Fail, OnLine, Reading
  <2>2. /\ job.call.op = "write" /\ backup' = backup
        /\ \A x \in Sectors(job.call.slot) : backup[x] = before[x]
        /\ \A x \in Cells \ Sectors(job.call.slot) : flash[x] = before[x]
    BY <1>1, <2>1 DEF KindOfJob, ContentsOK
  <2>3. \A x \in Sectors(job.call.slot) : backup'[x] = before[x]
    BY <2>2
  <2>4. /\ job' \in Job /\ job'.stage = "erase" /\ job'.call = job.call
        /\ job'.at = Start(job') /\ ~job'.sent
    BY <1>1, <1>2, <2>1, ToEffect
  <2> QED BY <1>2, <2>2, <2>3, <2>4, StartPreserves
<1> QED BY <1>3, <1>4, <1>5

\* The next page of a range.
LEMMA NextPagePreserves ==
    ASSUME Inductive, OnLine, ~LastPage, job.stage # "erase", todo = <<>>, todo' = todo,
           NextPage, UNCHANGED <<queue, flash, before, report, backup>>,
           input' \in Seq(Nat), copy' \in [Cells -> Nat],
           Reading => \A x \in Start(job) .. job.at + PageLen - 1 : copy'[x] = flash[x]
    PROVE  Inductive'
<1>1. KindsOK /\ PlaceOK /\ KindOfJob /\ ContentsOK /\ ResultsOK
  BY DEF Inductive
<1>2. /\ job \in Job /\ job.call \in Call /\ job.at \in Nat /\ PageCells \in Nat \ {0}
      /\ Start(job) \in Nat /\ End(job) \in Nat /\ PageLen = PageCells
      /\ Start(job) <= job.at /\ job.at + PageCells < End(job)
  BY <1>1, RangeFacts DEF LastPage
<1>3. /\ job' = [job EXCEPT !.at = job.at + PageCells, !.attempt = 1, !.sent = FALSE]
      /\ 1 \in 1..MaxAttempts
  BY SizesAssumption DEF NextPage
<1>4. /\ job' \in Job /\ job'.stage = job.stage /\ job'.call = job.call
      /\ job'.undoing = job.undoing /\ job'.at = job.at + PageCells /\ ~job'.sent
  <2>1. job.at + PageCells \in Nat
    BY <1>2
  <2>2. job' = [call |-> job.call, stage |-> job.stage, undoing |-> job.undoing,
                at |-> job.at + PageCells, attempt |-> 1, sent |-> FALSE,
                result |-> job.result]
    BY <1>2, <1>3 DEF Job
  <2> QED BY <1>2, <1>3, <2>1, <2>2 DEF Job
<1>5. Start(job') = Start(job) /\ End(job') = End(job)
  BY <1>4 DEF Start, End
<1>6. KindsOK'
  BY <1>1, <1>4 DEF KindsOK
<1>7. LineOK' /\ KindOfJob'
  BY <1>1, <1>4 DEF LineOK, KindOfJob
<1>8. PlaceOK'
  <2>1. Start(job') <= job'.at /\ job'.at < End(job')
    BY <1>2, <1>4, <1>5
  <2>2. ASSUME job'.stage = "program"
        PROVE  (End(job') - job'.at) % PageCells = 0
    <3> DEFINE n == End(job) - job.at
    <3>1. n % PageCells = 0
      BY <1>1, <1>4, <2>2 DEF PlaceOK
    <3>4. n \in Nat /\ n > PageCells
      BY <1>2
    <3> HIDE DEF n
    <3>2. (n - PageCells) % PageCells = 0
      BY <1>2, <3>1, <3>4, OnePageLess
    <3> USE DEF n
    <3>3. End(job') - job'.at = n - PageCells
      BY <1>2, <1>4, <1>5
    <3> QED BY <3>2, <3>3
  <2> QED BY <1>4, <2>1, <2>2 DEF PlaceOK
<1>9. ContentsOK'
  <2>1. job'.stage \in {"pause", "asset", "backup"} => flash' = before'
    BY <1>1, <1>4 DEF ContentsOK
  <2>2. Reading' => \A x \in Start(job') .. job'.at - 1 : copy'[x] = flash'[x]
    BY <1>2, <1>4, <1>5 DEF Reading
  <2>3. job'.stage \in {"erase", "program", "check"} =>
          /\ \A x \in Sectors(job'.call.slot) : backup'[x] = before'[x]
          /\ \A x \in Cells \ Sectors(job'.call.slot) : flash'[x] = before'[x]
    BY <1>1, <1>4 DEF ContentsOK
  <2> QED BY <2>1, <2>2, <2>3 DEF ContentsOK, Sectors, SectorStart, SectorEnd
<1>10. ResultsOK'
  <2>1. report = NoReport /\ job'.stage # "resume"
    BY <1>1, <1>2, <1>4, BusyStages DEF ResultsOK, OnLine, Reading
  <2> QED BY <2>1 DEF ResultsOK
<1> QED BY <1>6, <1>7, <1>8, <1>9, <1>10 DEF Inductive

\* A page that has arrived is the page of the flash.
LEMMA FillFacts ==
    ASSUME Inductive, Reading, job.sent, Len(input) >= Awaited, Fill
    PROVE  /\ copy' \in [Cells -> Nat]
           /\ \A x \in Start(job) .. job.at + PageLen - 1 : copy'[x] = flash[x]
<1>1. KindsOK /\ LineOK /\ PlaceOK /\ ContentsOK /\ OnLine /\ Awaited = PageLen
  BY DEF Inductive, OnLine, Awaited
<1>2. /\ job.at \in Nat /\ Start(job) \in Nat /\ End(job) \in Nat /\ PageLen \in Nat
      /\ Start(job) <= job.at /\ job.at + PageLen <= NumCells /\ NumCells \in Nat
  BY <1>1, RangeFacts
<1>3. Len(input) = PageLen /\ input \in Seq(Nat)
  BY <1>1, <1>2 DEF LineOK, KindsOK
<1>4. ASSUME NEW x \in job.at .. job.at + PageLen - 1
      PROVE  x \in Cells /\ copy'[x] = flash[x] /\ copy'[x] \in Nat
  <2>1. x - job.at + 1 \in 1..Len(input) /\ x \in Cells
    BY <1>2, <1>3 DEF Cells
  <2>2. copy'[x] = input[x - job.at + 1] /\ input[x - job.at + 1] \in Nat
    BY <1>3, <2>1 DEF Fill
  <2>3. input[x - job.at + 1] = flash[job.at + (x - job.at + 1) - 1]
    BY <1>1, <1>3, <2>1 DEF LineOK
  <2>4. job.at + (x - job.at + 1) - 1 = x
    BY <1>2
  <2> QED BY <2>1, <2>2, <2>3, <2>4
<1>5. copy' \in [Cells -> Nat]
  <2>1. copy \in [Cells -> Nat]
    BY <1>1 DEF KindsOK
  <2> DEFINE new(x) == IF x \in job.at .. job.at + PageLen - 1
                       THEN input[x - job.at + 1] ELSE copy[x]
  <2>2. copy' = [x \in Cells |-> new(x)]
    BY DEF Fill
  <2>3. ASSUME NEW x \in Cells PROVE new(x) \in Nat
    <3>1. CASE x \in job.at .. job.at + PageLen - 1
      <4>1. copy'[x] = new(x)
        BY <2>2
      <4> QED BY <1>4, <3>1, <4>1
    <3>2. CASE x \notin job.at .. job.at + PageLen - 1
      BY <2>1, <3>2
    <3> QED BY <3>1, <3>2
  <2> HIDE DEF new
  <2> QED BY <2>2, <2>3
<1>6. ASSUME NEW x \in Start(job) .. job.at - 1
      PROVE  copy'[x] = flash[x]
  <2>1. x \in Cells /\ x \notin job.at .. job.at + PageLen - 1
    BY <1>2 DEF Cells
  <2>2. copy'[x] = copy[x]
    BY <2>1 DEF Fill
  <2>3. copy[x] = flash[x]
    BY <1>1 DEF ContentsOK
  <2> QED BY <2>2, <2>3
<1>7. ASSUME NEW x \in Start(job) .. job.at + PageLen - 1
      PROVE  x \in Start(job) .. job.at - 1 \/ x \in job.at .. job.at + PageLen - 1
  BY <1>2
<1> QED BY <1>4, <1>5, <1>6, <1>7

\* An answer that has arrived is the only thing on the line.
LEMMA ArrivesFacts ==
    ASSUME Inductive, NEW s \in {"asset", "backup", "erase", "program", "check"}, Arrives(s)
    PROVE  /\ OnLine /\ job.sent /\ job \in Job /\ job.call \in Call /\ job.call.slot \in Slots
           /\ todo = <<>> /\ todo' = todo /\ input' \in Seq(Nat) /\ Len(input) >= Awaited
           /\ UNCHANGED <<queue, flash, before, report>>
           /\ {backup, copy, flash, before} \subseteq [Cells -> Nat]
<1>1. KindsOK /\ LineOK /\ PlaceOK /\ OnLine /\ job.sent /\ Len(input) >= Awaited
  BY DEF Inductive, Arrives, OnLine, Reading
<1>2. job \in Job /\ job.call \in Call /\ job.call.slot \in Slots /\ PageLen \in Nat /\ 0 < PageLen
  BY <1>1, RangeFacts
<1>3. Awaited \in Nat /\ 0 < Awaited
  BY <1>2 DEF Awaited
<1>4. input \in Seq(Nat) /\ input # <<>>
  BY <1>1, <1>3 DEF KindsOK
<1>5. todo = <<>>
  BY <1>1, <1>4 DEF LineOK
<1>6. input' \in Seq(Nat)
  <2>1. Awaited + 1 >= 1 /\ Len(input) \in Nat /\ input' = SubSeq(input, Awaited + 1, Len(input))
    BY <1>3, <1>4 DEF Arrives
  <2> QED BY <1>3, <1>4, <2>1, SMTT(30)
<1>7. {backup, copy, flash, before} \subseteq [Cells -> Nat]
  BY <1>1 DEF KindsOK
<1>8. todo' = todo /\ UNCHANGED <<queue, flash, before, report>>
  BY DEF Arrives, history
<1> QED BY <1>1, <1>2, <1>5, <1>6, <1>7, <1>8

--------------------------------------------------------------------------------
\* The steps of the transaction.

\* A request goes out on an empty line.
LEMMA SendPreserves ==
    ASSUME Inductive, Send
    PROVE  Inductive'
<1>1. /\ KindsOK /\ LineOK /\ PlaceOK /\ KindOfJob /\ ContentsOK /\ ResultsOK
      /\ OnLine /\ plugged /\ ~job.sent
  BY DEF Inductive, Send
<1>2. job \in Job /\ todo = <<>> /\ todo' = Append(todo, RequestNow) /\ input' = <<>>
  BY <1>1, RangeFacts DEF LineOK, Send
<1>3. UNCHANGED <<queue, plugged, backup, copy, flash, before, report>>
  BY DEF Send, history
<1>4. /\ job' \in Job /\ job'.stage = job.stage /\ job'.call = job.call /\ job'.sent
      /\ job'.undoing = job.undoing /\ job'.at = job.at /\ job'.result = job.result
  BY <1>2 DEF Send, Job
<1>5. Start(job') = Start(job) /\ End(job') = End(job) /\ PageLen' = PageLen
  BY <1>4 DEF Start, End, PageLen
<1>6. Reading' = Reading /\ OnLine' = OnLine
  BY <1>4 DEF Reading, OnLine
<1>7. RequestNow' = RequestNow
  <2>1. Wanted' = Wanted
    BY <1>3, <1>4 DEF Wanted, Patched
  <2> QED BY <1>4, <1>5, <1>6, <2>1 DEF RequestNow, Piece
<1>8. KindsOK'
  BY <1>1, <1>2, <1>3, <1>4 DEF KindsOK
<1>9. LineOK'
  <2>1. todo' = <<RequestNow>>'
    BY <1>2, <1>7
  <2>2. PageLen' \in Nat
    BY <1>1, <1>5, RangeFacts
  <2> QED BY <1>1, <1>2, <1>3, <1>4, <1>6, <2>1, <2>2 DEF LineOK
<1>10. PlaceOK' /\ KindOfJob'
  BY <1>1, <1>4, <1>5, <1>6 DEF PlaceOK, KindOfJob
<1>11. ContentsOK'
  BY <1>1, <1>3, <1>4, <1>5, <1>6 DEF ContentsOK, Sectors, SectorStart, SectorEnd
<1>12. ResultsOK'
  BY <1>1, <1>2, <1>3, <1>4, BusyStages DEF ResultsOK, Truth, Patched, OnLine, Reading
<1> QED BY <1>8, <1>9, <1>10, <1>11, <1>12 DEF Inductive

LEMMA SendFailsPreserves ==
    ASSUME Inductive, SendFails
    PROVE  Inductive'
<1>1. todo = <<>> /\ OnLine /\ Fail
  BY DEF Inductive, LineOK, SendFails
<1>2. UNCHANGED <<queue, flash, before, report, backup>> /\ todo' = todo
      /\ input' = input /\ copy' = copy
  BY DEF SendFails, device, history
<1>3. input' \in Seq(Nat) /\ copy' \in [Cells -> Nat]
  BY <1>2 DEF Inductive, KindsOK
<1> QED BY <1>1, <1>2, <1>3, FailPreserves

\* The device is gone, and what it was asked for with it.
LEMMA LosePreserves ==
    ASSUME Inductive, Lose
    PROVE  Inductive'
<1>1. /\ KindsOK /\ PlaceOK /\ KindOfJob /\ ContentsOK /\ OnLine /\ todo = <<>>
      /\ UNCHANGED <<queue, flash, before, report, backup>> /\ todo' = todo
      /\ input' \in Seq(Nat) /\ copy' \in [Cells -> Nat]
  BY DEF Inductive, LineOK, KindsOK, Lose, device, history
<1>2. job \in Job
  BY <1>1, RangeFacts
<1>3. CASE job.stage \in {"asset", "backup"}
  <2>1. /\ Finish("ConnectionLost") /\ flash = before
        /\ "ConnectionLost" \in Results /\ "ConnectionLost" \in ReadResults
    BY <1>1, <1>3 DEF Lose, ContentsOK, Results, ReadResults
  <2> QED BY <1>1, <1>2, <2>1, FinishPreserves
<1>4. CASE job.stage \notin {"asset", "backup"}
  <2>1. /\ Finish("OperationOutcomeUnknown") /\ "OperationOutcomeUnknown" \in Results
        /\ "OperationOutcomeUnknown" \notin Untouched /\ job.call.op = "write"
    BY <1>1, <1>4 DEF Lose, Results, Untouched, OnLine, Reading, KindOfJob
  <2> QED BY <1>1, <1>2, <2>1, FinishPreserves
<1> QED BY <1>3, <1>4

\* An answer that is not late has come by its timeout or never comes.
LEMMA TimeOutPreserves ==
    ASSUME ~LateAnswers, Inductive, TimeOut
    PROVE  Inductive'
<1>1. /\ KindsOK /\ LineOK /\ PlaceOK /\ KindOfJob /\ ContentsOK /\ ResultsOK
      /\ OnLine /\ todo = <<>> /\ todo' = todo
      /\ UNCHANGED <<queue, plugged, flash, before, report, backup, copy, input>>
  BY DEF Inductive, TimeOut, device, history
<1>2. input' \in Seq(Nat) /\ copy' \in [Cells -> Nat] /\ job \in Job
  BY <1>1, RangeFacts DEF KindsOK
<1>3. CASE Reading /\ job.attempt < MaxAttempts
  <2>1. job' = [job EXCEPT !.sent = FALSE, !.attempt = @ + 1]
    BY <1>3 DEF TimeOut
  <2>2. /\ job' \in Job /\ job'.stage = job.stage /\ job'.call = job.call /\ ~job'.sent
        /\ job'.undoing = job.undoing /\ job'.at = job.at
    <3>1. job.attempt + 1 \in 1..MaxAttempts
      BY <1>2, <1>3, SizesAssumption DEF Job
    <3> QED BY <1>2, <2>1, <3>1 DEF Job
  <2>3. Start(job') = Start(job) /\ End(job') = End(job)
    BY <2>2 DEF Start, End
  <2>4. Reading' = Reading /\ OnLine' = OnLine
    BY <2>2 DEF Reading, OnLine
  <2>5. KindsOK' /\ LineOK'
    BY <1>1, <2>2 DEF KindsOK, LineOK
  <2>6. PlaceOK' /\ KindOfJob'
    BY <1>1, <2>2, <2>3, <2>4 DEF PlaceOK, KindOfJob
  <2>7. ContentsOK'
    BY <1>1, <2>2, <2>3, <2>4 DEF ContentsOK, Sectors, SectorStart, SectorEnd
  <2>8. ResultsOK'
    BY <1>1, <1>2, <1>3, <2>2, BusyStages DEF ResultsOK, Truth, Patched, Reading
  <2> QED BY <2>5, <2>6, <2>7, <2>8 DEF Inductive
<1>4. CASE ~(Reading /\ job.attempt < MaxAttempts)
  <2>1. Fail
    BY <1>4 DEF TimeOut
  <2>2. UNCHANGED <<queue, flash, before, report, backup>>
    BY <1>1
  <2> QED BY <1>1, <1>2, <2>1, <2>2, FailPreserves
<1> QED BY <1>3, <1>4

LEMMA ReadAssetPreserves ==
    ASSUME Inductive, ReadAsset
    PROVE  Inductive'
<1>1. /\ OnLine /\ job.sent /\ job \in Job /\ job.call \in Call /\ job.call.slot \in Slots
      /\ todo = <<>> /\ todo' = todo /\ input' \in Seq(Nat) /\ Len(input) >= Awaited
      /\ UNCHANGED <<queue, flash, before, report>>
  BY ArrivesFacts DEF ReadAsset
<1>2. /\ job.stage = "asset" /\ Reading /\ Fill /\ backup' = backup
      /\ KindsOK /\ PlaceOK /\ KindOfJob /\ ContentsOK
  BY DEF ReadAsset, Arrives, Reading, Inductive
<1>3. /\ copy' \in [Cells -> Nat]
      /\ \A x \in Start(job) .. job.at + PageLen - 1 : copy'[x] = flash[x]
  BY <1>1, <1>2, FillFacts
<1>4. UNCHANGED <<queue, flash, before, report, backup>>
  BY <1>1, <1>2
<1>5. CASE LastPage
  <2>1. /\ Finish("Ok") /\ "Ok" \in Results /\ "Ok" \in ReadResults
        /\ job.call.op = "read" /\ flash = before
    BY <1>2, <1>5 DEF ReadAsset, Results, KindOfJob, ContentsOK, ReadResults
  <2>2. \A x \in Bitmap(job.call.slot) : copy'[x] = flash[x]
    <3>1. /\ job.at + PageLen = First[job.call.slot] + Size[job.call.slot]
          /\ Start(job) = First[job.call.slot]
          /\ job.at \in Nat /\ PageLen \in Nat /\ Start(job) \in Nat
          /\ Size[job.call.slot] \in Nat
      BY <1>1, <1>2, <1>5, RangeFacts, SectorFacts DEF Start, End
    <3>2. Start(job) .. job.at + PageLen - 1 = Bitmap(job.call.slot)
      BY <3>1 DEF Bitmap
    <3> QED BY <1>3, <3>2
  <2> QED BY <1>1, <1>3, <1>4, <2>1, <2>2, FinishPreserves
<1>6. CASE ~LastPage
  <2>1. NextPage /\ job.stage # "erase"
    BY <1>2, <1>6 DEF ReadAsset
  <2> QED BY <1>1, <1>3, <1>4, <1>6, <2>1, NextPagePreserves
<1> QED BY <1>5, <1>6

\* The sectors are saved as they were.
LEMMA ReadBackupPreserves ==
    ASSUME Inductive, ReadBackup
    PROVE  Inductive'
<1>1. /\ OnLine /\ job.sent /\ job \in Job /\ job.call \in Call /\ job.call.slot \in Slots
      /\ todo = <<>> /\ todo' = todo /\ input' \in Seq(Nat) /\ Len(input) >= Awaited
      /\ UNCHANGED <<queue, flash, before, report>>
  BY ArrivesFacts DEF ReadBackup
<1>2. /\ job.stage = "backup" /\ Reading /\ Fill
      /\ KindsOK /\ PlaceOK /\ KindOfJob /\ ContentsOK
  BY DEF ReadBackup, Arrives, Reading, Inductive
<1>3. /\ copy' \in [Cells -> Nat]
      /\ \A x \in Start(job) .. job.at + PageLen - 1 : copy'[x] = flash[x]
  BY <1>1, <1>2, FillFacts
<1>4. CASE LastPage
  <2>1. To("erase", FALSE) /\ backup' = copy' /\ job.call.op = "write" /\ flash = before
    BY <1>2, <1>4 DEF ReadBackup, KindOfJob, ContentsOK
  <2>2. \A x \in Sectors(job.call.slot) : backup'[x] = before[x]
    <3>1. /\ job.at + PageLen = SectorEnd(job.call.slot)
          /\ Start(job) = SectorStart(job.call.slot)
          /\ job.at \in Nat /\ PageLen \in Nat /\ Start(job) \in Nat
      BY <1>1, <1>2, <1>4, RangeFacts DEF Start, End
    <3>2. Start(job) .. job.at + PageLen - 1 = Sectors(job.call.slot)
      BY <3>1 DEF Sectors
    <3> QED BY <1>3, <2>1, <3>2
  <2>3. /\ job' \in Job /\ job'.stage = "erase" /\ job'.call = job.call
        /\ job'.at = Start(job') /\ ~job'.sent
    BY <1>1, <1>2, <2>1, ToEffect
  <2> QED BY <1>1, <1>3, <2>1, <2>2, <2>3, StartPreserves
<1>5. CASE ~LastPage
  <2>1. NextPage /\ job.stage # "erase" /\ UNCHANGED <<queue, flash, before, report, backup>>
    BY <1>1, <1>2, <1>5 DEF ReadBackup
  <2> QED BY <1>1, <1>3, <1>5, <2>1, NextPagePreserves
<1> QED BY <1>4, <1>5

LEMMA ErasedPreserves ==
    ASSUME Inductive, Erased
    PROVE  Inductive'
<1>1. /\ OnLine /\ job \in Job /\ job.call.slot \in Slots
      /\ todo = <<>> /\ todo' = todo /\ input' \in Seq(Nat)
      /\ UNCHANGED <<queue, flash, before, report>>
  BY ArrivesFacts DEF Erased
<1>2. /\ job.stage = "erase" /\ KindsOK /\ KindOfJob /\ ContentsOK
      /\ UNCHANGED <<backup, copy>> /\ backup' \in [Cells -> Nat] /\ copy' \in [Cells -> Nat]
  BY DEF Erased, Arrives, Inductive, KindsOK
<1>3. CASE input[1] = Ack
  <2>1. To("program", job.undoing) /\ job.undoing \in BOOLEAN /\ job.call.op = "write"
    BY <1>1, <1>2, <1>3 DEF Erased, Job, KindOfJob
  <2>2. /\ \A x \in Sectors(job.call.slot) : backup'[x] = before[x]
        /\ \A x \in Cells \ Sectors(job.call.slot) : flash[x] = before[x]
    BY <1>2 DEF ContentsOK
  <2>3. /\ job' \in Job /\ job'.stage = "program" /\ job'.call = job.call
        /\ job'.at = Start(job') /\ ~job'.sent
    BY <1>1, <1>2, <2>1, ToEffect
  <2> QED BY <1>1, <1>2, <2>1, <2>2, <2>3, StartPreserves
<1>4. CASE input[1] # Ack
  <2>1. Fail /\ UNCHANGED <<queue, flash, before, report, backup>>
    BY <1>1, <1>2, <1>4 DEF Erased
  <2> QED BY <1>1, <1>2, <2>1, FailPreserves
<1> QED BY <1>3, <1>4

LEMMA ProgrammedPreserves ==
    ASSUME Inductive, Programmed
    PROVE  Inductive'
<1>1. /\ OnLine /\ job \in Job /\ job.call.slot \in Slots
      /\ todo = <<>> /\ todo' = todo /\ input' \in Seq(Nat)
      /\ UNCHANGED <<queue, flash, before, report>>
  BY ArrivesFacts DEF Programmed
<1>2. /\ job.stage = "program" /\ ~Reading /\ KindsOK /\ KindOfJob /\ ContentsOK
      /\ UNCHANGED <<backup, copy>> /\ backup' \in [Cells -> Nat] /\ copy' \in [Cells -> Nat]
  BY DEF Programmed, Arrives, Inductive, KindsOK, Reading
<1>3. UNCHANGED <<queue, flash, before, report, backup>>
  BY <1>1, <1>2
<1>4. CASE input[1] # Ack
  <2>1. Fail
    BY <1>4 DEF Programmed
  <2> QED BY <1>1, <1>2, <1>3, <2>1, FailPreserves
<1>5. CASE input[1] = Ack /\ LastPage
  <2>1. To("check", job.undoing) /\ job.undoing \in BOOLEAN /\ job.call.op = "write"
    BY <1>1, <1>2, <1>5 DEF Programmed, Job, KindOfJob
  <2>2. /\ \A x \in Sectors(job.call.slot) : backup'[x] = before[x]
        /\ \A x \in Cells \ Sectors(job.call.slot) : flash[x] = before[x]
    BY <1>2 DEF ContentsOK
  <2>3. /\ job' \in Job /\ job'.stage = "check" /\ job'.call = job.call
        /\ job'.at = Start(job') /\ ~job'.sent
    BY <1>1, <1>2, <2>1, ToEffect
  <2> QED BY <1>1, <1>2, <2>1, <2>2, <2>3, StartPreserves
<1>6. CASE input[1] = Ack /\ ~LastPage
  <2>1. NextPage /\ job.stage # "erase"
    BY <1>2, <1>6 DEF Programmed
  <2> QED BY <1>1, <1>2, <1>3, <1>6, <2>1, NextPagePreserves
<1> QED BY <1>4, <1>5, <1>6

\* Sectors that hold what they should make a flash that does.
LEMMA CheckedFlash ==
    ASSUME KindsOK, ContentsOK, job.stage = "check", job \in Job,
           \A x \in Sectors(job.call.slot) : flash[x] = Wanted[x]
    PROVE  flash = IF job.undoing THEN before ELSE Patched(before, job.call)
<1>1. /\ \A x \in Sectors(job.call.slot) : backup[x] = before[x]
      /\ \A x \in Cells \ Sectors(job.call.slot) : flash[x] = before[x]
      /\ flash \in [Cells -> Nat] /\ before \in [Cells -> Nat]
  BY DEF ContentsOK, KindsOK
<1>2. job.call.slot \in Slots
  BY DEF Job, Call
<1>3. Bitmap(job.call.slot) \subseteq Sectors(job.call.slot)
      /\ Sectors(job.call.slot) \subseteq Cells
  BY <1>2, SectorFacts
<1>4. CASE job.undoing
  <2>1. \A x \in Cells : flash[x] = before[x]
    BY <1>1, <1>4 DEF Wanted
  <2> QED BY <1>1, <1>4, <2>1
<1>5. CASE ~job.undoing
  <2>1. ASSUME NEW x \in Cells
        PROVE  flash[x] = IF x \in Bitmap(job.call.slot) THEN Pixel(job.call.n, x) ELSE before[x]
    <3>1. CASE x \in Sectors(job.call.slot)
      BY <1>1, <1>5, <3>1 DEF Wanted, Patched
    <3>2. CASE x \notin Sectors(job.call.slot)
      BY <1>1, <1>3, <3>2
    <3> QED BY <3>1, <3>2
  <2>2. flash = [x \in Cells |-> flash[x]]
    BY <1>1
  <2> QED BY <1>5, <2>1, <2>2 DEF Patched
<1> QED BY <1>4, <1>5

LEMMA ReadBackPreserves ==
    ASSUME Inductive, ReadBack
    PROVE  Inductive'
<1>1. /\ OnLine /\ job.sent /\ job \in Job /\ job.call \in Call /\ job.call.slot \in Slots
      /\ todo = <<>> /\ todo' = todo /\ input' \in Seq(Nat) /\ Len(input) >= Awaited
      /\ UNCHANGED <<queue, flash, before, report>>
  BY ArrivesFacts DEF ReadBack
<1>2. /\ job.stage = "check" /\ Reading /\ Fill /\ backup' = backup
      /\ KindsOK /\ PlaceOK /\ KindOfJob /\ ContentsOK
  BY DEF ReadBack, Arrives, Reading, Inductive
<1>3. /\ copy' \in [Cells -> Nat]
      /\ \A x \in Start(job) .. job.at + PageLen - 1 : copy'[x] = flash[x]
  BY <1>1, <1>2, FillFacts
<1>4. UNCHANGED <<queue, flash, before, report, backup>>
  BY <1>1, <1>2
<1>5. CASE ~LastPage
  <2>1. NextPage /\ job.stage # "erase"
    BY <1>2, <1>5 DEF ReadBack
  <2> QED BY <1>1, <1>3, <1>4, <1>5, <2>1, NextPagePreserves
<1>6. CASE LastPage /\ \A x \in Sectors(job.call.slot) : copy'[x] = Wanted[x]
  <2>1. \A x \in Sectors(job.call.slot) : copy'[x] = flash[x]
    <3>1. /\ job.at + PageLen = SectorEnd(job.call.slot)
          /\ Start(job) = SectorStart(job.call.slot)
          /\ job.at \in Nat /\ PageLen \in Nat /\ Start(job) \in Nat
      BY <1>1, <1>2, <1>6, RangeFacts DEF Start, End
    <3>2. Start(job) .. job.at + PageLen - 1 = Sectors(job.call.slot)
      BY <3>1 DEF Sectors
    <3> QED BY <1>3, <3>2
  <2>2. flash = IF job.undoing THEN before ELSE Patched(before, job.call)
    BY <1>1, <1>2, <1>6, <2>1, CheckedFlash
  <2>3. job.call.op = "write"
    BY <1>2 DEF KindOfJob
  <2>4. CASE job.undoing
    <3>1. Finish("FailedAndRolledBack") /\ "FailedAndRolledBack" \in Results
      BY <1>6, <2>4 DEF ReadBack, Results
    <3> QED BY <1>1, <1>3, <1>4, <2>2, <2>3, <2>4, <3>1, FinishPreserves
  <2>5. CASE ~job.undoing
    <3>1. Finish("Ok") /\ "Ok" \in Results /\ "Ok" \notin Untouched
      BY <1>6, <2>5 DEF ReadBack, Results, Untouched
    <3> QED BY <1>1, <1>3, <1>4, <2>2, <2>3, <2>5, <3>1, FinishPreserves
  <2> QED BY <2>4, <2>5
<1>7. CASE LastPage /\ ~\A x \in Sectors(job.call.slot) : copy'[x] = Wanted[x]
  <2>1. Fail
    BY <1>7 DEF ReadBack
  <2> QED BY <1>1, <1>3, <1>4, <2>1, FailPreserves
<1> QED BY <1>5, <1>6, <1>7

--------------------------------------------------------------------------------
\* The steps of the device.

\* What the device is asked for is the present request.
LEMMA ServeFacts ==
    ASSUME Inductive, todo # <<>>
    PROVE  /\ KindsOK /\ LineOK /\ PlaceOK /\ KindOfJob /\ ContentsOK /\ ResultsOK
           /\ OnLine /\ job \in Job /\ job.call \in Call /\ job.call.slot \in Slots
           /\ Head(todo) = RequestNow /\ Tail(todo) = <<>> /\ input = <<>> /\ job.sent
           /\ report = NoReport /\ job.stage # "resume" /\ job # Idle
<1>1. /\ KindsOK /\ LineOK /\ PlaceOK /\ KindOfJob /\ ContentsOK /\ ResultsOK
      /\ OnLine /\ todo = <<RequestNow>> /\ input = <<>> /\ job.sent
  BY DEF Inductive, LineOK
<1>2. job \in Job /\ job.call \in Call /\ job.call.slot \in Slots
  BY <1>1, RangeFacts
<1>3. report = NoReport /\ job.stage # "resume" /\ job # Idle
  BY <1>1, <1>2, BusyStages DEF ResultsOK, OnLine, Reading
<1> QED BY <1>1, <1>2, <1>3

LEMMA StatusKind == \A s \in Statuses : s \in Seq(Nat)
<1>1. \A a \in Nat : <<a>> \in Seq(Nat)
  OBVIOUS
<1>2. <<>> \in Seq(Nat) /\ 1 \in Nat /\ 0 \in Nat
  OBVIOUS
<1> QED BY <1>1, <1>2, Zenon DEF Statuses, Ack, Nak

\* A change of the flash inside the sectors of the job, while they are saved.
LEMMA ChangePreserves ==
    ASSUME Inductive, todo # <<>>, job.stage \in {"erase", "program"},
           UNCHANGED <<queue, ready, job, backup, copy, before, report>>,
           todo' = <<>>, input' \in Seq(Nat), flash' \in [Cells -> Nat],
           \A x \in Cells \ Sectors(job.call.slot) : flash'[x] = flash[x]
    PROVE  Inductive'
<1>1. /\ KindsOK /\ LineOK /\ PlaceOK /\ KindOfJob /\ ContentsOK /\ ResultsOK
      /\ report = NoReport /\ job.stage # "resume" /\ ~Reading
  BY ServeFacts DEF Reading
<1>2. KindsOK'
  BY <1>1 DEF KindsOK
<1>3. LineOK'
  BY <1>1 DEF LineOK, Reading
<1>4. PlaceOK' /\ KindOfJob'
  BY <1>1 DEF PlaceOK, KindOfJob, Start, End, OnLine, Reading
<1>5. ContentsOK'
  BY <1>1 DEF ContentsOK, Reading, Sectors, SectorStart, SectorEnd
<1>6. ResultsOK'
  BY <1>1 DEF ResultsOK
<1> QED BY <1>2, <1>3, <1>4, <1>5, <1>6 DEF Inductive

\* The device answers with the beginning of the page.
LEMMA ServeReadPreserves ==
    ASSUME Inductive, ServeRead
    PROVE  Inductive'
<1>1. PICK n \in 0..PageCells :
         /\ todo # <<>> /\ n <= Head(todo).len
         /\ Serve("read", n = Head(todo).len, Piece(flash, Head(todo).at, n))
  BY DEF ServeRead
<1>2. /\ KindsOK /\ LineOK /\ PlaceOK /\ KindOfJob /\ ContentsOK /\ ResultsOK
      /\ OnLine /\ job \in Job /\ Head(todo) = RequestNow /\ Tail(todo) = <<>> /\ input = <<>>
      /\ report = NoReport /\ job.stage # "resume"
  BY <1>1, ServeFacts
<1>3. Reading /\ Head(todo).at = job.at /\ Head(todo).len = PageLen
  BY <1>1, <1>2 DEF Serve, RequestNow, OnLine
<1>4. /\ UNCHANGED <<queue, ready, job, backup, copy, flash, before, report, plugged>>
      /\ todo' = <<>> /\ input' = <<>> \o Piece(flash, job.at, n)
  BY <1>1, <1>2, <1>3 DEF Serve, ServeRead, manager, history
<1>5. n \in Nat /\ n <= PageLen /\ PageLen \in Nat /\ job.at \in Nat
      /\ job.at + PageLen <= NumCells /\ NumCells \in Nat
  BY <1>1, <1>2, <1>3, RangeFacts
<1>6. \A i \in 1..n : flash[job.at + i - 1] \in Nat
  <2>1. \A i \in 1..n : job.at + i - 1 \in Cells
    BY <1>5 DEF Cells
  <2> QED BY <1>2, <2>1 DEF KindsOK
<1>7. /\ input' \in Seq(Nat) /\ Len(input') = n
      /\ \A i \in 1..n : input'[i] = flash[job.at + i - 1]
  <2>1. Piece(flash, job.at, n) \in [1..n -> Nat]
    BY <1>6 DEF Piece
  <2>2. Piece(flash, job.at, n) \in Seq(Nat) /\ Len(Piece(flash, job.at, n)) = n
    BY <1>5, <2>1
  <2>3. input' = Piece(flash, job.at, n)
    BY <1>4, <2>2
  <2> QED BY <2>2, <2>3 DEF Piece
<1>8. KindsOK'
  BY <1>2, <1>4, <1>7 DEF KindsOK
<1>9. LineOK'
  <2>1. PageLen' = PageLen /\ DOMAIN input' = 1..n
    BY <1>4, <1>7 DEF PageLen, End
  <2> QED BY <1>4, <1>5, <1>7, <2>1 DEF LineOK
<1>10. PlaceOK' /\ KindOfJob'
  BY <1>2, <1>4 DEF PlaceOK, KindOfJob, Start, End, OnLine, Reading
<1>11. ContentsOK'
  BY <1>2, <1>4 DEF ContentsOK, Start, Reading, Sectors, SectorStart, SectorEnd
<1>12. ResultsOK'
  BY <1>2, <1>4 DEF ResultsOK
<1> QED BY <1>8, <1>9, <1>10, <1>11, <1>12 DEF Inductive

LEMMA ServeEraseEffect ==
    ASSUME Inductive, ServeErase
    PROVE  /\ todo # <<>> /\ job.stage = "erase"
           /\ UNCHANGED <<queue, ready, job, backup, copy, before, report>>
           /\ todo' = <<>> /\ input' \in Seq(Nat) /\ flash' \in [Cells -> Nat]
           /\ \A x \in Cells \ Sectors(job.call.slot) : flash'[x] = flash[x]
<1>1. PICK n \in {k * SectorCells : k \in 0 .. NumCells \div SectorCells}, s \in Statuses :
        /\ todo # <<>> /\ n <= Head(todo).len
        /\ Serve("erase", n = Head(todo).len /\ s = <<Ack>>, s)
        /\ flash' = [x \in Cells |-> IF x \in Within(Head(todo), n) THEN Blank ELSE flash[x]]
  BY DEF ServeErase
<1>2. /\ KindsOK /\ PlaceOK /\ OnLine /\ job \in Job /\ job.call.slot \in Slots
      /\ Head(todo) = RequestNow /\ Tail(todo) = <<>> /\ input = <<>>
  BY <1>1, ServeFacts
<1>3. /\ job.stage = "erase" /\ Head(todo).at = job.at /\ Head(todo).len = End(job) - job.at
  BY <1>1, <1>2 DEF Serve, RequestNow, OnLine, Reading
<1>4. /\ UNCHANGED <<queue, ready, job, backup, copy, before, report>>
      /\ todo' = <<>> /\ input' \in Seq(Nat)
  <2>1. s \in Seq(Nat) /\ input' = <<>> \o s
    BY <1>1, <1>2, StatusKind DEF Serve
  <2> QED BY <1>1, <1>2, <2>1 DEF Serve, manager, history
<1>5. flash' \in [Cells -> Nat]
  BY <1>1, <1>2 DEF KindsOK, Blank
<1>6. \A x \in Cells \ Sectors(job.call.slot) : flash'[x] = flash[x]
  <2>1. /\ job.at = SectorStart(job.call.slot) /\ End(job) = SectorEnd(job.call.slot)
        /\ job.at \in Nat /\ End(job) \in Nat /\ n \in Nat /\ job.at + n <= End(job)
    <3>1. n \in Nat
      BY <1>1, SizesAssumption, SMTT(30)
    <3> QED BY <1>1, <1>2, <1>3, <3>1, RangeFacts DEF PlaceOK, Start, End
  <2>2. Within(Head(todo), n) \subseteq Sectors(job.call.slot)
    BY <1>3, <2>1 DEF Within, Sectors
  <2> QED BY <1>1, <2>2
<1> QED BY <1>1, <1>3, <1>4, <1>5, <1>6

LEMMA ServeProgramEffect ==
    ASSUME Inductive, ServeProgram
    PROVE  /\ todo # <<>> /\ job.stage = "program"
           /\ UNCHANGED <<queue, ready, job, backup, copy, before, report>>
           /\ todo' = <<>> /\ input' \in Seq(Nat) /\ flash' \in [Cells -> Nat]
           /\ \A x \in Cells \ Sectors(job.call.slot) : flash'[x] = flash[x]
<1> DEFINE m == Head(todo)
           Put(x, took) == LET new == m.data[x - m.at + 1] IN
               IF took = "all" /\ flash[x] \in {Blank, new} THEN new ELSE Garbled
<1>1. PICK took \in {"all", "none", "garbled"}, s \in Statuses :
        /\ Serve("program", took = "all" /\ s = <<Ack>>, s)
        /\ flash' = [x \in Cells |-> IF x \in Within(m, m.len) /\ took # "none"
                                     THEN Put(x, took) ELSE flash[x]]
  BY DEF ServeProgram
<1>2. /\ KindsOK /\ PlaceOK /\ OnLine /\ job \in Job /\ job.call.slot \in Slots
      /\ m = RequestNow /\ Tail(todo) = <<>> /\ input = <<>> /\ todo # <<>>
  BY <1>1, ServeFacts DEF Serve
<1>3. /\ job.stage = "program" /\ m.at = job.at /\ m.len = PageCells
      /\ m.data = Piece(Wanted, job.at, PageCells)
  BY <1>1, <1>2 DEF Serve, RequestNow, OnLine, Reading
<1>4. /\ UNCHANGED <<queue, ready, job, backup, copy, before, report>>
      /\ todo' = <<>> /\ input' \in Seq(Nat)
  <2>1. s \in Seq(Nat) /\ input' = <<>> \o s
    BY <1>1, <1>2, StatusKind DEF Serve
  <2> QED BY <1>1, <1>2, <2>1 DEF Serve, manager, history
<1>5. /\ job.at \in Nat /\ PageCells \in Nat \ {0} /\ End(job) \in Nat
      /\ End(job) = SectorEnd(job.call.slot) /\ End(job) <= NumCells /\ NumCells \in Nat
      /\ SectorStart(job.call.slot) <= job.at /\ job.at + PageCells <= End(job)
      /\ SectorStart(job.call.slot) \in Nat
  <2>1. /\ job.at \in Nat /\ PageCells \in Nat \ {0} /\ End(job) \in Nat
        /\ End(job) = SectorEnd(job.call.slot) /\ End(job) <= NumCells /\ NumCells \in Nat
        /\ SectorStart(job.call.slot) <= job.at /\ job.at < End(job)
        /\ SectorStart(job.call.slot) \in Nat
    BY <1>2, <1>3, RangeFacts, SectorFacts DEF Start, End
  <2> DEFINE n == End(job) - job.at
  <2>2. n \in Nat \ {0} /\ n % PageCells = 0
    BY <1>2, <1>3, <2>1 DEF PlaceOK
  <2> HIDE DEF n
  <2>3. n >= PageCells
    BY <2>1, <2>2, HasAPage
  <2> QED BY <2>1, <2>3 DEF n
<1>6. Within(m, m.len) \subseteq Sectors(job.call.slot)
  BY <1>3, <1>5 DEF Within, Sectors
<1>7. flash' \in [Cells -> Nat]
  <2>1. Wanted \in [Cells -> Nat] /\ flash \in [Cells -> Nat]
    BY <1>2, WantedKind DEF KindsOK
  <2>2. ASSUME NEW x \in Cells, x \in Within(m, m.len)
        PROVE  m.data[x - m.at + 1] = Wanted[x]
    <3> DEFINE i == x - job.at + 1
    <3>1. i \in 1..PageCells /\ job.at + i - 1 = x
      BY <1>3, <1>5, <2>2 DEF Within, Cells
    <3>2. m.data[i] = Wanted[job.at + i - 1]
      <4> HIDE DEF i, m
      <4> QED BY <1>3, <3>1 DEF Piece
    <3> QED BY <1>3, <3>1, <3>2
  <2>3. ASSUME NEW x \in Cells, x \in Within(m, m.len)
        PROVE  Put(x, took) \in Nat
    BY <2>1, <2>2, <2>3 DEF Garbled
  <2> HIDE DEF Put, m
  <2> QED BY <1>1, <2>1, <2>3
<1>8. \A x \in Cells \ Sectors(job.call.slot) : flash'[x] = flash[x]
  BY <1>1, <1>6
<1> QED BY <1>2, <1>3, <1>4, <1>7, <1>8

LEMMA ServeErasePreserves ==
    ASSUME Inductive, ServeErase
    PROVE  Inductive'
BY ServeEraseEffect, ChangePreserves

LEMMA ServeProgramPreserves ==
    ASSUME Inductive, ServeProgram
    PROVE  Inductive'
BY ServeProgramEffect, ChangePreserves

--------------------------------------------------------------------------------
\* The handler, and what is outside.

\* A step that leaves the job and the flash alone, and with the line at most
\* empties it.
LEMMA OutsidePreserves ==
    ASSUME Inductive, queue' \in Seq(Call),
           UNCHANGED <<job, backup, copy, flash, before, report>>,
           \/ UNCHANGED <<todo, input, plugged>>
           \/ todo = <<>> /\ UNCHANGED <<todo, input>>
           \/ todo' = <<>> /\ input' = <<>>
    PROVE  Inductive'
<1>1. KindsOK /\ LineOK /\ PlaceOK /\ KindOfJob /\ ContentsOK /\ ResultsOK
  BY DEF Inductive
<1>2. UNCHANGED <<Start(job), End(job), PageLen, Reading, OnLine, RequestNow>>
  BY DEF Start, End, PageLen, Reading, OnLine, RequestNow, Wanted, Patched, Piece,
         SectorStart, SectorEnd
<1>3. KindsOK'
  <2>1. input' = input \/ input' = <<>>
    OBVIOUS
  <2>2. input' \in Seq(Nat)
    <3>1. <<>> \in Seq(Nat)
      OBVIOUS
    <3> QED BY <1>1, <2>1, <3>1 DEF KindsOK
  <2> QED BY <1>1, <2>2 DEF KindsOK
<1>4. LineOK'
  <2>1. CASE UNCHANGED <<todo, input, plugged>>
    BY <1>1, <1>2, <2>1 DEF LineOK
  <2>2. CASE todo = <<>> /\ UNCHANGED <<todo, input>>
    BY <1>1, <1>2, <2>2 DEF LineOK
  <2>3. CASE todo' = <<>> /\ input' = <<>>
    <3>1. Reading => PageLen \in Nat
      BY <1>1, RangeFacts DEF OnLine
    <3> QED BY <1>2, <2>3, <3>1 DEF LineOK
  <2> QED BY <2>1, <2>2, <2>3
<1>5. PlaceOK' /\ KindOfJob'
  BY <1>1, <1>2 DEF PlaceOK, KindOfJob
<1>6. ContentsOK'
  BY <1>1, <1>2 DEF ContentsOK, Sectors, SectorStart, SectorEnd
<1>7. ResultsOK'
  BY <1>1 DEF ResultsOK, Truth, Patched
<1> QED BY <1>3, <1>4, <1>5, <1>6, <1>7 DEF Inductive

\* A step after which there is no job, and what was answered is true.
LEMMA IdlePreserves ==
    ASSUME KindsOK', job' = Idle, todo' = <<>>,
           report' # NoReport => Truth(report.call, report.result)'
    PROVE  Inductive'
<1>1. job'.stage = "none"
  BY DEF Idle
<1>2. LineOK' /\ PlaceOK' /\ KindOfJob' /\ ContentsOK'
  BY <1>1 DEF LineOK, PlaceOK, KindOfJob, ContentsOK, OnLine, Reading
<1>3. ResultsOK'
  BY <1>1 DEF ResultsOK
<1> QED BY <1>2, <1>3 DEF Inductive

\* What TypeOK says and the inductive invariant does not.
CountsOK ==
    /\ ready \in BOOLEAN /\ themed \in BOOLEAN /\ plugged \in BOOLEAN
    /\ answered \subseteq 1..MaxCalls
    /\ calls \in 0..MaxCalls /\ upsets \in 0..MaxUpsets /\ moves \in 0..MaxMoves

LEMMA AskPreserves ==
    ASSUME Inductive, CountsOK, Ask
    PROVE  Inductive'
<1>1. PICK op \in {"read", "write"}, s \in Slots :
         queue' = Append(queue, [n |-> calls', op |-> op, slot |-> s])
  BY DEF Ask
<1>2. calls' \in 1..MaxCalls
  BY BoundsAssumption DEF Ask, CountsOK
<1>3. queue' \in Seq(Call)
  BY <1>1, <1>2 DEF Call, Inductive, KindsOK
<1> QED BY <1>3, OutsidePreserves DEF Ask, device, history

LEMMA TakePreserves ==
    ASSUME Inductive, Take
    PROVE  Inductive'
<1>1. KindsOK /\ LineOK /\ job = Idle /\ queue # <<>> /\ queue' = Tail(queue) /\ before' = flash
  BY DEF Take, Inductive
<1>2. UNCHANGED <<backup, copy, flash, todo, input>> /\ todo = <<>>
  BY <1>1 DEF Take, device, LineOK, OnLine, Reading, Idle
<1>3. Head(queue) \in Call /\ queue' \in Seq(Call)
  BY <1>1 DEF KindsOK
<1>4. CASE ready
  <2>1. /\ job' = [call |-> Head(queue), stage |-> "pause", undoing |-> FALSE,
                   at |-> 0, attempt |-> 1, sent |-> FALSE, result |-> "Ok"]
        /\ report' = NoReport /\ 1 \in 1..MaxAttempts
    BY <1>4, SizesAssumption DEF Take
  <2>2. job' \in Job /\ job'.stage = "pause"
    BY <1>3, <2>1 DEF Job, Stages, Results
  <2>3. KindsOK'
    BY <1>1, <1>2, <1>3, <2>1, <2>2 DEF KindsOK
  <2>4. LineOK' /\ PlaceOK' /\ KindOfJob' /\ ContentsOK'
    BY <1>1, <1>2, <2>2 DEF LineOK, PlaceOK, KindOfJob, ContentsOK, OnLine, Reading
  <2>5. ResultsOK'
    BY <2>1, <2>2 DEF ResultsOK
  <2> QED BY <2>3, <2>4, <2>5 DEF Inductive
<1>5. CASE ~ready
  <2>1. job' = Idle /\ report' = [call |-> Head(queue), result |-> "NotConnected"]
    BY <1>1, <1>5 DEF Take, Answer
  <2>2. KindsOK'
    BY <1>1, <1>2, <1>3, <2>1 DEF KindsOK, Results
  <2>3. Truth(report.call, report.result)'
    BY <1>1, <1>2, <2>1 DEF Truth, ReadResults
  <2> QED BY <1>2, <2>1, <2>2, <2>3, IdlePreserves
<1> QED BY <1>4, <1>5

LEMMA PausePreserves ==
    ASSUME Inductive, Pause
    PROVE  Inductive'
<1>1. /\ KindsOK /\ LineOK /\ ContentsOK /\ job.stage = "pause"
      /\ UNCHANGED <<queue, backup, copy, flash, todo, input, before>>
  BY DEF Pause, Inductive, device
<1>2. /\ todo = <<>> /\ flash = before /\ job \in Job /\ job.call \in Call
      /\ job.call.op \in {"read", "write"}
  BY <1>1, JobFacts DEF LineOK, ContentsOK, OnLine, Reading, Call
<1>3. /\ input' \in Seq(Nat) /\ backup' \in [Cells -> Nat] /\ copy' \in [Cells -> Nat]
  BY <1>1 DEF KindsOK
<1>4. CASE Finish("Unsupported") /\ report' = report
  <2>1. /\ "Unsupported" \in Results /\ "Unsupported" \in ReadResults
        /\ UNCHANGED <<queue, flash, before, report, backup>>
    BY <1>1, <1>4 DEF Results, ReadResults
  <2> QED BY <1>1, <1>2, <1>3, <1>4, <2>1, FinishPreserves
<1>5. CASE /\ To(IF job.call.op = "read" THEN "asset" ELSE "backup", FALSE)
           /\ report' = report
  <2>1. CASE job.call.op = "read"
    <3>1. To("asset", FALSE)
      BY <1>5, <2>1
    <3>2. /\ job' \in Job /\ job'.stage = "asset" /\ job'.call = job.call
          /\ job'.at = Start(job') /\ ~job'.sent
      BY <1>1, <1>2, <3>1, ToEffect
    <3> QED BY <1>1, <1>2, <1>3, <1>5, <2>1, <3>2, StartPreserves
  <2>2. CASE job.call.op = "write"
    <3>1. To("backup", FALSE)
      BY <1>5, <2>2
    <3>2. /\ job' \in Job /\ job'.stage = "backup" /\ job'.call = job.call
          /\ job'.at = Start(job') /\ ~job'.sent
      BY <1>1, <1>2, <3>1, ToEffect
    <3> QED BY <1>1, <1>2, <1>3, <1>5, <2>2, <3>2, StartPreserves
  <2> QED BY <1>2, <2>1, <2>2
<1>6. ASSUME NEW r \in {"ConnectionLost", "Transport"}, job' = Idle, Answer(job.call, r)
      PROVE  Inductive'
  <2>1. report' = [call |-> job.call, result |-> r] /\ r \in Results /\ r # "Ok"
    BY <1>6 DEF Answer, Results
  <2>2. KindsOK'
    BY <1>1, <1>2, <1>6, <2>1 DEF KindsOK
  <2>3. Truth(report.call, report.result)'
    BY <1>1, <1>2, <1>6, <2>1 DEF Truth, ReadResults
  <2> QED BY <1>1, <1>2, <1>6, <2>2, <2>3, IdlePreserves
<1> QED BY <1>4, <1>5, <1>6 DEF Pause

LEMMA ResumePreserves ==
    ASSUME Inductive, Resume
    PROVE  Inductive'
<1>1. /\ KindsOK /\ LineOK /\ ResultsOK /\ job.stage = "resume" /\ job' = Idle
      /\ UNCHANGED <<queue, backup, copy, flash, todo, input, before>>
      /\ report' = [call |-> job.call, result |-> job.result]
  BY DEF Resume, Inductive, device, Answer
<1>2. todo = <<>> /\ job.call \in Call /\ job.result \in Results
  BY <1>1, JobFacts DEF LineOK, OnLine, Reading, Job
<1>3. KindsOK'
  BY <1>1, <1>2 DEF KindsOK
<1>4. Truth(report.call, report.result)'
  BY <1>1 DEF ResultsOK, Truth, Patched
<1> QED BY <1>1, <1>2, <1>3, <1>4, IdlePreserves

LEMMA MovesPreserve ==
    ASSUME Inductive, Outside \/ UNCHANGED vars
    PROVE  Inductive'
<1>1. queue \in Seq(Call) /\ (job = Idle => todo = <<>>)
  BY DEF Inductive, KindsOK, LineOK, OnLine, Reading, Idle
<1>2. CASE DeviceGoes
  <2>1. /\ queue' \in Seq(Call) /\ UNCHANGED <<job, backup, copy, flash, before, report>>
        /\ todo' = <<>> /\ input' = <<>>
    BY <1>1, <1>2 DEF DeviceGoes, manager, history
  <2> QED BY <2>1, OutsidePreserves
<1>3. CASE DeviceComes
  <2>1. /\ queue' \in Seq(Call) /\ UNCHANGED <<job, backup, copy, flash, before, report>>
        /\ todo = <<>> /\ UNCHANGED <<todo, input>>
    BY <1>1, <1>3 DEF DeviceComes, history
  <2> QED BY <2>1, OutsidePreserves
<1>4. CASE Notice \/ UNCHANGED vars
  <2>1. /\ queue' \in Seq(Call) /\ UNCHANGED <<job, backup, copy, flash, before, report>>
        /\ UNCHANGED <<todo, input, plugged>>
    BY <1>1, <1>4 DEF Notice, vars, manager, device, history
  <2> QED BY <2>1, OutsidePreserves
<1>5. CASE Crash
  <2>1. KindsOK' /\ job' = Idle /\ todo' = <<>> /\ report' = NoReport
    BY <1>5 DEF Crash, Inductive, KindsOK
  <2> QED BY <2>1, IdlePreserves
<1> QED BY <1>2, <1>3, <1>4, <1>5 DEF Outside

LEMMA CountsPreserved ==
    ASSUME Inductive, CountsOK, [Next]_vars
    PROVE  CountsOK'
<1>1. KindsOK /\ {MaxCalls, MaxUpsets, MaxMoves} \subseteq Nat
  BY BoundsAssumption DEF Inductive
<1> DEFINE Upset == upsets' = upsets \/ (upsets < MaxUpsets /\ upsets' = upsets + 1)
<1>10. Upset => upsets' \in 0..MaxUpsets
  BY <1>1 DEF CountsOK
<1>2. CASE Ask
  BY <1>1, <1>2 DEF CountsOK, Ask, device, history
<1>3. CASE Take
  <2>1. Head(queue).n \in 1..MaxCalls
    <3>1. Head(queue) \in Call
      BY <1>1, <1>3 DEF KindsOK, Take
    <3> QED BY <3>1 DEF Call
  <2> QED BY <1>3, <2>1 DEF CountsOK, Take, Answer, device, bounds
<1>4. CASE Pause
  <2>1. job.call.n \in 1..MaxCalls
    BY <1>1, <1>4, JobFacts DEF Pause, Call
  <2>2. upsets' \in 0..MaxUpsets
    <3>1. upsets' = upsets \/ (upsets < MaxUpsets /\ upsets' = upsets + 1)
      <4>1. \/ UNCHANGED <<ready, report, answered, upsets>>
            \/ UNCHANGED upsets
            \/ upsets < MaxUpsets /\ upsets' = upsets + 1
        BY <1>4 DEF Pause
      <4> QED BY <4>1
    <3> QED BY <1>10, <3>1
  <2>3. answered' \subseteq 1..MaxCalls
    BY <1>4, <2>1 DEF CountsOK, Pause, Answer
  <2> QED BY <1>4, <2>2, <2>3 DEF CountsOK, Pause, device
<1>5. CASE Resume
  <2>1. job.call.n \in 1..MaxCalls
    BY <1>1, <1>5, JobFacts DEF Resume, Call
  <2> QED BY <1>5, <2>1 DEF CountsOK, Resume, Answer, device, bounds
<1>6. CASE Transaction
  <2>1. UNCHANGED <<ready, themed, plugged, answered, calls, moves>>
    BY <1>6 DEF Transaction, Send, SendFails, TimeOut, Lose, ReadAsset, ReadBackup, Erased,
                Programmed, ReadBack, Arrives, device, history, bounds
  <2>2. upsets' \in 0..MaxUpsets
    <3>1. CASE Send \/ Lose
      BY <3>1 DEF CountsOK, Send, Lose, bounds
    <3>2. CASE SendFails
      <4>1. upsets < MaxUpsets /\ upsets' = upsets + 1
        BY <3>2, Zenon DEF SendFails
      <4> QED BY <1>10, <4>1
    <3>3. CASE TimeOut
      <4>1. UNCHANGED upsets \/ (upsets < MaxUpsets /\ upsets' = upsets + 1)
        BY <3>3 DEF TimeOut
      <4> QED BY <1>10, <4>1
    <3>4. CASE ReadAsset \/ ReadBackup \/ Erased \/ Programmed \/ ReadBack
      BY <3>4 DEF CountsOK, ReadAsset, ReadBackup, Erased, Programmed, ReadBack, Arrives, bounds
    <3> QED BY <1>6, <3>1, <3>2, <3>3, <3>4 DEF Transaction
  <2> QED BY <2>1, <2>2 DEF CountsOK
<1>7. CASE Device
  <2>1. PICK op \in {"read", "erase", "program"}, sound \in BOOLEAN : \E s : Serve(op, sound, s)
    BY <1>7 DEF Device, ServeRead, ServeErase, ServeProgram
  <2>2. UNCHANGED <<ready, themed, plugged, answered, calls, moves>>
    BY <2>1 DEF Serve, manager, history
  <2>3. upsets' \in 0..MaxUpsets
    BY <1>1, <2>1 DEF CountsOK, Serve
  <2> QED BY <2>2, <2>3 DEF CountsOK
<1>8. CASE Outside
  <2>1. CASE DeviceGoes
    <3>1. moves' \in 0..MaxMoves
      BY <1>1, <2>1 DEF CountsOK, DeviceGoes
    <3>2. plugged' \in BOOLEAN
      BY <2>1, Zenon DEF DeviceGoes
    <3> QED BY <2>1, <3>1, <3>2 DEF CountsOK, DeviceGoes, manager, history
  <2>2. CASE DeviceComes
    BY <1>1, <2>2 DEF CountsOK, DeviceComes, history, bounds
  <2>3. CASE Notice
    BY <1>1, <2>3 DEF CountsOK, Notice, device, history, bounds
  <2>4. CASE Crash
    <3>1. moves' \in 0..MaxMoves /\ answered' \subseteq 1..MaxCalls
      BY <1>1, <2>4 DEF CountsOK, Crash
    <3>2. ready' \in BOOLEAN
      BY <2>4, Zenon DEF Crash
    <3> QED BY <2>4, <3>1, <3>2 DEF CountsOK, Crash
  <2> QED BY <1>8, <2>1, <2>2, <2>3, <2>4 DEF Outside
<1>9. CASE UNCHANGED vars
  BY <1>9 DEF CountsOK, vars, manager, device, history, bounds
<1> QED BY <1>2, <1>3, <1>4, <1>5, <1>6, <1>7, <1>8, <1>9 DEF Next, Handler

--------------------------------------------------------------------------------
\* Theorems.

LEMMA InitInductive ==
    ASSUME Init
    PROVE  Inductive /\ CountsOK
<1>1. 0 \in Nat /\ Blank \in Nat /\ Cells \subseteq Nat
  BY DEF Blank, Cells
<1>2. KindsOK
  BY <1>1 DEF Init, KindsOK
<1>3. LineOK /\ PlaceOK /\ KindOfJob /\ ContentsOK /\ ResultsOK
  BY DEF Init, LineOK, PlaceOK, KindOfJob, ContentsOK, ResultsOK, OnLine, Reading, Idle
<1>4. CountsOK
  BY BoundsAssumption DEF Init, CountsOK
<1> QED BY <1>2, <1>3, <1>4 DEF Inductive

LEMMA NextPreserves ==
    ASSUME ~LateAnswers, Inductive, CountsOK, [Next]_vars
    PROVE  Inductive' /\ CountsOK'
<1>1. CASE Ask
  BY <1>1, AskPreserves, CountsPreserved
<1>2. CASE Handler
  BY <1>2, TakePreserves, PausePreserves, ResumePreserves, CountsPreserved DEF Handler
<1>3. CASE Transaction
  BY <1>3, SendPreserves, SendFailsPreserves, LosePreserves, TimeOutPreserves,
     ReadAssetPreserves, ReadBackupPreserves, ErasedPreserves, ProgrammedPreserves,
     ReadBackPreserves, CountsPreserved DEF Transaction
<1>4. CASE Device
  BY <1>4, ServeReadPreserves, ServeErasePreserves, ServeProgramPreserves, CountsPreserved
     DEF Device
<1>5. CASE Outside \/ UNCHANGED vars
  BY <1>5, MovesPreserve, CountsPreserved
<1> QED BY <1>1, <1>2, <1>3, <1>4, <1>5 DEF Next

\* The invariant on which the rest stands: what the flash, the backup and the
\* present read hold at each stage of a transaction.
THEOREM InductiveHolds == ASSUME ~LateAnswers PROVE Spec => []Inductive
<1>1. Init => Inductive /\ CountsOK
  BY InitInductive
<1>2. Inductive /\ CountsOK /\ [Next]_vars => Inductive' /\ CountsOK'
  BY NextPreserves
<1> QED BY <1>1, <1>2, PTL DEF Spec

\* Every request is in the flash, and every variable of its kind.
LEMMA KindsMakeTypes == Inductive /\ CountsOK => TypeOK
<1> SUFFICES ASSUME Inductive, CountsOK PROVE TypeOK
  OBVIOUS
<1>1. KindsOK /\ LineOK /\ PlaceOK
  BY DEF Inductive
<1>2. todo \in Seq(Request)
  <2>1. CASE todo = <<>>
    BY <2>1
  <2>2. CASE todo # <<>>
    <3>1. OnLine /\ todo = <<RequestNow>>
      BY <1>1, <2>2 DEF LineOK
    <3>2. /\ job \in Job /\ job.at \in Cells /\ PageLen \in Nat /\ PageCells \in Nat
          /\ End(job) - job.at \in Nat /\ job.at \in Nat /\ job.at < End(job)
      BY <1>1, <3>1, RangeFacts DEF Cells
    <3>3. <<>> \in Seq(Nat)
      OBVIOUS
    <3>4. job.stage = "program" => Piece(Wanted, job.at, PageCells) \in Seq(Nat)
      <4>1. SUFFICES ASSUME job.stage = "program"
                     PROVE  Piece(Wanted, job.at, PageCells) \in Seq(Nat)
        OBVIOUS
      <4> DEFINE n == End(job) - job.at
      <4>2. n \in Nat \ {0} /\ n % PageCells = 0 /\ PageCells \in Nat \ {0}
        BY <1>1, <3>1, <3>2, <4>1, RangeFacts DEF PlaceOK
      <4> HIDE DEF n
      <4>3. n >= PageCells
        BY <4>2, HasAPage
      <4>4. \A i \in 1..PageCells : job.at + i - 1 \in Cells
        BY <1>1, <3>1, <3>2, <4>3, RangeFacts DEF Cells, n
      <4>5. \A i \in 1..PageCells : Wanted[job.at + i - 1] \in Nat
        BY <1>1, <3>2, <4>4, WantedKind
      <4>6. Piece(Wanted, job.at, PageCells) \in [1..PageCells -> Nat]
        BY <4>5 DEF Piece
      <4> QED BY <4>2, <4>6
    <3>5. RequestNow \in Request
      <4>1. CASE Reading
        BY <3>2, <3>3, <4>1 DEF RequestNow, Request
      <4>2. CASE ~Reading /\ job.stage = "erase"
        BY <3>2, <3>3, <4>2 DEF RequestNow, Request
      <4>3. CASE ~Reading /\ job.stage # "erase"
        BY <3>1, <3>2, <3>4, <4>3 DEF RequestNow, Request, OnLine
      <4> QED BY <4>1, <4>2, <4>3
    <3> QED BY <3>1, <3>5
  <2> QED BY <2>1, <2>2
<1>3. {ready, themed, plugged} \subseteq BOOLEAN
  BY Zenon DEF CountsOK
<1> QED BY <1>1, <1>2, <1>3 DEF TypeOK, KindsOK, CountsOK

\* Type correctness.
THEOREM TypeOKHolds == ASSUME ~LateAnswers PROVE Spec => []TypeOK
<1>1. Init => Inductive /\ CountsOK
  BY InitInductive
<1>2. Inductive /\ CountsOK /\ [Next]_vars => Inductive' /\ CountsOK'
  BY NextPreserves
<1> QED BY <1>1, <1>2, KindsMakeTypes, PTL DEF Spec

\* A write that is reported as done is in the flash, with every neighbour as it
\* was: the backend's loop over the pages, the read-back and the rollback.
THEOREM WriteIsWholeHolds == ASSUME ~LateAnswers PROVE Spec => []WriteIsWhole
<1>1. Inductive => WriteIsWhole
  BY DEF Inductive, ResultsOK, Truth, WriteIsWhole, Told
<1> QED BY <1>1, InductiveHolds, PTL

\* A write that fails and does not say that its outcome is unknown, or that its
\* rollback failed, has changed nothing.
THEOREM FailureIsCleanHolds == ASSUME ~LateAnswers PROVE Spec => []FailureIsClean
<1>1. Inductive => FailureIsClean
  <2> SUFFICES ASSUME Inductive, report # NoReport, report.call.op = "write",
                      report.result \in Untouched
               PROVE  flash = before
    BY DEF FailureIsClean, Told
  <2> QED BY DEF Inductive, ResultsOK, Truth
<1> QED BY <1>1, InductiveHolds, PTL

\* A read that succeeds returns what is in the flash, and no read changes it.
THEOREM ReadIsTrueHolds == ASSUME ~LateAnswers PROVE Spec => []ReadIsTrue
<1>1. Inductive => ReadIsTrue
  BY DEF Inductive, ResultsOK, Truth, ReadIsTrue
<1> QED BY <1>1, InductiveHolds, PTL

\* The flash changes only in the sectors that are being written, once they are
\* saved: the order of transact_flash_sectors.
THEOREM ErasedOnlyWhenSavedHolds == ASSUME ~LateAnswers PROVE Spec => ErasedOnlyWhenSaved
<1> DEFINE Saved == \A x \in Cells : flash'[x] # flash[x] =>
                       /\ job # Idle /\ job.call.op = "write" /\ x \in Sectors(job.call.slot)
                       /\ \A y \in Sectors(job.call.slot) : backup[y] = before[y]
<1>1. Inductive /\ [Next]_vars => [Saved]_vars
  <2> SUFFICES ASSUME Inductive, [Next]_vars PROVE Saved
    OBVIOUS
  <2>1. CASE ServeErase \/ ServeProgram
    <3>1. todo # <<>> /\ (Head(todo).op = "erase" \/ Head(todo).op = "program")
      BY <2>1 DEF ServeErase, ServeProgram, Serve
    <3>2. /\ KindsOK /\ PlaceOK /\ KindOfJob /\ ContentsOK /\ job # Idle
          /\ job.stage \in {"erase", "program"}
      BY <3>1, ServeFacts DEF RequestNow, OnLine, Reading
    <3>3. \A x \in Cells \ Sectors(job.call.slot) : flash'[x] = flash[x]
      BY <2>1, ServeEraseEffect, ServeProgramEffect
    <3> QED BY <3>2, <3>3 DEF KindOfJob, ContentsOK
  <2>2. CASE ~(ServeErase \/ ServeProgram)
    <3>1. flash' = flash
      BY <2>2 DEF Next, Ask, Handler, Take, Pause, Resume, Transaction, Send, SendFails,
                  TimeOut, Lose, ReadAsset, ReadBackup, Erased, Programmed, ReadBack,
                  Arrives, Device, ServeRead, Outside, DeviceGoes, DeviceComes, Notice,
                  Crash, vars, device, history, bounds
    <3> QED BY <3>1
  <2> QED BY <2>1, <2>2
<1> QED BY <1>1, InductiveHolds, PTL DEF ErasedOnlyWhenSaved, Spec

--------------------------------------------------------------------------------
\* ThemeFlash implements ThemeStore.

Step == [Store!Next]_(Store!vars)

LEMMA CallIsNotIdle == \A c \in Call : c # Idle
BY DEF Call, Idle

\* While a job is served nothing is told.
LEMMA ServedJob ==
    ASSUME Inductive, job.stage # "none"
    PROVE  /\ job \in Job /\ job # Idle /\ job.call \in Call /\ job.call.slot \in Slots
           /\ Served = job.call /\ Served # Idle /\ report = NoReport
<1>1. KindsOK /\ ResultsOK
  BY DEF Inductive
<1>2. job \in Job /\ job # Idle /\ job.call \in Call /\ job.call.slot \in Slots
  BY <1>1, JobFacts
<1> QED BY <1>1, <1>2, CallIsNotIdle DEF Served, ResultsOK

\* A step within a transaction is none of the store's.
LEMMA WithinIsStutter ==
    ASSUME Inductive, job.stage # "none", job'.stage # "none", job'.call = job.call,
           UNCHANGED <<queue, flash, before, report>>
    PROVE  UNCHANGED Store!vars
<1>1. job # Idle /\ job' # Idle /\ report = NoReport
  BY ServedJob DEF Idle
<1> QED BY <1>1 DEF Store!vars, Served, Given

LEMMA JobGoesOn ==
    ASSUME job \in Job,
           \/ \E r : Finish(r)
           \/ \E stage \in Stages, undoing \in BOOLEAN : To(stage, undoing)
           \/ NextPage
           \/ job' = [job EXCEPT !.sent = TRUE]
           \/ job' = [job EXCEPT !.sent = FALSE, !.attempt = @ + 1]
    PROVE  job'.stage # "none" /\ job'.call = job.call
<1>1. CASE \E r : Finish(r)
  BY <1>1 DEF Finish, Job
<1>2. CASE \E stage \in Stages, undoing \in BOOLEAN : To(stage, undoing)
  BY <1>2 DEF To, Job, Stages
<1>3. CASE NextPage
  BY <1>3 DEF NextPage, Job, Stages
<1>4. CASE \/ job' = [job EXCEPT !.sent = TRUE]
           \/ job' = [job EXCEPT !.sent = FALSE, !.attempt = @ + 1]
  BY <1>4 DEF Job, Stages
<1> QED BY <1>1, <1>2, <1>3, <1>4

LEMMA FailGoesOn ==
    ASSUME Fail
    PROVE  (\E r : Finish(r)) \/ (\E stage \in Stages, undoing \in BOOLEAN : To(stage, undoing))
BY DEF Fail, Stages

LEMMA TransactionStep == ASSUME Inductive, Transaction PROVE Step
<1>1. UNCHANGED <<queue, flash, before, report>>
  BY DEF Transaction, Send, SendFails, TimeOut, Lose, ReadAsset, ReadBackup, Erased,
         Programmed, ReadBack, Arrives, device, history
<1>2. job.stage # "none"
  BY DEF Transaction, Send, SendFails, TimeOut, Lose, ReadAsset, ReadBackup, Erased,
         Programmed, ReadBack, Arrives, OnLine, Reading
<1>3. job \in Job /\ job.undoing \in BOOLEAN
  BY <1>2, ServedJob DEF Job
<1>4. job'.stage # "none" /\ job'.call = job.call
  <2>1. CASE Send
    BY <1>3, <2>1, JobGoesOn DEF Send
  <2>2. CASE SendFails
    BY <1>3, <2>2, JobGoesOn, FailGoesOn DEF SendFails
  <2>3. CASE TimeOut
    <3>1. Fail \/ job' = [job EXCEPT !.sent = FALSE, !.attempt = @ + 1]
      BY <2>3 DEF TimeOut
    <3> QED BY <1>3, <3>1, JobGoesOn, FailGoesOn
  <2>4. CASE Lose
    BY <1>3, <2>4, JobGoesOn DEF Lose
  <2>5. CASE ReadAsset
    <3>1. Finish("Ok") \/ NextPage
      BY <2>5 DEF ReadAsset
    <3> QED BY <1>3, <3>1, JobGoesOn
  <2>6. CASE ReadBackup
    <3>1. To("erase", FALSE) \/ NextPage
      BY <2>6 DEF ReadBackup
    <3> QED BY <1>3, <3>1, JobGoesOn DEF Stages
  <2>7. CASE Erased
    <3>1. To("program", job.undoing) \/ Fail
      BY <2>7 DEF Erased
    <3> QED BY <1>3, <3>1, JobGoesOn, FailGoesOn DEF Stages
  <2>8. CASE Programmed
    <3>1. To("check", job.undoing) \/ NextPage \/ Fail
      BY <2>8 DEF Programmed
    <3> QED BY <1>3, <3>1, JobGoesOn, FailGoesOn DEF Stages
  <2>9. CASE ReadBack
    <3>1. Finish(IF job.undoing THEN "FailedAndRolledBack" ELSE "Ok") \/ NextPage \/ Fail
      BY <2>9 DEF ReadBack
    <3> QED BY <1>3, <3>1, JobGoesOn, FailGoesOn
  <2> QED BY <2>1, <2>2, <2>3, <2>4, <2>5, <2>6, <2>7, <2>8, <2>9 DEF Transaction
<1> QED BY <1>1, <1>2, <1>4, WithinIsStutter DEF Step

\* Where an answer is true, the store gives it.
LEMMA EndStep ==
    ASSUME Inductive, Inductive', job.stage # "none", job' = Idle,
           NEW r \in Results, report' = [call |-> job.call, result |-> r],
           UNCHANGED <<queue, copy, flash, before>>
    PROVE  Step
<1>1. /\ job \in Job /\ job # Idle /\ job.call \in Call /\ job.call.slot \in Slots
      /\ Served = job.call /\ Served # Idle
  BY ServedJob
<1>2. Served' = Idle /\ report' # NoReport
  BY DEF Served, NoReport
<1>3. Truth(job.call, r)
  <2>1. Truth(report.call, report.result)'
    BY <1>2 DEF Inductive, ResultsOK
  <2> QED BY <2>1 DEF Truth, Patched
<1>4. Given' = Store!Answer(job.call, r, flash)
  <2>1. CASE job.call.op = "read" /\ r = "Ok"
    <3>1. \A x \in Bitmap(job.call.slot) : copy[x] = flash[x]
      BY <1>3, <2>1 DEF Truth
    <3>2. [x \in Bitmap(job.call.slot) |-> copy[x]] = [x \in Bitmap(job.call.slot) |-> flash[x]]
      BY <3>1
    <3> QED BY <1>1, <1>2, <2>1, <3>2 DEF Given, Store!Answer
  <2>2. CASE ~(job.call.op = "read" /\ r = "Ok")
    BY <1>1, <1>2, <2>2 DEF Given, Store!Answer
  <2> QED BY <2>1, <2>2
<1>5. r \in Store!Results
  BY DEF Results, Store!Results, Store!Clean, Store!Plain, Store!Unsure
<1>6. CASE job.call.op = "read"
  <2>1. r \in Store!Plain \union {"Ok"}
    BY <1>3, <1>6 DEF Truth, ReadResults, Store!Plain
  <2>2. Store!End(r)
    BY <1>1, <1>2, <1>4, <1>6, <2>1 DEF Store!End
  <2> QED BY <1>5, <2>2 DEF Step, Store!Next
<1>7. CASE job.call.op # "read"
  <2>1. Store!Written(before, job.call) = Patched(before, job.call)
    BY <1>1 DEF Store!Written, Patched, Call
  <2>2. \/ r = "Ok" /\ flash = Store!Written(before, job.call)
        \/ r \in Store!Clean /\ flash = before
        \/ r \in Store!Unsure
    BY <1>3, <1>7, <2>1 DEF Truth, Results, Untouched, Store!Clean, Store!Plain, Store!Unsure
  <2>3. Store!End(r)
    BY <1>1, <1>2, <1>4, <1>7, <2>2 DEF Store!End
  <2> QED BY <1>5, <2>3 DEF Step, Store!Next
<1> QED BY <1>6, <1>7

LEMMA HandlerStep == ASSUME Inductive, Inductive', Handler PROVE Step
<1>1. CASE Take
  <2>1. /\ queue # <<>> /\ queue' = Tail(queue) /\ Head(queue) \in Call /\ job = Idle
        /\ before' = flash /\ flash' = flash /\ Served = Idle
    BY <1>1 DEF Take, device, Inductive, KindsOK, Served
  <2>2. CASE ready
    <3>1. Served' = Head(queue) /\ Given' = NoReport
      BY <1>1, <2>2 DEF Take, Served, Given, Idle
    <3> QED BY <2>1, <3>1 DEF Step, Store!Next, Store!Begin
  <2>3. CASE ~ready
    <3>1. job' = Idle /\ report' = [call |-> Head(queue), result |-> "NotConnected"]
      BY <1>1, <2>1, <2>3 DEF Take, Answer
    <3>2. Served' = Idle /\ Given' = Store!Answer(Head(queue), "NotConnected", flash)
      BY <3>1 DEF Served, Given, NoReport, Store!Answer
    <3> QED BY <2>1, <3>2 DEF Step, Store!Next, Store!Refuse
  <2> QED BY <2>2, <2>3
<1>2. CASE Pause
  <2>1. /\ job.stage = "pause" /\ UNCHANGED <<queue, copy, flash, before>> /\ job \in Job
    BY <1>2, ServedJob DEF Pause, device
  <2>2. CASE /\ IF ~themed THEN Finish("Unsupported")
                ELSE To(IF job.call.op = "read" THEN "asset" ELSE "backup", FALSE)
             /\ report' = report
    <3>1. job'.stage # "none" /\ job'.call = job.call
      BY <2>1, <2>2, JobGoesOn DEF Stages
    <3> QED BY <2>1, <2>2, <3>1, WithinIsStutter DEF Step
  <2>3. ASSUME NEW r \in {"ConnectionLost", "Transport"}, job' = Idle, Answer(job.call, r)
        PROVE  Step
    <3>1. r \in Results /\ report' = [call |-> job.call, result |-> r]
      BY <2>3 DEF Results, Answer
    <3> QED BY <2>1, <2>3, <3>1, EndStep
  <2> QED BY <1>2, <2>2, <2>3 DEF Pause
<1>3. CASE Resume
  <2>1. /\ job.stage = "resume" /\ job' = Idle /\ UNCHANGED <<queue, copy, flash, before>>
        /\ report' = [call |-> job.call, result |-> job.result]
    BY <1>3 DEF Resume, device, Answer
  <2>2. job.result \in Results
    BY <2>1, ServedJob DEF Job
  <2> QED BY <2>1, <2>2, EndStep
<1> QED BY <1>1, <1>2, <1>3 DEF Handler

LEMMA DeviceStep == ASSUME Inductive, Device PROVE Step
<1>1. CASE ServeRead
  <2>1. UNCHANGED <<queue, job, copy, flash, before, report>>
    BY <1>1 DEF ServeRead, Serve, manager, history
  <2> QED BY <2>1 DEF Step, Store!vars, Served, Given
<1>2. CASE ServeErase \/ ServeProgram
  <2>1. /\ todo # <<>> /\ job.stage \in {"erase", "program"}
        /\ UNCHANGED <<queue, job, copy, before, report>> /\ flash' \in [Cells -> Nat]
        /\ \A x \in Cells \ Sectors(job.call.slot) : flash'[x] = flash[x]
    BY <1>2, ServeEraseEffect, ServeProgramEffect
  <2>2. /\ Served = job.call /\ Served # Idle /\ job.call.op = "write" /\ job.call.slot \in Slots
        /\ UNCHANGED <<Served, Given>>
    BY <2>1, ServedJob DEF Inductive, KindOfJob, Served, Given
  <2> QED BY <2>1, <2>2 DEF Step, Store!Next, Store!Disturb
<1> QED BY <1>1, <1>2 DEF Device

LEMMA OtherStep ==
    ASSUME Inductive, CountsOK, Ask \/ Outside \/ UNCHANGED vars
    PROVE  Step
<1>1. CASE Ask
  <2>1. PICK op \in {"read", "write"}, s \in Slots :
           queue' = Append(queue, [n |-> calls', op |-> op, slot |-> s])
    BY <1>1 DEF Ask
  <2>2. [n |-> calls', op |-> op, slot |-> s] \in Call
    BY <1>1, BoundsAssumption DEF Ask, CountsOK, Call
  <2>3. UNCHANGED <<Served, Given, flash, before>>
    BY <1>1 DEF Ask, device, history, Served, Given
  <2> QED BY <2>1, <2>2, <2>3 DEF Step, Store!Next, Store!Ask
<1>2. CASE Crash
  <2>1. Served' = Idle /\ Given' = NoReport /\ queue' = <<>> /\ UNCHANGED <<flash, before>>
    BY <1>2 DEF Crash, Served, Given
  <2> QED BY <2>1 DEF Step, Store!Next, Store!Crash
<1>3. CASE DeviceGoes \/ DeviceComes \/ Notice \/ UNCHANGED vars
  <2>1. UNCHANGED <<queue, job, copy, flash, before, report>>
    BY <1>3 DEF DeviceGoes, DeviceComes, Notice, vars, manager, device, history
  <2> QED BY <2>1 DEF Step, Store!vars, Served, Given
<1> QED BY <1>1, <1>2, <1>3 DEF Outside

\* Every step of the manager, of the transaction and of the device is a step or a
\* stutter of a store that serves its calls one by one and answers truthfully:
\* transact_flash_sectors, with its retries and its rollback, is atomic to callers.
THEOREM FlashImplementsStore == ASSUME ~LateAnswers PROVE Spec => ImplementsThemeStore
<1>1. Init => Store!Init
  <2>1. Init => /\ queue = <<>> /\ Served = Idle /\ Given = NoReport /\ before = flash
                /\ flash \in [Cells -> Nat]
    <3>1. Cells \subseteq Nat
      BY DEF Cells
    <3> QED BY <3>1 DEF Init, Served, Given
  <2> QED BY <2>1 DEF Store!Init
<1>2. Init => Inductive /\ CountsOK
  BY InitInductive
<1>3. Inductive /\ CountsOK /\ [Next]_vars => Inductive' /\ CountsOK'
  BY NextPreserves
<1>4. Inductive /\ CountsOK /\ [Next]_vars => Step
  BY <1>3, TransactionStep, HandlerStep, DeviceStep, OtherStep DEF Next
<1>5. Inductive /\ CountsOK /\ [Next]_vars => [Store!Next]_(Store!vars)
  BY <1>4 DEF Step
<1> QED BY <1>1, <1>2, <1>3, <1>5, PTL DEF Spec, ImplementsThemeStore, Store!Spec
================================================================================
