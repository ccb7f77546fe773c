-------------------------- MODULE HistoryExportProofs --------------------------
(***************************************************************************)
(* Proofs about HistoryExport, for every layout of the flash, every        *)
(* content and every bound: the decoder writes the log, and the            *)
(* destination is whole whatever goes wrong.                               *)
(***************************************************************************)
EXTENDS HistoryExport, TLAPS, FiniteSetTheorems

--------------------------------------------------------------------------------
\* Arithmetic.

LEMMA Division ==
    ASSUME NEW a \in Nat, NEW b \in Nat \ {0}
    PROVE  /\ a \div b \in Nat /\ a % b \in 0 .. b - 1
           /\ a = b * (a \div b) + (a % b)
BY SMT

LEMMA Monotone ==
    ASSUME NEW a \in Nat, NEW b \in Nat, NEW c \in Nat, a <= b
    PROVE  a * c <= b * c
BY SMT

\* What is less than two multiples further is at most one further.
LEMMA NextQuotient ==
    ASSUME NEW e \in Nat \ {0}, NEW s \in Nat, NEW d \in Nat, d < 2 * e
    PROVE  (s * e + d) \div e <= s + 1
<1>1. s * e + d \in Nat
  BY SMT
<1> DEFINE q == (s * e + d) \div e
           r == (s * e + d) % e
<1>2. q \in Nat /\ e * q <= s * e + d
  <2>1. q \in Nat /\ r \in 0 .. e - 1 /\ s * e + d = e * q + r
    BY <1>1, Division
  <2> HIDE DEF q, r
  <2>2. e * q \in Nat
    BY <2>1
  <2> QED BY <2>1, <2>2
<1>3. SUFFICES ASSUME s + 2 <= q PROVE FALSE
  BY <1>2
<1>4. (s + 2) * e <= q * e
  BY <1>2, <1>3, Monotone
<1>5. (s + 2) * e = s * e + 2 * e /\ q * e = e * q
  BY <1>2 
<1>6. s * e \in Nat /\ e * q \in Nat
  BY <1>2
<1> HIDE DEF q
<1> QED BY <1>2, <1>4, <1>5, <1>6

--------------------------------------------------------------------------------
\* The layout.

LEMMA Layout ==
    /\ {NumSectors, SectorSize, PageSize, EntrySize, EmptyRunEnd} \subseteq Nat \ {0}
    /\ EntrySize <= PageSize
    /\ EntriesPerSector \in Nat \ {0} /\ NumSlots \in Nat \ {0}
<1>1. SectorSize \in Nat \ {0} /\ EntrySize \in Nat \ {0} /\ EntrySize <= SectorSize
  BY LayoutAssumption
<1>2. /\ EntriesPerSector \in Nat
      /\ SectorSize = EntrySize * EntriesPerSector + (SectorSize % EntrySize)
      /\ SectorSize % EntrySize \in 0 .. EntrySize - 1
  BY <1>1, Division DEF EntriesPerSector
<1>3. EntriesPerSector # 0
  BY <1>1, <1>2
<1>4. NumSlots \in Nat \ {0}
  BY <1>2, <1>3, LayoutAssumption DEF NumSlots
<1> QED BY <1>2, <1>3, <1>4, LayoutAssumption

LEMMA Place ==
    ASSUME NEW p \in Slots
    PROVE  /\ p \in Nat /\ SlotInSector(p) \in 0 .. EntriesPerSector - 1
           /\ SectorStart(p) \in Nat /\ SlotInSector(p) * EntrySize \in Nat
           /\ Offset(p) = SectorStart(p) + SlotInSector(p) * EntrySize /\ Offset(p) \in Nat
<1>1. p \in Nat
  BY Layout DEF Slots
<1>2. p \div EntriesPerSector \in Nat /\ SlotInSector(p) \in 0 .. EntriesPerSector - 1
  BY <1>1, Layout, Division DEF SlotInSector
<1>3. SectorStart(p) \in Nat
  BY <1>2, Layout DEF SectorStart
<1>4. SlotInSector(p) * EntrySize \in Nat
  BY <1>2, Layout
<1> QED BY <1>1, <1>2, <1>3, <1>4 DEF Offset

\* The way round the padding leads to the next slot, and past none.
THEOREM SkipIsNextSlot == \A p \in Slots : Crosses(p) => Skip(p) = p + 1
<1> SUFFICES ASSUME NEW p \in Slots, Crosses(p) PROVE Skip(p) = p + 1
  OBVIOUS
<1> DEFINE s       == SlotInSector(p)
           m       == Offset(p) % PageSize
           aligned == RoundedUp(NextPage(p))
           d       == aligned - Offset(p)
           next    == (s * EntrySize + d) \div EntrySize
<1>1. /\ EntrySize \in Nat \ {0} /\ PageSize \in Nat \ {0} /\ EntrySize <= PageSize
      /\ EntriesPerSector \in Nat \ {0}
  BY Layout
<1>2. p \in Nat /\ s \in 0 .. EntriesPerSector - 1 /\ s \in Nat
  BY Place, <1>1
<1>3. m \in 0 .. PageSize - 1 /\ m > PageSize - EntrySize
  BY Place, <1>1, Division DEF Crosses
<1>4. NextPage(p) \in Nat /\ NextPage(p) - Offset(p) \in 1 .. EntrySize - 1
  BY <1>1, <1>3, Place DEF NextPage
<1>5. aligned \in Nat /\ aligned - NextPage(p) \in 0 .. EntrySize - 1
  <2>1. NextPage(p) % EntrySize \in 0 .. EntrySize - 1
    BY <1>1, <1>4, Division
  <2> QED BY <1>1, <1>4, <2>1 DEF RoundedUp
<1>6. d \in Nat /\ d < 2 * EntrySize
  BY <1>1, <1>4, <1>5, Place
<1>7. aligned - SectorStart(p) = s * EntrySize + d
  <2>1. Offset(p) = SectorStart(p) + s * EntrySize /\ SectorStart(p) \in Nat
        /\ s * EntrySize \in Nat
    BY Place
  <2> HIDE DEF aligned, s
  <2> QED BY <1>5, <2>1
<1>8. next <= s + 1
  BY <1>1, <1>2, <1>6, NextQuotient
<1>9. next \in Nat
  <2>1. s * EntrySize + d \in Nat
    BY <1>6, Place
  <2> QED BY <1>1, <2>1, Division
<1>10. NextSlot(p) = IF next > s + 1 THEN next ELSE s + 1
  BY <1>7 DEF NextSlot
<1> HIDE DEF next
<1>11. NextSlot(p) = s + 1
  BY <1>2, <1>8, <1>9, <1>10
<1> QED BY <1>1, <1>2, <1>11 DEF Skip
--------------------------------------------------------------------------------
\* Runs of erased slots.

\* The slots from q on and before p that cross no page.
Run(q, p) == {r \in q .. p - 1 : ~Crosses(r)}

\* They are all erased.
Erased(f, q, p) == \A r \in q .. p - 1 : Crosses(r) \/ f[r] = "erased"

LEMMA RunIsFinite ==
    ASSUME NEW q \in Nat, NEW p \in Nat
    PROVE  IsFiniteSet(Run(q, p)) /\ Cardinality(Run(q, p)) \in Nat
<1>1. IsFiniteSet(q .. p - 1)
  BY FS_Interval
<1>2. Run(q, p) \subseteq q .. p - 1
  BY DEF Run
<1> QED BY <1>1, <1>2, FS_Subset, FS_CardinalityType

LEMMA EmptyRun ==
    ASSUME NEW f, NEW p \in Nat
    PROVE  Cardinality(Run(p, p)) = 0 /\ Erased(f, p, p)
<1>1. Run(p, p) = {}
  BY DEF Run
<1> QED BY <1>1, FS_EmptySet DEF Erased

\* A slot more.
LEMMA LongerRun ==
    ASSUME NEW f, NEW p \in Nat, NEW q \in 0 .. p
    PROVE  /\ Cardinality(Run(q, p + 1)) =
                IF Crosses(p) THEN Cardinality(Run(q, p)) ELSE Cardinality(Run(q, p)) + 1
           /\ Erased(f, q, p + 1) <=> Erased(f, q, p) /\ (Crosses(p) \/ f[p] = "erased")
<1>1. q .. (p + 1) - 1 = (q .. p - 1) \union {p} /\ p \notin q .. p - 1
  OBVIOUS
<1>2. CASE Crosses(p)
  <2>1. Run(q, p + 1) = Run(q, p)
    BY <1>1, <1>2 DEF Run
  <2> QED BY <1>1, <1>2, <2>1 DEF Erased
<1>3. CASE ~Crosses(p)
  <2>1. Run(q, p + 1) = Run(q, p) \union {p} /\ p \notin Run(q, p)
    BY <1>1, <1>3 DEF Run
  <2>2. Cardinality(Run(q, p + 1)) = Cardinality(Run(q, p)) + 1
    <3>1. IsFiniteSet(Run(q, p))
      BY RunIsFinite
    <3> QED BY <2>1, <3>1, FS_AddElement
  <2> QED BY <1>1, <1>3, <2>2 DEF Erased
<1> QED BY <1>2, <1>3

\* The end of the log in these words.
LEMMA EndsAtRun ==
    ASSUME NEW f, NEW p \in Nat
    PROVE  Ends(f, p) <=>
              ~Crosses(p) /\ \E q \in 0 .. p : /\ Began(f, q) /\ Erased(f, q, p + 1)
                                             /\ Cardinality(Run(q, p + 1)) = EmptyRunEnd
<1>1. \A q \in 0 .. p : q .. (p + 1) - 1 = q .. p
  OBVIOUS
<1> QED BY <1>1 DEF Ends, Erased, Run

\* One slot further.
LEMMA BeganNext ==
    ASSUME NEW f, NEW p \in Slots
    PROVE  Began(f, p + 1) <=> Began(f, p) \/ Starts(f[p])
<1>1. \A q \in Slots : q < p + 1 <=> q < p \/ q = p
  BY Layout DEF Slots
<1> QED BY <1>1 DEF Began

LEMMA EndedNext ==
    ASSUME NEW f, NEW p \in Slots
    PROVE  Ended(f, p + 1) <=> Ended(f, p) \/ Ends(f, p)
<1>1. \A e \in Slots : e < p + 1 <=> e < p \/ e = p
  BY Layout DEF Slots
<1> QED BY <1>1 DEF Ended

LEMMA BeganBefore ==
    ASSUME NEW f, NEW p \in Nat, NEW q \in 0 .. p, Began(f, q)
    PROVE  Began(f, p)
BY Layout DEF Began, Slots

--------------------------------------------------------------------------------
\* The decoder's flags.

\* em erased slots are the longest run before p since a start.
Counted(f, p, em) ==
    /\ \E q \in 0 .. p : Began(f, q) /\ Erased(f, q, p) /\ Cardinality(Run(q, p)) = em
    /\ \A q \in 0 .. p : Began(f, q) /\ Erased(f, q, p) => Cardinality(Run(q, p)) <= em

\* At slot p the decoder has been right to go on, with fd and em for found_first
\* and empty_run.
Tracks(f, p, fd, em) ==
    /\ fd <=> Began(f, p)
    /\ ~Ended(f, p)
    /\ em < EmptyRunEnd
    /\ fd => Counted(f, p, em)

LEMMA PaddingTracked ==
    ASSUME NEW f, NEW p \in Slots, NEW em \in Nat, Tracks(f, p, TRUE, em), Crosses(p)
    PROVE  Tracks(f, p + 1, TRUE, em)
<1>1. p \in Nat /\ p + 1 \in Nat
  BY Layout DEF Slots
<1>2. Began(f, p) /\ Began(f, p + 1)
  BY BeganNext DEF Tracks
<1>3. ~Ended(f, p + 1)
  BY EndedNext DEF Tracks, Ends
<1>4. \A q \in 0 .. p : /\ Cardinality(Run(q, p + 1)) = Cardinality(Run(q, p))
                        /\ Erased(f, q, p + 1) <=> Erased(f, q, p)
  BY <1>1, LongerRun
<1>5. \A q \in 0 .. p + 1 : q \in 0 .. p \/ q = p + 1
  BY <1>1
<1>6. Cardinality(Run(p + 1, p + 1)) = 0
  BY <1>1, EmptyRun
<1>7. Counted(f, p, em)
  BY DEF Tracks
<1>8. Counted(f, p + 1, em)
  <2>1. PICK q \in 0 .. p : Began(f, q) /\ Erased(f, q, p) /\ Cardinality(Run(q, p)) = em
    BY <1>7 DEF Counted
  <2>2. q \in 0 .. p + 1
    BY <1>1
  <2>3. \A o \in 0 .. p + 1 :
           Began(f, o) /\ Erased(f, o, p + 1) => Cardinality(Run(o, p + 1)) <= em
    BY <1>4, <1>5, <1>6, <1>7 DEF Counted
  <2> QED BY <1>4, <2>1, <2>2, <2>3 DEF Counted
<1> QED BY <1>2, <1>3, <1>8 DEF Tracks

\* An erased slot before any start.
LEMMA EmptyTracked ==
    ASSUME NEW f, NEW p \in Slots, NEW em \in Nat, Tracks(f, p, FALSE, em), ~Starts(f[p])
    PROVE  Tracks(f, p + 1, FALSE, em)
<1>1. p \in Nat
  BY Layout DEF Slots
<1>2. ~Began(f, p) /\ ~Began(f, p + 1)
  BY BeganNext DEF Tracks
<1>3. ~Ends(f, p)
  BY <1>1, <1>2, BeganBefore DEF Ends
<1> QED BY <1>2, <1>3, EndedNext DEF Tracks

\* An erased slot after a start: one more, which may be the last.
LEMMA ErasedTracked ==
    ASSUME NEW f, NEW p \in Slots, NEW em \in Nat, Tracks(f, p, TRUE, em),
           ~Crosses(p), f[p] = "erased"
    PROVE  /\ em + 1 >= EmptyRunEnd => Ends(f, p)
           /\ em + 1 < EmptyRunEnd => Tracks(f, p + 1, TRUE, em + 1)
<1>1. p \in Nat /\ p + 1 \in Nat /\ EmptyRunEnd \in Nat
  BY Layout DEF Slots
<1>2. Began(f, p) /\ Began(f, p + 1)
  BY BeganNext DEF Tracks
<1>3. \A q \in 0 .. p : /\ Cardinality(Run(q, p + 1)) = Cardinality(Run(q, p)) + 1
                        /\ Erased(f, q, p + 1) <=> Erased(f, q, p)
                        /\ Cardinality(Run(q, p)) \in Nat
  <2>1. ASSUME NEW q \in 0 .. p PROVE Cardinality(Run(q, p)) \in Nat
    <3>1. q \in Nat
      BY <1>1
    <3> QED BY <1>1, <3>1, RunIsFinite
  <2> QED BY <1>1, <2>1, LongerRun
<1>4. PICK q \in 0 .. p : Began(f, q) /\ Erased(f, q, p) /\ Cardinality(Run(q, p)) = em
  BY DEF Tracks, Counted
<1>5. \A o \in 0 .. p : Began(f, o) /\ Erased(f, o, p) => Cardinality(Run(o, p)) <= em
  BY DEF Tracks, Counted
<1>6. em < EmptyRunEnd
  BY DEF Tracks
<1>7. ASSUME em + 1 >= EmptyRunEnd PROVE Ends(f, p)
  <2>1. Cardinality(Run(q, p + 1)) = EmptyRunEnd
    BY <1>1, <1>3, <1>4, <1>6, <1>7
  <2> QED BY <1>1, <1>3, <1>4, <1>7, <2>1, EndsAtRun
<1>8. ASSUME em + 1 < EmptyRunEnd PROVE Tracks(f, p + 1, TRUE, em + 1)
  <2>1. \A o \in 0 .. p : Began(f, o) /\ Erased(f, o, p + 1) =>
                              Cardinality(Run(o, p + 1)) <= em + 1
    BY <1>3, <1>5
  <2>2. ~Ends(f, p)
    <3>1. \A o \in 0 .. p : Began(f, o) /\ Erased(f, o, p + 1) =>
                                Cardinality(Run(o, p + 1)) # EmptyRunEnd
      BY <1>1, <1>3, <1>8, <2>1
    <3> QED BY <1>1, <3>1, EndsAtRun
  <2>3. Counted(f, p + 1, em + 1)
    <3>1. q \in 0 .. p + 1 /\ Erased(f, q, p + 1) /\ Cardinality(Run(q, p + 1)) = em + 1
      BY <1>1, <1>3, <1>4
    <3>2. Cardinality(Run(p + 1, p + 1)) <= em + 1
      BY <1>1, EmptyRun
    <3>3. \A o \in 0 .. p + 1 : o \in 0 .. p \/ o = p + 1
      BY <1>1
    <3> QED BY <1>4, <2>1, <3>1, <3>2, <3>3 DEF Counted
  <2> QED BY <1>2, <1>8, <2>2, <2>3, EndedNext DEF Tracks
<1> QED BY <1>7, <1>8

\* Any other record.
LEMMA OtherTracked ==
    ASSUME NEW f, Padded(f), NEW p \in Slots, NEW fd \in BOOLEAN, NEW em,
           Tracks(f, p, fd, em), fd => ~Crosses(p), f[p] # "erased"
    PROVE  Tracks(f, p + 1, fd \/ Starts(f[p]), 0) /\ ~Ends(f, p)
<1>1. p \in Nat /\ p + 1 \in Nat
  BY Layout DEF Slots
<1>2. fd \/ Starts(f[p]) <=> Began(f, p + 1)
  BY BeganNext DEF Tracks
<1>3. ~Ends(f, p)
  <2>1. SUFFICES ASSUME ~Crosses(p), NEW q \in 0 .. p, Erased(f, q, p + 1) PROVE FALSE
    BY <1>1, EndsAtRun
  <2> QED BY <1>1, <2>1, LongerRun
<1>4. ASSUME fd \/ Starts(f[p]) PROVE Counted(f, p + 1, 0)
  <2>1. ~Crosses(p)
    BY <1>4 DEF Padded
  <2>2. \A q \in 0 .. p : ~Erased(f, q, p + 1)
    BY <1>1, <2>1, LongerRun
  <2>3. Cardinality(Run(p + 1, p + 1)) = 0 /\ Erased(f, p + 1, p + 1)
    BY <1>1, EmptyRun
  <2>4. \A q \in 0 .. p + 1 : q \in 0 .. p \/ q = p + 1
    BY <1>1
  <2>5. p + 1 \in 0 .. p + 1
    BY <1>1
  <2> QED BY <1>2, <1>4, <2>2, <2>3, <2>4, <2>5 DEF Counted
<1> QED BY <1>2, <1>3, <1>4, EndedNext, Layout DEF Tracks

\* What is written of the log before the next slot.
Before(f, p) == {r \in Log(f) : r < p}

LEMMA BeforeNext ==
    ASSUME NEW f, NEW p \in Slots
    PROVE  Before(f, p + 1) = IF p \in Log(f) THEN Before(f, p) \union {p} ELSE Before(f, p)
<1>1. \A r \in Slots : r < p + 1 <=> r < p \/ r = p
  BY Layout DEF Slots
<1> QED BY <1>1 DEF Before, Log

LEMMA LogEnds ==
    ASSUME NEW f, NEW p \in Slots, Ends(f, p), f[p] = "erased"
    PROVE  Before(f, NumSlots) = Before(f, p)
<1>1. \A r \in Log(f) : r \in Slots /\ ~Ended(f, r) /\ f[r] = "sample"
  BY DEF Log
<1>2. \A r \in Slots : r > p => Ended(f, r)
  BY DEF Ended
<1>3. \A r \in Slots : r < NumSlots /\ (r < p \/ r = p \/ r > p)
  BY Layout DEF Slots
<1> QED BY <1>1, <1>2, <1>3 DEF Before

--------------------------------------------------------------------------------
\* The inductive invariant.

WalkOK ==
    /\ at \in 0 .. NumSlots /\ found \in BOOLEAN /\ empty \in Nat
    /\ job.kind = "log" => /\ written = Before(flash, at)
                           /\ at < NumSlots => Tracks(flash, at, found, empty)
    /\ job.kind # "log" => written = {p \in Slots : p < at}

\* Whose the temporary name is, and what the disk has, at each stage.
FileOK ==
    /\ stage \in Stages /\ exit \in Exits
    /\ stage # "over" => exit = "none"
    /\ stage \in {"flush", "sync", "rename"} => at = NumSlots
    /\ stage = "create" => taken = stale /\ dest = "old"
    /\ stage \in {"write", "flush", "sync", "rename"} =>
           name \notin stale /\ taken = stale \union {name} /\ dest = "old"
    /\ stage = "rename" => synced
    /\ stage = "directory" => dest = "new"
    /\ dest \in {"old", "new"} /\ durable \in {"old", "new"}
    /\ dest = "new" => synced /\ at = NumSlots /\ stage \in {"directory", "over"}
    /\ durable = "new" => dest = "new"
    /\ exit = "ok" /\ SyncsDirectory => durable = "new"
    /\ exit \in {"failed", "interrupted"} => dest = "old" /\ (littered \/ taken = stale)

Inductive == Padded(flash) /\ WalkOK /\ FileOK

LEMMA InductiveInit == ExportInit => Inductive
<1> SUFFICES ASSUME ExportInit PROVE Inductive
  OBVIOUS
<1>1. Padded(flash)
  BY ExportAssumption DEF ExportInit
<1>2. 0 \in 0 .. NumSlots /\ EmptyRunEnd \in Nat \ {0}
  BY Layout
<1>3. Before(flash, 0) = {} /\ {p \in Slots : p < 0} = {}
  BY Layout DEF Before, Log, Slots
<1>4. Tracks(flash, 0, FALSE, 0)
  BY <1>2, Layout DEF Tracks, Began, Ended, Slots
<1>5. WalkOK
  BY <1>2, <1>3, <1>4 DEF WalkOK, ExportInit
<1>6. FileOK
  BY <1>2 DEF FileOK, ExportInit, Stages, Exits
<1> QED BY <1>1, <1>5, <1>6 DEF Inductive

LEMMA WalkStep ==
    ASSUME Padded(flash), WalkOK, Decode \/ WriteBytes
    PROVE  WalkOK'
<1>1. NumSlots \in Nat
  BY Layout
<1>2. flash' = flash /\ job' = job
  BY DEF Decode, SkipPadding, SeeErased, SeeOther, SeeSample, WriteBytes, Undisturbed
<1>3. ASSUME Decode PROVE WalkOK'
  <2>1. Decoding /\ at \in Slots /\ at + 1 \in 0 .. NumSlots /\ job.kind = "log"
    BY <1>1, <1>3 DEF Decode, SkipPadding, SeeErased, SeeOther, SeeSample, Decoding,
                      WalkOK, Slots
  <2>2. Tracks(flash, at, found, empty) /\ written = Before(flash, at)
        /\ found \in BOOLEAN /\ empty \in Nat
    BY <2>1 DEF WalkOK, Decoding
  <2>3. Before(flash, at + 1) = IF at \in Log(flash) THEN Before(flash, at) \union {at}
                                ELSE Before(flash, at)
    BY <2>1, BeforeNext
  <2>4. CASE SkipPadding
    <3>1. found = TRUE /\ Crosses(at) /\ UNCHANGED <<found, empty, written>>
      BY <2>2, <2>4 DEF SkipPadding, Examined
    <3>2. at' = at + 1
      BY <2>1, <2>4, <3>1, SkipIsNextSlot DEF SkipPadding
    <3>3. Tracks(flash, at + 1, TRUE, empty)
      BY <2>1, <2>2, <3>1, PaddingTracked
    <3>4. at \notin Log(flash)
      BY <3>1 DEF Log
    <3> QED BY <1>2, <2>1, <2>2, <2>3, <3>1, <3>2, <3>3, <3>4 DEF WalkOK
  <2>5. CASE SeeErased
    <3>1. /\ ~(found /\ Crosses(at)) /\ flash[at] = "erased"
          /\ UNCHANGED <<found, written>>
          /\ empty' = IF found THEN empty + 1 ELSE empty
          /\ at' = IF found /\ empty' >= EmptyRunEnd THEN NumSlots ELSE at + 1
      BY <2>5 DEF SeeErased, Examined
    <3>2. at \notin Log(flash)
      BY <3>1 DEF Log
    <3>3. CASE found = FALSE
      <4>1. Tracks(flash, at + 1, FALSE, empty)
        BY <2>1, <2>2, <3>1, <3>3, EmptyTracked DEF Starts
      <4>2. at' = at + 1 /\ empty' = empty
        BY <3>1, <3>3
      <4> QED BY <1>2, <2>1, <2>2, <2>3, <3>1, <3>2, <3>3, <4>1, <4>2 DEF WalkOK
    <3>4. CASE found = TRUE
      <4>1. /\ empty + 1 >= EmptyRunEnd => Ends(flash, at)
            /\ empty + 1 < EmptyRunEnd => Tracks(flash, at + 1, TRUE, empty + 1)
        BY <2>1, <2>2, <3>1, <3>4, ErasedTracked
      <4>2. empty' = empty + 1 /\ empty' \in Nat /\ found' = TRUE /\ EmptyRunEnd \in Nat
        BY <2>2, <3>1, <3>4, Layout
      <4>3. CASE empty + 1 >= EmptyRunEnd
        <5>1. at' = NumSlots
          BY <3>1, <3>4, <4>2, <4>3
        <5>2. written' = Before(flash, NumSlots)
          BY <2>1, <2>2, <3>1, <4>1, <4>3, LogEnds
        <5>3. at' \in 0 .. NumSlots /\ ~(at' < NumSlots) /\ found' \in BOOLEAN
          BY <1>1, <4>2, <5>1
        <5>4. written' = Before(flash', at')
          BY <1>2, <5>1, <5>2
        <5> QED BY <1>2, <2>1, <4>2, <5>3, <5>4 DEF WalkOK
      <4>4. CASE empty + 1 < EmptyRunEnd
        <5>1. at' = at + 1
          BY <2>2, <3>1, <3>4, <4>2, <4>4
        <5> QED BY <1>2, <2>1, <2>2, <2>3, <3>1, <3>2, <4>1, <4>2, <4>4, <5>1 DEF WalkOK
      <4> QED BY <2>2, <4>2, <4>3, <4>4
    <3> QED BY <2>2, <3>3, <3>4
  <2>6. CASE SeeOther
    <3>1. /\ ~(found /\ Crosses(at)) /\ flash[at] \notin {"erased", "sample"}
          /\ empty' = 0 /\ found' = (found \/ Starts(flash[at])) /\ at' = at + 1
          /\ written' = written
      BY <2>6 DEF SeeOther, Examined
    <3>2. Tracks(flash, at + 1, found \/ Starts(flash[at]), 0)
      BY <2>1, <2>2, <3>1, OtherTracked
    <3>3. at \notin Log(flash)
      BY <3>1 DEF Log
    <3>4. found' \in BOOLEAN
      BY <3>1
    <3> QED BY <1>2, <2>1, <2>2, <2>3, <3>1, <3>2, <3>3, <3>4 DEF WalkOK
  <2>7. CASE SeeSample
    <3>1. /\ ~(found /\ Crosses(at)) /\ flash[at] = "sample" /\ Starts(flash[at])
          /\ empty' = 0 /\ found' = TRUE /\ at' = at + 1 /\ written' = written \union {at}
      BY <2>7 DEF SeeSample, Examined, Starts
    <3>2. Tracks(flash, at + 1, found \/ Starts(flash[at]), 0) /\ ~Ended(flash, at)
      BY <2>1, <2>2, <3>1, OtherTracked DEF Tracks
    <3>3. (found \/ Starts(flash[at])) = TRUE
      BY <3>1
    <3>4. at \in Log(flash)
      BY <2>1, <3>1, <3>2 DEF Log, Padded
    <3> QED BY <1>2, <2>1, <2>2, <2>3, <3>1, <3>2, <3>3, <3>4 DEF WalkOK
  <2> QED BY <1>3, <2>4, <2>5, <2>6, <2>7 DEF Decode
<1>4. ASSUME WriteBytes PROVE WalkOK'
  <2>1. /\ job.kind # "log" /\ at \in 0 .. NumSlots /\ at < NumSlots
        /\ written = {p \in Slots : p < at}
        /\ at' = IF Cancels THEN at + 1 ELSE NumSlots
        /\ written' = written \union {p \in Slots : at <= p /\ p < at'}
        /\ UNCHANGED <<found, empty>>
    BY <1>4 DEF WriteBytes, WalkOK
  <2>2. at' \in 0 .. NumSlots /\ at <= at'
    BY <1>1, <2>1
  <2>3. written' = {p \in Slots : p < at'}
    BY <1>1, <2>1, <2>2 DEF Slots
  <2> QED BY <1>2, <2>1, <2>2, <2>3 DEF WalkOK
<1> QED BY <1>3, <1>4

LEMMA InductiveStep ==
    ASSUME Inductive, [ExportNext]_export
    PROVE  Inductive'
<1> USE DEF Inductive
<1>1. CASE UNCHANGED export
  BY <1>1 DEF export, walk, disk, WalkOK, FileOK, SyncsDirectory
<1>2. CASE Decode \/ WriteBytes
  <2>1. UNCHANGED <<job, flash, stale, taken, stage, name, exit, disk, littered>>
        /\ stage = "write"
    BY <1>2 DEF Decode, SkipPadding, SeeErased, SeeOther, SeeSample, WriteBytes,
                Undisturbed, Decoding
  <2>2. FileOK'
    BY <2>1 DEF FileOK, disk, SyncsDirectory
  <2> QED BY <1>2, <2>1, <2>2, WalkStep
<1>3. CASE Create \/ EndDocument \/ Interrupted \/ Commit \/ Fail \/ Signal \/ Kill
           \/ LosePower
  <2>1. UNCHANGED <<job, flash, stale, walk>>
    BY <1>3 DEF Create, EndDocument, Interrupted, Commit, Flush, Sync, Rename, SyncDirectory,
                Fail, Signal, Kill, LosePower, Abort
  <2>2. Padded(flash)' /\ WalkOK'
    BY <2>1 DEF WalkOK, walk
  <2> USE DEF FileOK, Stages, Exits, SyncsDirectory, disk, walk, Exit
  <2>3. ASSUME Create PROVE FileOK'
    BY <2>1, <2>3 DEF Create
  <2>4. ASSUME EndDocument PROVE FileOK'
    BY <2>1, <2>4 DEF EndDocument
  <2>5. ASSUME Interrupted \/ Fail PROVE FileOK'
    <3>1. /\ stage \in {"write", "flush", "sync", "rename"}
          /\ Abort("interrupted") \/ Abort("failed")
      BY <2>5 DEF Interrupted, Fail, Writing, Decoding
    <3> QED BY <2>1, <3>1 DEF Abort
  <2>6. ASSUME Commit PROVE FileOK'
    BY <2>1, <2>6 DEF Commit, Flush, Sync, Rename, SyncDirectory
  <2>7. ASSUME Signal \/ Kill PROVE FileOK'
    BY <2>1, <2>7 DEF Signal, Kill
  <2>8. ASSUME LosePower PROVE FileOK'
    BY <2>1, <2>8 DEF LosePower
  <2> QED BY <1>3, <2>2, <2>3, <2>4, <2>5, <2>6, <2>7, <2>8
<1> QED BY <1>1, <1>2, <1>3 DEF ExportNext

\* The invariant holds in every reachable state.
LEMMA AlwaysInductive == ExportSpec => []Inductive
BY InductiveInit, InductiveStep, PTL DEF ExportSpec

LEMMA WholeDocument == WalkOK /\ at = NumSlots => written = Document
<1> SUFFICES ASSUME WalkOK, at = NumSlots PROVE written = Document
  OBVIOUS
<1>1. \A p \in Slots : p < NumSlots
  BY Layout DEF Slots
<1>2. Before(flash, NumSlots) = Log(flash)
  BY <1>1 DEF Before, Log
<1> QED BY <1>1, <1>2 DEF WalkOK, Document

--------------------------------------------------------------------------------
\* What follows from it.

\* Whatever the flash holds, what is written is its log, for every layout of
\* sectors, pages and entries and every length of the run that ends it
\* (history.rs:95-175).
THEOREM TheLogIsDecoded == ExportSpec => []DecodesTheLog
<1>1. Inductive => DecodesTheLog
  <2>1. FileOK /\ stage \in {"flush", "sync", "rename", "directory"} => at = NumSlots
    BY DEF FileOK
  <2> QED BY <2>1, WholeDocument DEF Inductive, DecodesTheLog
<1> QED BY <1>1, AlwaysInductive, PTL

\* No failure, kill or loss of power leaves a part of a file at the destination
\* (wireview.rs:410-483, export.rs:150-227).
THEOREM TheDestinationIsWhole == ExportSpec => []DestinationIsWhole
<1>1. Inductive => DestinationIsWhole
  BY WholeDocument DEF Inductive, FileOK, DestinationIsWhole
<1> QED BY <1>1, AlwaysInductive, PTL

\* A run that fails changes nothing (wireview.rs:477-483).
THEOREM AFailureChangesNothing == ExportSpec => []FailureChangesNothing
<1>1. Inductive => FailureChangesNothing
  BY DEF Inductive, FileOK, FailureChangesNothing
<1> QED BY <1>1, AlwaysInductive, PTL

\* What the command line reports as written stays (wireview.rs:458-475).
THEOREM ASuccessIsDurable == ExportSpec => []SuccessIsDurable
<1>1. Inductive => SuccessIsDurable
  BY DEF Inductive, FileOK, SuccessIsDurable
<1> QED BY <1>1, AlwaysInductive, PTL
================================================================================
