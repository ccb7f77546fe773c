------------------------------ MODULE HistoryLog ------------------------------
(***************************************************************************)
(* The telemetry log in the device's flash as its decoder reads it         *)
(* (crates/wireview-core/src/history.rs): sectors of slots, of which those *)
(* that cross a page hold padding; and, for reference, what the log is.    *)
(*                                                                         *)
(* Slots are numbered through all sectors.  A record is what the decoder   *)
(* tells apart: a measurement, one with implausible voltages, the mark of  *)
(* a start, anything else, or erased flash.                                *)
(***************************************************************************)
EXTENDS Integers, FiniteSets

CONSTANTS
    NumSectors,
    SectorSize,   \* FLASH_SECTOR_SIZE
    PageSize,     \* FLASH_READ_PAGE_SIZE
    EntrySize,    \* ENTRY_SIZE
    EmptyRunEnd   \* EMPTY_RUN_END

ASSUME LayoutAssumption ==
    /\ {NumSectors, SectorSize, PageSize, EntrySize, EmptyRunEnd} \subseteq Nat \ {0}
    /\ EntrySize <= PageSize /\ PageSize <= SectorSize

Records == {"sample", "implausible", "power_on", "other", "erased"}

EntriesPerSector == SectorSize \div EntrySize
NumSlots == NumSectors * EntriesPerSector
Slots == 0 .. NumSlots - 1

SectorStart(p) == (p \div EntriesPerSector) * SectorSize
SlotInSector(p) == p % EntriesPerSector
Offset(p) == SectorStart(p) + SlotInSector(p) * EntrySize

Crosses(p) == Offset(p) % PageSize > PageSize - EntrySize

\* Where the decoder goes on after a slot that crosses a page: at the first
\* multiple of the entry size in the next page, counted from the start of the
\* flash, which it turns into a slot of the sector.
NextPage(p) == Offset(p) + PageSize - (Offset(p) % PageSize)

RoundedUp(n) == IF n % EntrySize = 0 THEN n ELSE n + EntrySize - (n % EntrySize)

NextSlot(p) ==
    LET next == (RoundedUp(NextPage(p)) - SectorStart(p)) \div EntrySize
    IN  IF next > SlotInSector(p) + 1 THEN next ELSE SlotInSector(p) + 1

Skip(p) ==
    p - SlotInSector(p)
      + (IF NextSlot(p) < EntriesPerSector THEN NextSlot(p) ELSE EntriesPerSector)

Starts(record) == record \in {"sample", "implausible", "power_on"}

--------------------------------------------------------------------------------
\* The log, by its own definition: the measurements in the slots that cross no
\* page, up to the first EmptyRunEnd erased ones in a row after a start.

Began(flash, p) == \E q \in Slots : q < p /\ Starts(flash[q])

Ends(flash, p) ==
    /\ ~Crosses(p)
    /\ \E q \in 0..p : /\ Began(flash, q)
                       /\ \A r \in q..p : Crosses(r) \/ flash[r] = "erased"
                       /\ Cardinality({r \in q..p : ~Crosses(r)}) = EmptyRunEnd

Ended(flash, p) == \E e \in Slots : e < p /\ Ends(flash, e)

Log(flash) == {p \in Slots : flash[p] = "sample" /\ ~Crosses(p) /\ ~Ended(flash, p)}

\* A flash as the firmware writes it: padding in the slots that cross a page.
Padded(flash) == \A p \in Slots : Crosses(p) => ~Starts(flash[p])
================================================================================
