------------------------------ MODULE ThemeStore ------------------------------
(***************************************************************************)
(* What ReadThemeAsset and WriteThemeAsset promise their callers           *)
(* (docs/varlink.md, docs/usage.md), for a flash that is nothing but its   *)
(* contents: calls are served one at a time and in their order; a write    *)
(* disturbs only what is around its bitmap, and then says that it is done, *)
(* that nothing is changed, or that it does not know; a read shows what    *)
(* the flash holds.  ThemeFlash implements it where answers are not late.  *)
(***************************************************************************)
EXTENDS Naturals, Sequences

CONSTANTS
    Cells,      \* of the flash
    Part,       \* slot -> the cells of its bitmap
    Around,     \* slot -> the cells that a write of it may disturb
    Calls,      \* what may be asked for
    Image,      \* the number of a call -> the contents that it writes
    NoCall, NoAnswer

VARIABLES
    waiting,    \* calls that are not begun
    task,       \* the call that is served, NoCall if none
    contents,   \* of the flash
    base,       \* its contents when the last call began
    told        \* the last answer, NoAnswer while a call is served

vars == <<waiting, task, contents, base, told>>

\* Contents f once call c has written its bitmap.
Written(f, c) ==
    [x \in Cells |-> IF x \in Part[c.slot] THEN Image[c.n][x] ELSE f[x]]

\* The answers that say that nothing is changed.  A read fails in no other way,
\* and has nothing to roll back.
Plain  == {"NotConnected", "ConnectionLost", "Transport", "Unsupported"}
Clean  == Plain \union {"FailedAndRolledBack"}
Unsure == {"RollbackFailed", "OperationOutcomeUnknown"}

\* What c is told: its result, and for a read that succeeds the bitmap in f.
Answer(c, result, f) ==
    [call |-> c, result |-> result,
     shown |-> IF c.op = "read" /\ result = "Ok" THEN [x \in Part[c.slot] |-> f[x]] ELSE <<>>]

Init == /\ waiting = <<>> /\ task = NoCall /\ told = NoAnswer
        /\ contents \in [Cells -> Nat] /\ base = contents

Ask == /\ \E c \in Calls : waiting' = Append(waiting, c)
       /\ UNCHANGED <<task, contents, base, told>>

Begin == /\ task = NoCall /\ waiting # <<>> /\ waiting' = Tail(waiting)
         /\ task' = Head(waiting) /\ base' = contents /\ told' = NoAnswer
         /\ UNCHANGED contents

\* Without a device a call is not begun.
Refuse == /\ task = NoCall /\ waiting # <<>> /\ waiting' = Tail(waiting)
          /\ told' = Answer(Head(waiting), "NotConnected", contents) /\ base' = contents
          /\ UNCHANGED <<task, contents>>

\* A write at work: sectors are erased and programmed, well or not.
Disturb == /\ task # NoCall /\ task.op = "write"
           /\ contents' \in [Cells -> Nat]
           /\ \A x \in Cells \ Around[task.slot] : contents'[x] = contents[x]
           /\ UNCHANGED <<waiting, task, base, told>>

\* The call that is served is answered.
End(result) ==
    /\ task # NoCall /\ task' = NoCall
    /\ IF task.op = "read" THEN result \in Plain \union {"Ok"}
       ELSE \/ result = "Ok" /\ contents = Written(base, task)
            \/ result \in Clean /\ contents = base
            \/ result \in Unsure
    /\ told' = Answer(task, result, contents)
    /\ UNCHANGED <<waiting, contents, base>>

Results == Clean \union Unsure \union {"Ok"}

\* The daemon is killed, and its calls end without an answer.
Crash == /\ waiting' = <<>> /\ task' = NoCall /\ told' = NoAnswer
         /\ UNCHANGED <<contents, base>>

Next == Ask \/ Begin \/ Refuse \/ Disturb \/ (\E r \in Results : End(r)) \/ Crash

Spec == Init /\ [][Next]_vars
================================================================================
