----------------------------- MODULE MCMainWindow -----------------------------
\* Values of MainWindow's constants for TLC.
EXTENDS MainWindow, TLC

MCWindowTicks == [v \in Views \union {"overview"} |-> IF v = "short" THEN 1 ELSE 3]

SymmetricSlots == Permutations(ThemeSlots)
================================================================================
