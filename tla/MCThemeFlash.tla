----------------------------- MODULE MCThemeFlash -----------------------------
\* Two sectors of two pages.  The second bitmap is in both sectors, and shares a
\* page with each of its neighbours.
EXTENDS ThemeFlash

MCFirst == [s \in Slots |-> CASE s = "orange" -> 0 [] s = "dark" -> 3 [] s = "fan" -> 7]
MCSize == [s \in Slots |-> CASE s = "orange" -> 3 [] s = "dark" -> 4 [] s = "fan" -> 1]
================================================================================
