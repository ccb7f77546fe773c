------------------------- MODULE MCConfigTransaction -------------------------
\* Values of ConfigTransaction's constants for TLC.
EXTENDS ConfigTransaction, TLC

MCValues   == {0, 1}
MCDefaults == [p \in Parts |-> 0]

SymmetricClients == Permutations(Clients)
================================================================================
