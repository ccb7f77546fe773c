------------------------------ MODULE MCManager ------------------------------
\* Values of Manager's constants for TLC.
EXTENDS Manager, TLC

\* 250 ms, doubled per attempt, at most 30 s, in ticks of one second.
MCRetryDelay == [n \in Attempts |->
    LET ms == Min2(250 * 2^(n - 1), 30000) IN (ms + 999) \div 1000]

OneInterval  == {1}
TwoIntervals == {1, 2}
ShortPause   == {1}

SymmetricPorts == Permutations(Ports)
================================================================================
