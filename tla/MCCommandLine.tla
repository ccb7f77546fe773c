---------------------------- MODULE MCCommandLine ----------------------------
\* Small flashes for CommandLine: every one whose slots hold a measurement, a
\* start, something else or nothing, and one with all kinds of records.
EXTENDS CommandLine

AllFlashes ==
    {[p \in Slots |-> IF Crosses(p) THEN padding ELSE f[p]] :
        f \in [{p \in Slots : ~Crosses(p)} -> Records \ {"implausible"}],
        padding \in {"erased", "other"}}

OneFlash ==
    {[p \in Slots |-> CASE p = 0 -> "implausible" [] p \in {3, 8} -> "sample"
                        [] p = 5 -> "power_on" [] p = 1 -> "other" [] OTHER -> "erased"]}
================================================================================
