----------------------------- MODULE MCReaders -----------------------------
(* Instances of Readers for TLC. *)
EXTENDS Readers

CONSTANTS r1, r2, w     \* threads

\* Two threads that read and one that does the rest.
MCCalls ==
    [t \in {r1, r2, w} |->
       CASE t = r1 -> {"get", "scan"} [] t = r2 -> {"range_scan"} [] t = w -> WriteCalls]
MCMaxCalls == [t \in {r1, r2, w} |-> IF t = w THEN 2 ELSE 1]

Mode(cap, prefer, fail) == [cap |-> cap, prefer |-> prefer, fail |-> fail]

\* Small caches, both lock policies, with and without failing page writes.
MCModes == {Mode(1, "writers", TRUE), Mode(2, "readers", FALSE)}

\* No write fails.
RaceModes == {Mode(1, "readers", FALSE)}
=============================================================================
