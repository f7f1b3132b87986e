------------------------------ MODULE MCXdlDB ------------------------------
(* Instances of XdlDB for TLC: the workloads, the sizes and the symmetry.  *)
EXTENDS XdlDB, TLC

CONSTANTS small, big

\* Two kinds of rows: two small ones fill a page by count, a big one by bytes.
MCRowSize == (small :> 1) @@ (big :> 2)

\* Crashes at any point: every call with a cache that never evicts (reads and the
\* secondary index would only reorder the LRU list), and single inserts with every
\* cache operation when the cache holds one page.
CrashModes == {
    [calls |-> Kinds, cap |-> 9, crash |-> TRUE, fail |-> FALSE],
    [calls |-> {"insert", "read", "create_index"}, cap |-> 1, crash |-> TRUE, fail |-> FALSE]}

\* No crash, a cache smaller than the table, every operation.
EvictModes == {
    [calls |-> Kinds \cup {"read", "create_index"}, cap |-> cap, crash |-> FALSE, fail |-> FALSE] :
       cap \in {1, 2}}

\* Writes to the log may fail, and the process may die.
FailModes == {[calls |-> {"insert", "erase", "update"}, cap |-> 9, crash |-> TRUE, fail |-> TRUE]}

\* A dirty page may be evicted while the log records of its rows are still buffered.
SmallCacheModes == {
    [calls |-> {"insert", "update"}, cap |-> 1, crash |-> FALSE, fail |-> FALSE]}

IdSymmetry == Permutations(Ids)
=============================================================================
