---------------------------- MODULE PrimaryIndex ----------------------------
(***************************************************************************)
(* What the primary index of XDL promises to Pager and DB: a partial map   *)
(* from row ids to index entries (include/xdl/index.h, struct IndexEntry). *)
(* There is no write buffer, no sorted portion and no reverse map here;    *)
(* IndexManager implements this specification with all three.              *)
(***************************************************************************)
CONSTANTS
    Ids,        \* row ids
    Pages,      \* page ids
    Offsets,    \* file offsets of a page, the "not on disk yet" one included
    Slots,      \* positions of a row within its page
    NoEntry     \* what a lookup that misses returns (nullptr)

VARIABLES
    table,      \* table[id]: the entry of id, or NoEntry
    ret         \* the result of the last call

Entry == [page : Pages, off : Offsets, slot : Slots]

\* A result: ok is the success (or the Boolean) of the call, entry what find returned.
Result(ok, entry) == [ok |-> ok, entry |-> entry]

Init ==
    /\ table = [id \in Ids |-> NoEntry]
    /\ ret = Result(TRUE, NoEntry)

\* A second insert of an id is refused (DuplicateKeyError).
Insert(id, e) ==
    /\ table' = IF table[id] = NoEntry THEN [table EXCEPT ![id] = e] ELSE table
    /\ ret' = Result(table[id] = NoEntry, NoEntry)

Find(id) ==
    /\ ret' = Result(table[id] # NoEntry, table[id])
    /\ UNCHANGED table

Remove(id) ==
    /\ table' = [table EXCEPT ![id] = NoEntry]
    /\ ret' = Result(table[id] # NoEntry, NoEntry)

\* Every row of page pg, and no other row, gets the offset off.
SetOffsets(pg, off) ==
    /\ table' = [id \in Ids |->
                   IF table[id] # NoEntry /\ table[id].page = pg
                   THEN [table[id] EXCEPT !.off = off] ELSE table[id]]
    /\ ret' = Result(TRUE, NoEntry)

SetSlot(id, s) ==
    /\ table' = IF table[id] # NoEntry
                THEN [table EXCEPT ![id] = [@ EXCEPT !.slot = s]] ELSE table
    /\ ret' = Result(TRUE, NoEntry)

\* prepare() reorganises the representation and is not visible.
Prepare ==
    /\ ret' = Result(TRUE, NoEntry)
    /\ UNCHANGED table

Next ==
    \/ \E id \in Ids : \/ \E e \in Entry : Insert(id, e)
                       \/ Find(id)
                       \/ Remove(id)
                       \/ \E s \in Slots : SetSlot(id, s)
    \/ \E pg \in Pages, off \in Offsets : SetOffsets(pg, off)
    \/ Prepare

Spec == Init /\ [][Next]_<<table, ret>>
=============================================================================
