---------------------------- MODULE IndexManager ----------------------------
(***************************************************************************)
(* IndexManager of include/xdl/index.h: row id -> IndexEntry, kept in a    *)
(* sorted portion, a write buffer that is merged into it when it is full,  *)
(* a set of the buffered ids, and a reverse map from pages to ids.         *)
(*                                                                         *)
(* The two vectors are modelled as sets of pairs: nothing the class        *)
(* answers depends on the order of buf_, and entries_ is only searched by  *)
(* key.  A set of pairs, unlike a function, can hold an id twice, which is *)
(* what the duplicate checks have to prevent.                              *)
(***************************************************************************)
EXTENDS Naturals, FiniteSets

CONSTANTS
    Ids, Pages, Offsets, Slots, NoEntry,
    MERGE_THRESHOLD     \* buffered entries at which an insert merges first

VARIABLES
    entries,    \* entries_: the sorted portion
    buf,        \* buf_: the write buffer
    bufIds,     \* buf_ids_: the ids in the write buffer
    prepared,   \* prepared_: lookups consult the sorted portion
    pageToIds,  \* page_to_ids_; a page with no key in the map has no ids
    ret         \* result of the last call

repr == <<entries, buf, bufIds, prepared, pageToIds>>
vars == <<entries, buf, bufIds, prepared, pageToIds, ret>>

ASSUME ThresholdAssumption == MERGE_THRESHOLD \in Nat \ {0}

Entry == [page : Pages, off : Offsets, slot : Slots]
Pair == [id : Ids, entry : Entry]

ASSUME NoEntryAssumption == NoEntry \notin Entry

\* The pairs of S with key id, and the keys and the pairs on page pg of S.
At(S, id) == {p \in S : p.id = id}
IdsIn(S) == {p.id : p \in S}
IdsOn(S, pg) == {id \in Ids : \E p \in S : p.id = id /\ p.entry.page = pg}

Result(ok, entry) == [ok |-> ok, entry |-> entry]

\* What lower_bound finds: the sorted portion is searched only once prepared_ is set.
InSorted(id) == IF prepared THEN At(entries, id) ELSE {}

\* The pair of S with key id, which the code reaches through an iterator.
The(S, id) == CHOOSE p \in At(S, id) : TRUE

find(id) ==
    IF InSorted(id) # {} THEN The(entries, id).entry
    ELSE IF id \in bufIds /\ At(buf, id) # {} THEN The(buf, id).entry
    ELSE NoEntry

----------------------------------------------------------------------------
Init ==
    /\ entries = {} /\ buf = {} /\ bufIds = {}
    /\ prepared = FALSE
    /\ pageToIds = [pg \in Pages |-> {}]
    /\ ret = Result(TRUE, NoEntry)

\* insert(): the merge of a full buffer comes before the duplicate checks, so it
\* happens even when the insert is then refused.
NeedsMerge == prepared /\ Cardinality(buf) >= MERGE_THRESHOLD

\* Mutant: the merge forgets buf_ids_.clear().
merge_KeepsBufIds == [e |-> entries \cup buf, b |-> {}, ids |-> bufIds]
\* Mutant: the merge replaces the sorted portion by the buffer.
merge_DropsSorted == [e |-> IF buf = {} THEN entries ELSE buf, b |-> {}, ids |-> {}]

\* The sorted portion, the buffer and the buffered ids after merge().
merge == [e |-> entries \cup buf, b |-> {}, ids |-> IF buf = {} THEN bufIds ELSE {}]

\* Mutant: the duplicate check does not look into the write buffer.
insert_SkipsBuffer(id, e) ==
    LET m == IF NeedsMerge THEN merge ELSE [e |-> entries, b |-> buf, ids |-> bufIds]
        dup == prepared /\ At(m.e, id) # {}
    IN  /\ entries' = m.e
        /\ buf' = IF dup THEN m.b ELSE m.b \cup {[id |-> id, entry |-> e]}
        /\ bufIds' = IF dup THEN m.ids ELSE m.ids \cup {id}
        /\ pageToIds' = IF dup THEN pageToIds
                        ELSE [pageToIds EXCEPT ![e.page] = @ \cup {id}]
        /\ ret' = Result(~dup, NoEntry)
        /\ UNCHANGED prepared

insert(id, e) ==
    LET m == IF NeedsMerge THEN merge ELSE [e |-> entries, b |-> buf, ids |-> bufIds]
        dup == \/ prepared /\ At(m.e, id) # {}
               \/ id \in m.ids
    IN  /\ entries' = m.e
        /\ buf' = IF dup THEN m.b ELSE m.b \cup {[id |-> id, entry |-> e]}
        /\ bufIds' = IF dup THEN m.ids ELSE m.ids \cup {id}
        /\ pageToIds' = IF dup THEN pageToIds
                        ELSE [pageToIds EXCEPT ![e.page] = @ \cup {id}]
        /\ ret' = Result(~dup, NoEntry)
        /\ UNCHANGED prepared

lookup(id) ==
    /\ ret' = Result(find(id) # NoEntry, find(id))
    /\ UNCHANGED repr

\* Mutant: remove() of a buffered id leaves it in page_to_ids_.
remove_LeavesReverse(id) ==
    \/ /\ InSorted(id) # {}
       /\ entries' = entries \ {The(entries, id)}
       /\ pageToIds' = [pageToIds EXCEPT ![The(entries, id).entry.page] = @ \ {id}]
       /\ ret' = Result(TRUE, NoEntry)
       /\ UNCHANGED <<buf, bufIds, prepared>>
    \/ /\ InSorted(id) = {} /\ At(buf, id) # {}
       /\ buf' = buf \ {The(buf, id)}
       /\ bufIds' = bufIds \ {id}
       /\ ret' = Result(TRUE, NoEntry)
       /\ UNCHANGED <<entries, prepared, pageToIds>>
    \/ /\ InSorted(id) = {} /\ At(buf, id) = {}
       /\ ret' = Result(FALSE, NoEntry)
       /\ UNCHANGED repr

remove(id) ==
    \/ /\ InSorted(id) # {}
       /\ entries' = entries \ {The(entries, id)}
       /\ pageToIds' = [pageToIds EXCEPT ![The(entries, id).entry.page] = @ \ {id}]
       /\ ret' = Result(TRUE, NoEntry)
       /\ UNCHANGED <<buf, bufIds, prepared>>
    \/ /\ InSorted(id) = {} /\ At(buf, id) # {}
       /\ buf' = buf \ {The(buf, id)}
       /\ bufIds' = bufIds \ {id}
       /\ pageToIds' = [pageToIds EXCEPT ![The(buf, id).entry.page] = @ \ {id}]
       /\ ret' = Result(TRUE, NoEntry)
       /\ UNCHANGED <<entries, prepared>>
    \/ /\ InSorted(id) = {} /\ At(buf, id) = {}
       /\ ret' = Result(FALSE, NoEntry)
       /\ UNCHANGED repr

\* Where update_offset / update_slot write: the sorted portion wins over the buffer.
HitsSorted(id) == InSorted(id) # {}

\* update_offsets_for_page(): update_offset() for each id of the reverse map.
update_offsets_for_page(pg, off) ==
    LET set(p) == [p EXCEPT !.entry.off = off]
        hit(p) == p.id \in pageToIds[pg]
    IN  /\ entries' = {IF hit(p) /\ HitsSorted(p.id) THEN set(p) ELSE p : p \in entries}
        /\ buf' = {IF hit(p) /\ ~HitsSorted(p.id) THEN set(p) ELSE p : p \in buf}
        /\ ret' = Result(TRUE, NoEntry)
        /\ UNCHANGED <<bufIds, prepared, pageToIds>>

update_slot(id, s) ==
    LET set(p) == [p EXCEPT !.entry.slot = s]
    IN  /\ entries' = {IF p.id = id /\ HitsSorted(id) THEN set(p) ELSE p : p \in entries}
        /\ buf' = {IF p.id = id /\ ~HitsSorted(id) THEN set(p) ELSE p : p \in buf}
        /\ ret' = Result(TRUE, NoEntry)
        /\ UNCHANGED <<bufIds, prepared, pageToIds>>

prepare ==
    /\ entries' = merge.e /\ buf' = merge.b /\ bufIds' = merge.ids
    /\ prepared' = TRUE
    /\ ret' = Result(TRUE, NoEntry)
    /\ UNCHANGED pageToIds

Next ==
    \/ \E id \in Ids, e \in Entry : insert(id, e)
    \/ \E id \in Ids : lookup(id)
    \/ \E id \in Ids : remove(id)
    \/ \E id \in Ids, s \in Slots : update_slot(id, s)
    \/ \E pg \in Pages, off \in Offsets : update_offsets_for_page(pg, off)
    \/ prepare

Spec == Init /\ [][Next]_vars

----------------------------------------------------------------------------
\* The state is well formed.
TypeOK ==
    /\ entries \in SUBSET Pair /\ buf \in SUBSET Pair
    /\ bufIds \in SUBSET Ids
    /\ prepared \in BOOLEAN
    /\ pageToIds \in [Pages -> SUBSET Ids]
    /\ ret \in [ok : BOOLEAN, entry : Entry \cup {NoEntry}]

\* No id is indexed twice, in the sorted portion, in the write buffer or across
\* the two: insert() checks both, and the checks must see what merge() moved.
UniqueIds ==
    /\ entries \cap buf = {}
    /\ \A p, q \in entries \cup buf : p.id = q.id => p = q

\* buf_ids_ is exactly the set of buffered ids: a stale id would make insert()
\* refuse a key that was removed, a missing one would let a duplicate in.
BufIdsExact == bufIds = IdsIn(buf)

\* page_to_ids_ is exactly the inverse of the index, so that the slot repair of
\* DB::erase and the offset repair of Pager::flush_all reach every row of a page.
ReverseMapExact == \A pg \in Pages : pageToIds[pg] = IdsOn(entries \cup buf, pg)

\* Before prepare() the sorted portion is not searched, so it must be empty.
NothingHidden == ~prepared => entries = {}

IndexInv == TypeOK /\ UniqueIds /\ BufIdsExact /\ ReverseMapExact /\ NothingHidden

\* The map the index stands for.
Table == [id \in Ids |->
            IF At(entries \cup buf, id) # {} THEN The(entries \cup buf, id).entry ELSE NoEntry]

Map == INSTANCE PrimaryIndex WITH table <- Table

\* The class behaves, call by call and result by result, as the abstract map:
\* the buffer, the merges and the reverse map are not observable.
ImplementsMap == Map!Spec
=============================================================================
