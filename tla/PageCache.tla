----------------------------- MODULE PageCache -----------------------------
(***************************************************************************)
(* Pages and the LRU page cache in front of the data file, as functions on *)
(* a pager state                                                           *)
(*    p = [disk, offs, lru, cached, cap]                                   *)
(*                                                                         *)
(*   disk    page slot of the data file -> rows last written there         *)
(*   offs    page ids with an entry in Pager::page_offsets_                *)
(*   lru     PageCache::lru_, most recently used first                     *)
(*   cached  resident page -> [rows, dirty]                                *)
(*   cap     PageCache::capacity_                                          *)
(*                                                                         *)
(* A row is [id, val]; the bytes of a row are abstracted to RowSize[val].  *)
(* A page is the sequence of its rows; slots count from 1 and 0 stands for *)
(* the -1 of Page::find_row.                                               *)
(***************************************************************************)
EXTENDS Naturals, Sequences, SequencesExt

CONSTANTS
    MAX_ROWS_PER_PAGE,  \* rows a page may hold
    PAGE_SIZE,          \* bytes a page may hold
    RowSize             \* RowSize[val]: bytes of a row with value val

ASSUME PageAssumption == MAX_ROWS_PER_PAGE \in Nat \ {0} /\ PAGE_SIZE \in Nat \ {0}

----------------------------------------------------------------------------
(* Page *)

\* page.data.size()
PageBytes(rows) ==
    LET sum[i \in 0..Len(rows)] == IF i = 0 THEN 0 ELSE sum[i - 1] + RowSize[rows[i].val]
    IN  sum[Len(rows)]

\* Whether get_or_create_writable_page() may put a row with value val on the page.
HasRoom(rows, val) ==
    /\ Len(rows) < MAX_ROWS_PER_PAGE
    /\ PageBytes(rows) + RowSize[val] <= PAGE_SIZE

find_row(rows, id) == SelectInSeq(rows, LAMBDA r : r.id = id)
append_row(rows, row) == Append(rows, row)
erase_row(rows, slot) == RemoveAt(rows, slot)

----------------------------------------------------------------------------
(* Cache *)

Put(f, k, v) == [x \in DOMAIN f \cup {k} |-> IF x = k THEN v ELSE f[x]]

\* Mutant: a page that is already on disk is not written again.
write_page_to_disk_Once(p, pid) ==
    [p EXCEPT !.disk = IF pid \in p.offs THEN @ ELSE Put(@, pid, p.cached[pid].rows),
              !.offs = @ \cup {pid},
              !.cached[pid].dirty = FALSE]

\* The slot of the page is overwritten and its offset becomes known; the callers
\* (eviction, flush_all) reset the dirty bit.
write_page_to_disk(p, pid) ==
    [p EXCEPT !.disk = Put(@, pid, p.cached[pid].rows),
              !.offs = @ \cup {pid},
              !.cached = Put(@, pid, [rows |-> p.cached[pid].rows, dirty |-> FALSE])]

\* Mutant: the victim is dropped without being written.
evict_lru_Drops(p) ==
    [p EXCEPT !.lru = Front(@),
              !.cached = [x \in DOMAIN @ \ {Last(p.lru)} |-> @[x]]]

\* The least recently used page leaves the cache; on_cache_evict writes it if dirty.
evict_lru(p) ==
    LET victim == Last(p.lru)
        w == IF p.cached[victim].dirty THEN write_page_to_disk(p, victim) ELSE p
    IN  [w EXCEPT !.lru = Front(@),
                  !.cached = [x \in DOMAIN @ \ {victim} |-> @[x]]]

\* put_shared() of a page that is not resident.
put_shared(p, pid, page) ==
    LET q == IF Len(p.lru) >= p.cap THEN evict_lru(p) ELSE p
    IN  [q EXCEPT !.lru = <<pid>> \o @, !.cached = Put(@, pid, page)]

load_from_disk(p, pid) == [rows |-> p.disk[pid], dirty |-> FALSE]

\* lru_.splice(): a resident page becomes the most recently used one.
ToFront(list, pid) == <<pid>> \o RemoveFirst(list, pid)

\* Mutant: a hit adds the page at the front and leaves its old place in the list.
get_page_KeepsPlace(p, pid) ==
    IF pid \in DOMAIN p.cached
    THEN [p EXCEPT !.lru = <<pid>> \o @]
    ELSE put_shared(p, pid, load_from_disk(p, pid))

\* get_page() and get_mutable_page(): a hit moves the page to the front, a miss
\* loads it and may evict another one.
get_page(p, pid) ==
    IF pid \in DOMAIN p.cached
    THEN [p EXCEPT !.lru = ToFront(@, pid)]
    ELSE put_shared(p, pid, load_from_disk(p, pid))

new_page(p, pid) == put_shared(p, pid, [rows |-> <<>>, dirty |-> TRUE])

\* The rows of page pid: the resident copy if there is one, else the one on disk.
RowsOf(p, pid) == IF pid \in DOMAIN p.cached THEN p.cached[pid].rows ELSE p.disk[pid]

\* An in-place change of the rows of a resident page.
SetRows(p, pid, rows) == [p EXCEPT !.cached = Put(@, pid, [rows |-> rows, dirty |-> TRUE])]
=============================================================================
