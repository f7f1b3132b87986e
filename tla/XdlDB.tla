------------------------------- MODULE XdlDB -------------------------------
(***************************************************************************)
(* DB, Pager and the write-ahead log of XDL working together: how a call   *)
(* moves rows between pages, when the log and the pages reach the file     *)
(* system, and what open() makes of the files after the process dies.      *)
(*                                                                         *)
(* A call that takes the write lock runs as the sequence of steps `todo`,  *)
(* so that the process may die between any two of its effects on a file;   *)
(* the steps follow the order of the statements in db.cpp.  Readers are    *)
(* excluded while a writer runs; between calls they only move pages        *)
(* through the cache, in any order (Read).                                 *)
(*                                                                         *)
(* What a dying process leaves is what its write() calls put in the files: *)
(* the WAL's user-space buffer and the whole of the heap are lost.         *)
(***************************************************************************)
EXTENDS Naturals, Sequences, SequencesExt, FiniteSets, FiniteSetsExt, PageCache

CONSTANTS
    Ids, Vals,
    NoVal,              \* not a value
    NoEntry,            \* index miss (nullptr)
    NoCall,             \* no call in progress
    NoIndex,            \* the secondary index does not exist
    WAL_BUFFER_SIZE,    \* records the WAL's write buffer holds
    MaxLog,             \* bound: records in the WAL file
    MaxPages,           \* bound: page ids handed out by calls, and before a crash
    Modes               \* workloads: which calls, cache capacity, crashes, write failures

VARIABLES
    (* files *)
    count,      \* DBHeader.page_count
    disk,       \* page slots of the data file
    walFile,    \* records in the WAL file
    (* memory of the process *)
    walBuf,     \* WAL::write_buf_
    offs, lru, cached,  \* Pager::page_offsets_ and PageCache: see PageCache
    next,       \* Pager::next_page_id_
    index,      \* primary index: id -> [page, slot, off] or NoEntry
    sec,        \* secondary index on the value: {<<val, id>>}, or NoIndex
    open,       \* DB::open_
    todo,       \* remaining steps of the call that holds the write lock
    call,       \* that call, when it writes rows
    mode        \* the workload of this behaviour

files == <<count, disk, walFile>>
pagerVars == <<disk, offs, lru, cached>>
vars == <<count, disk, walFile, walBuf, offs, lru, cached, next, index, sec,
          open, todo, call, mode>>

ASSUME SentinelAssumption == NoVal \notin Vals
ASSUME BufferAssumption == WAL_BUFFER_SIZE \in Nat \ {0}
\* PageCache::PageCache makes a capacity of 0 into 1.
ASSUME CapacityAssumption == \A m \in Modes : m.cap \in Nat \ {0}

Kinds == {"insert", "insert_batch", "erase", "erase_batch", "update", "update_batch"}
Record == [t : {"INSERT", "DELETE"}, id : Ids, val : Vals \cup {NoVal}]

\* The pager state the operators of PageCache work on, and a step that makes it p.
Pager == [disk |-> disk, offs |-> offs, lru |-> lru, cached |-> cached, cap |-> mode.cap]
PagerBecomes(p) ==
    /\ disk' = p.disk /\ offs' = p.offs /\ lru' = p.lru /\ cached' = p.cached

\* Steps of a call: what to do, on which row (or page) and with which value.
Step(s, x, v) == [s |-> s, x |-> x, v |-> v]
Do(s) == Step(s, 0, NoVal)
IsNext(s) == todo # <<>> /\ Head(todo).s = s

InsertSteps(row, sync_now) ==
    <<Do("touch_last"), Step("append_row", row.id, row.val), Step("log_insert", row.id, row.val)>>
    \o (IF sync_now THEN <<Do("sync")>> ELSE <<>>)
    \o <<Step("index_row", row.id, row.val)>>

EraseSteps(row) == <<Step("touch_row", row.id, NoVal), Step("erase_row", row.id, NoVal)>>

\* The body of insert, insert_batch, erase, erase_batch, update and update_batch
\* after their validation.
StepsOf(c) ==
    CASE c.k = "insert" -> InsertSteps(c.rows[1], TRUE)
      [] c.k = "insert_batch" ->
           FlattenSeq([i \in DOMAIN c.rows |-> InsertSteps(c.rows[i], FALSE)]) \o <<Do("sync")>>
      [] c.k \in {"erase", "erase_batch"} ->
           FlattenSeq([i \in DOMAIN c.rows |-> EraseSteps(c.rows[i])]) \o <<Do("sync")>>
      [] c.k \in {"update", "update_batch"} ->
           FlattenSeq([i \in DOMAIN c.rows |-> EraseSteps(c.rows[i]) \o InsertSteps(c.rows[i], FALSE)])
           \o <<Do("sync")>>

----------------------------------------------------------------------------
(* What recovery reads from the files *)

\* Slots recover() visits: counted in the header and present in the file.
ValidPages == {pid \in DOMAIN disk : pid < count}

\* recover() indexes the first copy of a row it meets and skips later ones.
RecoveredEntry(id) ==
    LET P == {pid \in ValidPages : find_row(disk[pid], id) # 0}
    IN  IF P = {} THEN NoEntry
        ELSE [page |-> Min(P), slot |-> find_row(disk[Min(P)], id), off |-> TRUE]

\* The contents open() would produce from the files of this state.  A DELETE record
\* drops the row, an INSERT record of a row that is there is skipped: so the value
\* comes from the pages if the log never deletes the row, else from the first
\* INSERT behind its last DELETE.
Durable ==
    [id \in Ids |->
       LET stored == RecoveredEntry(id)
           of(t) == {n \in DOMAIN walFile : walFile[n].t = t /\ walFile[n].id = id}
           ins == {n \in of("INSERT") : \A d \in of("DELETE") : d < n}
       IN  IF of("DELETE") = {} /\ stored # NoEntry THEN disk[stored.page][stored.slot].val
           ELSE IF ins = {} THEN NoVal ELSE walFile[Min(ins)].val]

----------------------------------------------------------------------------
Init ==
    /\ count = 0 /\ disk = <<>> /\ walFile = <<>>
    /\ walBuf = <<>> /\ offs = {} /\ lru = <<>> /\ cached = <<>>
    /\ next = 0
    /\ index = [id \in Ids |-> NoEntry] /\ sec = NoIndex
    /\ open = FALSE /\ todo = <<>> /\ call = NoCall
    /\ mode \in Modes

\* The write lock is free and the database is open.
Idle == open /\ todo = <<>>

(* Calls that write rows.  Validation failures throw before any change, so
   only valid calls appear. *)

CallOK(c) ==
    /\ \A i, j \in DOMAIN c.rows : i # j => c.rows[i].id # c.rows[j].id
    /\ \A i \in DOMAIN c.rows :
          /\ (index[c.rows[i].id] = NoEntry) <=> (c.k \in {"insert", "insert_batch"})
          /\ c.rows[i].val = NoVal <=> c.k \in {"erase", "erase_batch"}
          /\ c.rows[i].val # NoVal => RowSize[c.rows[i].val] <= PAGE_SIZE

\* Bounds on the model: the log and the page ids of this call must fit.
InBounds(c) ==
    /\ Len(walFile) + Len(walBuf) + 2 * Len(c.rows) <= MaxLog
    /\ next + Len(c.rows) <= MaxPages

Begin(c) ==
    /\ Idle
    /\ CallOK(c) /\ InBounds(c)
    /\ todo' = StepsOf(c)
    /\ call' = c
    /\ UNCHANGED <<files, walBuf, offs, lru, cached, next, index, sec, open, mode>>

\* The step at the head of todo is done; the call returns after the last one.
Done ==
    /\ todo' = Tail(todo)
    /\ call' = IF Len(todo) = 1 THEN NoCall ELSE call

\* insert_unlocked: get_mutable_page(count - 1) of get_or_create_writable_page.
TouchLast ==
    /\ IsNext("touch_last")
    /\ IF next > 0 THEN PagerBecomes(get_page(Pager, next - 1)) ELSE UNCHANGED pagerVars
    /\ Done
    /\ UNCHANGED <<count, walFile, walBuf, next, index, sec, open, mode>>

\* The last page if the row fits, else a new page; then append_row.
AppendRow ==
    /\ IsNext("append_row")
    /\ LET row == [id |-> Head(todo).x, val |-> Head(todo).v]
           fits == next > 0 /\ HasRoom(RowsOf(Pager, next - 1), row.val)
           pid == IF fits THEN next - 1 ELSE next
           p == IF fits THEN Pager ELSE new_page(Pager, next)
       IN  /\ PagerBecomes(SetRows(p, pid, append_row(RowsOf(p, pid), row)))
           /\ next' = IF fits THEN next ELSE next + 1
    /\ Done
    /\ UNCHANGED <<count, walFile, walBuf, index, sec, open, mode>>

\* write_record(): a full buffer is written out first, without an fsync.
write_record(r) ==
    IF Len(walBuf) + 1 > WAL_BUFFER_SIZE
    THEN walFile' = walFile \o walBuf /\ walBuf' = <<r>>
    ELSE walBuf' = Append(walBuf, r) /\ UNCHANGED walFile

LogInsert ==
    /\ IsNext("log_insert")
    /\ write_record([t |-> "INSERT", id |-> Head(todo).x, val |-> Head(todo).v])
    /\ Done
    /\ UNCHANGED <<count, pagerVars, next, index, sec, open, mode>>

\* The primary index, then the secondary indexes, learn of the appended row.
IndexRow ==
    /\ IsNext("index_row")
    /\ LET id == Head(todo).x
       IN  /\ index' = [index EXCEPT ![id] =
                          [page |-> next - 1, slot |-> Len(RowsOf(Pager, next - 1)),
                           off |-> (next - 1) \in offs]]
           /\ sec' = IF sec = NoIndex THEN sec ELSE sec \cup {<<Head(todo).v, id>>}
    /\ Done
    /\ UNCHANGED <<files, walBuf, offs, lru, cached, next, open, mode>>

\* erase_unlocked and the DELETE branch of replay_wal: load the page of the row.
TouchRow ==
    /\ IsNext("touch_row")
    /\ PagerBecomes(get_page(Pager, index[Head(todo).x].page))
    /\ Done
    /\ UNCHANGED <<count, walFile, walBuf, next, index, sec, open, mode>>

\* Mutant: the slots of the rows behind the erased one are not repaired.
RepairedIndex_Forgets(id, rows) == [index EXCEPT ![id] = NoEntry]

\* index_->remove(id) and repair_slots_after_erase(), given the rows left on the page.
RepairedIndex(id, rows) ==
    [i \in Ids |->
       IF i = id THEN NoEntry
       ELSE IF index[i] # NoEntry /\ index[i].page = index[id].page /\ find_row(rows, i) # 0
            THEN [index[i] EXCEPT !.slot = find_row(rows, i)]
            ELSE index[i]]

\* The slot of the index entry if it holds the row, else a search of the page.
SlotOf(id) ==
    LET e == index[id]
        rows == RowsOf(Pager, e.page)
    IN  IF e.slot \in DOMAIN rows /\ rows[e.slot].id = id THEN e.slot ELSE find_row(rows, id)

\* Mutant: the secondary index keeps the row.
Unindex_KeepsSecondary(id) ==
    LET pid == index[id].page
        rest == erase_row(RowsOf(Pager, pid), SlotOf(id))
    IN  /\ SlotOf(id) # 0
        /\ PagerBecomes(SetRows(Pager, pid, rest))
        /\ index' = RepairedIndex(id, rest)
        /\ UNCHANGED sec

\* Mutant: the primary index keeps the row.
Unindex_KeepsEntry(id) ==
    LET pid == index[id].page
        rows == RowsOf(Pager, pid)
        rest == erase_row(rows, SlotOf(id))
    IN  /\ SlotOf(id) # 0
        /\ PagerBecomes(SetRows(Pager, pid, rest))
        /\ index' = [RepairedIndex(id, rest) EXCEPT ![id] = index[id]]
        /\ sec' = IF sec = NoIndex THEN sec ELSE sec \ {<<rows[SlotOf(id)].val, id>>}

\* The row leaves its page and both index layers.  The code returns early when the
\* page does not hold the row: EntriesLeadToRows says that this never happens.
Unindex(id) ==
    LET pid == index[id].page
        rows == RowsOf(Pager, pid)
        slot == SlotOf(id)
        rest == erase_row(rows, slot)
    IN  /\ slot # 0
        /\ PagerBecomes(SetRows(Pager, pid, rest))
        /\ index' = RepairedIndex(id, rest)
        /\ sec' = IF sec = NoIndex THEN sec ELSE sec \ {<<rows[slot].val, id>>}

EraseRow ==
    /\ IsNext("erase_row")
    /\ write_record([t |-> "DELETE", id |-> Head(todo).x, val |-> NoVal])
    /\ Unindex(Head(todo).x)
    /\ Done
    /\ UNCHANGED <<count, next, open, mode>>

\* WAL::sync(): flush_write_buffer, then fsync.
sync == walFile' = walFile \o walBuf /\ walBuf' = <<>>

Sync ==
    /\ IsNext("sync")
    /\ sync
    /\ Done
    /\ UNCHANGED <<count, pagerVars, next, index, sec, open, mode>>

\* A write() to the WAL fails: WAL::flush_write_buffer throws IOError, the buffer
\* keeps its records, and the call ends there with the exception.
LogFails ==
    /\ mode.fail
    /\ \/ IsNext("sync") /\ walBuf # <<>>
       \/ /\ IsNext("log_insert") \/ IsNext("erase_row")
          /\ Len(walBuf) + 1 > WAL_BUFFER_SIZE
    /\ call # NoCall
    /\ todo' = <<>> /\ call' = NoCall
    /\ UNCHANGED <<files, walBuf, offs, lru, cached, next, index, sec, open, mode>>

----------------------------------------------------------------------------
(* Readers *)

\* get(), for an indexed id: the row in the slot of the entry, whatever its id;
\* NoVal stands for the exception of a slot out of range.
get(id) ==
    LET rows == RowsOf(Pager, index[id].page)
    IN  IF index[id].slot \in DOMAIN rows THEN rows[index[id].slot] ELSE NoVal

\* The rows scan() visits, in order: every row of every page.
scan == FlattenSeq([i \in 1..next |-> RowsOf(Pager, i - 1)])

\* The rows index_range_scan() returns for a range that holds the values vs, through
\* the secondary index if there is one.  Values have no order here: a range is a set.
index_range_scan(vs) ==
    IF sec = NoIndex THEN {r \in ToSet(scan) : r.val \in vs}
    ELSE {get(id) : id \in {i \in Ids : index[i] # NoEntry /\ \E v \in vs : <<v, i>> \in sec}}

\* What a reader changes: Pager::get_page moves one page through the cache.
Read(pid) ==
    /\ Idle
    /\ "read" \in mode.calls
    /\ pid < next
    /\ PagerBecomes(get_page(Pager, pid))
    /\ UNCHANGED <<count, walFile, walBuf, next, index, sec, open, todo, call, mode>>

(* Secondary index *)

CreateIndex ==
    /\ Idle
    /\ "create_index" \in mode.calls
    /\ sec = NoIndex
    /\ todo' = [i \in 1..next |-> Step("visit_page", i - 1, NoVal)] \o <<Do("set_index")>>
    /\ UNCHANGED <<files, walBuf, offs, lru, cached, next, index, sec, open, call, mode>>

VisitPage ==
    /\ IsNext("visit_page")
    /\ PagerBecomes(get_page(Pager, Head(todo).x))
    /\ Done
    /\ UNCHANGED <<count, walFile, walBuf, next, index, sec, open, mode>>

SetIndex ==
    /\ IsNext("set_index")
    /\ sec' = {<<r.val, r.id>> : r \in UNION {ToSet(RowsOf(Pager, pid)) : pid \in 0..next - 1}}
    /\ Done
    /\ UNCHANGED <<files, walBuf, offs, lru, cached, next, index, open, mode>>

DropIndex ==
    /\ Idle
    /\ sec # NoIndex
    /\ sec' = NoIndex
    /\ UNCHANGED <<files, walBuf, offs, lru, cached, next, index, open, todo, call, mode>>

----------------------------------------------------------------------------
(* checkpoint() and close() *)

Dirty == {pid \in DOMAIN cached : cached[pid].dirty}

\* Mutant: flush_all writes the pages in descending order.
FlushOrders_Descending ==
    {order \in [1..Cardinality(Dirty) -> Dirty] :
        ToSet(order) = Dirty /\ \A i, j \in DOMAIN order : i < j => order[i] > order[j]}

\* The dirty pages in ascending order, as flush_all writes them (the set has one element).
FlushOrders ==
    {order \in [1..Cardinality(Dirty) -> Dirty] :
        ToSet(order) = Dirty /\ \A i, j \in DOMAIN order : i < j => order[i] < order[j]}

FlushAll(order) == [i \in DOMAIN order |-> Step("flush_page", order[i], NoVal)]
                   \o <<Do("write_header")>>

\* Mutant: the WAL is dropped before the pages are written.
CheckpointSteps_ClearFirst(order) == <<Do("clear_wal")>> \o FlushAll(order)

\* checkpoint(): write the pages and the header, then drop the WAL.
CheckpointSteps(order) == FlushAll(order) \o <<Do("clear_wal")>>

Checkpoint ==
    /\ Idle
    /\ \E order \in FlushOrders : todo' = CheckpointSteps(order)
    /\ UNCHANGED <<files, walBuf, offs, lru, cached, next, index, sec, open, call, mode>>

Close ==
    /\ Idle
    /\ \E order \in FlushOrders : todo' = CheckpointSteps(order) \o <<Do("close_files")>>
    /\ UNCHANGED <<files, walBuf, offs, lru, cached, next, index, sec, open, call, mode>>

\* One page of flush_all: index offsets are repaired only when the page's offset
\* changes, that is, the first time the page is written.
FlushPage ==
    /\ IsNext("flush_page")
    /\ LET pid == Head(todo).x
           p == [Pager EXCEPT !.lru = ToFront(@, pid)]
       IN  /\ PagerBecomes(write_page_to_disk(p, pid))
           /\ index' = IF pid \in offs THEN index
                       ELSE [id \in Ids |->
                               IF index[id] # NoEntry /\ index[id].page = pid
                               THEN [index[id] EXCEPT !.off = TRUE] ELSE index[id]]
    /\ Done
    /\ UNCHANGED <<count, walFile, walBuf, next, sec, open, mode>>

WriteHeader ==
    /\ IsNext("write_header")
    /\ count' = next
    /\ Done
    /\ UNCHANGED <<disk, walFile, walBuf, offs, lru, cached, next, index, sec, open, mode>>

\* WAL::clear(): flush, unlink, create a new file.
ClearWal ==
    /\ IsNext("clear_wal")
    /\ walFile' = <<>> /\ walBuf' = <<>>
    /\ Done
    /\ UNCHANGED <<count, pagerVars, next, index, sec, open, mode>>

\* What the process knows of the files is gone, after close() as after a crash.
Forget ==
    /\ walBuf' = <<>> /\ offs' = {} /\ lru' = <<>> /\ cached' = <<>>
    /\ next' = 0
    /\ index' = [id \in Ids |-> NoEntry] /\ sec' = NoIndex
    /\ open' = FALSE
    /\ UNCHANGED <<files, mode>>

CloseFiles ==
    /\ IsNext("close_files")
    /\ Forget
    /\ Done

Crash ==
    /\ mode.crash
    /\ next <= MaxPages
    /\ open \/ todo # <<>>
    /\ Forget
    /\ todo' = <<>> /\ call' = NoCall

----------------------------------------------------------------------------
(* open(): recover the pages, then replay the log *)

\* WAL records as replay steps.
ReplaySteps ==
    [i \in DOMAIN walFile |->
       IF walFile[i].t = "INSERT" THEN Step("replay_insert", walFile[i].id, walFile[i].val)
       ELSE Step("replay_delete", walFile[i].id, NoVal)]

\* DB::open() up to and including Pager::recover(), which only reads.
Recover ==
    /\ ~open /\ todo = <<>>
    /\ offs' = ValidPages
    /\ next' = IF ValidPages = {} THEN 0 ELSE Max(ValidPages) + 1
    /\ index' = [id \in Ids |-> RecoveredEntry(id)]
    /\ todo' = ReplaySteps \o <<Do("opened")>>
    /\ UNCHANGED <<files, walBuf, lru, cached, sec, open, call, mode>>

\* An INSERT record: skipped if the id is indexed, else the row is appended anew.
ReplayInsertSteps(id, val) ==
    IF index[id] # NoEntry THEN <<>>
    ELSE <<Do("touch_last"), Step("append_row", id, val), Step("index_row", id, val)>>

ReplayInsert ==
    /\ IsNext("replay_insert")
    /\ todo' = ReplayInsertSteps(Head(todo).x, Head(todo).v) \o Tail(todo)
    /\ UNCHANGED <<files, walBuf, offs, lru, cached, next, index, sec, open, call, mode>>

\* A DELETE record: skipped if the id is not indexed.
ReplayDelete ==
    /\ IsNext("replay_delete")
    /\ todo' = (IF index[Head(todo).x] = NoEntry THEN <<>>
                ELSE <<Step("touch_row", Head(todo).x, NoVal), Step("unindex", Head(todo).x, NoVal)>>)
               \o Tail(todo)
    /\ UNCHANGED <<files, walBuf, offs, lru, cached, next, index, sec, open, call, mode>>

ReplayErase ==
    /\ IsNext("unindex")
    /\ Unindex(Head(todo).x)
    /\ Done
    /\ UNCHANGED <<count, walFile, walBuf, next, open, mode>>

Opened ==
    /\ IsNext("opened")
    /\ open' = TRUE
    /\ Done
    /\ UNCHANGED <<files, walBuf, offs, lru, cached, next, index, sec, mode>>

----------------------------------------------------------------------------
Rows(vals) == [id : Ids, val : vals]

\* The calls of the workload: one row, or a batch of two.
Calls ==
    LET vals(k) == IF k \in {"erase", "erase_batch"} THEN {NoVal} ELSE Vals
        len(k) == IF k \in {"insert", "erase", "update"} THEN 1 ELSE 2
    IN  UNION {{[k |-> k, rows |-> rows] : rows \in [1..len(k) -> Rows(vals(k))]} :
               k \in mode.calls \cap Kinds}

CallStep ==
    \/ TouchLast \/ AppendRow \/ LogInsert \/ IndexRow
    \/ TouchRow \/ EraseRow \/ Sync

MaintenanceStep ==
    \/ VisitPage \/ SetIndex
    \/ FlushPage \/ WriteHeader \/ ClearWal \/ CloseFiles

RecoveryStep == ReplayInsert \/ ReplayDelete \/ ReplayErase \/ Opened

Next ==
    \/ \E c \in Calls : Begin(c)
    \/ CallStep
    \/ LogFails
    \/ \E pid \in 0..MaxPages : Read(pid)
    \/ CreateIndex \/ DropIndex
    \/ Checkpoint \/ Close
    \/ MaintenanceStep
    \/ Crash
    \/ Recover \/ RecoveryStep

Spec == Init /\ [][Next]_vars

----------------------------------------------------------------------------
Entry == [page : Nat, slot : Nat \ {0}, off : BOOLEAN]
Row == [id : Ids, val : Vals]

ASSUME NoEntryAssumption == NoEntry \notin Entry
ASSUME NoCallAssumption == NoCall \notin [k : Kinds, rows : Seq(Rows(Vals \cup {NoVal}))]

\* The state is well formed.
TypeOK ==
    /\ count \in Nat /\ next \in Nat
    /\ \A pid \in DOMAIN disk : disk[pid] \in Seq(Row)
    /\ walFile \in Seq(Record) /\ walBuf \in Seq(Record)
    /\ offs \subseteq DOMAIN disk
    /\ DOMAIN cached = ToSet(lru) /\ Len(lru) = Cardinality(ToSet(lru))
    /\ \A pid \in DOMAIN cached : cached[pid] \in [rows : Seq(Row), dirty : BOOLEAN]
    /\ index \in [Ids -> Entry \cup {NoEntry}]
    /\ open \in BOOLEAN
    /\ sec = NoIndex \/ sec \in SUBSET (Vals \X Ids)

\* Every page the engine has handed out can be fetched: it is resident or its slot
\* has been written, and a clean resident page equals its slot.  Otherwise scan
\* would throw NotFoundError or a later eviction would lose rows.
PagesReachable ==
    \A pid \in 0..next - 1 : todo = <<>> =>
        /\ pid \in DOMAIN cached \/ pid \in offs
        /\ pid \in DOMAIN cached /\ ~cached[pid].dirty =>
              pid \in offs /\ disk[pid] = cached[pid].rows

\* Between calls a lookup by id finds the row that a restart would recover: the
\* index entry leads to the right slot of the right page, and an id without a row
\* misses.
GetMatchesDurable ==
    Idle => \A id \in Ids :
        IF Durable[id] = NoVal THEN index[id] = NoEntry
        ELSE index[id] # NoEntry /\ get(id) = [id |-> id, val |-> Durable[id]]

\* Between calls scan, which reads pages without the index, visits exactly the
\* rows get finds, each of them once.
ScanMatchesIndex ==
    Idle => LET live == {id \in Ids : index[id] # NoEntry}
            IN  Len(scan) = Cardinality(live) /\ ToSet(scan) = {get(id) : id \in live}

\* At every step of every call and of the recovery, an index entry leads to a page
\* that can be fetched and that holds the row.
EntriesLeadToRows ==
    \A id \in Ids : index[id] # NoEntry =>
        /\ index[id].page \in DOMAIN cached \cup offs
        /\ SlotOf(id) # 0

\* Between calls, once the log has no unwritten record, a row that lookups find is
\* also recovered after a restart, with some value: calls that failed to write the
\* log never take rows of other calls with them.
IndexedRowsDurable ==
    Idle /\ walBuf = <<>> => \A id \in Ids : index[id] # NoEntry => Durable[id] # NoVal

\* Between calls index_range_scan through the secondary index returns what its
\* fallback, the filtered scan, would return, for every range.
RangeScanMatchesScan ==
    Idle /\ sec # NoIndex =>
        \A vs \in SUBSET Vals : index_range_scan(vs) = {r \in ToSet(scan) : r.val \in vs}

\* Step by step, what a restart would recover changes only in rows of the call in
\* progress, each to the state before or after its own change (an update is a delete
\* and an insert): so with a log buffer that overflows and pages that are evicted in
\* the middle of a batch, though the batch as a whole is not atomic then.
ChangesBelongToCall ==
    [][\A id \in Ids : Durable'[id] # Durable[id] =>
          /\ call # NoCall
          /\ \E i \in DOMAIN call.rows :
                call.rows[i].id = id /\ Durable'[id] \in {NoVal, call.rows[i].val}]_vars

\* Writing pages or the header never changes what a restart recovers: a page
\* image goes to the file only when the log can redo what it contains.
PageWritesAreNeutral == [][UNCHANGED walFile => Durable' = Durable]_vars

\* The call that has not yet taken effect: it still has to sync the log.
PendingCall == IF \E i \in DOMAIN todo : todo[i].s = "sync" THEN call ELSE NoCall

Table == INSTANCE DurableTable WITH table <- Durable, call <- PendingCall

\* The engine implements the durable table: what a restart recovers changes only
\* by whole calls, at the sync that ends them, and never by page writes, evictions,
\* checkpoints, crashes or recovery.
ImplementsTable == Table!Spec
=============================================================================
