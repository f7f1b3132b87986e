------------------------------ MODULE Readers ------------------------------
(***************************************************************************)
(* Threads that call one DB handle at the same time: the reader-writer     *)
(* lock of DB, the mutex inside PageCache, and the parts of the pager that *)
(* run outside that mutex.                                                 *)
(*                                                                         *)
(* A thread runs a call as steps `pc`; a step is what happens between two  *)
(* points where another thread can see a difference.  The contents of a    *)
(* page are abstracted to a version: "current" for a copy that has every   *)
(* change made so far, "stale" for one that misses a change, "torn" for a  *)
(* slot whose last write failed half way.  XdlDB has the rows.             *)
(***************************************************************************)
EXTENDS Naturals, Sequences, SequencesExt, FiniteSets, FiniteSetsExt

CONSTANTS
    Threads,
    NoThread,       \* a lock nobody holds
    Calls,          \* thread -> the calls it makes
    MaxCalls,       \* thread -> bound: how many of them
    FilePages,      \* pages in the data file when it was opened
    MaxPages,       \* bound: page ids
    Modes           \* [cap, prefer, fail]: cache capacity, lock policy, write failures

VARIABLES
    (* DB::rwlock_ and DB::open_ *)
    writer,     \* the thread that holds the write lock, or NoThread
    readers,    \* the threads that hold the read lock
    open,
    (* PageCache *)
    mtx,        \* the thread inside a critical section that does I/O, or NoThread
    lru,        \* resident pages, most recently used first
    cached,     \* resident page -> [ver, dirty]
    (* Pager and data file *)
    next,       \* next_page_id_
    offs,       \* pages with an entry in page_offsets_
    slot,       \* page -> version in its slot, or "none"
    (* threads *)
    pc,         \* thread -> step
    job,        \* thread -> [k, need, page, tmp]: call, pages to fetch, page in hand
    seen,       \* thread -> the pages its call has read, with their versions
    outcome,    \* thread -> how its last call ended
    calls,      \* thread -> calls made so far
    mode

lockVars == <<writer, readers>>
cacheVars == <<mtx, lru, cached>>
fileVars == <<next, offs, slot>>
vars == <<writer, readers, open, mtx, lru, cached, next, offs, slot,
          pc, job, seen, outcome, calls, mode>>

ASSUME PagesAssumption == FilePages \in Nat \ {0} /\ MaxPages \in Nat /\ FilePages <= MaxPages
ASSUME ThreadAssumption == NoThread \notin Threads

Pages == 0..MaxPages - 1
ReadCalls == {"get", "scan", "range_scan"}
WriteCalls == {"insert", "erase", "update", "create_index", "checkpoint", "close"}
Unchecked == {"range_scan", "create_index"}     \* calls that never look at open_

ASSUME CallsAssumption == \A t \in Threads : Calls[t] \subseteq ReadCalls \cup WriteCalls
\* The constructor of the cache makes a capacity of 0 a capacity of 1.
ASSUME CapacityAssumption == \A m \in Modes : m.cap \in Nat \ {0}

Job(k, need) == [k |-> k, need |-> need, page |-> 0, tmp |-> [ver |-> "none", dirty |-> FALSE]]

Init ==
    /\ writer = NoThread /\ readers = {} /\ open = TRUE
    /\ mtx = NoThread /\ lru = <<>> /\ cached = <<>>
    /\ next = FilePages /\ offs = 0..FilePages - 1
    /\ slot = [p \in Pages |-> IF p < FilePages THEN "current" ELSE "none"]
    /\ pc = [t \in Threads |-> "idle"]
    /\ job = [t \in Threads |-> Job("none", {})]
    /\ seen = [t \in Threads |-> {}]
    /\ outcome = [t \in Threads |-> "ok"]
    /\ calls = [t \in Threads |-> 0]
    /\ mode \in Modes

Goto(t, step) == pc' = [pc EXCEPT ![t] = step]
JobBecomes(t, j) == job' = [job EXCEPT ![t] = j]

----------------------------------------------------------------------------
(* ReadLock and WriteLock: constructors and destructors *)

\* A thread calls k; which pages it needs is known once it holds the lock.
Call(t, k) ==
    /\ pc[t] = "idle"
    /\ calls[t] < MaxCalls[t]
    /\ Goto(t, "lock")
    /\ JobBecomes(t, Job(k, {}))
    /\ outcome' = [outcome EXCEPT ![t] = "ok"]
    /\ calls' = [calls EXCEPT ![t] = @ + 1]
    /\ UNCHANGED <<lockVars, open, cacheVars, fileVars, seen, mode>>

\* The pages the body of k asks the pager for.  Only calls on rows that exist are
\* made: the others throw before they touch a page.
Needs(k) ==
    CASE k \in {"get", "erase", "update"} -> {{p} : p \in 0..next - 1}
      [] k \in {"scan", "create_index"} -> {0..next - 1}
      [] k = "range_scan" -> SUBSET (0..next - 1)
      [] k = "insert" -> {{next - 1}}
      [] OTHER -> {{}}

WriterWaits == \E u \in Threads : pc[u] = "lock" /\ job[u].k \in WriteCalls

\* Mutant: a read lock does not wait for the writer.
CanShare_Always == TRUE

\* lock_shared() succeeds.  Whether it lets a waiting writer go first is up to the
\* implementation of std::shared_mutex.
CanShare == writer = NoThread /\ (mode.prefer = "writers" => ~WriterWaits)

Acquire(t) ==
    /\ pc[t] = "lock"
    /\ open \/ job[t].k \in Unchecked
    /\ IF job[t].k \in ReadCalls
       THEN CanShare /\ readers' = readers \cup {t} /\ UNCHANGED writer
       ELSE writer = NoThread /\ readers = {} /\ writer' = t /\ UNCHANGED readers
    /\ \E need \in Needs(job[t].k) : JobBecomes(t, Job(job[t].k, need))
    /\ Goto(t, "fetch")
    /\ UNCHANGED <<open, cacheVars, fileVars, seen, outcome, calls, mode>>

\* Mutant: an exception leaves the lock held.
Ends_KeepsLock(t, o) ==
    /\ writer' = IF writer = t /\ o = "ok" THEN NoThread ELSE writer
    /\ readers' = IF o = "ok" THEN readers \ {t} ELSE readers
    /\ Goto(t, "idle")
    /\ JobBecomes(t, Job("none", {}))
    /\ seen' = [seen EXCEPT ![t] = {}]
    /\ outcome' = [outcome EXCEPT ![t] = o]

\* The call returns, or throws o: the destructor of the guard releases the lock.
Ends(t, o) ==
    /\ writer' = IF writer = t THEN NoThread ELSE writer
    /\ readers' = readers \ {t}
    /\ Goto(t, "idle")
    /\ JobBecomes(t, Job("none", {}))
    /\ seen' = [seen EXCEPT ![t] = {}]
    /\ outcome' = [outcome EXCEPT ![t] = o]

\* The call gets the lock and finds the handle closed: it throws.  close() tests open_
\* before it asks for the lock, and just returns.
Refuse(t) ==
    /\ pc[t] = "lock"
    /\ ~open /\ job[t].k \notin Unchecked
    /\ \/ job[t].k = "close"
       \/ writer = NoThread /\ (job[t].k \in WriteCalls => readers = {})
    /\ Ends(t, IF job[t].k = "close" THEN "ok" ELSE "not open")
    /\ UNCHANGED <<open, cacheVars, fileVars, calls, mode>>

----------------------------------------------------------------------------
(* Pager::get_page and get_mutable_page *)

\* Pages are fetched in order, except by index_range_scan (hash order).
Wanted(t) == IF job[t].k = "range_scan" THEN job[t].need ELSE {Min(job[t].need)}

\* Mutant: the page is added at the front and keeps its old place.
ToFront_KeepsPlace(p) == lru' = <<p>> \o lru

\* lru_.splice() at the position that map_ has for the page: it becomes the most
\* recently used one.
ToFront(p) == \E i \in DOMAIN lru : lru[i] = p /\ lru' = <<p>> \o RemoveAt(lru, i)

Has(t, p, ver) == seen' = [seen EXCEPT ![t] = @ \cup {[page |-> p, ver |-> ver]}]

\* PageCache::get_shared / get_mut, one short critical section.
Lookup(t) ==
    /\ pc[t] = "fetch" /\ job[t].need # {}
    /\ mtx = NoThread
    /\ \E p \in Wanted(t) :
         IF p \in DOMAIN cached
         THEN /\ ToFront(p)
              /\ Has(t, p, cached[p].ver)
              /\ JobBecomes(t, [job[t] EXCEPT !.need = @ \ {p}])
              /\ UNCHANGED pc
         ELSE /\ JobBecomes(t, [job[t] EXCEPT !.page = p])
              /\ Goto(t, "find")
              /\ UNCHANGED <<lru, seen>>
    /\ UNCHANGED <<lockVars, open, mtx, cached, fileVars, outcome, calls, mode>>

\* Another thread is inserting a new key into page_offsets_: the hash table may be
\* rehashed under a reader that holds no lock on it.
Growing(t) == \E u \in Threads \ {t} : pc[u] = "record" /\ Last(lru) \notin offs

\* load_from_disk: page_offsets_.find(), outside the mutex.  A lookup that runs
\* while the table grows may miss a key that is there.
FindOffset(t) ==
    /\ pc[t] = "find"
    /\ \/ /\ job[t].page \in offs
          /\ Goto(t, "pread")
          /\ UNCHANGED <<lockVars, job, seen, outcome>>
       \/ /\ job[t].page \notin offs \/ Growing(t)
          /\ Ends(t, "NotFoundError")
    /\ UNCHANGED <<open, cacheVars, fileVars, calls, mode>>

\* load_from_disk: read_page_raw of the slot; the descriptor is gone after close().
Pread(t) ==
    /\ pc[t] = "pread"
    /\ IF open
       THEN /\ JobBecomes(t, [job[t] EXCEPT !.tmp = [ver |-> slot[job[t].page], dirty |-> FALSE]])
            /\ Goto(t, "put")
            /\ UNCHANGED <<lockVars, seen, outcome>>
       ELSE Ends(t, "IOError")
    /\ UNCHANGED <<open, cacheVars, fileVars, calls, mode>>

Full == Len(lru) >= mode.cap
Victim == Last(lru)

\* The page in hand enters the list behind evict_lru; a page being created has not
\* been read by its creator yet.
Resides(t, p, list) ==
    /\ lru' = <<p>> \o list
    /\ cached' = [x \in ToSet(list) \cup {p} |-> IF x = p THEN job[t].tmp ELSE cached[x]]
    /\ Has(t, p, job[t].tmp.ver)
    /\ JobBecomes(t, [job[t] EXCEPT !.need = @ \ {p}])
    /\ Goto(t, "fetch")

\* Mutant: the victim leaves the cache before its slot is written.
PutShared_DropsFirst(t) ==
    /\ pc[t] = "put"
    /\ mtx = NoThread
    /\ LET p == job[t].page
       IN  IF Full /\ p \notin DOMAIN cached
           THEN Resides(t, p, Front(lru))
           ELSE Resides(t, p, lru)
    /\ UNCHANGED <<mtx, lockVars, open, fileVars, outcome, calls, mode>>

\* PageCache::put_shared: the resident copy wins; otherwise the page is added,
\* after the least recently used page has been evicted.  A dirty victim is written
\* inside the critical section.
PutShared(t) ==
    /\ pc[t] = "put"
    /\ mtx = NoThread
    /\ LET p == job[t].page
       IN  \/ /\ p \in DOMAIN cached
              /\ ToFront(p)
              /\ Has(t, p, cached[p].ver)
              /\ JobBecomes(t, [job[t] EXCEPT !.need = @ \ {p}])
              /\ Goto(t, "fetch")
              /\ UNCHANGED <<mtx, cached>>
           \/ p \notin DOMAIN cached /\ ~Full /\ Resides(t, p, lru) /\ UNCHANGED mtx
           \/ /\ p \notin DOMAIN cached /\ Full
              /\ IF cached[Victim].dirty
                 THEN mtx' = t /\ Goto(t, "pwrite") /\ UNCHANGED <<lru, cached, seen, job>>
                 ELSE Resides(t, p, Front(lru)) /\ UNCHANGED mtx
    /\ UNCHANGED <<lockVars, open, fileVars, outcome, calls, mode>>

\* on_cache_evict -> write_page_to_disk: the slot of the victim ...
Pwrite(t) ==
    /\ pc[t] = "pwrite"
    /\ slot' = [slot EXCEPT ![Victim] = cached[Victim].ver]
    /\ Goto(t, "record")
    /\ UNCHANGED <<lockVars, open, cacheVars, next, offs, job, seen, outcome, calls, mode>>

\* ... then its page_offsets_ entry; evict_lru drops it, the new page enters and
\* the mutex is released.
Record(t) ==
    /\ pc[t] = "record"
    /\ offs' = offs \cup {Victim}
    /\ Resides(t, job[t].page, Front(lru))
    /\ mtx' = NoThread
    /\ UNCHANGED <<lockVars, open, next, slot, outcome, calls, mode>>

\* pwrite() fails half way: IOError leaves put_shared, and the victim stays.
PwriteFails(t) ==
    /\ mode.fail
    /\ pc[t] = "pwrite"
    /\ slot' = [slot EXCEPT ![Victim] = "torn"]
    /\ mtx' = NoThread
    /\ Ends(t, "IOError")
    /\ UNCHANGED <<open, lru, cached, next, offs, calls, mode>>

----------------------------------------------------------------------------
(* The bodies of the calls, once their pages are fetched *)

Fetched(t, k) == pc[t] = "fetch" /\ job[t].need = {} /\ job[t].k = k

\* Thread t appends a row to, or erases one from, the resident page p: its slot and
\* what other threads have read of the page now miss a change.
Modify(t, p) ==
    LET ages(s) == {IF x.page = p THEN [x EXCEPT !.ver = "stale"] ELSE x : x \in s}
    IN  /\ cached' = [cached EXCEPT ![p].dirty = TRUE]
        /\ slot' = [slot EXCEPT ![p] = IF @ = "current" THEN "stale" ELSE @]
        /\ seen' = [u \in Threads |-> IF u = t THEN seen[u] ELSE ages(seen[u])]

\* A reader has its rows, create_index its tree, a writer has synced the log.
Return(t) ==
    /\ \E k \in ReadCalls \cup {"create_index", "done"} : Fetched(t, k)
    /\ Ends(t, "ok")
    /\ UNCHANGED <<open, cacheVars, fileVars, calls, mode>>

\* erase_unlocked; update goes on with insert_unlocked.
EraseRow(t) ==
    /\ Fetched(t, "erase") \/ Fetched(t, "update")
    /\ Modify(t, (CHOOSE x \in seen[t] : TRUE).page)
    /\ JobBecomes(t, IF job[t].k = "erase" THEN Job("done", {}) ELSE Job("insert", {next - 1}))
    /\ UNCHANGED <<lockVars, open, mtx, lru, next, offs, pc, outcome, calls, mode>>

\* insert_unlocked: the row goes to the last page, when it fits or the page is new.
AppendRow(t) ==
    /\ Fetched(t, "insert") \/ Fetched(t, "append")
    /\ Modify(t, next - 1)
    /\ JobBecomes(t, Job("done", {}))
    /\ UNCHANGED <<lockVars, open, mtx, lru, next, offs, pc, outcome, calls, mode>>

\* insert_unlocked, when it does not: new_page, which counts the page before
\* put_shared makes it resident.
NewPage(t) ==
    /\ Fetched(t, "insert")
    /\ next < MaxPages
    /\ next' = next + 1
    /\ JobBecomes(t, [k |-> "append", need |-> {}, page |-> next,
                      tmp |-> [ver |-> "current", dirty |-> TRUE]])
    /\ Goto(t, "put")
    /\ UNCHANGED <<lockVars, open, cacheVars, offs, slot, seen, outcome, calls, mode>>

Dirty == {p \in DOMAIN cached : cached[p].dirty}
Flushes(t) == Fetched(t, "checkpoint") \/ Fetched(t, "close")

\* One page of Pager::flush_all.
FlushPage(t) ==
    /\ Flushes(t) /\ Dirty # {}
    /\ LET p == Min(Dirty)
       IN  /\ ToFront(p)
           /\ cached' = [cached EXCEPT ![p].dirty = FALSE]
           /\ slot' = [slot EXCEPT ![p] = cached[p].ver]
           /\ offs' = offs \cup {p}
    /\ UNCHANGED <<lockVars, open, mtx, next, pc, job, seen, outcome, calls, mode>>

FlushFails(t) ==
    /\ mode.fail
    /\ Flushes(t) /\ Dirty # {}
    /\ ToFront(Min(Dirty))
    /\ slot' = [slot EXCEPT ![Min(Dirty)] = "torn"]
    /\ Ends(t, "IOError")
    /\ UNCHANGED <<open, mtx, cached, next, offs, calls, mode>>

\* Mutant: close() drops the handle without writing the pages.
Flushed_Close(t) ==
    /\ Flushes(t)
    /\ Dirty = {} \/ job[t].k = "close"
    /\ open' = (open /\ job[t].k = "checkpoint")
    /\ Ends(t, "ok")
    /\ UNCHANGED <<cacheVars, fileVars, calls, mode>>

\* The end of checkpoint() and close().
Flushed(t) ==
    /\ Flushes(t) /\ Dirty = {}
    /\ open' = (open /\ job[t].k = "checkpoint")
    /\ Ends(t, "ok")
    /\ UNCHANGED <<cacheVars, fileVars, calls, mode>>

----------------------------------------------------------------------------
Step(t) ==
    \/ Acquire(t) \/ Refuse(t) \/ Lookup(t) \/ FindOffset(t) \/ Pread(t) \/ PutShared(t)
    \/ Pwrite(t) \/ Record(t) \/ Return(t) \/ EraseRow(t) \/ AppendRow(t) \/ NewPage(t)
    \/ FlushPage(t) \/ Flushed(t)

Next ==
    \E t \in Threads :
        \/ \E k \in Calls[t] : Call(t, k)
        \/ Step(t)
        \/ PwriteFails(t) \/ FlushFails(t)

\* A thread that can run keeps running; nobody has to call anything, and no write
\* has to fail.
Spec == Init /\ [][Next]_vars /\ \A t \in Threads : WF_vars(Step(t))
----------------------------------------------------------------------------
Vers == {"current", "stale", "torn", "none"}
Page == [ver : Vers, dirty : BOOLEAN]

\* The state is well formed: the list and the map of the cache hold the same pages,
\* no more of them than the capacity.
TypeOK ==
    /\ writer \in Threads \cup {NoThread} /\ readers \subseteq Threads
    /\ mtx \in Threads \cup {NoThread}
    /\ open \in BOOLEAN /\ next \in 0..MaxPages
    /\ offs \subseteq Pages /\ slot \in [Pages -> Vers]
    /\ DOMAIN cached = ToSet(lru) /\ Len(lru) = Cardinality(ToSet(lru)) /\ Len(lru) <= mode.cap
    /\ \A p \in DOMAIN cached : p \in Pages /\ cached[p] \in Page
    /\ \A t \in Threads : job[t].need \subseteq Pages /\ job[t].tmp \in Page

\* Everything a call has read is current for as long as the call runs: a scan sees
\* one state of the table, although its pages are loaded, evicted and reloaded by
\* other readers in between.
ReadsCurrent == \A t \in Threads : \A x \in seen[t] : x.ver = "current"

\* The latest contents of a page are never only in a copy somebody is about to drop:
\* they are in the cache if the page is resident, else in its slot, whose offset is
\* known.  (A page whose creation failed has neither.)
LatestKept ==
    \A p \in 0..next - 1 :
        IF p \in DOMAIN cached THEN cached[p].ver = "current"
        ELSE slot[p] = "none" \/ (slot[p] = "current" /\ p \in offs)

\* No thread reads the slot of a page while another one writes it, although readers
\* evict pages while they hold only the read lock.
NoSlotRace ==
    \A t, u \in Threads : pc[t] = "pread" /\ pc[u] = "pwrite" => job[t].page # Victim

\* After close() no eviction writes to the file, although index_range_scan and
\* create_index go on working on the closed handle.
NoWriteAfterClose == open \/ (Dirty = {} /\ \A t \in Threads : pc[t] # "pwrite")

\* Every call returns or throws: the reader-writer lock, the cache mutex and the I/O
\* done under it never make the threads wait for each other for ever.
EveryCallReturns == \A t \in Threads : pc[t] # "idle" ~> pc[t] = "idle"

\* "Thread-safe: multiple concurrent readers are allowed": no call fails to find a
\* page that exists.
ReadersFindPages == \A t \in Threads : outcome[t] # "NotFoundError"
=============================================================================
