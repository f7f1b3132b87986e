# XDL: TLA+ models, model-checking runs and proofs

XDL is an embedded storage engine in C++: one table in one file, fixed-size page
slots, an LRU page cache, an in-memory primary index, optional secondary indexes
and a write-ahead log (WAL). This directory holds TLA+ models of its core, TLC
configurations that check them on small instances, and TLAPS proofs.
`PROJECT.json` maps every definition to the source lines it models.

## 1. The system

| Part | State | Operations | Hard about it |
|---|---|---|---|
| `DB` (`db.cpp`) | open flag, schema, secondary indexes, reader-writer lock | insert, erase, update and their batches, get, scan, index_range_scan, create/drop_index, checkpoint, close, open with replay | order of page change, log and index; crash between any two file effects; recovery repeated |
| `WAL` (`wal.cpp`) | file, user-space buffer, dirty flag, running offset | log_*, sync, replay, clear, open, close | what is durable after a crash; torn tail; buffer overflow in the middle of a call |
| `Pager` (`pager.cpp`) | page offsets, next page id | recover, get_page, get_mutable_page, new_page, flush_all, eviction callback | eviction writes pages at any time; checkpoint order |
| `PageCache` (`cache.cpp`) | LRU list, map, mutex | get_shared, get_mut, put_shared, evict_lru, for_each_dirty | capacity 1, dirty victims written by readers, page I/O under the mutex |
| `Page` (`page.cpp`) | bytes of the rows, row offsets | append, erase with compaction, find, decode | erasing shifts slots and offsets |
| `IndexManager` (`index.h`) | sorted portion, write buffer, buffered-id set, reverse map | insert, find, remove, update_offset, update_slot, prepare | four structures kept consistent by hand |
| `RWLock` (`types.h`) | a `std::shared_mutex` | shared and exclusive lock with guards | no fairness; readers change the cache and the file under the shared lock |
| `BPTree` (`bptree.cpp`) | sorted vector of keys with their row ids | insert, erase, find, range_scan | the order of the encoded bytes must be the order of the values |
| `Schema`, `ScanFilter` (`types.h`, `db.cpp`) | | field_index, validate, matches, matches_raw | the filter exists twice, on bytes and on decoded rows |
| Migration (`migrate.cpp`) | | serialise_schema, deserialise_schema, apply_to_row, is_compatible | order of the operations, schemas cut short or too large |
| `StorageEngine` (`storage.cpp`) | file descriptor | open, close, header, schema block, page slots | no order between unsynced writes; slots of fixed size |
| `CompressionEngine` (`compression.cpp`) | | compress, decompress with a bundled LZ4 | lengths at the edges of a byte, overlapping copies, results longer than the input |
| `MmapFile`, command line tool, tests, benchmark | | | see section 7 |

A writing call takes the write lock and then, row by row, changes the page,
appends log records to the buffer, changes the primary index and the secondary
indexes; at the end (or for `insert` after its record) it syncs the log. Pages
reach the file when the cache evicts them or at a checkpoint, which writes the
dirty pages in ascending order, then the header, then clears the log. `open()`
reads the pages the header counts, indexes the first copy of each row, and
replays the log. Readers share the lock; they move pages through the cache and so
may write dirty victims to the file.

What makes it correct: a lookup, a scan and a range scan agree; what a restart
recovers changes by whole calls only; no page write, eviction, checkpoint or
recovery changes it; the log returns what it was synced to hold; concurrent calls
read current pages and all return; bytes decode to what was encoded, in memory, in
the file and in the index; a checkpointed file survives deaths and power losses.

## 2. Modules

| Module | Models | State and actions |
|---|---|---|
| `PrimaryIndex` | abstract index | a map from ids to entries and the result of the last call |
| `IndexManager` | `index.h` | one action per method; `entries` and `buf` are sets of pairs (a set of pairs, unlike a function, can hold an id twice) |
| `IndexManagerProofs` | | theorems about `IndexManager` |
| `WAL` | `wal.cpp` | file, synced prefix, buffer, dirty flag, offset; log calls with and without sync, sync, close, clear, open, death of the process, power loss |
| `WALProofs` | | theorems about `WAL` |
| `ListLemmas` | | facts about sequences and sets that the proofs share |
| `PageCache` | `page.cpp`, `cache.cpp`, page traffic of `pager.cpp` | operators on a pager state |
| `DurableTable` | abstract engine | a table that changes by whole calls |
| `XdlDB` | `db.cpp` with `Pager` and the log | a call is the sequence of steps `todo`; each step is one action; a crash may come between any two |
| `XdlDBProofs` | | theorems about `XdlDB` in every workload: types, pages, index entries |
| `ScanProofs` | | theorems about `XdlDB` while the process lives: scans and both index layers |
| `DurableProofs` | | theorems about what a restart would recover from `XdlDB`: while the process lives the table of the calls, after crashes and failing writes still every indexed row |
| `Readers` | `RWLock`, the mutex of `PageCache`, page traffic of `Pager`, the calls of `DB` | per thread a step `pc`, the call with the pages it still needs and what it has read; lock holders, LRU list, cached copies, file slots, `page_offsets_` |
| `ReadersProofs` | | theorems about `Readers` |
| `RowFormat` | `page.cpp`, `page.h`, `ScanFilter`, `Schema`, `migrate.cpp`, the filter options of `main.cpp` | operators on bytes and decoded rows |
| `BPTree` | `bptree.cpp`, the range test of `DB::index_range_scan` | operators on a sorted sequence of entries |
| `Rows` | row calls and indexes of `DB` on one page | page bytes, tree, and the rows that should be there; Insert, Erase, CreateIndex, DropIndex |
| `LZ4` | the bundled coder of `compression.cpp` | recursive operators on sequences of small numbers |
| `DataFile` | `storage.cpp`, the file side of `pager.cpp`, `DB::open`, checkpoint and close | the file as reads see it and what is on the medium; one action per write and per fsync; eviction, write-back, death, power loss; `schema_lost` records that a power loss undid the storing of the schema, `oversized` that a schema was stored which `read_schema` refuses |
| `DataFileProofs` | | theorems about `DataFile` |
| `MCIndexManager`, `MCXdlDB`, `MCReaders`, `MCRows`, `MCDataFile` | | instances and workloads for TLC |

`XdlDB` uses the index through its map (what `IndexManager` is proved to
implement) and the log through file and buffer, with process death as the only
crash: then the difference between written and fsynced data, which is what `WAL`
is about, plays no part. Values carry a size, so that pages fill by count and by
bytes; names, field types and encodings are left out. A step that changes memory
and one file at once stands for the code between two effects on files: a crash in
the middle leaves the same files as a crash before or after it. Slots count from
1, and 0 stands for the -1 of `Page::find_row`.

Steps of a call in `XdlDB` and the statements they stand for: `touch_last` and
`append_row` (`get_or_create_writable_page`, `append_row`), `log_insert`, `sync`,
`index_row` (both index layers) for `insert_unlocked`; `touch_row` and `erase_row`
(load the page, log, compact, unindex, repair slots) for `erase_unlocked`;
`flush_page`, `write_header`, `clear_wal`, `close_files` for checkpoint and close;
`replay_insert`, `replay_delete`, `unindex`, `opened` for the replay in `open()`.
`Durable` says in closed form what `open()` would recover from the files.
`GetMatchesDurable`, which compares it with what the replay steps really build,
also checks that this closed form is right.

`Readers` has the interleavings that `XdlDB`, where one call runs at a time, leaves
out. A step is the code between two points where another thread can see a
difference: getting a lock, one critical section of the cache, the search in
`page_offsets_`, `pread`, `pwrite`, the entry in `page_offsets_`. Only `put_shared`
with a dirty victim keeps the mutex over several steps. The contents of a page are
a version (`current`, `stale`, `torn`): whether a copy has every change. The
search in a hash table while another thread adds a key is undefined behaviour; the
model lets it miss a key that is there. A call on a missing row touches no page and
is not made. `index_range_scan` and `create_index` do not test `open_`, as in the code.

`RowFormat` and `BPTree` keep the bytes, with `BYTE` values each and scaled widths,
since their properties are about encodings. `LZ4` halves the width of bytes and
tokens, so that long lengths and hash collisions occur in short texts; the minimal
match and the end of block rules have the values of the code. `DataFile` takes the
codec as constant operators and `MCDataFile` gives it `LZ4`. A `pwrite` reaches the
medium whole or not at all, independently of other writes; fsync makes all of them
reach it. The log is left out: its replay is among the changes of pages.
A schema is there a sequence that begins with its number of fields and says by itself where it ends;
`MAX_FIELDS` stands for the 1024 of `deserialise_schema` and `MAX_SCHEMA_LEN` for the 65536 of
`read_schema` and `data_start_offset`. `Schema::validate` knows neither, so larger schemas
are among those a session may use. A name that `serialise_schema` cuts (more than 65535 bytes)
makes the schema longer than 65536 bytes, so `DataFile` need not cut names; `RowFormat` does.
`matches` and `matches_raw` share one `Passes`: their comparisons are the same in the source,
and `FilterAgrees` checks what differs, the walk over the bytes of the fields.

## 3. Runs

| Run | Shows | Bounds |
|---|---|---|
| `index` | `UniqueIds`, `BufIdsExact`, `ReverseMapExact`, `ImplementsMap` | 3 ids, 2 pages, offsets and slots, threshold 2: merges with 0, 1 and 2 buffered entries, refused inserts after a merge |
| `wal` | `TypeOK`, `AckedKept`, `ReplayInOrder`, `OffsetsRight` with torn writes and power loss | 5 records, buffer of 2: overflow, several restarts, clears in between |
| `wal_torn_tail` | violation of `AckedReplayable` | 6 records |
| `db_crash` | `TypeOK`, `GetMatchesDurable`, `ScanMatchesIndex`, `EntriesLeadToRows`, `ImplementsTable` with crashes anywhere | 2 ids, 2 values, pages of 2 rows or 3 bytes, 4 log records, 3 pages; all calls with a cache that never evicts, and single inserts with reads and an index over a one-page cache |
| `db_evict` | `PagesReachable`, `GetMatchesDurable`, `ScanMatchesIndex`, `RangeScanMatchesScan`, `ChangesBelongToCall` with evictions | 3 ids, cache of 1 or 2 pages, log buffer of one record (every batch overflows it), no crash |
| `db_fail` | `EntriesLeadToRows`, `IndexedRowsDurable` with failing log writes, crashes and a log buffer of one record | 2 ids, 2 pages by calls |
| `db_write_ahead` | violation of `PageWritesAreNeutral` | cache of one page |
| `readers` | `TypeOK`, `ReadsCurrent`, `LatestKept`, `NoSlotRace`, `NoWriteAfterClose`, `EveryCallReturns` | a thread that gets or scans, one that scans a range, one with two writing calls of any kind, close among them; 2 pages in the file, 3 at most; a one-page cache with failing writes and waiting writers first, a two-page cache with readers first |
| `readers_race` | violation of `ReadersFindPages` | the same threads, a one-page cache, no failing write |
| `rows` | `TypeOK`, `RowsRoundTrip`, `OffsetsRebuilt`, `FilterAgrees`, `RangeScanExact`, `FindExact`, `MigrationFits`, `SchemaRoundTrip` | 3 ids, 3 rows or 23 bytes a page, bytes of three bits, 3 schemas of two fields that cover the five types, one with a field more than `MAX_FIELDS`, one with names longer than their length can say; values at the edges of each type (signs, infinities, -0.0, NaN, prefixes), filters of up to two options; 60 migrations, among them for each of four schemas a typed RENAME before and after the ADD of its name, and renames to names in use, one after the other and in a circle |
| `datafile` | `TypeOK`, `ReadsBack`, `PagesSurvive`, `SchemaKept`, `RefusedWithReason`, `LZ4RoundTrip` | 3 schemas of one length, two with as many fields and bytes as `read_schema` accepts and one with more fields, 2 pages of 12 bytes, contents that fit the slot, both compressions, 3 opens, 3 changes; all texts of 2 letters up to 11 bytes and periodic ones up to 40 |
| `slot_overflow` | violation of `ReadsBack` | the same, with a full page that LZ4 makes longer |

`MaxLog` bounds the records of the log, `MaxPages` the page ids that calls hand
out; a crash is allowed only while the page ids are within `MaxPages`, because
every recovery of the same log may move rows to a new page and empty pages are
never reclaimed: repeated crashes between header and log clearing grow the file
without bound. Two rows and three pages are enough for a row to move between
pages, to share a page, to be duplicated on disk and to be replayed over either
copy. Ids are symmetric. Three threads are enough for two readers to race while a
writer waits or has just left; three opens for a file to be created, checkpointed
and reopened after two faults. Schemas of different lengths are left to
the theorems about the data file, which hold for any. Deadlock is checked in every passing run except
`readers` and `datafile`, where threads run out of calls and the file of opens.

**Fairness.** Only `Readers` assumes any: weak fairness of `Step(t)` for each thread,
that is, the operating system goes on running a thread that can run, and a call that
waits for a lock which stays free gets it. Nobody has to make a call and no
write has to fail. The calls of a thread are bounded, and that matters:
`std::mutex` and `std::shared_mutex` promise no fairness, so under endless contention
a writer may starve, and no such claim is made. `EveryCallReturns` says that the two
locks and the I/O under them never leave threads waiting for each other.

## 4. Disagreements with the documentation

* **Torn tail** (`wal_torn_tail`). `WAL::open` appends behind a torn record, and
  `replay` stops there, so records synced after a restart are not replayed. The
  comment in `log_insert` promises their durability. `WholeWritesReplayable`
  shows that torn records are the only cause.
* **Write-ahead rule** (`db_write_ahead`). Evictions write pages whose log records
  are still buffered. `update` can lose a durable row, although `pager.h` and
  `docs/architecture.md` say that the log comes first. The same happens inside
  batches. That is why `db_crash` evicts only around single inserts, whose rows
  are new.
* **Readers race** (`readers_race`). `load_from_disk` searches `page_offsets_` without a
  lock (`pager.cpp:190`), while a reader that evicts a page for the first time adds a
  key (`pager.cpp:231`) under the cache mutex only. The search may miss an existing
  page, and `try_get` then reports a missing row. `db.h:90` calls the class thread-safe
  for concurrent readers. The properties of `readers` hold all the
  same, as far as a missed key is the only effect of the race (a build may do worse).
* **Slot overflow** (`slot_overflow`). A full page that LZ4 makes longer (8192 bytes
  without repetitions become 8226) does not fit its slot, and nothing compares the
  sizes (`storage.cpp:184`): one page damages the next one, or is damaged when that
  one is written. `README.md:346` of the repository says that fixed slots make pages
  overwritable whatever their compressed size. `datafile` shows that pages which
  fit are safe.

Seen while modelling, without a run of their own:

* `Schema::validate` (`types.h:118`) and `write_schema` accept a schema of any size, but
  `read_schema` refuses more than 65536 bytes (`storage.cpp:221`) and `deserialise_schema`
  more than 1024 fields (`migrate.cpp:61`). A session under a larger schema works and
  checkpoints, and every later `open()`, with or without a schema, throws `CorruptionError`
  (`db.cpp:211`), although `README.md:15` of the repository promises any number of fields
  and `README.md:24` a schema that is adopted on reopen. `PagesSurvive` and
  `RefusedWithReason` hold only with their condition `~oversized`: TLC violates them without, for
  a schema with one field too many and for one that is one byte too long, as soon as pages are
  written under it. `FileReopens` proves that there is no cause but the limits
  and a lost schema. Beyond 65536 bytes the pages moreover start over the schema block
  (`storage.cpp:233`), and writing page 0 over its length moves the slots of the others, so
  `ReadsBack` has the condition too. Before the first checkpoint such a schema counts as none:
  the next open stores its own over it, and pages of both may be counted after a power loss
  (hence the condition in `SchemaKept`), and the rows of the log are decoded with the new one.
* `insert` changes the page before the log: a failing log write leaves a row that `scan`
  returns and `get` does not find. `db_fail` checks what holds nevertheless.
* `flush_all` does not repair the offsets of index entries whose page was first written
  by an eviction. Nothing reads these offsets.
* `new_page` counts the page before `put_shared` may throw (`pager.cpp:122`): after a failed
  eviction the last page does not exist, and inserts and scans throw until the next open.
* A death between `O_CREAT` and the header leaves an empty file that every open refuses.
* Until the first checkpoint the schema is not synced (`db.cpp:218`). A power loss may leave
  the log with no schema, and rows of the log are then decoded with the schema of the next open;
  or the header of a checkpoint with no schema, and the open is refused. A schema of another
  length moves the page slots, one of the same length leaves them, and pages that an eviction
  wrote under the lost schema are read with the new one. `db.h:101` says that stored rows are
  never reinterpreted: `SchemaKept` holds only with its condition `~schema_lost`, and TLC
  violates it without, for two schemas of one length.
  `PagesSurvive` starts at the end of a checkpoint.
* An update that moved a row, evictions and a crash together can leave two copies of the row
  in counted pages: the new page was evicted, the old one was not yet written. `recover`
  indexes the first copy, the replayed DELETE removes that one and the INSERT appends the row
  anew, so the copy on the new page stays, unindexed. `scan` visits the row twice, and after a
  later erase and a checkpoint the copy comes back. The log
  is in order here: with the evictions of `db_write_ahead` excluded TLC finds the same, for an
  update, a checkpoint before it, a cache of two pages and a crash. Pages leave the
  cache in the order of their use, and only `flush_all` writes the old page first.
* Recovery that skips a page in the middle leaves an id without an offset: scans throw.
* `is_compatible` ignores types and rejects a RENAME to a new name, which `migrate.h` lists as an
  operation, unless there is an ADD of that name as well; an ADD that comes after the RENAME
  then replaces the data by the default (`MigrationFits` states which operation decides).
* A scan visitor that calls a writing method waits for its own read lock. `open()` and
  `is_open()` take no lock. `create_index` on a closed handle leaves an index that the next
  open of the same handle keeps.

## 5. Proofs

`IndexManagerProofs`, from `ThresholdAssumption` and `NoEntryAssumption` only:

* `IndexCorrect`: `Spec => []IndexInv`. `IndexInv` is inductive as it stands: exact
  `bufIds` is needed so that the duplicate check sees the buffer, unique ids so that
  removing one pair removes the id, and `NothingHidden` (the sorted portion is empty
  before `prepare`) so that the unsearched portion holds nothing.
* `IndexConsistent`: the three consistency properties, as a consequence.
* `IndexImplementsMap`: each step of `IndexManager` is a step of `PrimaryIndex` with
  the same result, by one lemma per action from the invariant.

`WALProofs`, from `BufferAssumption` and `TornAssumption`:

* `LogCorrect`: `TypeOK`, `AckedKept`, `ReplayInOrder` and `OffsetsRight` for every
  buffer size, number of records and fault. None of them is inductive. The
  invariant `LogInv` adds that the buffer continues the file (newer records, offsets
  that follow on), that the acknowledged records lie in the synced prefix, that an
  open log knows its length, and `Session`: each record since opening is buffered or
  in the file, and in the synced prefix if the dirty flag is off, which is what
  lets `fsync_if_dirty` skip the fsync. The lemmas follow the code: flush, make room,
  write a record, fsync; each keeps the invariant of an open log.
* `WholeWritesReplayable`: if records are never torn, replay returns every synced
  record.

`ReadersProofs`, for any threads, number of pages, capacity, lock policy and choice of
failing writes: `ReadersTypeOK`, `ReadersSeeOneState`, `ReadersKeepLatest`,
`ReadersNoSlotRace`, `ReadersNoWriteAfterClose`. `ReadersInv` says who holds which lock at
which step, which copy of a page is current (a resident one always, the slot of a page
that is clean or not resident), that the victim of an eviction is dirty until it is gone,
and what the page in a loading thread's hand is worth: nobody has a dirty copy of it, so
the `pread` outside the mutex cannot meet the `pwrite` of an eviction.

`XdlDBProofs`, for every capacity, page size, log buffer, workload, crash and failing log
write: `EngineTypeOK`, `EnginePagesReachable`, `EngineEntriesLeadToRows`. The invariant
`EngineInv` has three parts: the pager (a page below `next` is resident or has a slot, a
clean copy equals its slot), the shape of the plan `todo` (an append is followed by its log
record and its index entry, an erase is preceded by the fetch of its page, `flush_all` ends
with the header), and what the next step relies on (the fetched page is still resident,
the appended row is still the last one). Every plan, of a call, a checkpoint, a
recovery, is shown to have that shape once, and what is left of it keeps it.

`ScanProofs`, for every capacity, page size and log buffer under `Undisturbed`, that is, no
crash and no failing log write (the workloads of `db_evict`): `EngineScanMatchesIndex` and
`EngineRangeScanMatchesScan`. `ScanInv` adds that an entry has the exact slot, that every
row on a page is the one its entry leads to (or the one just appended), that the secondary
index has the rows of the primary one, that a row to be appended is in no index by then, and
that the file which `close` leaves holds no row twice, so that the next `open` finds
the same. `Undisturbed` is needed: with a failing log write `scan` returns rows that `get` does
not find, and with a crash the copies described in section 4 appear.

`DurableProofs`, from the named assumptions of `XdlDB` and `PageCache` on sentinels and sizes.
Under `Undisturbed` it has `EngineGetMatchesDurable` and `EngineChangesBelongToCall`, which are
about the restart that would follow if the process died at that moment. `DurableInv` compares memory with the log since the last checkpoint, in the
file or still in the buffer: the records of a row behind its last DELETE have the row's
value, a row without such a record is in the file, and a copy in the file of a row that
the log does not delete is on the row's page with the row's value. It says nothing of the
copies of a deleted row, which an eviction may leave behind or not: the DELETE record makes
them harmless. `DurableValue` concludes that recovery yields the value in memory for every
row of which the buffer has no record, and a call ends with an empty buffer.
In the middle of a call this is not enough: a row may be deleted in the buffer only, while its
new copy was evicted already. `ChangeInv` adds that the buffer holds records of the call only,
that a row is erased before it is logged, and `OldOrNew`: the files then hold copies with the
old value, and with the new one only on the page that the index leads to, so that the
first copy in page order, the one `recover` takes, never turns back from new to old.

`EngineImplementsTable` is the refinement of `DurableTable`, under `Undisturbed` and with room
for the calls: `RoomInLog` (no log step finds the buffer full) and `RoomInCache` (while records
are in the buffer no page has to leave the cache). These are the workloads of `db_crash` with all
calls, without its crashes. Both conditions are needed: an overflow makes half
of a batch durable, an eviction ahead of the log is the finding of section 4.
The call of the table is the engine's until its sync. `TableInv` adds to `ChangeInv`
what is known of the plan (nothing but index entries after the sync, an erased row is logged
again unless the call erases it) and `Progress`: before the sync each row of the call has its new
value in memory or a log step ahead. At the sync no log step is left, so memory is the table
after the call, and the empty buffer makes it what a restart recovers (`DurableValue`); every
other step leaves the table alone. `EnginePageWritesNeutral` needs `RoomInCache` only:
`PageWritesAreNeutral`, which `db_write_ahead` violates, fails in no other way while the
process lives.

`EngineIndexedRowsDurable` holds for every workload, with crashes at any step, of a recovery too,
and with failing log writes. Memory and log do not agree then, so its invariant `SafeInv` is
weaker and of another kind: `EngineInv`, `ServingOK` and `RecoveryOK`. While the
database serves calls, every indexed row is backed, by an INSERT record behind the last DELETE of
the row, or, if the log does not delete it, by a copy in the file; the log is dropped
only when all pages are written and counted. During recovery `Redone(n, d)` says the same of
the first `n` records of the log, and each replay step takes it from one record to the
next: a crash then starts from the first record again, over whatever pages were evicted.

`DataFileProofs`, for any schemas, codec, contents, slot size and bounds: `FileTypeOK`,
`FileReadsBack`, `FilePagesSurvive`, `FileSchemaKept`, `FileRefusedWithReason`, `FileReopens`, all from
`FileCorrect`, `Spec => []FileInv`. The hypotheses: `Fits`, every page fits its slot,
compressed or not, which is exactly what `slot_overflow` gives up; `Restores`, decompression
undoes compression, which `LZ4RoundTrip` checks for the bundled coder; and, as conditions in
each property, `~schema_lost` and `~oversized` (only schemas that `read_schema` accepts were stored).
`FileReopens` has `WithinLimits` in place of the latter: if no schema in use is beyond the
limits, no checkpointed database is refused as damaged. That no schema is the beginning of
another one, as the field count in front of it ensures, is part of `SchemaAssumption`. Until one of the two
happens `FileInv` says, of the file as reads see it and of
what is on the medium, that nothing is behind the header or the bytes behind the schema block are
slots, each of them never written or holding a whole encoded page of its own id under that
schema; how far `open()` has come; that a clean page in memory is in its slot; and that
the pages of a checkpoint are counted and held by both the file and the medium, so that
losing any set of later writes keeps them. The step that matters is the write of one
slot: it leaves every other slot as it was.

Only model-checked:

* `EveryCallReturns`, and liveness and `ENABLED` in general: out of the prover's reach.
* `Rows`, `RowFormat`, `BPTree` and `LZ4` (`LZ4RoundTrip`): what they compute is
  defined by induction over the bytes, with powers of the byte size and filtered sequences, of
  which the prover has no facts, and `LZ4` has recursive operators.
* `ImplementsTable`, and the other properties under `Undisturbed`, in runs that continue after a
  crash: with an eviction between the calls they are false (section 4), so a theorem
  would be about caches larger than the table only, and its invariant has to follow the replay
  with the values of the rows, which `SafeInv` leaves out.

## 6. Plan

1. Done: primary index with refinement and proofs, log with faults and proofs, engine
   with crashes, evictions and write failures.
2. Done: threads and locks with liveness; rows, filters, secondary index and migration as
   bytes; data file with schema adoption under deaths and power losses; LZ4.
3. Done, proofs: index, log, threads and locks; types, pages and entries of the engine in
   every workload; scans, secondary index and what a restart recovers while the process
   lives, with the refinement of the durable table; indexed rows after crashes and
   failing log writes; the data file, for schemas within the limits of `read_schema`.
4. Open: `GetMatchesDurable` and `ImplementsTable` after a crash for a cache that holds the
   whole table, from an invariant like `RecoveryOK` that also has the values; a
   run of its own for the schema that a power loss takes.

## 7. Not modelled

* `MmapFile`: the engine does not use it. The system's liblz4, which a build may prefer to
  the bundled coder. Windows, which differs in system calls only.
* The command line tool except the filter options of `scan`: it parses arguments and prints
  around single calls. Tests and benchmark.
* `KeyBuffer` and `bptree_key_encode`, `Pager::flush_page` and `mark_dirty`,
  `PageCache::put`, `get`, `evict` and `flush_all`, `append_page_raw`: nothing in the engine
  calls them. `DB::stats` reads counters.
* In the log a system call fails only by `LogFails` of `XdlDB`, before its first byte; a
  partial write that is reported as an error, a failing `unlink` in `clear` and an ignored
  `fsync` error are left out. In `XdlDB` the data file loses nothing that was written;
  `DataFile`, which loses writes, has no rows and no log, so power loss is not checked for
  pages and log together.
* Torn pages on the medium: pages have no checksum, so a slot of which only a part was
  written may decode to anything.
* Page ids, lengths and offsets beyond 32 bits.
