-------------------------------- MODULE WAL --------------------------------
(***************************************************************************)
(* The write-ahead log of src/wal.cpp: records collect in a user-space     *)
(* buffer, reach the file by write() and stable storage by fsync(), and    *)
(* replay() returns the records up to the first one it cannot read.        *)
(*                                                                         *)
(* A record is its number in the order of logging: the log never looks     *)
(* into a record.  Torn stands for the bytes of a record that was only     *)
(* partly written.  The 32-byte header is written and fsynced together     *)
(* with the creation of the file and not counted in offsets.               *)
(***************************************************************************)
EXTENDS Naturals, Sequences

CONSTANTS
    WAL_BUFFER_SIZE,    \* records the write buffer holds
    MaxRecords,         \* bound: records logged
    PowerLoss,          \* whether the machine may lose power
    Tearing,            \* whether an interrupted write may leave part of a record
    Torn                \* the bytes of such a record

VARIABLES
    file,       \* contents of the WAL file: record numbers and Torn
    synced,     \* length of the prefix of file on stable storage
    buf,        \* write_buf_
    dirty,      \* buf_dirty_: written to the file since the last fsync
    offset,     \* current_offset_, in records
    open,       \* open_
    n,          \* number of the next record
    first,      \* history: first record of this open file, n when it was opened
    acked,      \* history: records covered by a sync that returned
    returned    \* history: returned[r], the offset write_record returned for r

vars == <<file, synced, buf, dirty, offset, open, n, first, acked, returned>>

ASSUME BufferAssumption == WAL_BUFFER_SIZE \in Nat \ {0}
ASSUME FaultAssumption == PowerLoss \in BOOLEAN /\ Tearing \in BOOLEAN
ASSUME TornAssumption == Torn \notin Nat
ASSUME BoundAssumption == MaxRecords \in Nat

\* The records of a sequence.
Numbers(s) == {s[i] : i \in DOMAIN s} \ {Torn}

\* What replay() returns: everything before the first unreadable record.
Readable(s) == {i \in DOMAIN s : \A j \in 1..i : s[j] # Torn}
Replayed(s) == {s[i] : i \in Readable(s)}

----------------------------------------------------------------------------
Init ==
    /\ file = <<>> /\ synced = 0
    /\ buf = <<>> /\ dirty = FALSE /\ offset = 0 /\ open = FALSE
    /\ n = 1 /\ first = 1 /\ acked = {} /\ returned = <<>>

\* WAL::open(): appends continue at the end of the file, whatever is there.
Open ==
    /\ ~open
    /\ open' = TRUE
    /\ offset' = Len(file) /\ first' = n
    /\ UNCHANGED <<file, synced, buf, dirty, n, acked, returned>>

\* The state of the log that a record, a flush or an fsync changes.
Log == [file |-> file, synced |-> synced, buf |-> buf, dirty |-> dirty, offset |-> offset]
LogBecomes(l) ==
    /\ file' = l.file /\ synced' = l.synced /\ buf' = l.buf
    /\ dirty' = l.dirty /\ offset' = l.offset

\* Mutant: the buffer is not cleared after it was written.
flush_write_buffer_Keeps(l) ==
    IF l.buf = <<>> THEN l
    ELSE [l EXCEPT !.file = @ \o l.buf, !.offset = @ + Len(l.buf), !.dirty = TRUE]

flush_write_buffer(l) ==
    IF l.buf = <<>> THEN l
    ELSE [l EXCEPT !.file = @ \o l.buf, !.offset = @ + Len(l.buf), !.buf = <<>>, !.dirty = TRUE]

\* Mutant: the fsync is left out.
fsync_if_dirty_Skips(l) == [l EXCEPT !.dirty = FALSE]

fsync_if_dirty(l) == IF l.dirty THEN [l EXCEPT !.synced = Len(l.file), !.dirty = FALSE] ELSE l

\* Mutant: the check of the buffer's size forgets the record that is to come.
ensure_buffer_space_Late(l) ==
    IF Len(l.buf) > WAL_BUFFER_SIZE THEN flush_write_buffer(l) ELSE l

ensure_buffer_space(l) ==
    IF Len(l.buf) + 1 > WAL_BUFFER_SIZE THEN flush_write_buffer(l) ELSE l

\* write_record(): make room, then append to the buffer.
Buffered(r) == LET l == ensure_buffer_space(Log) IN [l EXCEPT !.buf = Append(@, r)]

\* Mutant: the returned offset does not count the buffered records.
RecordOffset_FileOnly == ensure_buffer_space(Log).offset
RecordOffset == ensure_buffer_space(Log).offset + Len(ensure_buffer_space(Log).buf)

\* sync() on log state l.
SyncedLog(l) == fsync_if_dirty(flush_write_buffer(l))

\* log_insert, log_insert_direct and log_delete with sync_now, and log_checkpoint.
LogSynced ==
    /\ open /\ n <= MaxRecords
    /\ LogBecomes(SyncedLog(Buffered(n)))
    /\ returned' = Append(returned, RecordOffset)
    /\ acked' = acked \cup first..n
    /\ n' = n + 1
    /\ UNCHANGED <<open, first>>

\* The same without sync_now, and log_commit: the record may stay in the buffer.
LogBuffered ==
    /\ open /\ n <= MaxRecords
    /\ LogBecomes(Buffered(n))
    /\ returned' = Append(returned, RecordOffset)
    /\ n' = n + 1
    /\ UNCHANGED <<open, first, acked>>

\* WAL::sync(), and the flush and fsync at the start of replay().  It vouches for
\* every record logged since the file was opened.
Sync ==
    /\ open
    /\ LogBecomes(SyncedLog(Log))
    /\ acked' = acked \cup first..n - 1
    /\ UNCHANGED <<open, n, first, returned>>

Close ==
    /\ open
    /\ LogBecomes(flush_write_buffer(Log))
    /\ open' = FALSE
    /\ UNCHANGED <<n, first, acked, returned>>

\* WAL::clear(): flush, close, unlink, and open a new file.  The caller has made
\* the logged changes durable elsewhere: the old acknowledgements are void.
Clear ==
    /\ file' = <<>> /\ synced' = 0 /\ offset' = 0
    /\ buf' = <<>>
    /\ dirty' = flush_write_buffer(Log).dirty
    /\ open' = TRUE
    /\ acked' = {} /\ first' = n
    /\ UNCHANGED <<n, returned>>

----------------------------------------------------------------------------
(* Faults *)

\* The process is gone, and with it the buffer.
Restart == buf' = <<>> /\ dirty' = FALSE /\ open' = FALSE /\ UNCHANGED <<offset, n, first, acked, returned>>

\* The process dies: written data stays in the file.  If it dies in the middle of
\* safe_write(), a prefix of the buffer is there too, possibly ending within a record.
ProcessDies ==
    /\ open
    /\ \E k \in 0..Len(buf) :
         \/ file' = file \o SubSeq(buf, 1, k)
         \/ Tearing /\ k < Len(buf) /\ file' = file \o SubSeq(buf, 1, k) \o <<Torn>>
    /\ UNCHANGED synced
    /\ Restart

\* The machine stops: of the data behind the last fsync only a prefix survives,
\* possibly ending within a record.
PowerFails ==
    /\ PowerLoss
    /\ \E k \in synced..Len(file) :
         /\ \/ file' = SubSeq(file, 1, k)
            \/ Tearing /\ k < Len(file) /\ file' = SubSeq(file, 1, k) \o <<Torn>>
         /\ synced' = Len(file')
    /\ Restart

Next ==
    \/ Open \/ Close \/ Clear
    \/ LogSynced \/ LogBuffered \/ Sync
    \/ ProcessDies \/ PowerFails

Spec == Init /\ [][Next]_vars

----------------------------------------------------------------------------
\* The state is well formed, and the write buffer keeps to its size.
TypeOK ==
    /\ file \in Seq(Nat \cup {Torn}) /\ buf \in Seq(Nat)
    /\ Len(buf) <= WAL_BUFFER_SIZE
    /\ synced \in 0..Len(file) /\ offset \in Nat /\ n \in Nat \ {0} /\ first \in 1..n
    /\ dirty \in BOOLEAN /\ open \in BOOLEAN
    /\ acked \in SUBSET Nat
    /\ returned \in Seq(Nat)

\* A record whose sync has returned stays in the file whatever happens next, until
\* the log is cleared: no crash, power loss, restart or later write removes it.
AckedKept == acked \subseteq Numbers(file)

\* A record whose sync has returned is returned by replay(), whatever happens
\* next, until the log is cleared: log_insert may report it as durable.
AckedReplayable == acked \subseteq Replayed(file)

\* replay() returns records in the order they were logged and none twice.
ReplayInOrder ==
    \A i, j \in Readable(file) : i < j => file[i] < file[j]

\* The offset write_record() computed from current_offset_ and the buffer is
\* where the record ends up in the file.
OffsetsRight ==
    \A i \in DOMAIN file : file[i] # Torn => returned[file[i]] = i - 1
=============================================================================
