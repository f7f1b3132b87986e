------------------------------ MODULE DataFile ------------------------------
(***************************************************************************)
(* The data file of a database: header, schema block and fixed page slots, *)
(* as StorageEngine, the pager and DB::open/close write and read them.     *)
(* The file is a sequence of numbers; `disk' is what has reached the       *)
(* medium.  A process may die between any two steps and the power may      *)
(* fail; a write that was not followed by an fsync is then on the medium   *)
(* or not, whatever became of the other writes.                            *)
(***************************************************************************)
EXTENDS Integers, Sequences, FiniteSets, SequencesExt

CONSTANTS
    PAGE_SIZE,
    MAX_FIELDS,         \* fields that deserialise_schema accepts (1024)
    MAX_SCHEMA_LEN,     \* bytes that read_schema and data_start_offset accept (65536)
    Schemas,            \* the schemas validate() accepts, serialised: number of fields, fields
    DefaultSchema,      \* age and name, when the caller gives none
    NoSchema,           \* open without a schema
    Contents,           \* schema -> the page.data of pages written under it
    Compressions,       \* the CompressionTypes of the sessions
    LZ4_compress(_),
    LZ4_decompress(_, _),
    CorruptBlock,       \* LZ4_decompress of what is no block
    MaxPages,           \* bound on next_page_id_
    MaxOpens,           \* bound on the calls of open
    MaxChanges          \* bound on the changes of pages

VARIABLES
    exists,     \* the file has a directory entry
    file,       \* its contents, as reads see them
    disk,       \* the part of them that survives a power loss
    pc,         \* where open, checkpoint and close are
    closing,    \* the flush belongs to close
    explicit,   \* the schema the caller gave, until open succeeds
    schema,     \* schema_
    ct,         \* compression_
    mem,        \* page id -> the contents every reader must see
    dirty,      \* pages whose contents are not in the file
    next_page_id,
    outcome,    \* how the last open ended
    kept,       \* page id -> the contents a reader may find since the last checkpoint
    schema_lost,\* a power loss has undone the storing of the schema
    oversized,  \* a schema has been stored that read_schema refuses
    opens, changes

mem_vars == <<mem, dirty, next_page_id>>
SchemaHistory == <<schema_lost, oversized>>
vars == <<exists, file, disk, pc, closing, explicit, schema, ct, mem_vars, outcome, kept, SchemaHistory,
          opens, changes>>

None == 0
LZ4 == 1
MAGIC == 9

Page == UNION {Contents[s] : s \in Schemas}

\* A serialised schema begins with its number of fields (the version, which schemas_match
\* ignores, is left out), and says by itself where it ends.
ASSUME SchemaAssumption ==
    /\ \A s \in Schemas : s \in Seq(Nat) /\ Len(s) > 0
    /\ \A s, t \in Schemas : IsPrefix(s, t) => s = t
    /\ DefaultSchema \in Schemas /\ NoSchema \notin Schemas
    /\ Contents \in [Schemas -> SUBSET Seq(Nat)]

ASSUME CodecAssumption ==
    /\ Compressions \subseteq {None, LZ4}
    /\ \A data \in Page : LZ4_compress(data) \in Seq(Nat)
    /\ CorruptBlock \notin Page \cup {<<>>}

ASSUME BoundAssumption ==
    {PAGE_SIZE, MAX_FIELDS, MAX_SCHEMA_LEN, MaxPages, MaxOpens, MaxChanges} \subseteq Nat

-----------------------------------------------------------------------------
(* The layout of the file.  Offsets count from 0. *)

DBHeaderSize == 2       \* magic, page_count
PageHeaderSize == 4     \* page_id, compressed_size, uncompressed_size, compression_type
PAGE_SLOT_SIZE == PageHeaderSize + PAGE_SIZE

Greater(a, b) == IF a > b THEN a ELSE b

\* pwrite: a write behind the end leaves a hole of zeros.
Pwrite(f, data, offset) ==
    [i \in 1 .. Greater(Len(f), offset + Len(data)) |->
        IF i > offset /\ i <= offset + Len(data) THEN data[i - offset]
        ELSE IF i <= Len(f) THEN f[i] ELSE 0]

CanRead(f, offset, count) == offset + count <= Len(f)
Pread(f, offset, count) == SubSeq(f, offset + 1, offset + count)

HeaderReadable(f) == CanRead(f, 0, DBHeaderSize) /\ f[1] = MAGIC
PageCount(f) == f[2]

SchemaLen(f) == f[DBHeaderSize + 1]

\* deserialise_schema reads schema s from the bytes; what follows it is ignored.
Deserialises(data, s) == s[1] <= MAX_FIELDS /\ IsPrefix(s, data)

\* open() and read_schema: a schema that can be read back.
HasStoredSchema(f) ==
    /\ Len(f) > DBHeaderSize + 1
    /\ SchemaLen(f) # 0 /\ SchemaLen(f) <= MAX_SCHEMA_LEN
    /\ CanRead(f, DBHeaderSize + 1, SchemaLen(f))
    /\ \E s \in Schemas : Deserialises(Pread(f, DBHeaderSize + 1, SchemaLen(f)), s)

StoredSchema(f) ==
    CHOOSE s \in Schemas : Deserialises(Pread(f, DBHeaderSize + 1, SchemaLen(f)), s)

\* A schema too long for read_schema gets no room: the pages start over its block.
data_start_offset(f) ==
    IF CanRead(f, DBHeaderSize, 1) /\ SchemaLen(f) <= MAX_SCHEMA_LEN
    THEN DBHeaderSize + 1 + SchemaLen(f) ELSE DBHeaderSize

page_file_offset_Packed(f, p) == data_start_offset(f) + p * PAGE_SIZE

page_file_offset(f, p) == data_start_offset(f) + p * PAGE_SLOT_SIZE

\* LZ4_compress_default does not fail with a destination of LZ4_compressBound bytes.
Compress(type, data) == IF type = None THEN data ELSE LZ4_compress(data)

\* write_page_to_disk: header and blob in one pwrite.
PageImage(p, data, type) ==
    LET blob == Compress(type, data)
    IN  <<p, Len(blob), Len(data), type>> \o blob

WritePage(f, p) == Pwrite(f, PageImage(p, mem[p], ct), page_file_offset(f, p))

\* read_page_raw and decompress: the page's data, or CorruptBlock when one of them throws.
ReadPage(f, p) ==
    LET off == page_file_offset(f, p)
        h == Pread(f, off, PageHeaderSize)
        blob == Pread(f, off + PageHeaderSize, h[2])
    IN  CASE ~CanRead(f, off, PageHeaderSize) -> CorruptBlock
          [] ~CanRead(f, off + PageHeaderSize, h[2]) -> CorruptBlock
          [] h[4] = None -> IF h[2] = h[3] THEN blob ELSE CorruptBlock
          [] OTHER -> LET data == LZ4_decompress(blob, h[3])
                      IN  IF Len(data) = h[3] THEN data ELSE CorruptBlock

\* The pages recover() accepts.
Recovered(f) ==
    {p \in 0 .. PageCount(f) - 1 :
        /\ CanRead(f, page_file_offset(f, p), PageHeaderSize)
        /\ f[page_file_offset(f, p) + 1] = p
        /\ ReadPage(f, p) # CorruptBlock}
-----------------------------------------------------------------------------
NoPages == [p \in {} |-> <<>>]

Init ==
    /\ exists = FALSE /\ file = <<>> /\ disk = <<>>
    /\ pc = "closed" /\ closing = FALSE
    /\ explicit = NoSchema /\ schema = NoSchema /\ ct = None
    /\ mem = NoPages /\ dirty = {} /\ next_page_id = 0
    /\ outcome = "none" /\ kept = NoPages /\ schema_lost = FALSE /\ oversized = FALSE
    /\ opens = 0 /\ changes = 0

Session == <<closing, explicit, ct>>
Bounds == <<opens, changes>>

\* Nothing of the process is left.
Forget ==
    /\ pc' = "closed" /\ outcome' = "none" /\ closing' = FALSE
    /\ explicit' = NoSchema /\ schema' = NoSchema /\ ct' = None
    /\ mem' = NoPages /\ dirty' = {} /\ next_page_id' = 0

\* DB() and open() up to the test that the file exists; a missing file is created empty.
Open(s, type) ==
    /\ pc = "closed" /\ opens < MaxOpens
    /\ opens' = opens + 1
    /\ explicit' = s /\ ct' = type /\ closing' = FALSE
    /\ exists' = TRUE
    /\ pc' = IF exists THEN "check" ELSE "create"
    /\ outcome' = "none"
    /\ UNCHANGED <<file, disk, schema, mem_vars, kept, SchemaHistory, changes>>

\* write_db_header: the write, then the fsync.
CreateHeader ==
    /\ pc = "create"
    /\ file' = Pwrite(file, <<MAGIC, 0>>, 0)
    /\ pc' = "create_sync"
    /\ UNCHANGED <<exists, SchemaHistory, disk, Session, schema, mem_vars, outcome, kept, Bounds>>

CreateSync ==
    /\ pc = "create_sync"
    /\ disk' = file
    /\ pc' = "check"
    /\ UNCHANGED <<exists, SchemaHistory, file, Session, schema, mem_vars, outcome, kept, Bounds>>

\* An open that throws; storage_->close() syncs what is there.
Refuse(why) ==
    /\ pc' = "closed" /\ outcome' = why
    /\ disk' = IF why = "unreadable" THEN disk ELSE file
    /\ UNCHANGED <<exists, SchemaHistory, file, Session, schema, mem_vars, kept, Bounds>>

Proceed(where, s) ==
    /\ pc' = where /\ schema' = s
    /\ UNCHANGED <<exists, SchemaHistory, file, disk, Session, mem_vars, outcome, kept, Bounds>>

\* What the constructor makes of the caller's schema.
Requested == IF explicit = NoSchema THEN DefaultSchema ELSE explicit

\* Without schemas_match.
Check_TrustsCaller ==
    /\ pc = "check"
    /\ IF ~HeaderReadable(file) THEN Refuse("unreadable")
       ELSE IF HasStoredSchema(file)
       THEN Proceed("recover", IF explicit = NoSchema THEN StoredSchema(file) ELSE explicit)
       ELSE IF PageCount(file) > 0 THEN Refuse("corrupt") ELSE Proceed("write_len", Requested)

\* open() decides between the stored schema and the caller's.
Check ==
    /\ pc = "check"
    /\ \/ ~HeaderReadable(file) /\ Refuse("unreadable")
       \/ /\ HeaderReadable(file)
          /\ HasStoredSchema(file)
          /\ IF explicit # NoSchema /\ explicit # StoredSchema(file)
             THEN Refuse("mismatch")
             ELSE Proceed("recover", StoredSchema(file))
       \/ /\ HeaderReadable(file)
          /\ ~HasStoredSchema(file)
          /\ IF PageCount(file) > 0 THEN Refuse("corrupt")
             ELSE Proceed("write_len", Requested)

\* The schemas that read_schema does not refuse.
Readable(s) == s[1] <= MAX_FIELDS /\ Len(s) <= MAX_SCHEMA_LEN

\* write_schema: length and data are two writes, nothing syncs them, and nothing is refused.
WriteSchemaLen ==
    /\ pc = "write_len"
    /\ file' = Pwrite(file, <<Len(schema)>>, DBHeaderSize)
    /\ pc' = "write_data"
    /\ oversized' = (oversized \/ ~Readable(schema))
    /\ UNCHANGED <<exists, schema_lost, disk, Session, schema, mem_vars, outcome, kept, Bounds>>

WriteSchemaData ==
    /\ pc = "write_data"
    /\ file' = Pwrite(file, schema, DBHeaderSize + 1)
    /\ pc' = "recover"
    /\ UNCHANGED <<exists, SchemaHistory, disk, Session, schema, mem_vars, outcome, kept, Bounds>>

\* The next page gets the id of the last one.
Recover_LastId ==
    /\ pc = "recover"
    /\ mem' = [p \in Recovered(file) |-> ReadPage(file, p)]
    /\ dirty' = {}
    /\ next_page_id' = IF Recovered(file) = {} THEN 0
                       ELSE CHOOSE p \in Recovered(file) : \A q \in Recovered(file) : q <= p
    /\ pc' = "open" /\ outcome' = "open" /\ explicit' = NoSchema
    /\ UNCHANGED <<exists, SchemaHistory, file, disk, closing, schema, ct, kept, Bounds>>

\* recover(), the end of open(); the log is replayed by changes of pages.
Recover ==
    /\ pc = "recover"
    /\ mem' = [p \in Recovered(file) |-> ReadPage(file, p)]
    /\ dirty' = {}
    /\ next_page_id' = IF Recovered(file) = {} THEN 0
                       ELSE 1 + CHOOSE p \in Recovered(file) : \A q \in Recovered(file) : q <= p
    /\ pc' = "open" /\ outcome' = "open" /\ explicit' = NoSchema
    /\ UNCHANGED <<exists, SchemaHistory, file, disk, closing, schema, ct, kept, Bounds>>
-----------------------------------------------------------------------------
\* A write to a page, the last one or a new one among them.
Change(p, c) ==
    /\ pc = "open" /\ changes < MaxChanges
    /\ c \in Contents[schema]
    /\ p \in DOMAIN mem \/ (p = next_page_id /\ p < MaxPages)
    /\ mem' = [q \in DOMAIN mem \cup {p} |-> IF q = p THEN c ELSE mem[q]]
    /\ dirty' = dirty \cup {p}
    /\ next_page_id' = Greater(next_page_id, p + 1)
    /\ changes' = changes + 1
    /\ UNCHANGED <<exists, SchemaHistory, file, disk, pc, Session, schema, outcome, kept, opens>>

\* write_page_to_disk, of an eviction or of flush_all.
Write(p) ==
    /\ file' = WritePage(file, p)
    /\ dirty' = dirty \ {p}
    /\ kept' = [q \in DOMAIN kept |-> IF q = p THEN kept[q] \cup {mem[q]} ELSE kept[q]]
    /\ UNCHANGED <<exists, SchemaHistory, disk, Session, schema, mem, next_page_id, outcome, Bounds>>

Evict(p) ==
    /\ pc = "open" /\ p \in dirty
    /\ Write(p)
    /\ UNCHANGED pc

\* checkpoint() and close() start flush_all.
Flush(close) ==
    /\ pc = "open"
    /\ pc' = "flush" /\ closing' = close
    /\ UNCHANGED <<exists, SchemaHistory, file, disk, explicit, ct, schema, mem_vars, outcome, kept, Bounds>>

\* The dirty pages, in the order of their ids.
FlushPage(p) ==
    /\ pc = "flush" /\ p \in dirty /\ \A q \in dirty : p <= q
    /\ Write(p)
    /\ UNCHANGED pc

FlushHeader ==
    /\ pc = "flush" /\ dirty = {}
    /\ file' = Pwrite(file, <<MAGIC, next_page_id>>, 0)
    /\ pc' = "flush_sync"
    /\ UNCHANGED <<exists, SchemaHistory, disk, Session, schema, mem_vars, outcome, kept, Bounds>>

FlushSync_NoSync ==
    /\ pc = "flush_sync"
    /\ kept' = [p \in DOMAIN mem |-> {mem[p]}]
    /\ IF closing THEN Forget
       ELSE pc' = "open" /\ UNCHANGED <<Session, schema, mem_vars, outcome>>
    /\ UNCHANGED <<exists, SchemaHistory, file, disk, Bounds>>

\* The fsync that ends flush_all; close() syncs again and closes the file.
FlushSync ==
    /\ pc = "flush_sync"
    /\ disk' = file
    /\ kept' = [p \in DOMAIN mem |-> {mem[p]}]
    /\ IF closing THEN Forget
       ELSE pc' = "open" /\ UNCHANGED <<Session, schema, mem_vars, outcome>>
    /\ UNCHANGED <<exists, SchemaHistory, file, Bounds>>
-----------------------------------------------------------------------------
\* The parts of the file that one pwrite covers, as offset and length.
Parts ==
    {<<0, DBHeaderSize>>, <<DBHeaderSize, 1>>}
        \cup (IF CanRead(file, DBHeaderSize, 1) THEN {<<DBHeaderSize + 1, SchemaLen(file)>>} ELSE {})
        \cup {<<page_file_offset(file, p), PAGE_SLOT_SIZE>> : p \in 0 .. MaxPages - 1}

\* The system writes a part of the file back, whenever it likes; for a process that has
\* died since, as if it had done so just before.
WriteBack(part) ==
    LET count == (IF CanRead(file, part[1], part[2]) THEN part[2] ELSE Len(file) - part[1])
    IN  /\ pc # "closed"
        /\ part[1] < Len(file)
        /\ disk' = Pwrite(disk, Pread(file, part[1], count), part[1])
        /\ disk' # disk
        /\ UNCHANGED <<exists, SchemaHistory, file, pc, Session, schema, mem_vars, outcome, kept, Bounds>>

\* The process dies: the file stays as it is.
Die ==
    /\ pc # "closed"
    /\ Forget
    /\ UNCHANGED <<exists, SchemaHistory, file, disk, kept, Bounds>>

\* The file has a schema that the medium does not have.
SchemaUnsynced ==
    /\ HasStoredSchema(file)
    /\ ~(/\ HasStoredSchema(disk)
         /\ SchemaLen(disk) = SchemaLen(file) /\ StoredSchema(disk) = StoredSchema(file))

\* The power fails: what was not written back is gone, a file never synced perhaps as well.
PowerLoss ==
    /\ pc # "closed" \/ file # disk
    /\ file' = disk
    /\ exists' \in IF disk = <<>> THEN BOOLEAN ELSE {exists}
    /\ schema_lost' = (schema_lost \/ SchemaUnsynced)
    /\ Forget
    /\ UNCHANGED <<disk, kept, oversized, Bounds>>

Next ==
    \/ \E s \in Schemas \cup {NoSchema}, type \in Compressions : Open(s, type)
    \/ CreateHeader \/ CreateSync \/ Check
    \/ WriteSchemaLen \/ WriteSchemaData \/ Recover
    \/ \E p \in 0 .. MaxPages - 1, c \in Page : Change(p, c)
    \/ \E p \in 0 .. MaxPages - 1 : Evict(p) \/ FlushPage(p)
    \/ \E close \in BOOLEAN : Flush(close)
    \/ FlushHeader \/ FlushSync
    \/ \E part \in Parts : WriteBack(part)
    \/ Die \/ PowerLoss

Spec == Init /\ [][Next]_vars
-----------------------------------------------------------------------------
(* The types; every page is in memory or, clean, in the file. *)
TypeOK ==
    /\ exists \in BOOLEAN /\ closing \in BOOLEAN
    /\ \A i \in DOMAIN file : file[i] \in Nat
    /\ \A i \in DOMAIN disk : disk[i] \in Nat
    /\ pc \in {"closed", "create", "create_sync", "check", "write_len", "write_data",
               "recover", "open", "flush", "flush_sync"}
    /\ explicit \in Schemas \cup {NoSchema} /\ schema \in Schemas \cup {NoSchema}
    /\ ct \in Compressions \cup {None}
    /\ dirty \subseteq DOMAIN mem /\ DOMAIN mem \subseteq 0 .. next_page_id - 1
    /\ \A p \in DOMAIN mem : mem[p] \in Page \cup {<<>>}
    /\ next_page_id \in 0 .. MaxPages
    /\ outcome \in {"none", "open", "unreadable", "mismatch", "corrupt"}
    /\ \A p \in DOMAIN kept : kept[p] \subseteq Page \cup {<<>>}
    /\ opens \in 0 .. MaxOpens /\ changes \in 0 .. MaxChanges

Serving == pc \in {"open", "flush", "flush_sync"}

(* A clean page read from its slot is what was last written to it, whatever  *)
(* was written to other pages since, and with whatever compression each was  *)
(* written: "Each page occupies a fixed slot [...], so pages can always be   *)
(* overwritten in place regardless of compressed size changes" (README.md).  *)
(* Beyond 65536 bytes of schema the slots begin at its length word, which    *)
(* the first page overwrites, so that they move: data_start_offset.          *)
ReadsBack ==
    Serving /\ ~oversized => \A p \in DOMAIN mem \ dirty : ReadPage(file, p) = mem[p]

(* Once a checkpoint has ended, its pages can be read with their schema from *)
(* then on, after any process death, power loss, refused or abandoned open:  *)
(* each has the contents of the checkpoint or those of a later write.  This  *)
(* takes schemas that read_schema and deserialise_schema accept.             *)
PagesSurvive ==
    DOMAIN kept # {} /\ ~oversized =>
        \A f \in {file, disk} :
            /\ HeaderReadable(f) /\ HasStoredSchema(f)
            /\ \A p \in DOMAIN kept : p \in Recovered(f) /\ ReadPage(f, p) \in kept[p]

(* The rows of a checkpointed page are never decoded with another schema    *)
(* than the one they were encoded with (the comment of DB::open), unless a  *)
(* power loss took the schema, which only the first checkpoint syncs, or    *)
(* read_schema refuses it, and another one is stored over it.               *)
SchemaKept ==
    Serving /\ ~schema_lost /\ ~oversized =>
        \A p \in DOMAIN mem \cap DOMAIN kept : mem[p] \in Contents[schema] \cup {<<>>}

(* A database with a checkpoint is refused only for an explicit schema that  *)
(* differs from the stored one; open() without a schema always succeeds.     *)
(* "Define any number of [...] fields" and "On-disk schema is stored and     *)
(* adopted on reopen" (README.md) take ~oversized: Schema::validate() sets   *)
(* no limit, and a schema beyond those of read_schema makes every open after *)
(* the checkpoint throw.                                                     *)
RefusedWithReason ==
    DOMAIN kept # {} /\ ~oversized =>
        /\ outcome \notin {"unreadable", "corrupt"}
        /\ outcome = "mismatch" => explicit \notin {NoSchema, StoredSchema(file)}
=============================================================================
