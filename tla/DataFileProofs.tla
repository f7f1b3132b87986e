-------------------------- MODULE DataFileProofs --------------------------
(***************************************************************************)
(* Proofs about DataFile: as long as no power loss takes the schema and no *)
(* schema beyond the limits of read_schema is stored, pages are read back  *)
(* as written, a checkpoint survives, and its rows are only decoded with   *)
(* their schema, for every codec that restores its input and pages that    *)
(* fit their slots.                                                        *)
(***************************************************************************)
EXTENDS DataFile, ListLemmas, TLAPS

\* LZ4_decompress_safe undoes LZ4_compress_default.
Restores == \A data \in Page : LZ4_decompress(LZ4_compress(data), Len(data)) = data

\* No page is longer than its slot, compressed or not.
Fits == \A data \in Page, type \in {None} \cup Compressions : Len(Compress(type, data)) <= PAGE_SIZE

----------------------------------------------------------------------------
(* The invariant *)

\* Where the slot of page p starts, behind schema s.
SlotAt(s, p) == DBHeaderSize + 1 + Len(s) + p * PAGE_SLOT_SIZE

\* The file has s, which read_schema accepts, where the schema is stored.
Stores(f, s) ==
    /\ s \in Schemas /\ Readable(s)
    /\ Len(f) >= DBHeaderSize + 1 + Len(s)
    /\ f[DBHeaderSize + 1] = Len(s)
    /\ \A i \in 1 .. Len(s) : f[DBHeaderSize + 1 + i] = s[i]

\* The slot at `at' was never written: what there is of it is zero.
Unwritten(f, at) == \A i \in 1 .. PAGE_SLOT_SIZE : at + i <= Len(f) => f[at + i] = 0

\* The slot at `at' begins with what write_page_to_disk makes of page p.
Written(f, at, p, data, type) ==
    LET blob == Compress(type, data)
    IN  /\ at + PageHeaderSize + Len(blob) <= Len(f)
        /\ f[at + 1] = p /\ f[at + 2] = Len(blob) /\ f[at + 3] = Len(data) /\ f[at + 4] = type
        /\ \A i \in 1 .. Len(blob) : f[at + PageHeaderSize + i] = blob[i]

WrittenBy(f, at, p, data) == \E type \in {None} \cup Compressions : Written(f, at, p, data, type)

\* A slot of zeros reads as an empty page 0.
Empty(f, at, p, data) ==
    /\ p = 0 /\ data = <<>> /\ at + PageHeaderSize <= Len(f)
    /\ f[at + 1] = 0 /\ f[at + 2] = 0 /\ f[at + 3] = 0 /\ f[at + 4] = 0

\* Page p, written under schema s, reads as data.
Holds(f, s, p, data) ==
    \/ data \in Contents[s] /\ WrittenBy(f, SlotAt(s, p), p, data)
    \/ Empty(f, SlotAt(s, p), p, data)

\* Every slot was written under schema s or never.
Slots(f, s) ==
    \A p \in 0 .. MaxPages - 1 :
        \/ Unwritten(f, SlotAt(s, p))
        \/ \E data \in Contents[s] : WrittenBy(f, SlotAt(s, p), p, data)

\* A header that can be read counts no page too many.
Header(f) == Len(f) >= DBHeaderSize => f[2] \in 0 .. MaxPages

\* The file has no schema yet and nothing behind it, or it has one and its slots.
Shape ==
    /\ file \in Seq(Nat) /\ disk \in Seq(Nat) /\ Len(disk) <= Len(file)
    /\ Header(file) /\ Header(disk)
    /\ ~exists => file = <<>> /\ disk = <<>>
    /\ \/ Len(file) <= DBHeaderSize + 1
       \/ \E s \in Schemas : Stores(file, s) /\ Slots(file, s) /\ Slots(disk, s)

\* What open() has done so far.
Opening ==
    /\ pc # "closed" => exists
    /\ pc = "create" => file = <<>> /\ disk = <<>>
    /\ pc = "create_sync" => Len(file) = DBHeaderSize
    /\ pc = "write_len" => HeaderReadable(file) /\ Len(file) <= DBHeaderSize + 1 /\ schema \in Schemas
    /\ pc = "write_data" => /\ HeaderReadable(file) /\ schema \in Schemas /\ Readable(schema)
                            /\ Len(file) = DBHeaderSize + 1 /\ file[DBHeaderSize + 1] = Len(schema)
    /\ pc \in {"recover", "open", "flush", "flush_sync"} => HeaderReadable(file) /\ Stores(file, schema)

\* The pages in memory are those of the schema; a clean one is in its slot.
Memory ==
    /\ ~Serving => mem = NoPages /\ dirty = {} /\ next_page_id = 0
    /\ Serving =>
        /\ outcome = "open"
        /\ DOMAIN kept \subseteq DOMAIN mem
        /\ \A p \in dirty : mem[p] \in Contents[schema]
        /\ \A p \in DOMAIN mem \ dirty : Holds(file, schema, p, mem[p])
    /\ pc = "flush_sync" => dirty = {} /\ PageCount(file) = next_page_id

\* The checkpointed pages are in file f, under the schema of the data file.
Checkpointed(f, s) ==
    /\ HeaderReadable(f) /\ Stores(f, s)
    /\ \A p \in DOMAIN kept : p < PageCount(f) /\ \E data \in kept[p] : Holds(f, s, p, data)

Kept ==
    /\ DOMAIN kept \subseteq 0 .. MaxPages - 1
    /\ DOMAIN kept # {} => \E s \in Schemas : Checkpointed(file, s) /\ Checkpointed(disk, s)

\* How open() has ended.
Ended ==
    /\ outcome \in {"unreadable", "corrupt"} => DOMAIN kept = {}
    /\ outcome = "mismatch" => explicit # NoSchema /\ ~Stores(file, explicit)
    /\ outcome \in {"unreadable", "mismatch", "corrupt"} => pc = "closed"

Sound == TypeOK /\ Shape /\ Opening /\ Memory /\ Kept /\ Ended

FileInv == schema_lost \/ oversized \/ Sound

\* Every schema that the sessions use is one that read_schema accepts.
WithinLimits == \A s \in Schemas : Readable(s)

\* open() does not refuse a database that has a checkpoint as damaged.
Reopens == DOMAIN kept # {} => outcome \notin {"unreadable", "corrupt"}

----------------------------------------------------------------------------
(* Bytes of a file *)

\* The constants that count something.
LEMMA Sizes ==
    /\ PAGE_SIZE \in Nat /\ MAX_SCHEMA_LEN \in Nat /\ MaxPages \in Nat /\ MaxOpens \in Nat /\ MaxChanges \in Nat
    /\ PAGE_SLOT_SIZE \in Nat /\ PAGE_SLOT_SIZE = 4 + PAGE_SIZE
    /\ DBHeaderSize = 2 /\ PageHeaderSize = 4
BY BoundAssumption DEF PAGE_SLOT_SIZE, PageHeaderSize, DBHeaderSize

\* A schema is a nonempty sequence of numbers, and so are the pages under it.
LEMMA SchemaFacts ==
    ASSUME NEW s \in Schemas
    PROVE  /\ s \in Seq(Nat) /\ Len(s) \in Nat /\ Len(s) > 0 /\ s # NoSchema
           /\ \A data \in Contents[s] : data \in Page /\ data \in Seq(Nat)
<1>1. s \in Seq(Nat) /\ Len(s) > 0 /\ s # NoSchema  BY SchemaAssumption
<1>2. Contents[s] \in SUBSET Seq(Nat)  BY SchemaAssumption
<1>3. \A data \in Contents[s] : data \in Page  BY DEF Page
<1> QED  BY <1>1, <1>2, <1>3

\* What pwrite leaves in a file.
LEMMA PwriteBytes ==
    ASSUME NEW f \in Seq(Nat), NEW data \in Seq(Nat), NEW offset \in Nat
    PROVE  /\ Pwrite(f, data, offset) \in Seq(Nat)
           /\ Len(Pwrite(f, data, offset)) >= Len(f)
           /\ Len(Pwrite(f, data, offset)) >= offset + Len(data)
           /\ \/ Len(Pwrite(f, data, offset)) = Len(f)
              \/ Len(Pwrite(f, data, offset)) = offset + Len(data)
           /\ \A i \in 1 .. Len(data) : Pwrite(f, data, offset)[offset + i] = data[i]
           /\ \A i \in 1 .. Len(Pwrite(f, data, offset)) :
                i <= offset \/ i > offset + Len(data) =>
                    Pwrite(f, data, offset)[i] = IF i <= Len(f) THEN f[i] ELSE 0
<1> DEFINE n == Greater(Len(f), offset + Len(data))
           G(i) == IF i > offset /\ i <= offset + Len(data) THEN data[i - offset]
                   ELSE IF i <= Len(f) THEN f[i] ELSE 0
           g == [i \in 1 .. n |-> G(i)]
<1>1. n \in Nat /\ n >= Len(f) /\ n >= offset + Len(data) /\ (n = Len(f) \/ n = offset + Len(data))
  BY DEF Greater
<1>2. \A i \in 1 .. n : G(i) \in Nat  OBVIOUS
<1>3. Pwrite(f, data, offset) = g  BY DEF Pwrite
<1>4. g \in Seq(Nat) /\ Len(g) = n
  <2> HIDE DEF n, G
  <2> QED  BY <1>1, <1>2
<1>5. \A i \in 1 .. n : g[i] = G(i)  BY <1>1
<1>6. \A i \in 1 .. Len(data) : g[offset + i] = data[i]
  <2> SUFFICES ASSUME NEW i \in 1 .. Len(data)  PROVE g[offset + i] = data[i]
    OBVIOUS
  <2>1. offset + i \in 1 .. n  BY <1>1
  <2>2. g[offset + i] = G(offset + i)  BY <2>1, <1>5
  <2>3. G(offset + i) = data[offset + i - offset]  OBVIOUS
  <2>4. offset + i - offset = i  OBVIOUS
  <2> QED  BY <2>2, <2>3, <2>4
<1>7. \A i \in 1 .. n : i <= offset \/ i > offset + Len(data) => g[i] = IF i <= Len(f) THEN f[i] ELSE 0
  <2> SUFFICES ASSUME NEW i \in 1 .. n, i <= offset \/ i > offset + Len(data)
               PROVE  g[i] = IF i <= Len(f) THEN f[i] ELSE 0
    OBVIOUS
  <2>1. ~(i > offset /\ i <= offset + Len(data))  OBVIOUS
  <2>2. g[i] = G(i)  BY <1>5
  <2> QED  BY <2>1, <2>2
<1> HIDE DEF n, g
<1> QED  BY <1>1, <1>3, <1>4, <1>6, <1>7

\* The file g is f after a pwrite.
Patched(f, g, data, offset) ==
    /\ g \in Seq(Nat) /\ Len(g) >= Len(f) /\ Len(g) >= offset + Len(data)
    /\ Len(g) = Len(f) \/ Len(g) = offset + Len(data)
    /\ \A i \in 1 .. Len(data) : g[offset + i] = data[i]
    /\ \A i \in 1 .. Len(g) :
          i <= offset \/ i > offset + Len(data) => g[i] = IF i <= Len(f) THEN f[i] ELSE 0

LEMMA PwritePatches ==
    ASSUME NEW f \in Seq(Nat), NEW data \in Seq(Nat), NEW offset \in Nat
    PROVE  Patched(f, Pwrite(f, data, offset), data, offset)
BY PwriteBytes DEF Patched

\* What pread finds in a file.
LEMMA PreadBytes ==
    ASSUME NEW f \in Seq(Nat), NEW offset \in Nat, NEW count \in Nat, CanRead(f, offset, count)
    PROVE  /\ Pread(f, offset, count) \in Seq(Nat) /\ Len(Pread(f, offset, count)) = count
           /\ \A i \in 1 .. count : Pread(f, offset, count)[i] = f[offset + i]
<1>1. offset + count <= Len(f) /\ offset + 1 >= 1  BY DEF CanRead
<1>2. Pread(f, offset, count) = SubSeq(f, offset + 1, offset + count)  BY DEF Pread
<1>3. SubSeq(f, offset + 1, offset + count) \in Seq(Nat)  BY <1>1
<1>4. Len(SubSeq(f, offset + 1, offset + count)) = count  BY <1>1
<1>5. ASSUME NEW i \in 1 .. count
      PROVE  SubSeq(f, offset + 1, offset + count)[i] = f[offset + i]
  <2>1. offset + 1 + i - 1 = offset + i  OBVIOUS
  <2>2. i \in 1 .. (offset + count) - (offset + 1) + 1  OBVIOUS
  <2>3. SubSeq(f, offset + 1, offset + count)[i] = f[offset + 1 + i - 1]  BY <1>1, <2>2
  <2> QED  BY <2>1, <2>3
<1> QED  BY <1>2, <1>3, <1>4, <1>5

\* Slots do not overlap.
LEMMA SlotsApart ==
    ASSUME NEW s \in Schemas, NEW p \in Nat, NEW q \in Nat, p < q
    PROVE  /\ SlotAt(s, p) \in Nat /\ SlotAt(s, q) \in Nat
           /\ SlotAt(s, p) >= 3 + Len(s)
           /\ SlotAt(s, p) + PAGE_SLOT_SIZE <= SlotAt(s, q)
<1>1. Len(s) \in Nat  BY SchemaFacts
<1> DEFINE z == PAGE_SLOT_SIZE  d == q - p - 1
<1>2. z \in Nat  BY Sizes
<1>3. d \in Nat /\ q = p + 1 + d  OBVIOUS
<1>4. p * z \in Nat /\ q * z \in Nat /\ d * z \in Nat  BY <1>2, <1>3
<1>5. q * z = p * z + z + d * z  BY <1>2, <1>3
<1>6. SlotAt(s, p) = 3 + Len(s) + p * z /\ SlotAt(s, q) = 3 + Len(s) + q * z  BY Sizes DEF SlotAt
<1> HIDE DEF z, d
<1>7. p * z + z <= q * z  BY <1>2, <1>4, <1>5
<1>8. SlotAt(s, p) + z <= SlotAt(s, q)  BY <1>1, <1>2, <1>4, <1>6, <1>7
<1> QED  BY <1>1, <1>2, <1>4, <1>6, <1>8 DEF z

LEMMA SlotBounds ==
    ASSUME NEW s \in Schemas, NEW p \in Nat
    PROVE  SlotAt(s, p) \in Nat /\ SlotAt(s, p) >= 3 + Len(s)
<1>1. p + 1 \in Nat /\ p < p + 1  OBVIOUS
<1> QED  BY <1>1, SlotsApart

----------------------------------------------------------------------------
(* The schema block *)

\* No schema is the beginning of another one.
LEMMA OneDeserialises ==
    ASSUME NEW s \in Schemas, s[1] <= MAX_FIELDS, NEW t \in Schemas
    PROVE  Deserialises(s, t) <=> t = s
<1>1. IsPrefix(s, s)
  <2>1. Len(s) \in Nat  BY SchemaFacts
  <2> QED  BY <2>1 DEF IsPrefix
<1>2. IsPrefix(t, s) => t = s  BY SchemaAssumption
<1> QED  BY <1>1, <1>2 DEF Deserialises

\* The bytes of a stored schema.
LEMMA StoresBytes ==
    ASSUME NEW f \in Seq(Nat), NEW s, Stores(f, s)
    PROVE  /\ s \in Schemas /\ Readable(s) /\ Len(f) > 3
           /\ SchemaLen(f) = Len(s) /\ CanRead(f, 3, Len(s))
           /\ Pread(f, 3, Len(s)) = s
<1>0. s \in Schemas /\ Readable(s)  BY DEF Stores
<1>1. s \in Seq(Nat) /\ Len(s) \in Nat /\ Len(s) > 0  BY <1>0, SchemaFacts
<1>2. Len(f) >= 3 + Len(s) /\ f[3] = Len(s) /\ \A i \in 1 .. Len(s) : f[3 + i] = s[i]
  BY DEF Stores, DBHeaderSize
<1>3. SchemaLen(f) = Len(s)  BY <1>2 DEF SchemaLen, DBHeaderSize
<1>4. CanRead(f, 3, Len(s))  BY <1>1, <1>2 DEF CanRead
<1> DEFINE r == Pread(f, 3, Len(s))
<1>5. r \in Seq(Nat) /\ Len(r) = Len(s) /\ \A i \in 1 .. Len(s) : r[i] = f[3 + i]
  BY <1>1, <1>4, PreadBytes
<1>6. r = s
  <2> HIDE DEF r
  <2>1. \A i \in 1 .. Len(s) : r[i] = s[i]  BY <1>2, <1>5
  <2>2. DOMAIN r = 1 .. Len(s) /\ r = [i \in DOMAIN r |-> r[i]]  BY <1>5
  <2>3. DOMAIN s = 1 .. Len(s) /\ s = [i \in DOMAIN s |-> s[i]]  BY <1>1
  <2> QED  BY <2>1, <2>2, <2>3
<1>7. Len(f) > 3  BY <1>1, <1>2
<1> QED  BY <1>0, <1>3, <1>4, <1>6, <1>7

\* A stored schema is found by open().
LEMMA StoresRead ==
    ASSUME NEW f \in Seq(Nat), NEW s, Stores(f, s)
    PROVE  HasStoredSchema(f) /\ StoredSchema(f) = s /\ Len(f) > 3
<1>1. /\ s \in Schemas /\ Readable(s) /\ Len(f) > 3
      /\ SchemaLen(f) = Len(s) /\ CanRead(f, 3, Len(s)) /\ Pread(f, 3, Len(s)) = s
  BY StoresBytes
<1>2. Len(s) \in Nat /\ Len(s) > 0  BY <1>1, SchemaFacts
<1>3. s[1] <= MAX_FIELDS /\ Len(s) <= MAX_SCHEMA_LEN  BY <1>1 DEF Readable
<1>4. Pread(f, DBHeaderSize + 1, SchemaLen(f)) = s /\ CanRead(f, DBHeaderSize + 1, SchemaLen(f))
      /\ Len(f) > DBHeaderSize + 1
  BY <1>1 DEF DBHeaderSize
<1>5. \A t \in Schemas : Deserialises(Pread(f, DBHeaderSize + 1, SchemaLen(f)), t) <=> t = s
  BY <1>1, <1>3, <1>4, OneDeserialises
<1>6. HasStoredSchema(f)
  <2>1. SchemaLen(f) # 0 /\ SchemaLen(f) <= MAX_SCHEMA_LEN  BY <1>1, <1>2, <1>3
  <2> QED  BY <1>1, <1>4, <1>5, <2>1 DEF HasStoredSchema
<1>7. StoredSchema(f) = s  BY <1>1, <1>5 DEF StoredSchema
<1> QED  BY <1>1, <1>6, <1>7

\* What open() finds is stored, if it has the length that is stored.
LEMMA ReadStores ==
    ASSUME NEW f \in Seq(Nat), HasStoredSchema(f), NEW s, StoredSchema(f) = s, SchemaLen(f) = Len(s)
    PROVE  Stores(f, s)
<1> DEFINE r == Pread(f, 3, f[3])
<1>1. /\ Len(f) > 3 /\ CanRead(f, 3, f[3]) /\ f[3] <= MAX_SCHEMA_LEN /\ f[3] = Len(s)
      /\ s \in Schemas /\ Deserialises(r, s)
  BY DEF HasStoredSchema, StoredSchema, SchemaLen, DBHeaderSize
<1>2. f[3] \in Nat /\ s \in Seq(Nat)  BY <1>1, SchemaFacts
<1>3. r \in Seq(Nat) /\ Len(r) = f[3] /\ \A i \in 1 .. f[3] : r[i] = f[3 + i]  BY <1>1, <1>2, PreadBytes
<1>4. 3 + f[3] <= Len(f)  BY <1>1 DEF CanRead
<1> HIDE DEF r
<1>5. s[1] <= MAX_FIELDS /\ SubSeq(s, 1, Len(s)) = SubSeq(r, 1, Len(s))
  BY <1>1 DEF Deserialises, IsPrefix
<1>6. ASSUME NEW i \in 1 .. Len(s)  PROVE s[i] = f[3 + i]
  <2>1. SubSeq(s, 1, Len(s))[i] = s[i]  BY <1>2
  <2>2. SubSeq(r, 1, Len(s))[i] = r[i]  BY <1>1, <1>2, <1>3
  <2> QED  BY <1>1, <1>3, <1>5, <2>1, <2>2
<1>7. Readable(s)  BY <1>1, <1>5 DEF Readable
<1> QED  BY <1>1, <1>2, <1>4, <1>6, <1>7 DEF Stores, DBHeaderSize

LEMMA StoresOne ==
    ASSUME NEW f \in Seq(Nat), NEW s, NEW r, Stores(f, s), Stores(f, r)
    PROVE  s = r
BY StoresRead

\* The slots of a file with a schema.
LEMMA Offsets ==
    ASSUME NEW f \in Seq(Nat), NEW s, Stores(f, s), NEW p \in Nat
    PROVE  page_file_offset(f, p) = SlotAt(s, p) /\ SlotAt(s, p) \in Nat /\ SlotAt(s, p) >= 3 + Len(s)
<1>0. s \in Schemas  BY DEF Stores
<1>1. CanRead(f, 2, 1)  BY StoresRead DEF CanRead
<1>2. SchemaLen(f) = Len(s) /\ Len(s) <= MAX_SCHEMA_LEN  BY DEF SchemaLen, DBHeaderSize, Stores, Readable
<1>3. page_file_offset(f, p) = SlotAt(s, p)
  BY <1>1, <1>2 DEF page_file_offset, data_start_offset, DBHeaderSize, SlotAt
<1> QED  BY <1>0, <1>3, SlotBounds

\* A write in front of the block or behind it leaves the schema alone.
LEMMA StoresFrame ==
    ASSUME NEW f \in Seq(Nat), NEW s, Stores(f, s), NEW data \in Seq(Nat), NEW offset \in Nat,
           offset + Len(data) <= 2 \/ offset >= 3 + Len(s)
    PROVE  Stores(Pwrite(f, data, offset), s)
<1>0. s \in Schemas  BY DEF Stores
<1>1. s \in Seq(Nat) /\ Len(s) \in Nat /\ Len(s) > 0  BY <1>0, SchemaFacts
<1>2. Len(f) >= 3 + Len(s) /\ f[3] = Len(s) /\ \A i \in 1 .. Len(s) : f[3 + i] = s[i]
  BY DEF Stores, DBHeaderSize
<1> DEFINE g == Pwrite(f, data, offset)
<1>3. /\ Len(g) \in Nat /\ Len(g) >= Len(f)
      /\ \A i \in 1 .. Len(g) :
             i <= offset \/ i > offset + Len(data) => g[i] = IF i <= Len(f) THEN f[i] ELSE 0
  BY PwriteBytes
<1> HIDE DEF g
<1>4. ASSUME NEW i \in 3 .. 3 + Len(s)  PROVE g[i] = f[i]
  <2>0. i \in Nat /\ i >= 3 /\ i <= 3 + Len(s) /\ Len(f) \in Nat /\ Len(f) >= 3 + Len(s)  BY <1>1, <1>2
  <2>1. i <= Len(f) /\ i \in 1 .. Len(g)  BY <1>1, <1>3, <2>0
  <2>2. i <= offset \/ i > offset + Len(data)  BY <1>1, <2>0
  <2> QED  BY <1>3, <2>1, <2>2
<1>5. g[3] = f[3] /\ \A i \in 1 .. Len(s) : g[3 + i] = f[3 + i]  BY <1>1, <1>4
<1>6. Stores(g, s)  BY <1>0, <1>1, <1>2, <1>3, <1>5 DEF Stores, DBHeaderSize
<1> QED  BY <1>6 DEF g

----------------------------------------------------------------------------
(* Slots *)

\* The slot at `at' is the same in g, but for zeros where f ends.
Same(f, g, at) ==
    \A i \in 1 .. PAGE_SLOT_SIZE :
        /\ at + i <= Len(f) => at + i <= Len(g) /\ g[at + i] = f[at + i]
        /\ at + i > Len(f) /\ at + i <= Len(g) => g[at + i] = 0

\* The lengths of a page and of its image.
LEMMA ImageFacts ==
    ASSUME Fits, NEW s \in Schemas, NEW data \in Contents[s], NEW type \in {None} \cup Compressions
    PROVE  /\ Compress(type, data) \in Seq(Nat) /\ Len(Compress(type, data)) \in Nat
           /\ Len(Compress(type, data)) <= PAGE_SIZE
           /\ type \in Nat /\ data \in Seq(Nat) /\ data \in Page
           /\ type # None => Compress(type, data) = LZ4_compress(data)
           /\ type = None => Compress(type, data) = data
<1>1. data \in Seq(Nat) /\ data \in Page  BY SchemaFacts
<1>2. type \in {None, LZ4} /\ LZ4_compress(data) \in Seq(Nat)  BY <1>1, CodecAssumption
<1>3. Compress(type, data) \in Seq(Nat)  BY <1>1, <1>2 DEF Compress
<1>4. Len(Compress(type, data)) <= PAGE_SIZE  BY <1>1 DEF Fits
<1>5. type \in Nat  BY <1>2 DEF None, LZ4
<1> QED  BY <1>1, <1>3, <1>4, <1>5 DEF Compress

LEMMA UnwrittenSame ==
    ASSUME NEW f \in Seq(Nat), NEW g \in Seq(Nat), NEW at \in Nat, Same(f, g, at), Unwritten(f, at)
    PROVE  Unwritten(g, at)
<1> SUFFICES ASSUME NEW i \in 1 .. PAGE_SLOT_SIZE, at + i <= Len(g)  PROVE g[at + i] = 0
  BY DEF Unwritten
<1>0. i \in Nat  BY Sizes
<1>1. CASE at + i <= Len(f)  BY <1>1 DEF Same, Unwritten
<1>2. CASE at + i > Len(f)  BY <1>2 DEF Same
<1> QED  BY <1>0, <1>1, <1>2

LEMMA WrittenSame ==
    ASSUME Fits, NEW f \in Seq(Nat), NEW g \in Seq(Nat), NEW at \in Nat, Same(f, g, at),
           NEW s \in Schemas, NEW data \in Contents[s], NEW p, WrittenBy(f, at, p, data)
    PROVE  WrittenBy(g, at, p, data)
<1> PICK type \in {None} \cup Compressions : Written(f, at, p, data, type)  BY DEF WrittenBy
<1> DEFINE blob == Compress(type, data)
<1>1. Len(blob) \in Nat /\ Len(blob) <= PAGE_SIZE  BY ImageFacts
<1>2. /\ at + 4 + Len(blob) <= Len(f)
      /\ f[at + 1] = p /\ f[at + 2] = Len(blob) /\ f[at + 3] = Len(data) /\ f[at + 4] = type
      /\ \A i \in 1 .. Len(blob) : f[at + 4 + i] = blob[i]
  BY DEF Written, PageHeaderSize
<1> HIDE DEF blob
<1>3. ASSUME NEW i \in 1 .. 4 + Len(blob)
      PROVE  at + i <= Len(g) /\ g[at + i] = f[at + i]
  <2>0. i \in Nat /\ i >= 1 /\ i <= 4 + Len(blob) /\ Len(f) \in Nat  BY <1>1
  <2>1. at + 4 + Len(blob) <= Len(f)  BY <1>2
  <2>2. at + i <= Len(f)  BY <2>0, <2>1, <1>1
  <2>3. i \in 1 .. PAGE_SLOT_SIZE  BY <2>0, <1>1, Sizes
  <2> QED  BY <2>2, <2>3 DEF Same
<1>4. at + 4 + Len(blob) <= Len(g)
  <2>1. 4 + Len(blob) \in 1 .. 4 + Len(blob)  BY <1>1
  <2>2. at + (4 + Len(blob)) <= Len(g)  BY <2>1, <1>3
  <2> QED  BY <1>1, <2>2
<1>5. g[at + 1] = f[at + 1] /\ g[at + 2] = f[at + 2] /\ g[at + 3] = f[at + 3] /\ g[at + 4] = f[at + 4]
  <2>1. {1, 2, 3, 4} \subseteq 1 .. 4 + Len(blob)  BY <1>1
  <2> QED  BY <2>1, <1>3
<1>6. ASSUME NEW i \in 1 .. Len(blob)  PROVE g[at + 4 + i] = f[at + 4 + i]
  <2>1. 4 + i \in 1 .. 4 + Len(blob) /\ at + (4 + i) = at + 4 + i  BY <1>1
  <2> QED  BY <2>1, <1>3
<1>7. Written(g, at, p, data, type)  BY <1>2, <1>4, <1>5, <1>6 DEF Written, blob, PageHeaderSize
<1> QED  BY <1>7 DEF WrittenBy

LEMMA EmptySame ==
    ASSUME NEW f \in Seq(Nat), NEW g \in Seq(Nat), NEW at \in Nat, Same(f, g, at),
           NEW data, NEW p, Empty(f, at, p, data)
    PROVE  Empty(g, at, p, data)
<1>1. at + 4 <= Len(f) /\ f[at + 1] = 0 /\ f[at + 2] = 0 /\ f[at + 3] = 0 /\ f[at + 4] = 0
  BY DEF Empty, PageHeaderSize
<1>2. ASSUME NEW i \in 1 .. 4
      PROVE  at + i <= Len(g) /\ g[at + i] = f[at + i]
  <2>0. i \in Nat /\ i >= 1 /\ i <= 4 /\ Len(f) \in Nat  OBVIOUS
  <2>1. at + i <= Len(f) /\ i \in 1 .. PAGE_SLOT_SIZE  BY <2>0, <1>1, Sizes
  <2> QED  BY <2>1 DEF Same
<1>3. 1 \in 1 .. 4 /\ 2 \in 1 .. 4 /\ 3 \in 1 .. 4 /\ 4 \in 1 .. 4  OBVIOUS
<1>4. at + 4 <= Len(g) /\ g[at + 1] = 0 /\ g[at + 2] = 0 /\ g[at + 3] = 0 /\ g[at + 4] = 0
  BY <1>1, <1>2, <1>3
<1> QED  BY <1>4 DEF Empty, PageHeaderSize

\* A page that can be read stays so where its slot is the same.
LEMMA HoldsSame ==
    ASSUME Fits, NEW f \in Seq(Nat), NEW g \in Seq(Nat), NEW s \in Schemas, NEW p \in Nat,
           Same(f, g, SlotAt(s, p)), NEW data, Holds(f, s, p, data)
    PROVE  Holds(g, s, p, data)
<1>1. SlotAt(s, p) \in Nat  BY SlotBounds
<1>2. CASE data \in Contents[s] /\ WrittenBy(f, SlotAt(s, p), p, data)
  <2>1. WrittenBy(g, SlotAt(s, p), p, data)  BY <1>1, <1>2, WrittenSame
  <2> QED  BY <1>2, <2>1 DEF Holds
<1>3. CASE Empty(f, SlotAt(s, p), p, data)
  <2>1. Empty(g, SlotAt(s, p), p, data)  BY <1>1, <1>3, EmptySame
  <2> QED  BY <2>1 DEF Holds
<1> QED  BY <1>2, <1>3 DEF Holds

\* A slot that is as it should be stays so where it is the same.
SlotOK(f, s, p) ==
    \/ Unwritten(f, SlotAt(s, p))
    \/ \E data \in Contents[s] : WrittenBy(f, SlotAt(s, p), p, data)

LEMMA SlotSame ==
    ASSUME Fits, NEW f \in Seq(Nat), NEW g \in Seq(Nat), NEW s \in Schemas, NEW p \in Nat,
           Same(f, g, SlotAt(s, p)), SlotOK(f, s, p)
    PROVE  SlotOK(g, s, p)
<1>1. SlotAt(s, p) \in Nat  BY SlotBounds
<1>2. CASE Unwritten(f, SlotAt(s, p))
  <2>1. Unwritten(g, SlotAt(s, p))  BY <1>1, <1>2, UnwrittenSame
  <2> QED  BY <2>1 DEF SlotOK
<1>3. ASSUME NEW data \in Contents[s], WrittenBy(f, SlotAt(s, p), p, data)
      PROVE  SlotOK(g, s, p)
  <2>1. WrittenBy(g, SlotAt(s, p), p, data)  BY <1>1, <1>3, WrittenSame
  <2> QED  BY <2>1 DEF SlotOK
<1> QED  BY <1>2, <1>3 DEF SlotOK

\* A write leaves alone the slots that it does not reach.
LEMMA PwriteSame ==
    ASSUME NEW f \in Seq(Nat), NEW data \in Seq(Nat), NEW offset \in Nat, NEW at \in Nat,
           offset + Len(data) <= at \/ at + PAGE_SLOT_SIZE <= offset
    PROVE  Same(f, Pwrite(f, data, offset), at)
<1> DEFINE g == Pwrite(f, data, offset)
<1>1. /\ Len(g) \in Nat /\ Len(g) >= Len(f)
      /\ \A i \in 1 .. Len(g) :
             i <= offset \/ i > offset + Len(data) => g[i] = IF i <= Len(f) THEN f[i] ELSE 0
  BY PwriteBytes
<1>2. Len(f) \in Nat /\ Len(data) \in Nat  OBVIOUS
<1> HIDE DEF g
<1>3. ASSUME NEW i \in 1 .. PAGE_SLOT_SIZE, at + i <= Len(g)
      PROVE  g[at + i] = IF at + i <= Len(f) THEN f[at + i] ELSE 0
  <2>1. i \in Nat /\ i >= 1 /\ i <= PAGE_SLOT_SIZE /\ PAGE_SLOT_SIZE \in Nat  BY Sizes
  <2>2. at + i <= offset \/ at + i > offset + Len(data)  BY <1>2, <2>1
  <2>3. at + i \in 1 .. Len(g)  BY <1>1, <1>3, <2>1
  <2> QED  BY <1>1, <2>2, <2>3
<1>4. ASSUME NEW i \in 1 .. PAGE_SLOT_SIZE
      PROVE  /\ at + i <= Len(f) => at + i <= Len(g) /\ g[at + i] = f[at + i]
             /\ at + i > Len(f) /\ at + i <= Len(g) => g[at + i] = 0
  <2>1. i \in Nat  BY Sizes
  <2>2. at + i <= Len(f) => at + i <= Len(g)  BY <1>1, <1>2, <2>1
  <2>3. at + i > Len(f) => ~(at + i <= Len(f))  BY <1>2, <2>1
  <2> QED  BY <1>3, <2>2, <2>3
<1>5. Same(f, g, at)  BY <1>4 DEF Same
<1> QED  BY <1>5 DEF g

\* m is header and blob of page p.
IsImage(m, p, data, blob, type) ==
    /\ m \in Seq(Nat) /\ Len(m) = 4 + Len(blob) /\ Len(m) <= PAGE_SLOT_SIZE
    /\ m[1] = p /\ m[2] = Len(blob) /\ m[3] = Len(data) /\ m[4] = type
    /\ \A i \in 1 .. Len(blob) : m[4 + i] = blob[i]

\* What write_page_to_disk writes fits the slot.
LEMMA PageImageFacts ==
    ASSUME Fits, NEW s \in Schemas, NEW data \in Contents[s], NEW type \in {None} \cup Compressions,
           NEW p \in Nat
    PROVE  IsImage(PageImage(p, data, type), p, data, Compress(type, data), type)
<1> DEFINE blob == Compress(type, data)
           h == <<p, Len(blob), Len(data), type>>
<1>1. blob \in Seq(Nat) /\ Len(blob) \in Nat /\ Len(blob) <= PAGE_SIZE /\ type \in Nat /\ data \in Seq(Nat)
  BY ImageFacts
<1>2. PageImage(p, data, type) = h \o blob  BY DEF PageImage
<1> HIDE DEF blob
<1>3. h \in Seq(Nat) /\ Len(h) = 4 /\ h[1] = p /\ h[2] = Len(blob) /\ h[3] = Len(data) /\ h[4] = type
  BY <1>1
<1> HIDE DEF h
<1>c. /\ h \o blob \in Seq(Nat) /\ Len(h \o blob) = Len(h) + Len(blob)
      /\ \A i \in 1 .. Len(h) + Len(blob) :
            (h \o blob)[i] = IF i <= Len(h) THEN h[i] ELSE blob[i - Len(h)]
  BY <1>1, <1>3, ConcatProperties
<1>4. h \o blob \in Seq(Nat) /\ Len(h \o blob) = 4 + Len(blob)  BY <1>3, <1>c
<1>5. (h \o blob)[1] = h[1] /\ (h \o blob)[2] = h[2] /\ (h \o blob)[3] = h[3] /\ (h \o blob)[4] = h[4]
  <2>1. {1, 2, 3, 4} \subseteq 1 .. Len(h) + Len(blob)  BY <1>1, <1>3
  <2> QED  BY <2>1, <1>c, <1>3
<1>6. ASSUME NEW i \in 1 .. Len(blob)  PROVE (h \o blob)[4 + i] = blob[i]
  <2>1. 4 + i \in 1 .. Len(h) + Len(blob) /\ ~(4 + i <= 4) /\ 4 + i - 4 = i  BY <1>1, <1>3
  <2> QED  BY <2>1, <1>c, <1>3
<1>7. Len(h \o blob) <= PAGE_SLOT_SIZE  BY <1>1, <1>4, Sizes
<1> QED  BY <1>2, <1>3, <1>4, <1>5, <1>6, <1>7 DEF blob, IsImage

\* A page is in its slot once it was written there.
LEMMA PwriteWritten ==
    ASSUME Fits, NEW s \in Schemas, NEW data \in Contents[s], NEW type \in {None} \cup Compressions,
           NEW p \in Nat, NEW f \in Seq(Nat), NEW at \in Nat
    PROVE  WrittenBy(Pwrite(f, PageImage(p, data, type), at), at, p, data)
<1> DEFINE blob == Compress(type, data)
           image == PageImage(p, data, type)
           g == Pwrite(f, image, at)
<1>1. Len(blob) \in Nat  BY ImageFacts
<1>i. IsImage(image, p, data, blob, type)  BY PageImageFacts
<1> HIDE DEF blob, image
<1>2. /\ image \in Seq(Nat) /\ Len(image) = 4 + Len(blob)
      /\ image[1] = p /\ image[2] = Len(blob) /\ image[3] = Len(data) /\ image[4] = type
      /\ \A i \in 1 .. Len(blob) : image[4 + i] = blob[i]
  BY <1>i DEF IsImage
<1>m. image \in Seq(Nat)  BY <1>2
<1>3. Len(g) >= at + Len(image) /\ \A i \in 1 .. Len(image) : g[at + i] = image[i]
  BY <1>m, PwriteBytes
<1>4. Len(g) \in Nat  BY <1>m, PwriteBytes
<1> HIDE DEF g
<1>5. g[at + 1] = image[1] /\ g[at + 2] = image[2] /\ g[at + 3] = image[3] /\ g[at + 4] = image[4]
  <2>1. {1, 2, 3, 4} \subseteq 1 .. Len(image)  BY <1>1, <1>2
  <2> QED  BY <2>1, <1>3
<1>6. ASSUME NEW i \in 1 .. Len(blob)  PROVE g[at + 4 + i] = blob[i]
  <2>1. 4 + i \in 1 .. Len(image) /\ at + (4 + i) = at + 4 + i  BY <1>1, <1>2
  <2> QED  BY <2>1, <1>2, <1>3
<1>7. at + 4 + Len(blob) <= Len(g)  BY <1>1, <1>2, <1>3, <1>4
<1>8. Written(g, at, p, data, type)
  BY <1>2, <1>5, <1>6, <1>7 DEF Written, PageHeaderSize, blob
<1> QED  BY <1>8 DEF WrittenBy, g, image

----------------------------------------------------------------------------
(* Reading pages *)

\* What read_page_raw and decompress make of the slot at `at'.
ReadAt(f, at) ==
    LET h == Pread(f, at, PageHeaderSize)
        blob == Pread(f, at + PageHeaderSize, h[2])
    IN  CASE ~CanRead(f, at, PageHeaderSize) -> CorruptBlock
          [] ~CanRead(f, at + PageHeaderSize, h[2]) -> CorruptBlock
          [] h[4] = None -> IF h[2] = h[3] THEN blob ELSE CorruptBlock
          [] OTHER -> LET data == LZ4_decompress(blob, h[3])
                      IN  IF Len(data) = h[3] THEN data ELSE CorruptBlock

LEMMA ReadPageAt ==
    ASSUME NEW f \in Seq(Nat), NEW s, Stores(f, s), NEW p \in Nat
    PROVE  ReadPage(f, p) = ReadAt(f, SlotAt(s, p))
<1>1. page_file_offset(f, p) = SlotAt(s, p)  BY Offsets
<1> QED  BY <1>1 DEF ReadPage, ReadAt

\* A page is read as it was written, whatever it was compressed with.
LEMMA WrittenRead ==
    ASSUME Fits, Restores, NEW f \in Seq(Nat), NEW at \in Nat, NEW p,
           NEW s \in Schemas, NEW data \in Contents[s], WrittenBy(f, at, p, data)
    PROVE  ReadAt(f, at) = data /\ at + 4 <= Len(f) /\ f[at + 1] = p
<1> PICK type \in {None} \cup Compressions : Written(f, at, p, data, type)  BY DEF WrittenBy
<1> DEFINE blob == Compress(type, data)
           h == Pread(f, at, 4)
           r == Pread(f, at + 4, Len(blob))
<1>1. blob \in Seq(Nat) /\ Len(blob) \in Nat /\ data \in Seq(Nat) /\ data \in Page  BY ImageFacts
<1>2. /\ at + 4 + Len(blob) <= Len(f)
      /\ f[at + 1] = p /\ f[at + 2] = Len(blob) /\ f[at + 3] = Len(data) /\ f[at + 4] = type
      /\ \A i \in 1 .. Len(blob) : f[at + 4 + i] = blob[i]
  BY DEF Written, PageHeaderSize
<1>3. (type = None => blob = data) /\ (type # None => blob = LZ4_compress(data))  BY ImageFacts
<1> HIDE DEF blob
<1>4. CanRead(f, at, 4) /\ CanRead(f, at + 4, Len(blob)) /\ at + 4 \in Nat /\ at + 4 <= Len(f)
  BY <1>1, <1>2 DEF CanRead
<1>5. \A i \in 1 .. 4 : h[i] = f[at + i]  BY <1>4, PreadBytes
<1>6. h[2] = Len(blob) /\ h[3] = Len(data) /\ h[4] = type
  <2> HIDE DEF h
  <2>1. h[2] = f[at + 2] /\ h[3] = f[at + 3] /\ h[4] = f[at + 4]  BY <1>5
  <2> QED  BY <1>2, <2>1
<1>7. r \in Seq(Nat) /\ Len(r) = Len(blob) /\ \A i \in 1 .. Len(blob) : r[i] = f[at + 4 + i]
  BY <1>1, <1>4, PreadBytes
<1> HIDE DEF h, r
<1>8. r = blob
  <2>1. \A i \in 1 .. Len(r) : r[i] = blob[i]  BY <1>2, <1>7
  <2> QED  BY <1>1, <1>7, <2>1, SeqEqual
<1>9. ReadAt(f, at) = IF type = None THEN (IF Len(blob) = Len(data) THEN blob ELSE CorruptBlock)
                      ELSE IF Len(LZ4_decompress(blob, Len(data))) = Len(data)
                           THEN LZ4_decompress(blob, Len(data)) ELSE CorruptBlock
  BY <1>4, <1>6, <1>8 DEF ReadAt, PageHeaderSize, h, r
<1>10. type # None => LZ4_decompress(blob, Len(data)) = data  BY <1>1, <1>3 DEF Restores
<1>11. ReadAt(f, at) = data  BY <1>3, <1>9, <1>10
<1> QED  BY <1>2, <1>4, <1>11

LEMMA EmptyRead ==
    ASSUME NEW f \in Seq(Nat), NEW at \in Nat, NEW p, NEW data, Empty(f, at, p, data)
    PROVE  ReadAt(f, at) = data /\ at + 4 <= Len(f) /\ f[at + 1] = p
<1> DEFINE h == Pread(f, at, 4)
           r == Pread(f, at + 4, 0)
<1>1. /\ p = 0 /\ data = <<>> /\ at + 4 <= Len(f)
      /\ f[at + 1] = 0 /\ f[at + 2] = 0 /\ f[at + 3] = 0 /\ f[at + 4] = 0
  BY DEF Empty, PageHeaderSize
<1>2. CanRead(f, at, 4) /\ CanRead(f, at + 4, 0) /\ at + 4 \in Nat  BY <1>1 DEF CanRead
<1>3. \A i \in 1 .. 4 : h[i] = f[at + i]  BY <1>2, PreadBytes
<1>4. h[2] = 0 /\ h[3] = 0 /\ h[4] = 0
  <2> HIDE DEF h
  <2>1. h[2] = f[at + 2] /\ h[3] = f[at + 3] /\ h[4] = f[at + 4]  BY <1>3
  <2> QED  BY <1>1, <2>1
<1>5. r \in Seq(Nat) /\ Len(r) = 0  BY <1>2, PreadBytes
<1> HIDE DEF h, r
<1>6. r = <<>>  BY <1>5
<1>7. ReadAt(f, at) = r  BY <1>2, <1>4 DEF ReadAt, PageHeaderSize, h, r, None
<1> QED  BY <1>1, <1>6, <1>7

\* recover() accepts such a page.
LEMMA HoldsRead ==
    ASSUME Fits, Restores, NEW f \in Seq(Nat), NEW s, Stores(f, s), NEW p \in Nat,
           NEW data, Holds(f, s, p, data)
    PROVE  /\ ReadPage(f, p) = data /\ data \in Contents[s] \cup {<<>>} /\ data # CorruptBlock
           /\ PageCount(f) \in Nat /\ p < PageCount(f) => p \in Recovered(f)
<1>0. s \in Schemas  BY DEF Stores
<1>1. SlotAt(s, p) \in Nat /\ page_file_offset(f, p) = SlotAt(s, p)  BY Offsets
<1> DEFINE at == SlotAt(s, p)
<1>2. ReadAt(f, at) = data /\ at + 4 <= Len(f) /\ f[at + 1] = p /\ data \in Contents[s] \cup {<<>>}
  <2>1. CASE data \in Contents[s] /\ WrittenBy(f, at, p, data)  BY <1>0, <1>1, <2>1, WrittenRead
  <2>2. CASE Empty(f, at, p, data)
    <3>1. data = <<>>  BY <2>2 DEF Empty
    <3> QED  BY <1>1, <2>2, <3>1, EmptyRead
  <2> QED  BY <2>1, <2>2 DEF Holds
<1>3. data # CorruptBlock  BY <1>0, <1>2, SchemaFacts, CodecAssumption
<1>4. ReadPage(f, p) = data  BY <1>2, ReadPageAt
<1>5. ASSUME PageCount(f) \in Nat, p < PageCount(f)  PROVE p \in Recovered(f)
  <2>1. p \in 0 .. PageCount(f) - 1  BY <1>5
  <2>2. CanRead(f, page_file_offset(f, p), PageHeaderSize)  BY <1>1, <1>2 DEF CanRead, PageHeaderSize
  <2> QED  BY <1>1, <1>2, <1>3, <1>4, <2>1, <2>2 DEF Recovered
<1> QED  BY <1>2, <1>3, <1>4, <1>5

\* recover() accepts nothing else.
LEMMA RecoveredHolds ==
    ASSUME Fits, Restores, NEW f \in Seq(Nat), NEW s, Stores(f, s), Slots(f, s),
           PageCount(f) \in 0 .. MaxPages, NEW p \in Recovered(f)
    PROVE  p \in 0 .. MaxPages - 1 /\ p < PageCount(f) /\ Holds(f, s, p, ReadPage(f, p))
<1>0. s \in Schemas  BY DEF Stores
<1>1. p \in 0 .. PageCount(f) - 1  BY DEF Recovered
<1>2. p \in Nat /\ p \in 0 .. MaxPages - 1 /\ p < PageCount(f)  BY <1>1, Sizes
<1>3. SlotAt(s, p) \in Nat /\ page_file_offset(f, p) = SlotAt(s, p)  BY <1>2, Offsets
<1> DEFINE at == SlotAt(s, p)
<1>4. at + 4 <= Len(f) /\ f[at + 1] = p  BY <1>3 DEF Recovered, CanRead, PageHeaderSize
<1>5. CASE Unwritten(f, at)
  <2>1. \A i \in 1 .. 4 : f[at + i] = 0
    <3> SUFFICES ASSUME NEW i \in 1 .. 4  PROVE f[at + i] = 0
      OBVIOUS
    <3>1. i \in 1 .. PAGE_SLOT_SIZE  BY Sizes
    <3>2. at + i <= Len(f)  BY <1>3, <1>4
    <3> QED  BY <1>5, <3>1, <3>2 DEF Unwritten
  <2>2. f[at + 1] = 0 /\ f[at + 2] = 0 /\ f[at + 3] = 0 /\ f[at + 4] = 0  BY <2>1
  <2>3. Empty(f, at, p, <<>>)  BY <1>4, <2>2 DEF Empty, PageHeaderSize
  <2>4. Holds(f, s, p, <<>>)  BY <2>3 DEF Holds
  <2>5. ReadPage(f, p) = <<>>  BY <1>2, <2>4, HoldsRead
  <2> QED  BY <1>2, <2>4, <2>5
<1>6. ASSUME NEW data \in Contents[s], WrittenBy(f, at, p, data)
      PROVE  Holds(f, s, p, ReadPage(f, p))
  <2>1. Holds(f, s, p, data)  BY <1>6 DEF Holds
  <2>2. ReadPage(f, p) = data  BY <1>2, <2>1, HoldsRead
  <2> QED  BY <2>1, <2>2
<1> QED  BY <1>2, <1>5, <1>6 DEF Slots

----------------------------------------------------------------------------
(* The writes of the program and of the system *)

LEMMA SlotsSame ==
    ASSUME Fits, NEW f \in Seq(Nat), NEW g \in Seq(Nat), NEW s \in Schemas, Slots(f, s),
           \A p \in 0 .. MaxPages - 1 : Same(f, g, SlotAt(s, p))
    PROVE  Slots(g, s)
<1> SUFFICES ASSUME NEW p \in 0 .. MaxPages - 1  PROVE SlotOK(g, s, p)
  BY DEF Slots, SlotOK
<1>1. SlotOK(f, s, p)  BY DEF Slots, SlotOK
<1>2. p \in Nat  BY Sizes
<1> QED  BY <1>1, <1>2, SlotSame

\* A write into the header or the schema block reaches no slot.
LEMMA FrontSame ==
    ASSUME NEW f \in Seq(Nat), NEW data \in Seq(Nat), NEW offset \in Nat, NEW s \in Schemas,
           offset + Len(data) <= 3 + Len(s), NEW p \in Nat
    PROVE  Same(f, Pwrite(f, data, offset), SlotAt(s, p))
<1>1. SlotAt(s, p) \in Nat /\ SlotAt(s, p) >= 3 + Len(s) /\ Len(s) \in Nat  BY SlotBounds, SchemaFacts
<1>2. offset + Len(data) <= SlotAt(s, p)  BY <1>1
<1> QED  BY <1>1, <1>2, PwriteSame

\* write_db_header: the header is new, the rest is what it was.
LEMMA HeaderWritten ==
    ASSUME NEW f \in Seq(Nat), NEW n \in Nat
    PROVE  /\ Pwrite(f, <<MAGIC, n>>, 0) \in Seq(Nat)
           /\ Len(Pwrite(f, <<MAGIC, n>>, 0)) >= Len(f)
           /\ Len(Pwrite(f, <<MAGIC, n>>, 0)) = 2 \/ Len(Pwrite(f, <<MAGIC, n>>, 0)) = Len(f)
           /\ HeaderReadable(Pwrite(f, <<MAGIC, n>>, 0))
           /\ PageCount(Pwrite(f, <<MAGIC, n>>, 0)) = n
           /\ \A s \in Schemas : \A p \in Nat : Same(f, Pwrite(f, <<MAGIC, n>>, 0), SlotAt(s, p))
           /\ \A s : Stores(f, s) => Stores(Pwrite(f, <<MAGIC, n>>, 0), s)
<1> DEFINE h == <<MAGIC, n>>
           g == Pwrite(f, h, 0)
<1>1. h \in Seq(Nat) /\ Len(h) = 2 /\ h[1] = MAGIC /\ h[2] = n  BY DEF MAGIC
<1> HIDE DEF h
<1>p. Patched(f, g, h, 0)  BY <1>1, PwritePatches
<1>2. g \in Seq(Nat) /\ Len(g) >= Len(f) /\ Len(g) >= 2 /\ (Len(g) = 2 \/ Len(g) = Len(f))
  <2> HIDE DEF g
  <2> QED  BY <1>1, <1>p DEF Patched
<1>3. \A i \in 1 .. 2 : g[0 + i] = h[i]
  <2> HIDE DEF g
  <2> QED  BY <1>1, <1>p DEF Patched
<1>4. g[1] = MAGIC /\ g[2] = n
  <2> HIDE DEF g
  <2>1. g[0 + 1] = h[1] /\ g[0 + 2] = h[2] /\ 0 + 1 = 1 /\ 0 + 2 = 2  BY <1>3
  <2> QED  BY <1>1, <2>1
<1>5. ASSUME NEW s \in Schemas, NEW p \in Nat  PROVE Same(f, g, SlotAt(s, p))
  <2>1. 0 + Len(h) <= 3 + Len(s)  BY <1>1, SchemaFacts
  <2> QED  BY <1>1, <2>1, FrontSame
<1>6. ASSUME NEW s, Stores(f, s)  PROVE Stores(g, s)
  <2>1. 0 + Len(h) <= 2  BY <1>1
  <2> QED  BY <1>1, <1>6, <2>1, StoresFrame
<1> HIDE DEF g
<1>7. HeaderReadable(g) /\ PageCount(g) = n
  BY <1>2, <1>4 DEF HeaderReadable, CanRead, DBHeaderSize, PageCount
<1> QED  BY <1>2, <1>5, <1>6, <1>7 DEF g, h

\* The file g is f with page p written behind schema s.
PageWritten(f, g, s, p, data) ==
    /\ g \in Seq(Nat) /\ Len(g) >= Len(f)
    /\ \A i \in 1 .. 2 : i <= Len(f) => g[i] = f[i]
    /\ Stores(g, s) /\ Slots(g, s) /\ Holds(g, s, p, data)
    /\ \A q \in Nat : q # p => Same(f, g, SlotAt(s, q))

LEMMA PageWrite ==
    ASSUME Fits, NEW f \in Seq(Nat), NEW s, Stores(f, s), Slots(f, s), NEW p \in 0 .. MaxPages - 1,
           NEW data \in Contents[s], NEW type \in {None} \cup Compressions
    PROVE  PageWritten(f, Pwrite(f, PageImage(p, data, type), page_file_offset(f, p)), s, p, data)
<1>0. s \in Schemas /\ p \in Nat /\ Len(f) \in Nat  BY Sizes DEF Stores
<1> DEFINE at == SlotAt(s, p)
           m == PageImage(p, data, type)
           g == Pwrite(f, m, at)
<1>1. page_file_offset(f, p) = at /\ at \in Nat /\ at >= 3 + Len(s)  BY <1>0, Offsets
<1>2. Len(s) \in Nat  BY <1>0, SchemaFacts
<1>i. IsImage(m, p, data, Compress(type, data), type)  BY <1>0, PageImageFacts
<1>w. WrittenBy(g, at, p, data)  BY <1>0, <1>1, PwriteWritten
<1> HIDE DEF m
<1>3. m \in Seq(Nat) /\ Len(m) \in Nat /\ Len(m) <= PAGE_SLOT_SIZE  BY <1>i DEF IsImage
<1>4. g \in Seq(Nat) /\ Len(g) >= Len(f)  BY <1>1, <1>3, PwriteBytes
<1>p. Patched(f, g, m, at)  BY <1>1, <1>3, PwritePatches
<1>6. Stores(g, s)  BY <1>1, <1>3, StoresFrame
<1>7. ASSUME NEW q \in Nat, q # p  PROVE Same(f, g, SlotAt(s, q))
  <2>1. SlotAt(s, q) \in Nat  BY <1>0, SlotBounds
  <2>2. CASE q < p
    <3>1. SlotAt(s, q) + PAGE_SLOT_SIZE <= at  BY <1>0, <2>2, SlotsApart
    <3> QED  BY <1>1, <1>3, <2>1, <3>1, PwriteSame
  <2>3. CASE p < q
    <3>1. at + PAGE_SLOT_SIZE <= SlotAt(s, q)  BY <1>0, <2>3, SlotsApart
    <3>2. at + Len(m) <= SlotAt(s, q)  BY <1>1, <1>3, <2>1, <3>1, Sizes
    <3> QED  BY <1>1, <1>3, <2>1, <3>2, PwriteSame
  <2> QED  BY <1>0, <1>7, <2>2, <2>3
<1> HIDE DEF g
<1>8. Slots(g, s)
  <2> SUFFICES ASSUME NEW q \in 0 .. MaxPages - 1  PROVE SlotOK(g, s, q)
    BY DEF Slots, SlotOK
  <2>0. q \in Nat  BY Sizes
  <2>1. CASE q = p  BY <1>w, <2>1 DEF SlotOK
  <2>2. CASE q # p
    <3>1. SlotOK(f, s, q)  BY DEF Slots, SlotOK
    <3>2. Same(f, g, SlotAt(s, q))  BY <1>7, <2>0, <2>2
    <3> QED  BY <1>0, <1>4, <2>0, <3>1, <3>2, SlotSame
  <2> QED  BY <2>1, <2>2
<1>9. Holds(g, s, p, data)  BY <1>w DEF Holds
<1>10. ASSUME NEW i \in 1 .. 2, i <= Len(f)  PROVE g[i] = f[i]
  <2>1. i \in 1 .. Len(g) /\ i <= at  BY <1>0, <1>1, <1>2, <1>4, <1>10
  <2> QED  BY <1>p, <1>10, <2>1 DEF Patched
<1> QED  BY <1>1, <1>4, <1>6, <1>7, <1>8, <1>9, <1>10 DEF PageWritten, g, m, at

\* The medium g is d with `count' bytes of f at a written back.
Back(f, d, g, a, count) ==
    /\ g \in Seq(Nat) /\ Len(g) >= Len(d) /\ Len(g) <= Len(f) /\ Len(g) >= a + count
    /\ \A i \in 1 .. Len(g) :
          g[i] = IF a < i /\ i <= a + count THEN f[i] ELSE IF i <= Len(d) THEN d[i] ELSE 0

LEMMA WriteBackBytes ==
    ASSUME NEW f \in Seq(Nat), NEW d \in Seq(Nat), Len(d) <= Len(f),
           NEW a \in Nat, NEW count \in Nat, a + count <= Len(f)
    PROVE  Back(f, d, Pwrite(d, Pread(f, a, count), a), a, count)
<1> DEFINE r == Pread(f, a, count)
           g == Pwrite(d, r, a)
<1>0. CanRead(f, a, count)  BY DEF CanRead
<1>1. r \in Seq(Nat) /\ Len(r) = count /\ \A i \in 1 .. count : r[i] = f[a + i]  BY <1>0, PreadBytes
<1> HIDE DEF r
<1>2. Patched(d, g, r, a)  BY <1>1, PwritePatches
<1> HIDE DEF g
<1>3. /\ g \in Seq(Nat) /\ Len(g) >= Len(d) /\ Len(g) >= a + count
      /\ Len(g) = Len(d) \/ Len(g) = a + count
  BY <1>1, <1>2 DEF Patched
<1>4. Len(g) <= Len(f)  BY <1>3
<1>5. ASSUME NEW i \in 1 .. Len(g)
      PROVE  g[i] = IF a < i /\ i <= a + count THEN f[i] ELSE IF i <= Len(d) THEN d[i] ELSE 0
  <2>0. i \in Nat /\ i >= 1  OBVIOUS
  <2>1. CASE a < i /\ i <= a + count
    <3>1. i - a \in 1 .. count /\ a + (i - a) = i  BY <2>0, <2>1
    <3>2. g[a + (i - a)] = r[i - a]  BY <1>1, <1>2, <3>1 DEF Patched
    <3>3. r[i - a] = f[a + (i - a)]  BY <1>1, <3>1
    <3> QED  BY <2>1, <3>1, <3>2, <3>3
  <2>2. CASE ~(a < i /\ i <= a + count)
    <3>1. i <= a \/ i > a + count  BY <2>0, <2>2
    <3>2. g[i] = IF i <= Len(d) THEN d[i] ELSE 0  BY <1>1, <1>2, <3>1 DEF Patched
    <3> QED  BY <2>2, <3>2
  <2> QED  BY <2>1, <2>2
<1>6. Back(f, d, g, a, count)  BY <1>3, <1>4, <1>5 DEF Back
<1> QED  BY <1>6 DEF g, r

\* A slot outside of the part stays as it is on the medium.
LEMMA BackSame ==
    ASSUME NEW f \in Seq(Nat), NEW d \in Seq(Nat), NEW g, NEW a \in Nat, NEW count \in Nat,
           Back(f, d, g, a, count), NEW at \in Nat,
           a + count <= at \/ at + PAGE_SLOT_SIZE <= a
    PROVE  Same(d, g, at)
<1>1. Len(g) \in Nat /\ Len(d) \in Nat /\ Len(g) >= Len(d)  BY DEF Back
<1>2. ASSUME NEW i \in 1 .. PAGE_SLOT_SIZE
      PROVE  /\ at + i <= Len(d) => at + i <= Len(g) /\ g[at + i] = d[at + i]
             /\ at + i > Len(d) /\ at + i <= Len(g) => g[at + i] = 0
  <2>1. i \in Nat /\ i >= 1 /\ i <= PAGE_SLOT_SIZE /\ PAGE_SLOT_SIZE \in Nat  BY Sizes
  <2>2. ~(a < at + i /\ at + i <= a + count)  BY <2>1
  <2>3. at + i <= Len(d) => at + i <= Len(g)  BY <1>1, <2>1
  <2>4. at + i <= Len(g) => at + i \in 1 .. Len(g)  BY <1>1, <2>1
  <2>5. at + i > Len(d) => ~(at + i <= Len(d))  BY <1>1, <2>1
  <2>6. at + i <= Len(g) => g[at + i] = IF at + i <= Len(d) THEN d[at + i] ELSE 0
    BY <2>2, <2>4 DEF Back
  <2> QED  BY <2>3, <2>5, <2>6
<1> QED  BY <1>2 DEF Same

\* The slot that is the part becomes the one of the file.
LEMMA BackCopies ==
    ASSUME NEW f \in Seq(Nat), NEW d \in Seq(Nat), NEW g, NEW a \in Nat, NEW count \in Nat,
           Back(f, d, g, a, count), count = PAGE_SLOT_SIZE \/ a + count = Len(f)
    PROVE  Same(f, g, a)
<1>1. Len(g) \in Nat /\ Len(f) \in Nat /\ Len(g) >= a + count /\ Len(g) <= Len(f)  BY DEF Back
<1>2. ASSUME NEW i \in 1 .. PAGE_SLOT_SIZE
      PROVE  /\ a + i <= Len(f) => a + i <= Len(g) /\ g[a + i] = f[a + i]
             /\ a + i > Len(f) /\ a + i <= Len(g) => g[a + i] = 0
  <2>1. i \in Nat /\ i >= 1 /\ i <= PAGE_SLOT_SIZE /\ PAGE_SLOT_SIZE \in Nat  BY Sizes
  <2>2. a + i <= Len(f) => a + i <= a + count  BY <1>1, <2>1
  <2>3. a + i <= a + count => a + i \in 1 .. Len(g) /\ a < a + i  BY <1>1, <2>1
  <2>4. a + i <= Len(f) => a + i <= Len(g)  BY <1>1, <2>1, <2>2
  <2>5. a + i <= Len(f) => g[a + i] = f[a + i]  BY <2>2, <2>3 DEF Back
  <2>6. ~(a + i > Len(f) /\ a + i <= Len(g))  BY <1>1, <2>1
  <2> QED  BY <2>4, <2>5, <2>6
<1> QED  BY <1>2 DEF Same

\* A schema on both sides stays.
LEMMA BackStores ==
    ASSUME NEW f \in Seq(Nat), NEW d \in Seq(Nat), NEW g, NEW a \in Nat, NEW count \in Nat,
           Back(f, d, g, a, count), NEW s, Stores(f, s), Stores(d, s)
    PROVE  Stores(g, s)
<1>0. s \in Schemas  BY DEF Stores
<1>1. Len(s) \in Nat  BY <1>0, SchemaFacts
<1>2. Len(g) \in Nat /\ Len(d) \in Nat /\ Len(g) >= Len(d)  BY DEF Back
<1>3. /\ Len(d) >= 3 + Len(s) /\ d[3] = Len(s) /\ f[3] = Len(s)
      /\ \A i \in 1 .. Len(s) : d[3 + i] = s[i] /\ f[3 + i] = s[i]
  BY DEF Stores, DBHeaderSize
<1>4. ASSUME NEW i \in 3 .. 3 + Len(s)  PROVE g[i] = f[i] \/ g[i] = d[i]
  <2>1. i \in Nat /\ i >= 3 /\ i <= 3 + Len(s)  BY <1>1
  <2>2. Len(d) >= 3 + Len(s)  BY <1>3
  <2>3. i \in 1 .. Len(g) /\ i <= Len(d)  BY <1>1, <1>2, <2>1, <2>2
  <2> QED  BY <2>3 DEF Back
<1>5. g[3] = Len(s)
  <2>1. 3 \in 3 .. 3 + Len(s)  BY <1>1
  <2> QED  BY <1>3, <1>4, <2>1
<1>6. ASSUME NEW i \in 1 .. Len(s)  PROVE g[3 + i] = s[i]
  <2>1. 3 + i \in 3 .. 3 + Len(s)  BY <1>1
  <2> QED  BY <1>3, <1>4, <2>1
<1>7. Len(g) >= 3 + Len(s)
  <2>1. Len(d) >= 3 + Len(s)  BY <1>3
  <2> QED  BY <1>1, <1>2, <2>1
<1> QED  BY <1>0, <1>5, <1>6, <1>7 DEF Stores, DBHeaderSize

\* The header of the medium, if it has one by then.
LEMMA BackHeader ==
    ASSUME NEW f \in Seq(Nat), NEW d \in Seq(Nat), NEW g, NEW a \in Nat, NEW count \in Nat,
           Back(f, d, g, a, count), Header(f), Header(d)
    PROVE  /\ Header(g)
           /\ HeaderReadable(f) /\ HeaderReadable(d) =>
                /\ HeaderReadable(g)
                /\ PageCount(g) = PageCount(f) \/ PageCount(g) = PageCount(d)
<1>1. Len(g) \in Nat /\ Len(d) \in Nat /\ Len(f) \in Nat /\ Len(g) >= Len(d) /\ Len(g) <= Len(f)  BY DEF Back
<1>2. ASSUME NEW i \in 1 .. 2, Len(g) >= 2
      PROVE  g[i] = f[i] \/ (Len(d) >= i /\ g[i] = d[i]) \/ (Len(d) < 2 /\ g[i] = 0)
  <2>1. i \in 1 .. Len(g)  BY <1>1, <1>2
  <2>2. i <= Len(d) \/ Len(d) < 2  BY <1>1
  <2> QED  BY <1>1, <2>1, <2>2 DEF Back
<1>3. Header(g)
  <2> SUFFICES ASSUME Len(g) >= 2  PROVE g[2] \in 0 .. MaxPages
    BY DEF Header, DBHeaderSize
  <2>1. f[2] \in 0 .. MaxPages  BY <1>1 DEF Header, DBHeaderSize
  <2>2. g[2] = f[2] \/ (Len(d) >= 2 /\ g[2] = d[2]) \/ (Len(d) < 2 /\ g[2] = 0)  BY <1>2
  <2>3. Len(d) >= 2 => d[2] \in 0 .. MaxPages  BY DEF Header, DBHeaderSize
  <2>4. 0 \in 0 .. MaxPages  BY Sizes
  <2> QED  BY <2>1, <2>2, <2>3, <2>4
<1>4. ASSUME HeaderReadable(f), HeaderReadable(d)
      PROVE  HeaderReadable(g) /\ (PageCount(g) = PageCount(f) \/ PageCount(g) = PageCount(d))
  <2>1. Len(d) >= 2 /\ f[1] = MAGIC /\ d[1] = MAGIC
    BY <1>1, <1>4 DEF HeaderReadable, CanRead, DBHeaderSize
  <2>2. Len(g) >= 2 /\ ~(Len(d) < 2)  BY <1>1, <2>1
  <2>3. (g[1] = f[1] \/ g[1] = d[1]) /\ (g[2] = f[2] \/ g[2] = d[2])  BY <1>2, <2>2
  <2> QED  BY <1>1, <2>1, <2>2, <2>3 DEF HeaderReadable, CanRead, DBHeaderSize, PageCount
<1> QED  BY <1>3, <1>4

\* How much of a part there is in the file.
CountOf(part) == IF CanRead(file, part[1], part[2]) THEN part[2] ELSE Len(file) - part[1]

Patch(part) == Pwrite(disk, Pread(file, part[1], CountOf(part)), part[1])

\* The parts of a file with a schema.
LEMMA PartsWithSchema ==
    ASSUME file \in Seq(Nat), NEW s, Stores(file, s), NEW part \in Parts
    PROVE  /\ part[1] \in Nat /\ part[2] \in Nat
           /\ \/ part[1] + part[2] <= 3 + Len(s)
              \/ \E p \in Nat : part[1] = SlotAt(s, p) /\ part[2] = PAGE_SLOT_SIZE
<1>0. s \in Schemas  BY DEF Stores
<1>1. Len(s) \in Nat /\ Len(s) > 0  BY <1>0, SchemaFacts
<1>2. SchemaLen(file) = Len(s)  BY DEF SchemaLen, DBHeaderSize, Stores
<1>3. \/ part = <<0, 2>> \/ part = <<2, 1>> \/ part = <<3, Len(s)>>
      \/ \E p \in 0 .. MaxPages - 1 : part = <<page_file_offset(file, p), PAGE_SLOT_SIZE>>
  BY <1>2 DEF Parts, DBHeaderSize
<1>4. CASE part = <<0, 2>>  BY <1>1, <1>4
<1>5. CASE part = <<2, 1>>  BY <1>1, <1>5
<1>6. CASE part = <<3, Len(s)>>  BY <1>1, <1>6
<1>7. ASSUME NEW p \in 0 .. MaxPages - 1, part = <<page_file_offset(file, p), PAGE_SLOT_SIZE>>
      PROVE  part[1] \in Nat /\ part[2] \in Nat /\
             \E q \in Nat : part[1] = SlotAt(s, q) /\ part[2] = PAGE_SLOT_SIZE
  <2>1. p \in Nat /\ page_file_offset(file, p) = SlotAt(s, p) /\ SlotAt(s, p) \in Nat  BY Offsets, Sizes
  <2> QED  BY <1>7, <2>1, Sizes
<1> QED  BY <1>3, <1>4, <1>5, <1>6, <1>7

\* The parts of any file.
LEMMA PartsOfAny ==
    ASSUME file \in Seq(Nat), NEW part \in Parts
    PROVE  part[1] \in Nat /\ part[2] \in Nat
<1>1. \/ part = <<0, 2>> \/ part = <<2, 1>>
      \/ CanRead(file, 2, 1) /\ part = <<3, SchemaLen(file)>>
      \/ \E p \in 0 .. MaxPages - 1 : part = <<page_file_offset(file, p), PAGE_SLOT_SIZE>>
  BY DEF Parts, DBHeaderSize
<1>2. CanRead(file, 2, 1) => SchemaLen(file) \in Nat  BY DEF CanRead, SchemaLen, DBHeaderSize
<1>3. data_start_offset(file) \in Nat  BY <1>2 DEF data_start_offset, DBHeaderSize
<1>4. ASSUME NEW p \in 0 .. MaxPages - 1  PROVE page_file_offset(file, p) \in Nat
  <2>1. p * PAGE_SLOT_SIZE \in Nat
    <3>1. p \in Nat /\ PAGE_SLOT_SIZE \in Nat  BY Sizes
    <3> QED  BY <3>1
  <2> QED  BY <1>3, <2>1 DEF page_file_offset
<1>5. PAGE_SLOT_SIZE \in Nat  BY Sizes
<1> QED  BY <1>1, <1>2, <1>4, <1>5

LEMMA PartBack ==
    ASSUME Shape, NEW part \in Parts, part[1] < Len(file)
    PROVE  /\ CountOf(part) \in Nat /\ CountOf(part) <= part[2] /\ part[1] + CountOf(part) <= Len(file)
           /\ CountOf(part) = part[2] \/ part[1] + CountOf(part) = Len(file)
           /\ Back(file, disk, Patch(part), part[1], CountOf(part))
<1>1. file \in Seq(Nat) /\ disk \in Seq(Nat) /\ Len(disk) <= Len(file) /\ Len(file) \in Nat  BY DEF Shape
<1>2. part[1] \in Nat /\ part[2] \in Nat  BY <1>1, PartsOfAny
<1>3. /\ CountOf(part) \in Nat /\ CountOf(part) <= part[2] /\ part[1] + CountOf(part) <= Len(file)
      /\ CountOf(part) = part[2] \/ part[1] + CountOf(part) = Len(file)
  <2>1. CASE part[1] + part[2] <= Len(file)
    <3>1. CountOf(part) = part[2]  BY <2>1 DEF CountOf, CanRead
    <3> QED  BY <1>1, <1>2, <2>1, <3>1
  <2>2. CASE ~(part[1] + part[2] <= Len(file))
    <3>1. CountOf(part) = Len(file) - part[1]  BY <2>2 DEF CountOf, CanRead
    <3> QED  BY <1>1, <1>2, <2>2, <3>1
  <2> QED  BY <2>1, <2>2
<1>4. Back(file, disk, Patch(part), part[1], CountOf(part))
  BY <1>1, <1>2, <1>3, WriteBackBytes DEF Patch
<1> QED  BY <1>3, <1>4

\* A slot of the medium stays or becomes the one of the file.
LEMMA PatchedSlot ==
    ASSUME Shape, NEW part \in Parts, part[1] < Len(file), NEW s, Stores(file, s), NEW q \in Nat
    PROVE  Same(disk, Patch(part), SlotAt(s, q)) \/ Same(file, Patch(part), SlotAt(s, q))
<1>0. file \in Seq(Nat) /\ disk \in Seq(Nat) /\ s \in Schemas  BY DEF Shape, Stores
<1> DEFINE a == part[1]  n == CountOf(part)  g == Patch(part)
<1>1. /\ n \in Nat /\ n <= part[2] /\ (n = part[2] \/ a + n = Len(file))
      /\ Back(file, disk, g, a, n)
  BY PartBack
<1>2. a \in Nat /\ part[2] \in Nat  BY <1>0, PartsOfAny
<1>3. SlotAt(s, q) \in Nat /\ SlotAt(s, q) >= 3 + Len(s) /\ Len(s) \in Nat  BY <1>0, SlotBounds, SchemaFacts
<1> HIDE DEF a, n, g
<1>4. CASE a + part[2] <= 3 + Len(s)
  <2>1. a + n <= SlotAt(s, q)  BY <1>1, <1>2, <1>3, <1>4
  <2>2. Same(disk, g, SlotAt(s, q))  BY <1>0, <1>1, <1>2, <1>3, <2>1, BackSame
  <2> QED  BY <2>2 DEF g
<1>5. ASSUME NEW p \in Nat, a = SlotAt(s, p), part[2] = PAGE_SLOT_SIZE
      PROVE  Same(disk, g, SlotAt(s, q)) \/ Same(file, g, SlotAt(s, q))
  <2>1. CASE p = q
    <3>1. n = PAGE_SLOT_SIZE \/ a + n = Len(file)  BY <1>1, <1>5
    <3>2. Same(file, g, a)  BY <1>0, <1>1, <1>2, <3>1, BackCopies
    <3> QED  BY <1>5, <2>1, <3>2
  <2>2. CASE p < q
    <3>1. a + PAGE_SLOT_SIZE <= SlotAt(s, q)  BY <1>0, <1>5, <2>2, SlotsApart
    <3>2. a + n <= SlotAt(s, q)  BY <1>1, <1>2, <1>3, <1>5, <3>1
    <3> QED  BY <1>0, <1>1, <1>2, <1>3, <3>2, BackSame
  <2>3. CASE q < p
    <3>1. SlotAt(s, q) + PAGE_SLOT_SIZE <= a  BY <1>0, <1>5, <2>3, SlotsApart
    <3> QED  BY <1>0, <1>1, <1>2, <1>3, <3>1, BackSame
  <2> QED  BY <2>1, <2>2, <2>3
<1>6. \/ a + part[2] <= 3 + Len(s)
      \/ \E p \in Nat : a = SlotAt(s, p) /\ part[2] = PAGE_SLOT_SIZE
  BY <1>0, PartsWithSchema DEF a
<1> QED  BY <1>4, <1>5, <1>6 DEF g

----------------------------------------------------------------------------
(* What the invariant says of the properties *)

LEMMA ShapeSlots ==
    ASSUME Shape, NEW s, Stores(file, s)
    PROVE  Slots(file, s) /\ Slots(disk, s)
<1>1. file \in Seq(Nat)  BY DEF Shape
<1>2. Len(file) > 3  BY <1>1, StoresRead
<1>3. ~(Len(file) <= DBHeaderSize + 1)  BY <1>1, <1>2 DEF DBHeaderSize
<1>4. PICK r \in Schemas : Stores(file, r) /\ Slots(file, r) /\ Slots(disk, r)  BY <1>3 DEF Shape
<1>5. r = s  BY <1>1, <1>4, StoresOne
<1> QED  BY <1>4, <1>5

LEMMA MemoryIds ==
    ASSUME TypeOK
    PROVE  /\ next_page_id \in Nat /\ next_page_id <= MaxPages
           /\ \A p \in DOMAIN mem : p \in Nat /\ p \in 0 .. MaxPages - 1 /\ p < next_page_id
           /\ dirty \subseteq DOMAIN mem
<1>1. next_page_id \in 0 .. MaxPages /\ DOMAIN mem \subseteq 0 .. next_page_id - 1
      /\ dirty \subseteq DOMAIN mem
  BY DEF TypeOK
<1> HIDE DEF TypeOK
<1> QED  BY <1>1, Sizes

LEMMA SoundReadsBack ==
    ASSUME Fits, Restores, Sound
    PROVE  ReadsBack
<1> SUFFICES ASSUME Serving, NEW p \in DOMAIN mem \ dirty  PROVE ReadPage(file, p) = mem[p]
  BY DEF ReadsBack
<1>1. file \in Seq(Nat)  BY DEF Sound, Shape
<1>2. Stores(file, schema)  BY DEF Sound, Opening, Serving
<1>3. Holds(file, schema, p, mem[p])  BY DEF Sound, Memory
<1>4. p \in Nat  BY MemoryIds DEF Sound
<1> QED  BY <1>1, <1>2, <1>3, <1>4, HoldsRead

\* A checkpointed page can be read from f.
LEMMA CheckpointedRead ==
    ASSUME Fits, Restores, NEW f \in Seq(Nat), Header(f), NEW s, Checkpointed(f, s),
           DOMAIN kept \subseteq 0 .. MaxPages - 1, NEW p \in DOMAIN kept
    PROVE  p \in Recovered(f) /\ ReadPage(f, p) \in kept[p] /\ ReadPage(f, p) \in Contents[s] \cup {<<>>}
<1>1. p \in Nat  BY Sizes
<1>2. PICK data \in kept[p] : Holds(f, s, p, data)  BY DEF Checkpointed
<1>3. Stores(f, s) /\ HeaderReadable(f) /\ p < PageCount(f)  BY DEF Checkpointed
<1>4. PageCount(f) \in Nat
  BY <1>3, Sizes DEF Header, HeaderReadable, CanRead, PageCount, DBHeaderSize
<1> QED  BY <1>1, <1>2, <1>3, <1>4, HoldsRead

LEMMA SoundPagesSurvive ==
    ASSUME Fits, Restores, Sound
    PROVE  PagesSurvive
<1> SUFFICES ASSUME DOMAIN kept # {}, NEW f \in {file, disk}
             PROVE  /\ HeaderReadable(f) /\ HasStoredSchema(f)
                    /\ \A p \in DOMAIN kept : p \in Recovered(f) /\ ReadPage(f, p) \in kept[p]
  BY DEF PagesSurvive
<1>1. PICK s \in Schemas : Checkpointed(file, s) /\ Checkpointed(disk, s)  BY DEF Sound, Kept
<1>2. Checkpointed(f, s) /\ f \in Seq(Nat) /\ Header(f)  BY <1>1 DEF Sound, Shape
<1>3. HeaderReadable(f) /\ Stores(f, s)  BY <1>2 DEF Checkpointed
<1>4. HasStoredSchema(f)  BY <1>2, <1>3, StoresRead
<1>5. DOMAIN kept \subseteq 0 .. MaxPages - 1  BY DEF Sound, Kept
<1>6. ASSUME NEW p \in DOMAIN kept  PROVE p \in Recovered(f) /\ ReadPage(f, p) \in kept[p]
  BY <1>2, <1>5, CheckpointedRead
<1> QED  BY <1>3, <1>4, <1>6

LEMMA SoundSchemaKept ==
    ASSUME Fits, Restores, Sound
    PROVE  SchemaKept
<1> SUFFICES ASSUME Serving, NEW p \in DOMAIN mem  PROVE mem[p] \in Contents[schema] \cup {<<>>}
  BY DEF SchemaKept
<1>1. CASE p \in dirty  BY <1>1 DEF Sound, Memory
<1>2. CASE p \notin dirty
  <2>1. file \in Seq(Nat)  BY DEF Sound, Shape
  <2>2. Stores(file, schema)  BY DEF Sound, Opening, Serving
  <2>3. Holds(file, schema, p, mem[p])  BY <1>2 DEF Sound, Memory
  <2>4. p \in Nat  BY MemoryIds DEF Sound
  <2> QED  BY <2>1, <2>2, <2>3, <2>4, HoldsRead
<1> QED  BY <1>1, <1>2

LEMMA SoundRefused ==
    ASSUME Sound
    PROVE  RefusedWithReason
<1> SUFFICES ASSUME DOMAIN kept # {}
             PROVE  /\ outcome \notin {"unreadable", "corrupt"}
                    /\ outcome = "mismatch" => explicit \notin {NoSchema, StoredSchema(file)}
  BY DEF RefusedWithReason
<1>1. PICK s \in Schemas : Checkpointed(file, s)  BY DEF Sound, Kept
<1>2. Stores(file, s) /\ file \in Seq(Nat)  BY <1>1 DEF Checkpointed, Sound, Shape
<1>3. Stores(file, StoredSchema(file))  BY <1>2, StoresRead
<1> QED  BY <1>3 DEF Sound, Ended

----------------------------------------------------------------------------
(* Steps that leave the file alone *)

LEMMA ShapeStays ==
    ASSUME Shape, file' = file, disk' = disk \/ disk' = file, exists' \/ (exists' = exists)
    PROVE  Shape'
<1>1. /\ file \in Seq(Nat) /\ disk \in Seq(Nat) /\ Len(disk) <= Len(file)
      /\ Header(file) /\ Header(disk)
      /\ ~exists => file = <<>> /\ disk = <<>>
  BY DEF Shape
<1>2. /\ file' \in Seq(Nat) /\ disk' \in Seq(Nat) /\ Len(disk') <= Len(file')
      /\ Header(file') /\ Header(disk')
  BY <1>1
<1>3. ~exists' => file' = <<>> /\ disk' = <<>>  BY <1>1
<1>4. \/ Len(file') <= DBHeaderSize + 1
      \/ \E s \in Schemas : Stores(file', s) /\ Slots(file', s) /\ Slots(disk', s)
  BY DEF Shape
<1> QED  BY <1>2, <1>3, <1>4 DEF Shape

LEMMA KeptStays ==
    ASSUME Kept, kept' = kept, file' = file, disk' = disk \/ disk' = file
    PROVE  Kept'
<1>1. ASSUME NEW s \in Schemas, NEW f, Checkpointed(f, s)
      PROVE  /\ HeaderReadable(f) /\ Stores(f, s)
             /\ \A p \in DOMAIN kept' : p < PageCount(f) /\ \E data \in kept'[p] : Holds(f, s, p, data)
  BY <1>1 DEF Checkpointed
<1>2. CASE DOMAIN kept = {}  BY <1>2 DEF Kept
<1>3. CASE DOMAIN kept # {}
  <2>1. PICK s \in Schemas : Checkpointed(file, s) /\ Checkpointed(disk, s)  BY <1>3 DEF Kept
  <2>2. Checkpointed(file, s)'  BY <1>1, <2>1 DEF Checkpointed
  <2>3. Checkpointed(disk, s)'  BY <1>1, <2>1 DEF Checkpointed
  <2> QED  BY <2>2, <2>3 DEF Kept
<1> QED  BY <1>2, <1>3

----------------------------------------------------------------------------
(* Every step keeps the invariant *)

LEMMA InitSound == Init => Sound
<1> SUFFICES ASSUME Init  PROVE Sound
  OBVIOUS
<1>1. TypeOK
  <2>1. DOMAIN mem = {} /\ DOMAIN kept = {} /\ dirty = {}  BY DEF Init, NoPages
  <2>2. \A i \in DOMAIN file : file[i] \in Nat  BY DEF Init
  <2>3. \A i \in DOMAIN disk : disk[i] \in Nat  BY DEF Init
  <2>4. next_page_id \in 0 .. MaxPages /\ opens \in 0 .. MaxOpens /\ changes \in 0 .. MaxChanges
    BY Sizes DEF Init
  <2>5. exists \in BOOLEAN /\ closing \in BOOLEAN  BY DEF Init
  <2>6. ct \in Compressions \cup {None} /\ explicit = NoSchema /\ schema = NoSchema
        /\ pc = "closed" /\ outcome = "none"
    BY DEF Init
  <2> QED  BY <2>1, <2>2, <2>3, <2>4, <2>5, <2>6 DEF TypeOK
<1>2. Shape  BY DEF Init, Shape, Header, DBHeaderSize
<1>3. Opening  BY DEF Init, Opening
<1>4. Memory  BY DEF Init, Memory, Serving
<1>5. Kept  BY DEF Init, Kept, NoPages
<1>6. Ended  BY DEF Init, Ended
<1> QED  BY <1>1, <1>2, <1>3, <1>4, <1>5, <1>6 DEF Sound

LEMMA OpenSound ==
    ASSUME Sound, NEW s \in Schemas \cup {NoSchema}, NEW type \in Compressions, Open(s, type)
    PROVE  Sound'
<1> USE DEF Open, mem_vars
<1>1. TypeOK'
  <2>1. opens' \in 0 .. MaxOpens  BY Sizes DEF Sound, TypeOK
  <2>2. exists' \in BOOLEAN /\ closing' \in BOOLEAN  OBVIOUS
  <2>3. pc' = "check" \/ pc' = "create"  OBVIOUS
  <2> QED  BY <2>1, <2>2, <2>3 DEF Sound, TypeOK
<1>2. Shape'  BY ShapeStays DEF Sound
<1>3. Opening'  BY DEF Sound, Opening, Shape
<1>4. Memory'  BY DEF Sound, Memory, Serving
<1>5. Kept'  BY KeptStays DEF Sound
<1>6. Ended'  BY DEF Sound, Ended
<1> QED  BY <1>1, <1>2, <1>3, <1>4, <1>5, <1>6 DEF Sound

LEMMA CreateHeaderSound ==
    ASSUME Sound, CreateHeader
    PROVE  Sound'
<1> USE DEF CreateHeader, Session, Bounds, mem_vars
<1>e. exists'  BY DEF Sound, Opening
<1>0. file = <<>> /\ disk = <<>>  BY DEF Sound, Opening
<1>1. /\ file' \in Seq(Nat) /\ Len(file') >= Len(file) /\ (Len(file') = 2 \/ Len(file') = Len(file))
      /\ HeaderReadable(file') /\ PageCount(file') = 0
  BY HeaderWritten DEF Sound, Shape
<1>2. Len(file') >= 2  BY <1>1 DEF HeaderReadable, CanRead, DBHeaderSize
<1>3. Len(file') = 2
  <2>1. Len(file) = 0  BY <1>0
  <2> QED  BY <1>1, <1>2, <2>1
<1>4. TypeOK'
  <2>1. \A i \in DOMAIN file' : file'[i] \in Nat  BY <1>1
  <2> QED  BY <2>1 DEF Sound, TypeOK
<1>5. DOMAIN kept = {}
  <2> SUFFICES ASSUME DOMAIN kept # {}  PROVE FALSE
    OBVIOUS
  <2>1. HeaderReadable(file)  BY DEF Sound, Kept, Checkpointed
  <2>2. Len(file) >= 2  BY <2>1 DEF HeaderReadable, CanRead, DBHeaderSize, Sound, Shape
  <2>3. Len(file) = 0  BY <1>0
  <2> QED  BY <2>2, <2>3
<1>6. Shape'
  <2>1. disk' \in Seq(Nat) /\ Len(disk') <= Len(file') /\ Header(disk')
    BY <1>0, <1>3 DEF Header, DBHeaderSize
  <2>2. Header(file')  BY <1>1, Sizes DEF Header, PageCount
  <2>3. ~exists' => file' = <<>> /\ disk' = <<>>  BY <1>e
  <2>4. Len(file') <= DBHeaderSize + 1
    <3> HIDE DEF CreateHeader
    <3> QED  BY <1>3 DEF DBHeaderSize
  <2> QED  BY <1>1, <2>1, <2>2, <2>3, <2>4 DEF Shape
<1>7. Opening'
  <2>1. pc' # "closed" => exists'  BY <1>e
  <2>2. pc' = "create_sync" /\ Len(file') = DBHeaderSize  BY <1>3 DEF DBHeaderSize
  <2> QED  BY <2>1, <2>2 DEF Opening
<1>8. Memory'  BY DEF Sound, Memory, Serving
<1>9. Kept'  BY <1>5 DEF Sound, Kept
<1>10. Ended'  BY DEF Sound, Ended
<1> QED  BY <1>4, <1>6, <1>7, <1>8, <1>9, <1>10 DEF Sound

LEMMA CreateSyncSound ==
    ASSUME Sound, CreateSync
    PROVE  Sound'
<1> USE DEF CreateSync, Session, Bounds, mem_vars
<1>1. TypeOK'  BY DEF Sound, TypeOK
<1>2. Shape'  BY ShapeStays DEF Sound
<1>3. Opening'
  <2>1. exists'  BY DEF Sound, Opening
  <2> QED  BY <2>1 DEF Opening
<1>4. Memory'  BY DEF Sound, Memory, Serving
<1>5. Kept'  BY KeptStays DEF Sound
<1>6. Ended'  BY DEF Sound, Ended
<1> QED  BY <1>1, <1>2, <1>3, <1>4, <1>5, <1>6 DEF Sound

\* A file without a schema has no checkpointed page.
LEMMA NoSchemaNotKept ==
    ASSUME Sound, ~HeaderReadable(file) \/ ~HasStoredSchema(file)
    PROVE  DOMAIN kept = {}
<1> SUFFICES ASSUME DOMAIN kept # {}  PROVE FALSE
  OBVIOUS
<1>1. PICK s \in Schemas : Checkpointed(file, s)  BY DEF Sound, Kept
<1>2. HeaderReadable(file) /\ HasStoredSchema(file)
  BY <1>1, StoresRead DEF Sound, Shape, Checkpointed
<1> QED  BY <1>2

\* An open that throws.
LEMMA RefuseSound ==
    ASSUME Sound, pc = "check", NEW why \in {"unreadable", "mismatch", "corrupt"}, Refuse(why),
           why \in {"unreadable", "corrupt"} => DOMAIN kept = {},
           why = "mismatch" => explicit # NoSchema /\ ~Stores(file, explicit)
    PROVE  Sound'
<1> USE DEF Refuse, Session, Bounds, mem_vars
<1>1. TypeOK'  BY DEF Sound, TypeOK
<1>2. Shape'  BY ShapeStays DEF Sound
<1>3. Opening'  BY DEF Opening
<1>4. Memory'  BY DEF Sound, Memory, Serving
<1>5. Kept'  BY KeptStays DEF Sound
<1>6. Ended'  BY DEF Ended
<1> QED  BY <1>1, <1>2, <1>3, <1>4, <1>5, <1>6 DEF Sound

\* An open that goes on with a schema.
LEMMA ProceedSound ==
    ASSUME Sound, pc = "check", NEW where \in {"recover", "write_len"}, NEW s \in Schemas,
           Proceed(where, s), HeaderReadable(file),
           where = "recover" => Stores(file, s),
           where = "write_len" => Len(file) <= DBHeaderSize + 1
    PROVE  Sound'
<1> USE DEF Proceed, Session, Bounds, mem_vars
<1>1. TypeOK'  BY DEF Sound, TypeOK
<1>2. Shape'  BY ShapeStays DEF Sound
<1>3. Opening'
  <2>1. exists'  BY DEF Sound, Opening
  <2>2. pc' = where /\ schema' = s /\ file' = file  OBVIOUS
  <2> QED  BY <2>1, <2>2 DEF Opening
<1>4. Memory'  BY DEF Sound, Memory, Serving
<1>5. Kept'  BY KeptStays DEF Sound
<1>6. Ended'  BY DEF Sound, Ended
<1> QED  BY <1>1, <1>2, <1>3, <1>4, <1>5, <1>6 DEF Sound

LEMMA CheckSound ==
    ASSUME Sound, Check
    PROVE  Sound'
<1>0. pc = "check" /\ file \in Seq(Nat)  BY DEF Check, Sound, Shape
<1>1. CASE ~HeaderReadable(file) /\ Refuse("unreadable")
  BY <1>0, <1>1, NoSchemaNotKept, RefuseSound
<1>2. CASE HeaderReadable(file) /\ HasStoredSchema(file)
  <2>1. Stores(file, StoredSchema(file)) /\ StoredSchema(file) \in Schemas
    <3>1. ~(Len(file) <= DBHeaderSize + 1)  BY <1>0, <1>2 DEF HasStoredSchema, DBHeaderSize
    <3>2. PICK s \in Schemas : Stores(file, s)  BY <3>1 DEF Sound, Shape
    <3> QED  BY <1>0, <3>2, StoresRead
  <2>2. CASE explicit # NoSchema /\ explicit # StoredSchema(file)
    <3>1. Refuse("mismatch")  BY <1>2, <2>2 DEF Check
    <3>2. ~Stores(file, explicit)  BY <1>0, <2>1, <2>2, StoresOne
    <3> QED  BY <1>0, <2>2, <3>1, <3>2, RefuseSound
  <2>3. CASE ~(explicit # NoSchema /\ explicit # StoredSchema(file))
    <3>1. Proceed("recover", StoredSchema(file))  BY <1>2, <2>3 DEF Check
    <3> QED  BY <1>0, <1>2, <2>1, <3>1, ProceedSound
  <2> QED  BY <2>2, <2>3
<1>3. CASE HeaderReadable(file) /\ ~HasStoredSchema(file)
  <2>1. CASE PageCount(file) > 0
    <3>1. Refuse("corrupt")  BY <1>3, <2>1 DEF Check
    <3> QED  BY <1>0, <1>3, <3>1, NoSchemaNotKept, RefuseSound
  <2>2. CASE ~(PageCount(file) > 0)
    <3>1. Proceed("write_len", Requested)  BY <1>3, <2>2 DEF Check
    <3>2. Requested \in Schemas  BY SchemaAssumption DEF Requested, Sound, TypeOK
    <3>3. Len(file) <= DBHeaderSize + 1
      <4>1. ~\E s \in Schemas : Stores(file, s)  BY <1>0, <1>3, StoresRead
      <4> QED  BY <4>1 DEF Sound, Shape
    <3> QED  BY <1>0, <1>3, <3>1, <3>2, <3>3, ProceedSound
  <2> QED  BY <2>1, <2>2
<1> QED  BY <1>1, <1>2, <1>3 DEF Check

LEMMA ShortNotKept ==
    ASSUME Sound, Len(file) <= 3
    PROVE  DOMAIN kept = {}
<1>1. Len(file) \in Nat /\ ~(Len(file) > DBHeaderSize + 1)  BY DEF Sound, Shape, DBHeaderSize
<1>2. ~HasStoredSchema(file)  BY <1>1 DEF HasStoredSchema
<1> QED  BY <1>2, NoSchemaNotKept

LEMMA WriteSchemaLenSound ==
    ASSUME Sound, WriteSchemaLen, ~oversized'
    PROVE  Sound'
<1>0. /\ pc = "write_len" /\ pc' = "write_data" /\ file' = Pwrite(file, <<Len(schema)>>, 2)
      /\ UNCHANGED <<exists, disk, closing, explicit, ct, schema, mem, dirty, next_page_id,
                     outcome, kept, opens, changes>>
  BY DEF WriteSchemaLen, Session, Bounds, mem_vars, DBHeaderSize
<1>1. /\ HeaderReadable(file) /\ Len(file) <= 3 /\ schema \in Schemas /\ exists
      /\ file \in Seq(Nat) /\ disk \in Seq(Nat) /\ Len(disk) <= Len(file) /\ Header(file) /\ Header(disk)
  BY <1>0 DEF Sound, Opening, Shape, DBHeaderSize
<1>2. Len(file) >= 2 /\ file[1] = MAGIC  BY <1>1 DEF HeaderReadable, CanRead, DBHeaderSize
<1> DEFINE d == <<Len(schema)>>
<1>3. d \in Seq(Nat) /\ Len(d) = 1 /\ d[1] = Len(schema)  BY <1>1, SchemaFacts
<1>4. Patched(file, file', d, 2)  BY <1>0, <1>1, <1>3, PwritePatches
<1> HIDE DEF d
<1>s. /\ file' \in Seq(Nat) /\ Len(file') \in Nat
      /\ Len(file') >= 2 + Len(d) /\ (Len(file') = Len(file) \/ Len(file') = 2 + Len(d))
  BY <1>4 DEF Patched
<1>5. file' \in Seq(Nat) /\ Len(file') = 3
  <2>1. Len(d) = 1  BY <1>3
  <2>2. Len(file) \in Nat /\ Len(file) <= 3  BY <1>1
  <2>0. /\ Len(file') \in Nat /\ Len(file') >= 3
        /\ Len(file') = Len(file) \/ Len(file') = 3
    BY <1>s, <2>1
  <2>a. \A m, n \in Nat : n <= 3 /\ m >= 3 /\ (m = n \/ m = 3) => m = 3  OBVIOUS
  <2>3. Len(file') = 3  BY <2>0, <2>2, <2>a
  <2> QED  BY <1>s, <2>3
<1>6. file'[3] = Len(schema) /\ file'[1] = file[1] /\ file'[2] = file[2]
  <2>1. 1 \in 1 .. Len(d) /\ 2 + 1 = 3 /\ 1 \in 1 .. Len(file') /\ 2 \in 1 .. Len(file')
        /\ 1 <= Len(file) /\ 2 <= Len(file)
    BY <1>1, <1>2, <1>3, <1>5
  <2> QED  BY <1>3, <1>4, <2>1 DEF Patched
<1>7. HeaderReadable(file') /\ Header(file')
  BY <1>1, <1>2, <1>5, <1>6 DEF HeaderReadable, CanRead, DBHeaderSize, Header
<1>8. DOMAIN kept = {}  BY <1>1, ShortNotKept
<1>9. TypeOK'
  <2>1. \A i \in DOMAIN file' : file'[i] \in Nat  BY <1>s
  <2> QED  BY <1>0, <2>1 DEF Sound, TypeOK
<1>10. Shape'
  <2>1. exists'  BY <1>0, <1>1
  <2>2. ~exists' => file' = <<>> /\ disk' = <<>>  BY <2>1
  <2>3. disk' \in Seq(Nat) /\ Header(disk') /\ disk' = disk  BY <1>0, <1>1
  <2>5. Len(disk) <= Len(file')  BY <1>1, <1>5
  <2>4. Len(file') <= DBHeaderSize + 1  BY <1>5 DEF DBHeaderSize
  <2> QED  BY <1>5, <1>7, <2>2, <2>3, <2>4, <2>5 DEF Shape
<1>11. Opening'
  <2>1. exists' /\ schema' \in Schemas  BY <1>0, <1>1
  <2>2. Readable(schema')  BY <1>0 DEF WriteSchemaLen
  <2> QED  BY <1>0, <2>2, <1>5, <1>6, <1>7, <2>1 DEF Opening, DBHeaderSize
<1>12. Memory'  BY <1>0 DEF Sound, Memory, Serving
<1>13. Kept'  BY <1>0, <1>8 DEF Sound, Kept
<1>14. Ended'  BY <1>0 DEF Sound, Ended
<1> QED  BY <1>9, <1>10, <1>11, <1>12, <1>13, <1>14 DEF Sound

LEMMA WriteSchemaDataSound ==
    ASSUME Sound, WriteSchemaData
    PROVE  Sound'
<1>0. /\ pc = "write_data" /\ pc' = "recover" /\ file' = Pwrite(file, schema, 3)
      /\ UNCHANGED <<exists, disk, closing, explicit, ct, schema, mem, dirty, next_page_id,
                     outcome, kept, opens, changes>>
  BY DEF WriteSchemaData, Session, Bounds, mem_vars, DBHeaderSize
<1>1. /\ HeaderReadable(file) /\ Len(file) = 3 /\ file[3] = Len(schema) /\ schema \in Schemas /\ exists
      /\ Readable(schema)
      /\ file \in Seq(Nat) /\ disk \in Seq(Nat) /\ Len(disk) <= Len(file) /\ Header(file) /\ Header(disk)
  BY <1>0 DEF Sound, Opening, Shape, DBHeaderSize
<1>2. file[1] = MAGIC  BY <1>1 DEF HeaderReadable
<1>3. schema \in Seq(Nat) /\ Len(schema) \in Nat /\ Len(schema) > 0  BY <1>1, SchemaFacts
<1>4. Patched(file, file', schema, 3)  BY <1>0, <1>1, <1>3, PwritePatches
<1>s. /\ file' \in Seq(Nat) /\ Len(file') \in Nat
      /\ Len(file') >= 3 + Len(schema) /\ (Len(file') = Len(file) \/ Len(file') = 3 + Len(schema))
  BY <1>4 DEF Patched
<1>5. file' \in Seq(Nat) /\ Len(file') = 3 + Len(schema)
  <2>1. Len(file) = 3  BY <1>1
  <2>2. Len(schema) \in Nat /\ Len(schema) > 0  BY <1>3
  <2>0. /\ Len(file') \in Nat /\ Len(file') >= 3 + Len(schema)
        /\ Len(file') = Len(file) \/ Len(file') = 3 + Len(schema)
    BY <1>s
  <2>3. Len(file') = 3 + Len(schema)  BY <2>0, <2>1, <2>2
  <2> QED  BY <1>s, <2>3
<1>6. file'[1] = file[1] /\ file'[2] = file[2] /\ file'[3] = file[3]
  <2>1. {1, 2, 3} \subseteq 1 .. Len(file') /\ {1, 2, 3} \subseteq 1 .. Len(file)  BY <1>1, <1>3, <1>5
  <2> QED  BY <1>1, <1>4, <2>1 DEF Patched
<1>7. HeaderReadable(file') /\ Header(file')
  BY <1>1, <1>2, <1>3, <1>5, <1>6 DEF HeaderReadable, CanRead, DBHeaderSize, Header
<1>8. Stores(file', schema)
  <2>1. \A i \in 1 .. Len(schema) : file'[3 + i] = schema[i]  BY <1>4 DEF Patched
  <2> QED  BY <1>1, <1>5, <1>6, <2>1 DEF Stores, DBHeaderSize
<1>9. ASSUME NEW f \in Seq(Nat), Len(f) <= 3 + Len(schema)  PROVE Slots(f, schema)
  <2> SUFFICES ASSUME NEW p \in 0 .. MaxPages - 1  PROVE Unwritten(f, SlotAt(schema, p))
    BY DEF Slots
  <2>1. p \in Nat  BY Sizes
  <2>2. SlotAt(schema, p) \in Nat /\ SlotAt(schema, p) >= 3 + Len(schema)  BY <1>1, <2>1, SlotBounds
  <2>3. ASSUME NEW i \in 1 .. PAGE_SLOT_SIZE  PROVE ~(SlotAt(schema, p) + i <= Len(f))
    <3>1. i \in Nat /\ i >= 1  BY Sizes
    <3> QED  BY <1>3, <1>9, <2>2, <3>1
  <2> QED  BY <2>3 DEF Unwritten
<1>10. Slots(file', schema) /\ Slots(disk, schema)
  <2>1. Len(file') <= 3 + Len(schema) /\ Len(disk) <= 3 + Len(schema)  BY <1>1, <1>3, <1>5
  <2> QED  BY <1>1, <1>5, <1>9, <2>1
<1>11. DOMAIN kept = {}  BY <1>1, ShortNotKept
<1>12. TypeOK'
  <2>1. \A i \in DOMAIN file' : file'[i] \in Nat  BY <1>5
  <2> QED  BY <1>0, <2>1 DEF Sound, TypeOK
<1>13. Shape'
  <2>1. exists'  BY <1>0, <1>1
  <2>2. ~exists' => file' = <<>> /\ disk' = <<>>  BY <2>1
  <2>3. Len(disk') <= Len(file') /\ disk' \in Seq(Nat) /\ Header(disk')  BY <1>0, <1>1, <1>3, <1>5
  <2>4. schema \in Schemas /\ Stores(file', schema) /\ Slots(file', schema) /\ Slots(disk', schema)
    BY <1>0, <1>1, <1>8, <1>10
  <2> QED  BY <1>5, <1>7, <2>2, <2>3, <2>4 DEF Shape
<1>14. Opening'
  <2>1. exists' /\ Stores(file', schema')  BY <1>0, <1>1, <1>8
  <2> QED  BY <1>0, <1>7, <2>1 DEF Opening
<1>15. Memory'  BY <1>0 DEF Sound, Memory, Serving
<1>16. Kept'  BY <1>0, <1>11 DEF Sound, Kept
<1>17. Ended'  BY <1>0 DEF Sound, Ended
<1> QED  BY <1>12, <1>13, <1>14, <1>15, <1>16, <1>17 DEF Sound

LEMMA GreatestId ==
    ASSUME NEW n \in Nat, NEW T \in SUBSET (0 .. n - 1), T # {}
    PROVE  \E p \in T : \A q \in T : q <= p
<1> DEFINE U == {n - 1 - p : p \in T}
<1>1. U \in SUBSET Nat /\ U # {}
  <2>1. ASSUME NEW p \in T  PROVE n - 1 - p \in Nat
    <3>1. p \in 0 .. n - 1  OBVIOUS
    <3> QED  BY <3>1
  <2>2. U \subseteq Nat  BY <2>1
  <2>3. PICK p \in T : TRUE  OBVIOUS
  <2>4. n - 1 - p \in U  OBVIOUS
  <2> QED  BY <2>2, <2>4
<1> HIDE DEF U
<1>2. Min(U) \in U /\ \A y \in U : Min(U) <= y  BY <1>1, MinFacts
<1>3. PICK p \in T : Min(U) = n - 1 - p  BY <1>2 DEF U
<1>4. ASSUME NEW q \in T  PROVE q <= p
  <2>1. n - 1 - p <= n - 1 - q  BY <1>2, <1>3 DEF U
  <2>2. p \in Int /\ q \in Int  OBVIOUS
  <2> QED  BY <2>1, <2>2
<1> QED  BY <1>4

LEMMA RecoverSound ==
    ASSUME Fits, Restores, Sound, Recover
    PROVE  Sound'
<1> DEFINE R == Recovered(file)
<1>0. /\ pc = "recover" /\ pc' = "open" /\ outcome' = "open" /\ explicit' = NoSchema /\ dirty' = {}
      /\ mem' = [p \in R |-> ReadPage(file, p)]
      /\ next_page_id' = IF R = {} THEN 0 ELSE 1 + CHOOSE p \in R : \A q \in R : q <= p
      /\ UNCHANGED <<exists, file, disk, closing, ct, schema, kept, opens, changes>>
  BY DEF Recover, Bounds
<1>1. HeaderReadable(file) /\ Stores(file, schema) /\ exists /\ file \in Seq(Nat) /\ Header(file)
  BY <1>0 DEF Sound, Opening, Shape
<1>2. Slots(file, schema)  BY <1>1, ShapeSlots DEF Sound
<1>3. PageCount(file) \in 0 .. MaxPages
  BY <1>1 DEF HeaderReadable, CanRead, Header, PageCount, DBHeaderSize
<1>4. ASSUME NEW p \in R
      PROVE  /\ p \in 0 .. MaxPages - 1 /\ p < PageCount(file)
             /\ Holds(file, schema, p, ReadPage(file, p))
  BY <1>1, <1>2, <1>3, RecoveredHolds
<1>5. ASSUME NEW p \in R  PROVE ReadPage(file, p) \in Contents[schema] \cup {<<>>}
  <2>1. p \in Nat  BY <1>4, Sizes
  <2> QED  BY <1>1, <1>4, <2>1, HoldsRead
<1>6. DOMAIN mem' = R /\ \A p \in R : mem'[p] = ReadPage(file, p)  BY <1>0
<1> HIDE DEF R
<1>7. next_page_id' \in 0 .. MaxPages /\ \A p \in R : p \in 0 .. next_page_id' - 1
  <2>1. CASE R = {}  BY <1>0, <2>1, Sizes
  <2>2. CASE R # {}
    <3>1. R \in SUBSET (0 .. MaxPages - 1) /\ MaxPages \in Nat  BY <1>4, Sizes
    <3>2. \E p \in R : \A q \in R : q <= p  BY <2>2, <3>1, GreatestId
    <3> DEFINE m == CHOOSE p \in R : \A q \in R : q <= p
    <3>3. m \in R /\ \A q \in R : q <= m  BY <3>2
    <3>4. next_page_id' = 1 + m  BY <1>0, <2>2
    <3> HIDE DEF m
    <3> QED  BY <3>1, <3>3, <3>4
  <2> QED  BY <2>1, <2>2
<1>8. TypeOK'
  <2>1. \A p \in DOMAIN mem' : mem'[p] \in Page \cup {<<>>}
    <3>1. schema \in Schemas  BY <1>1 DEF Stores
    <3> QED  BY <1>5, <1>6, <3>1, SchemaFacts
  <2>2. dirty' \subseteq DOMAIN mem' /\ DOMAIN mem' \subseteq 0 .. next_page_id' - 1  BY <1>0, <1>6, <1>7
  <2> QED  BY <1>0, <1>7, <2>1, <2>2 DEF Sound, TypeOK
<1>9. Shape'  BY <1>0, ShapeStays DEF Sound
<1>10. Opening'
  <2>1. exists' /\ HeaderReadable(file') /\ Stores(file', schema')  BY <1>0, <1>1
  <2> QED  BY <1>0, <2>1 DEF Opening
<1>11. Memory'
  <2>1. ASSUME NEW p \in DOMAIN mem'  PROVE Holds(file', schema', p, mem'[p])  BY <1>0, <1>4, <1>6
  <2>2. DOMAIN kept' \subseteq DOMAIN mem'
    <3> SUFFICES ASSUME NEW p \in DOMAIN kept  PROVE p \in R
      BY <1>0, <1>6
    <3>1. PICK s \in Schemas : Checkpointed(file, s)  BY DEF Sound, Kept
    <3>2. DOMAIN kept \subseteq 0 .. MaxPages - 1  BY DEF Sound, Kept
    <3> QED  BY <1>1, <3>1, <3>2, CheckpointedRead DEF R
  <2> QED  BY <1>0, <2>1, <2>2 DEF Memory, Serving
<1>12. Kept'  BY <1>0, KeptStays DEF Sound
<1>13. Ended'  BY <1>0 DEF Ended
<1> QED  BY <1>8, <1>9, <1>10, <1>11, <1>12, <1>13 DEF Sound

LEMMA ChangeSound ==
    ASSUME Sound, NEW p \in 0 .. MaxPages - 1, NEW c \in Page, Change(p, c)
    PROVE  Sound'
<1>0. /\ pc = "open" /\ pc' = "open" /\ c \in Contents[schema] /\ changes < MaxChanges
      /\ mem' = [q \in DOMAIN mem \cup {p} |-> IF q = p THEN c ELSE mem[q]]
      /\ dirty' = dirty \cup {p}
      /\ next_page_id' = Greater(next_page_id, p + 1) /\ changes' = changes + 1
      /\ UNCHANGED <<exists, file, disk, closing, explicit, ct, schema, outcome, kept, opens>>
  BY DEF Change, Session
<1>1. /\ next_page_id \in Nat /\ next_page_id <= MaxPages /\ dirty \subseteq DOMAIN mem
      /\ \A q \in DOMAIN mem : q \in Nat /\ q < next_page_id
  BY MemoryIds DEF Sound
<1>2. p \in Nat /\ MaxPages \in Nat /\ p < MaxPages  BY Sizes
<1>3. DOMAIN mem' = DOMAIN mem \cup {p} /\ \A q \in DOMAIN mem' : mem'[q] = IF q = p THEN c ELSE mem[q]
  BY <1>0
<1>4. next_page_id' \in 0 .. MaxPages /\ next_page_id' > p /\ next_page_id' >= next_page_id
  BY <1>0, <1>1, <1>2 DEF Greater
<1>5. TypeOK'
  <2>1. DOMAIN mem' \subseteq 0 .. next_page_id' - 1
    <3> SUFFICES ASSUME NEW q \in DOMAIN mem'  PROVE q \in 0 .. next_page_id' - 1
      OBVIOUS
    <3>1. q \in Nat /\ q < next_page_id'
      <4>1. CASE q = p  BY <1>2, <1>4, <4>1
      <4>2. CASE q \in DOMAIN mem  BY <1>1, <1>4, <4>2
      <4> QED  BY <1>3, <4>1, <4>2
    <3> QED  BY <1>4, <3>1
  <2>2. \A q \in DOMAIN mem' : mem'[q] \in Page \cup {<<>>}  BY <1>3 DEF Sound, TypeOK
  <2>3. changes' \in 0 .. MaxChanges  BY <1>0, Sizes DEF Sound, TypeOK
  <2>4. dirty' \subseteq DOMAIN mem'  BY <1>0, <1>1, <1>3
  <2> QED  BY <1>0, <1>4, <2>1, <2>2, <2>3, <2>4 DEF Sound, TypeOK
<1>6. Shape'  BY <1>0, ShapeStays DEF Sound
<1>7. Opening'
  <2>1. exists' /\ HeaderReadable(file') /\ Stores(file', schema')  BY <1>0 DEF Sound, Opening
  <2> QED  BY <1>0, <2>1 DEF Opening
<1>8. Memory'
  <2>1. /\ outcome = "open" /\ DOMAIN kept \subseteq DOMAIN mem
        /\ \A q \in dirty : mem[q] \in Contents[schema]
        /\ \A q \in DOMAIN mem \ dirty : Holds(file, schema, q, mem[q])
    BY <1>0 DEF Sound, Memory, Serving
  <2>2. \A q \in dirty' : mem'[q] \in Contents[schema']  BY <1>0, <1>1, <1>3, <2>1
  <2>3. \A q \in DOMAIN mem' \ dirty' : Holds(file', schema', q, mem'[q])  BY <1>0, <1>3, <2>1
  <2>4. DOMAIN kept' \subseteq DOMAIN mem'  BY <1>0, <1>3, <2>1
  <2>5. outcome' = "open" /\ pc' = "open"  BY <1>0, <2>1
  <2> QED  BY <2>2, <2>3, <2>4, <2>5 DEF Memory, Serving
<1>9. Kept'  BY <1>0, KeptStays DEF Sound
<1>10. Ended'
  <2>1. outcome = "open"  BY <1>0 DEF Sound, Memory, Serving
  <2> QED  BY <1>0, <2>1 DEF Ended
<1> QED  BY <1>5, <1>6, <1>7, <1>8, <1>9, <1>10 DEF Sound

\* write_page_to_disk, of an eviction or of flush_all.
LEMMA WriteSound ==
    ASSUME Fits, Sound, NEW p \in 0 .. MaxPages - 1, p \in dirty, Write(p), pc' = pc,
           pc \in {"open", "flush"}
    PROVE  Sound'
<1>0. /\ file' = WritePage(file, p) /\ dirty' = dirty \ {p}
      /\ kept' = [q \in DOMAIN kept |-> IF q = p THEN kept[q] \cup {mem[q]} ELSE kept[q]]
      /\ UNCHANGED <<exists, disk, closing, explicit, ct, schema, mem, next_page_id, outcome, opens, changes>>
  BY DEF Write, Session, Bounds
<1>1. /\ HeaderReadable(file) /\ Stores(file, schema) /\ exists /\ schema \in Schemas
      /\ file \in Seq(Nat) /\ disk \in Seq(Nat) /\ Len(disk) <= Len(file) /\ Header(file) /\ Header(disk)
  BY DEF Sound, Opening, Shape, Stores
<1>2. Slots(file, schema) /\ Slots(disk, schema)  BY <1>1, ShapeSlots DEF Sound
<1>3. /\ outcome = "open" /\ DOMAIN kept \subseteq DOMAIN mem
      /\ \A q \in dirty : mem[q] \in Contents[schema]
      /\ \A q \in DOMAIN mem \ dirty : Holds(file, schema, q, mem[q])
  BY DEF Sound, Memory, Serving
<1>4. dirty \subseteq DOMAIN mem /\ \A q \in DOMAIN mem : q \in Nat  BY MemoryIds DEF Sound
<1>5. ct \in {None} \cup Compressions  BY DEF Sound, TypeOK
<1>6. PageWritten(file, file', schema, p, mem[p])
  BY <1>0, <1>1, <1>2, <1>3, <1>5, PageWrite DEF WritePage
<1>7. /\ file' \in Seq(Nat) /\ Len(file') >= Len(file) /\ Stores(file', schema) /\ Slots(file', schema)
      /\ Holds(file', schema, p, mem[p])
      /\ \A q \in Nat : q # p => Same(file, file', SlotAt(schema, q))
  BY <1>6 DEF PageWritten
<1>8. Len(file) >= 2 /\ file[1] = MAGIC  BY <1>1 DEF HeaderReadable, CanRead, DBHeaderSize
<1>9. file'[1] = file[1] /\ file'[2] = file[2]
  <2>1. \A i \in 1 .. 2 : i <= Len(file) => file'[i] = file[i]  BY <1>6 DEF PageWritten
  <2>2. 1 <= Len(file) /\ 2 <= Len(file)  BY <1>1, <1>8
  <2> QED  BY <2>1, <2>2
<1>10. Len(file') >= 2 /\ Len(disk) <= Len(file')
  <2>1. Len(file) \in Nat /\ Len(file') \in Nat /\ Len(disk) \in Nat  BY <1>1, <1>7
  <2>2. Len(file') >= Len(file) /\ Len(file) >= 2 /\ Len(disk) <= Len(file)  BY <1>1, <1>7, <1>8
  <2> QED  BY <2>1, <2>2
<1>11. HeaderReadable(file') /\ Header(file') /\ PageCount(file') = PageCount(file)
  BY <1>1, <1>8, <1>9, <1>10 DEF HeaderReadable, CanRead, DBHeaderSize, Header, PageCount
<1>12. ASSUME NEW q \in Nat, q # p, NEW data, Holds(file, schema, q, data)
       PROVE  Holds(file', schema, q, data)
  BY <1>1, <1>7, <1>12, HoldsSame
<1>13. TypeOK'
  <2>1. \A i \in DOMAIN file' : file'[i] \in Nat  BY <1>7
  <2>2. \A q \in DOMAIN kept' : kept'[q] \subseteq Page \cup {<<>>}
    <3>1. mem[p] \in Page  BY <1>1, <1>3, SchemaFacts
    <3> QED  BY <1>0, <3>1 DEF Sound, TypeOK
  <2> QED  BY <1>0, <2>1, <2>2 DEF Sound, TypeOK
<1>14. Shape'
  <2>1. exists'  BY <1>0, <1>1
  <2>2. ~exists' => file' = <<>> /\ disk' = <<>>  BY <2>1
  <2>3. disk' = disk /\ disk \in Seq(Nat) /\ Header(disk) /\ Slots(disk, schema)  BY <1>0, <1>1, <1>2
  <2>4. \E s \in Schemas : Stores(file', s) /\ Slots(file', s) /\ Slots(disk', s)  BY <1>1, <1>7, <2>3
  <2> QED  BY <1>7, <1>10, <1>11, <2>2, <2>3, <2>4 DEF Shape
<1>15. Opening'
  <2>1. exists' /\ Stores(file', schema')  BY <1>0, <1>1, <1>7
  <2> QED  BY <1>11, <2>1 DEF Opening
<1>16. Memory'
  <2>1. \A q \in dirty' : mem'[q] \in Contents[schema']  BY <1>0, <1>3
  <2>2. ASSUME NEW q \in DOMAIN mem' \ dirty'  PROVE Holds(file', schema', q, mem'[q])
    <3>1. q \in DOMAIN mem /\ q \in Nat  BY <1>0, <1>4
    <3>2. CASE q = p  BY <1>0, <1>7, <3>2
    <3>3. CASE q # p  BY <1>0, <1>3, <1>12, <3>1, <3>3
    <3> QED  BY <3>2, <3>3
  <2>3. DOMAIN kept' \subseteq DOMAIN mem'  BY <1>0, <1>3
  <2>4. outcome' = "open" /\ pc' # "flush_sync" /\ Serving'  BY <1>0, <1>3 DEF Serving
  <2> QED  BY <2>1, <2>2, <2>3, <2>4 DEF Memory
<1>17. Kept'
  <2>1. DOMAIN kept' = DOMAIN kept /\ DOMAIN kept \subseteq 0 .. MaxPages - 1
        /\ \A q \in DOMAIN kept : kept[q] \subseteq kept'[q] /\ (q = p => mem[q] \in kept'[q])
    BY <1>0 DEF Sound, Kept
  <2>2. CASE DOMAIN kept = {}  BY <2>1, <2>2 DEF Kept
  <2>3. CASE DOMAIN kept # {}
    <3>1. PICK s \in Schemas : Checkpointed(file, s) /\ Checkpointed(disk, s)  BY <2>3 DEF Sound, Kept
    <3>2. s = schema  BY <1>1, <3>1, StoresOne DEF Checkpointed
    <3>3. Checkpointed(disk, schema)'
      <4>1. disk' = disk /\ schema' = schema  BY <1>0
      <4>2. HeaderReadable(disk) /\ Stores(disk, schema)  BY <3>1, <3>2 DEF Checkpointed
      <4>3. ASSUME NEW q \in DOMAIN kept
            PROVE  q < PageCount(disk) /\ \E data \in kept'[q] : Holds(disk, schema, q, data)
        BY <2>1, <3>1, <3>2 DEF Checkpointed
      <4> QED  BY <2>1, <4>1, <4>2, <4>3 DEF Checkpointed
    <3>4. Checkpointed(file, schema)'
      <4>1. schema' = schema  BY <1>0
      <4>2. ASSUME NEW q \in DOMAIN kept
            PROVE  q < PageCount(file') /\ \E data \in kept'[q] : Holds(file', schema, q, data)
        <5>1. q \in Nat  BY <1>3, <1>4
        <5>2. q < PageCount(file)  BY <3>1 DEF Checkpointed
        <5>3. PICK data \in kept[q] : Holds(file, schema, q, data)  BY <3>1, <3>2 DEF Checkpointed
        <5>4. CASE q = p  BY <1>7, <1>11, <2>1, <5>2, <5>4
        <5>5. CASE q # p
          <6>1. Holds(file', schema, q, data) /\ data \in kept'[q]  BY <1>12, <2>1, <5>1, <5>3, <5>5
          <6> QED  BY <1>11, <5>2, <6>1
        <5> QED  BY <5>4, <5>5
      <4> QED  BY <1>7, <1>11, <2>1, <4>1, <4>2 DEF Checkpointed
    <3>5. schema' \in Schemas  BY <1>0, <1>1
    <3> QED  BY <2>1, <3>3, <3>4, <3>5 DEF Kept
  <2> QED  BY <2>2, <2>3
<1>18. Ended'  BY <1>0, <1>3 DEF Ended
<1> QED  BY <1>13, <1>14, <1>15, <1>16, <1>17, <1>18 DEF Sound

LEMMA EvictSound ==
    ASSUME Fits, Sound, NEW p \in 0 .. MaxPages - 1, Evict(p) \/ FlushPage(p)
    PROVE  Sound'
<1>1. p \in dirty /\ Write(p) /\ pc' = pc /\ pc \in {"open", "flush"}  BY DEF Evict, FlushPage
<1> QED  BY <1>1, WriteSound

LEMMA FlushSound ==
    ASSUME Sound, NEW close \in BOOLEAN, Flush(close)
    PROVE  Sound'
<1>0. /\ pc = "open" /\ pc' = "flush" /\ closing' = close
      /\ UNCHANGED <<exists, file, disk, explicit, ct, schema, mem, dirty, next_page_id, outcome,
                     kept, opens, changes>>
  BY DEF Flush, Bounds, mem_vars
<1>1. TypeOK'
  <2>1. closing' \in BOOLEAN  BY <1>0
  <2> QED  BY <1>0, <2>1 DEF Sound, TypeOK
<1>2. Shape'  BY <1>0, ShapeStays DEF Sound
<1>3. Opening'
  <2>1. exists' /\ HeaderReadable(file') /\ Stores(file', schema')  BY <1>0 DEF Sound, Opening
  <2> QED  BY <1>0, <2>1 DEF Opening
<1>4. Memory'  BY <1>0 DEF Sound, Memory, Serving
<1>5. Kept'  BY <1>0, KeptStays DEF Sound
<1>6. Ended'
  <2>1. outcome = "open"  BY <1>0 DEF Sound, Memory, Serving
  <2> QED  BY <1>0, <2>1 DEF Ended
<1> QED  BY <1>1, <1>2, <1>3, <1>4, <1>5, <1>6 DEF Sound

LEMMA FlushHeaderSound ==
    ASSUME Fits, Sound, FlushHeader
    PROVE  Sound'
<1>0. /\ pc = "flush" /\ pc' = "flush_sync" /\ dirty = {}
      /\ file' = Pwrite(file, <<MAGIC, next_page_id>>, 0)
      /\ UNCHANGED <<exists, disk, closing, explicit, ct, schema, mem, dirty, next_page_id, outcome,
                     kept, opens, changes>>
  BY DEF FlushHeader, Session, Bounds, mem_vars
<1>1. /\ HeaderReadable(file) /\ Stores(file, schema) /\ exists /\ schema \in Schemas
      /\ file \in Seq(Nat) /\ disk \in Seq(Nat) /\ Len(disk) <= Len(file) /\ Header(file) /\ Header(disk)
  BY <1>0 DEF Sound, Opening, Shape, Stores
<1>2. Slots(file, schema) /\ Slots(disk, schema)  BY <1>1, ShapeSlots DEF Sound
<1>3. /\ outcome = "open" /\ DOMAIN kept \subseteq DOMAIN mem
      /\ \A q \in DOMAIN mem : Holds(file, schema, q, mem[q])
  BY <1>0 DEF Sound, Memory, Serving
<1>4. /\ next_page_id \in Nat /\ next_page_id <= MaxPages
      /\ \A q \in DOMAIN mem : q \in Nat /\ q < next_page_id
  BY MemoryIds DEF Sound
<1>5. /\ file' \in Seq(Nat) /\ Len(file') >= Len(file) /\ HeaderReadable(file')
      /\ PageCount(file') = next_page_id
      /\ Stores(file', schema)
  BY <1>0, <1>1, <1>4, HeaderWritten
<1>6. \A p \in Nat : Same(file, file', SlotAt(schema, p))  BY <1>0, <1>1, <1>4, HeaderWritten
<1>7. Slots(file', schema)
  <2>1. \A p \in 0 .. MaxPages - 1 : Same(file, file', SlotAt(schema, p))  BY <1>6, Sizes
  <2> QED  BY <1>1, <1>2, <1>5, <2>1, SlotsSame
<1>8. Header(file')  BY <1>4, <1>5, Sizes DEF Header, PageCount
<1>9. ASSUME NEW q \in Nat, NEW data, Holds(file, schema, q, data)
      PROVE  Holds(file', schema, q, data)
  BY <1>1, <1>5, <1>6, <1>9, HoldsSame
<1>10. TypeOK'
  <2>1. file' \in Seq(Nat)  BY <1>5
  <2>2. \A i \in DOMAIN file' : file'[i] \in Nat  BY <2>1
  <2> QED  BY <1>0, <2>2 DEF Sound, TypeOK
<1>11. Shape'
  <2>1. exists'  BY <1>0, <1>1
  <2>2. ~exists' => file' = <<>> /\ disk' = <<>>  BY <2>1
  <2>3. disk' = disk /\ disk \in Seq(Nat) /\ Header(disk) /\ Slots(disk, schema)  BY <1>0, <1>1, <1>2
  <2>4. \E s \in Schemas : Stores(file', s) /\ Slots(file', s) /\ Slots(disk', s)  BY <1>1, <1>5, <1>7, <2>3
  <2>5. Len(disk) <= Len(file')
    <3>1. Len(file) \in Nat /\ Len(file') \in Nat /\ Len(disk) \in Nat  BY <1>1, <1>5
    <3>2. Len(file') >= Len(file) /\ Len(disk) <= Len(file)  BY <1>1, <1>5
    <3> QED  BY <3>1, <3>2
  <2> QED  BY <1>5, <1>8, <2>2, <2>3, <2>4, <2>5 DEF Shape
<1>12. Opening'
  <2>1. exists' /\ Stores(file', schema')  BY <1>0, <1>1, <1>5
  <2> QED  BY <1>0, <1>5, <2>1 DEF Opening
<1>13. Memory'
  <2>1. \A q \in DOMAIN mem' : Holds(file', schema', q, mem'[q])  BY <1>0, <1>3, <1>4, <1>9
  <2>2. PageCount(file') = next_page_id'  BY <1>0, <1>5
  <2> QED  BY <1>0, <1>3, <2>1, <2>2 DEF Memory, Serving
<1>14. Kept'
  <2>1. CASE DOMAIN kept = {}  BY <1>0, <2>1 DEF Sound, Kept
  <2>2. CASE DOMAIN kept # {}
    <3>1. PICK s \in Schemas : Checkpointed(file, s) /\ Checkpointed(disk, s)  BY <2>2 DEF Sound, Kept
    <3>2. s = schema  BY <1>1, <3>1, StoresOne DEF Checkpointed
    <3>3. Checkpointed(disk, schema)'  BY <1>0, <3>1, <3>2 DEF Checkpointed
    <3>4. Checkpointed(file, schema)'
      <4>1. ASSUME NEW q \in DOMAIN kept
            PROVE  q < PageCount(file') /\ \E data \in kept[q] : Holds(file', schema, q, data)
        <5>1. q \in Nat /\ q < next_page_id  BY <1>3, <1>4
        <5>2. PICK data \in kept[q] : Holds(file, schema, q, data)  BY <3>1, <3>2 DEF Checkpointed
        <5>3. Holds(file', schema, q, data)  BY <1>9, <5>1, <5>2
        <5> QED  BY <1>5, <5>1, <5>3
      <4> QED  BY <1>0, <1>5, <4>1 DEF Checkpointed
    <3>5. schema' \in Schemas /\ DOMAIN kept' \subseteq 0 .. MaxPages - 1  BY <1>0, <1>1 DEF Sound, Kept
    <3> QED  BY <3>3, <3>4, <3>5 DEF Kept
  <2> QED  BY <2>1, <2>2
<1>15. Ended'  BY <1>0, <1>3 DEF Ended
<1> QED  BY <1>10, <1>11, <1>12, <1>13, <1>14, <1>15 DEF Sound

\* Nothing of the process is left.
LEMMA ForgetSound ==
    ASSUME Sound, Forget
    PROVE  /\ Opening' /\ Memory' /\ Ended'
           /\ pc' = "closed" /\ closing' \in BOOLEAN /\ explicit' = NoSchema /\ schema' = NoSchema
           /\ ct' = None /\ dirty' = {} /\ DOMAIN mem' = {} /\ next_page_id' = 0 /\ outcome' = "none"
<1>1. Opening'  BY DEF Forget, Opening
<1>2. Memory'  BY DEF Forget, Memory, Serving
<1>3. Ended'  BY DEF Forget, Ended
<1>4. closing' \in BOOLEAN  BY DEF Forget
<1> QED  BY <1>1, <1>2, <1>3, <1>4 DEF Forget, NoPages

LEMMA FlushSyncSound ==
    ASSUME Sound, FlushSync
    PROVE  Sound'
<1>0. /\ pc = "flush_sync" /\ disk' = file /\ file' = file /\ exists' = exists
      /\ kept' = [p \in DOMAIN mem |-> {mem[p]}]
      /\ opens' = opens /\ changes' = changes
  BY DEF FlushSync, Bounds
<1>1. /\ HeaderReadable(file) /\ Stores(file, schema) /\ exists /\ schema \in Schemas
  BY <1>0 DEF Sound, Opening, Stores
<1>2. /\ outcome = "open" /\ dirty = {} /\ PageCount(file) = next_page_id
      /\ \A q \in DOMAIN mem : Holds(file, schema, q, mem[q])
  BY <1>0 DEF Sound, Memory, Serving
<1>3. DOMAIN kept' = DOMAIN mem /\ \A q \in DOMAIN mem : kept'[q] = {mem[q]}  BY <1>0
<1>4. \A q \in DOMAIN mem : q \in 0 .. MaxPages - 1 /\ q < next_page_id  BY MemoryIds DEF Sound
<1>5. Shape'  BY <1>0, ShapeStays DEF Sound
<1>6. Kept'
  <2>1. ASSUME NEW q \in DOMAIN kept'
        PROVE  q < PageCount(file) /\ \E data \in kept'[q] : Holds(file, schema, q, data)
    BY <1>2, <1>3, <1>4
  <2> DEFINE s == schema
  <2>2. /\ HeaderReadable(file) /\ Stores(file, s)
        /\ \A q \in DOMAIN kept' : q < PageCount(file) /\ \E data \in kept'[q] : Holds(file, s, q, data)
    BY <1>1, <2>1
  <2>3. DOMAIN kept' \subseteq 0 .. MaxPages - 1  BY <1>3, <1>4
  <2>4. \E r \in Schemas :
          /\ HeaderReadable(file) /\ Stores(file, r)
          /\ \A q \in DOMAIN kept' : q < PageCount(file) /\ \E data \in kept'[q] : Holds(file, r, q, data)
    BY <1>1, <2>2
  <2> QED  BY <1>0, <2>3, <2>4 DEF Kept, Checkpointed
<1>7. \A q \in DOMAIN kept' : kept'[q] \subseteq Page \cup {<<>>}  BY <1>3 DEF Sound, TypeOK
<1>8. CASE closing
  <2>1. Forget  BY <1>8 DEF FlushSync
  <2>2. /\ Opening' /\ Memory' /\ Ended'
        /\ pc' = "closed" /\ closing' \in BOOLEAN /\ explicit' = NoSchema /\ schema' = NoSchema
        /\ ct' = None /\ dirty' = {} /\ DOMAIN mem' = {} /\ next_page_id' = 0 /\ outcome' = "none"
    BY <2>1, ForgetSound
  <2>3. TypeOK'
    <3>1. next_page_id' \in 0 .. MaxPages  BY <2>2, Sizes
    <3> QED  BY <1>0, <1>7, <2>2, <3>1 DEF Sound, TypeOK
  <2> QED  BY <1>5, <1>6, <2>2, <2>3 DEF Sound
<1>9. CASE ~closing
  <2>1. /\ pc' = "open"
        /\ UNCHANGED <<closing, explicit, ct, schema, mem, dirty, next_page_id, outcome>>
    BY <1>9 DEF FlushSync, Session, mem_vars
  <2>2. TypeOK'  BY <1>0, <1>7, <2>1 DEF Sound, TypeOK
  <2>3. Opening'
    <3>1. exists' /\ HeaderReadable(file') /\ Stores(file', schema')  BY <1>0, <1>1, <2>1
    <3> QED  BY <2>1, <3>1 DEF Opening
  <2>4. Memory'
    <3>1. \A q \in DOMAIN mem' : Holds(file', schema', q, mem'[q])  BY <1>0, <1>2, <2>1
    <3>2. DOMAIN kept' \subseteq DOMAIN mem' /\ dirty' = {} /\ outcome' = "open"  BY <1>2, <1>3, <2>1
    <3> QED  BY <2>1, <3>1, <3>2 DEF Memory, Serving
  <2>5. Ended'  BY <1>2, <2>1 DEF Ended
  <2> QED  BY <1>5, <1>6, <2>2, <2>3, <2>4, <2>5 DEF Sound
<1> QED  BY <1>8, <1>9

\* The system writes a part back: the medium comes closer to the file, and no slot is torn.
LEMMA WriteBackSound ==
    ASSUME Fits, Sound, NEW part \in Parts, WriteBack(part)
    PROVE  Sound'
<1>0. /\ pc # "closed" /\ part[1] < Len(file) /\ disk' = Patch(part)
      /\ UNCHANGED <<exists, file, pc, closing, explicit, ct, schema, mem, dirty, next_page_id,
                     outcome, kept, opens, changes>>
  BY DEF WriteBack, Session, Bounds, mem_vars, Patch, CountOf
<1>1. /\ file \in Seq(Nat) /\ disk \in Seq(Nat) /\ Len(disk) <= Len(file) /\ Header(file) /\ Header(disk)
      /\ exists
  BY <1>0 DEF Sound, Shape, Opening
<1>2. Shape  BY DEF Sound
<1> DEFINE a == part[1]  n == CountOf(part)  g == Patch(part)
<1>3. a \in Nat /\ n \in Nat /\ Back(file, disk, g, a, n)  BY <1>0, <1>1, <1>2, PartBack, PartsOfAny
<1> HIDE DEF a, n, g
<1>4. g \in Seq(Nat) /\ Len(g) <= Len(file)  BY <1>3 DEF Back
<1>5. /\ Header(g)
      /\ HeaderReadable(file) /\ HeaderReadable(disk) =>
           HeaderReadable(g) /\ (PageCount(g) = PageCount(file) \/ PageCount(g) = PageCount(disk))
  BY <1>1, <1>3, BackHeader
<1>6. ASSUME NEW s, Stores(file, s), NEW q \in Nat
      PROVE  Same(disk, g, SlotAt(s, q)) \/ Same(file, g, SlotAt(s, q))
  BY <1>0, <1>2, <1>6, PatchedSlot DEF g
<1>7. disk' = g  BY <1>0 DEF g
<1>8. TypeOK'
  <2>1. \A i \in DOMAIN disk' : disk'[i] \in Nat  BY <1>4, <1>7
  <2> QED  BY <1>0, <2>1 DEF Sound, TypeOK
<1>9. Shape'
  <2>1. exists'  BY <1>0, <1>1
  <2>2. ~exists' => file' = <<>> /\ disk' = <<>>  BY <2>1
  <2>3. \/ Len(file) <= DBHeaderSize + 1
        \/ \E s \in Schemas : Stores(file, s) /\ Slots(file, s) /\ Slots(g, s)
    <3>1. ASSUME NEW s \in Schemas, Stores(file, s), Slots(file, s), Slots(disk, s)
          PROVE  Slots(g, s)
      <4> SUFFICES ASSUME NEW p \in 0 .. MaxPages - 1  PROVE SlotOK(g, s, p)
        BY DEF Slots, SlotOK
      <4>1. SlotOK(file, s, p) /\ SlotOK(disk, s, p)  BY <3>1 DEF Slots, SlotOK
      <4>2. p \in Nat  BY Sizes
      <4>3. Same(disk, g, SlotAt(s, p)) \/ Same(file, g, SlotAt(s, p))  BY <1>6, <3>1, <4>2
      <4> QED  BY <1>1, <1>4, <4>1, <4>2, <4>3, SlotSame
    <3> QED  BY <1>2, <3>1 DEF Shape
  <2>4. file' = file  BY <1>0
  <2> QED  BY <1>1, <1>4, <1>5, <1>7, <2>2, <2>3, <2>4 DEF Shape
<1>10. Opening'
  <2>1. exists'  BY <1>0, <1>1
  <2>2. pc # "create"
    <3> SUFFICES ASSUME pc = "create"  PROVE FALSE
      OBVIOUS
    <3>1. file = <<>>  BY DEF Sound, Opening
    <3>2. Len(file) = 0  BY <3>1
    <3>3. a \in Nat /\ a < Len(file)  BY <1>0, <1>3 DEF a
    <3> QED  BY <3>2, <3>3
  <2> QED  BY <1>0, <2>1, <2>2 DEF Sound, Opening
<1>11. Memory'  BY <1>0 DEF Sound, Memory, Serving
<1>12. Kept'
  <2>1. CASE DOMAIN kept = {}  BY <1>0, <2>1 DEF Sound, Kept
  <2>2. CASE DOMAIN kept # {}
    <3>1. PICK s \in Schemas : Checkpointed(file, s) /\ Checkpointed(disk, s)  BY <2>2 DEF Sound, Kept
    <3>2. /\ Stores(file, s) /\ Stores(disk, s) /\ HeaderReadable(file) /\ HeaderReadable(disk)
          /\ \A q \in DOMAIN kept : q < PageCount(file) /\ q < PageCount(disk)
      BY <3>1 DEF Checkpointed
    <3>3. Stores(g, s)  BY <1>1, <1>3, <3>2, BackStores
    <3>4. ASSUME NEW q \in DOMAIN kept
          PROVE  q < PageCount(g) /\ \E data \in kept[q] : Holds(g, s, q, data)
      <4>1. q \in Nat
        <5>1. DOMAIN kept \subseteq 0 .. MaxPages - 1  BY DEF Sound, Kept
        <5> QED  BY <5>1, Sizes
      <4>2. q < PageCount(g)  BY <1>5, <3>2
      <4>3. PICK x \in kept[q] : Holds(file, s, q, x)  BY <3>1 DEF Checkpointed
      <4>4. PICK y \in kept[q] : Holds(disk, s, q, y)  BY <3>1 DEF Checkpointed
      <4>5. Same(disk, g, SlotAt(s, q)) \/ Same(file, g, SlotAt(s, q))  BY <1>6, <3>2, <4>1
      <4>6. Holds(g, s, q, x) \/ Holds(g, s, q, y)  BY <1>1, <1>4, <4>1, <4>3, <4>4, <4>5, HoldsSame
      <4> QED  BY <4>2, <4>3, <4>4, <4>6
    <3>5. HeaderReadable(g)  BY <1>5, <3>2
    <3>6. Checkpointed(disk, s)'  BY <1>0, <1>7, <3>3, <3>4, <3>5 DEF Checkpointed
    <3>7. Checkpointed(file, s)'  BY <1>0, <3>1 DEF Checkpointed
    <3>8. DOMAIN kept' \subseteq 0 .. MaxPages - 1  BY <1>0 DEF Sound, Kept
    <3> QED  BY <3>6, <3>7, <3>8 DEF Kept
  <2> QED  BY <2>1, <2>2
<1>13. Ended'  BY <1>0 DEF Sound, Ended
<1> QED  BY <1>8, <1>9, <1>10, <1>11, <1>12, <1>13 DEF Sound

\* The types of a database that is closed.
LEMMA ForgetTypeOK ==
    ASSUME Sound, Forget, exists' \in BOOLEAN, file' \in Seq(Nat), disk' \in Seq(Nat),
           UNCHANGED <<kept, opens, changes>>
    PROVE  TypeOK'
<1>1. /\ pc' = "closed" /\ closing' \in BOOLEAN /\ explicit' = NoSchema /\ schema' = NoSchema
      /\ ct' = None /\ dirty' = {} /\ DOMAIN mem' = {} /\ next_page_id' = 0 /\ outcome' = "none"
  BY ForgetSound
<1>2. next_page_id' \in 0 .. MaxPages  BY <1>1, Sizes
<1>3. (\A i \in DOMAIN file' : file'[i] \in Nat) /\ \A i \in DOMAIN disk' : disk'[i] \in Nat  OBVIOUS
<1>4. /\ \A p \in DOMAIN kept' : kept'[p] \subseteq Page \cup {<<>>}
      /\ opens' \in 0 .. MaxOpens /\ changes' \in 0 .. MaxChanges
  BY DEF Sound, TypeOK
<1> QED  BY <1>1, <1>2, <1>3, <1>4 DEF TypeOK

LEMMA DieSound ==
    ASSUME Sound, Die
    PROVE  Sound'
<1>0. Forget /\ UNCHANGED <<exists, file, disk, kept, opens, changes>>  BY DEF Die, Bounds
<1>1. exists' \in BOOLEAN  BY <1>0 DEF Sound, TypeOK
<1>2. file' \in Seq(Nat) /\ disk' \in Seq(Nat)  BY <1>0 DEF Sound, Shape
<1>3. TypeOK'  BY <1>0, <1>1, <1>2, ForgetTypeOK
<1>4. Shape'  BY <1>0, ShapeStays DEF Sound
<1>5. Kept'  BY <1>0, KeptStays DEF Sound
<1>6. Opening' /\ Memory' /\ Ended'  BY <1>0, ForgetSound
<1> QED  BY <1>3, <1>4, <1>5, <1>6 DEF Sound

\* A power loss that does not take the schema takes no checkpointed page either.
LEMMA PowerLossSound ==
    ASSUME Sound, PowerLoss, ~SchemaUnsynced
    PROVE  Sound'
<1>0. /\ Forget /\ file' = disk /\ UNCHANGED <<disk, kept, opens, changes>>
      /\ exists' \in IF disk = <<>> THEN BOOLEAN ELSE {exists}
  BY DEF PowerLoss, Bounds
<1>1. /\ file \in Seq(Nat) /\ disk \in Seq(Nat) /\ Len(disk) <= Len(file) /\ Header(disk)
  BY DEF Sound, Shape
<1>2. exists' \in BOOLEAN
  <2>1. exists \in BOOLEAN  BY DEF Sound, TypeOK
  <2> QED  BY <1>0, <2>1
<1>3. TypeOK'  BY <1>0, <1>1, <1>2, ForgetTypeOK
<1>4. Shape'
  <2>1. ~exists' => disk = <<>>
    <3>1. ~exists => disk = <<>>  BY DEF Sound, Shape
    <3>2. disk # <<>> => exists' = exists  BY <1>0
    <3> QED  BY <3>1, <3>2
  <2>2. \/ Len(disk) <= DBHeaderSize + 1
        \/ \E s \in Schemas : Stores(disk, s) /\ Slots(disk, s)
    <3>1. CASE Len(file) <= DBHeaderSize + 1  BY <1>1, <3>1 DEF DBHeaderSize
    <3>2. ASSUME NEW s \in Schemas, Stores(file, s), Slots(disk, s)
          PROVE  Stores(disk, s)
      <4>1. HasStoredSchema(file) /\ StoredSchema(file) = s  BY <1>1, <3>2, StoresRead
      <4>2. HasStoredSchema(disk) /\ StoredSchema(disk) = s /\ SchemaLen(disk) = SchemaLen(file)
        BY <4>1 DEF SchemaUnsynced
      <4>3. SchemaLen(file) = Len(s)  BY <1>1, <3>2, StoresBytes
      <4> QED  BY <1>1, <4>2, <4>3, ReadStores
    <3> QED  BY <3>1, <3>2 DEF Sound, Shape
  <2>3. file' = disk /\ disk' = disk  BY <1>0
  <2>4. Len(disk) <= Len(disk)  BY <1>1
  <2> QED  BY <1>1, <2>1, <2>2, <2>3, <2>4 DEF Shape
<1>5. Kept'
  <2>1. CASE DOMAIN kept = {}  BY <1>0, <2>1 DEF Sound, Kept
  <2>2. CASE DOMAIN kept # {}
    <3>1. PICK s \in Schemas : Checkpointed(disk, s)  BY <2>2 DEF Sound, Kept
    <3>2. Checkpointed(file, s)' /\ Checkpointed(disk, s)'  BY <1>0, <3>1 DEF Checkpointed
    <3>3. DOMAIN kept' \subseteq 0 .. MaxPages - 1  BY <1>0 DEF Sound, Kept
    <3> QED  BY <3>2, <3>3 DEF Kept
  <2> QED  BY <2>1, <2>2
<1>6. Opening' /\ Memory' /\ Ended'  BY <1>0, ForgetSound
<1> QED  BY <1>3, <1>4, <1>5, <1>6 DEF Sound

\* What has been lost stays lost, and only write_schema stores what is too large.
LEMMA HistoryGrows ==
    ASSUME [Next]_vars
    PROVE  /\ schema_lost => schema_lost'
           /\ oversized => oversized'
           /\ oversized' => oversized \/ (pc = "write_len" /\ ~Readable(schema))
<1> DEFINE Stays == schema_lost' = schema_lost /\ oversized' = oversized
<1> USE DEF SchemaHistory
<1>1. CASE PowerLoss  BY <1>1 DEF PowerLoss
<1>2. CASE Check  BY <1>2 DEF Check, Refuse, Proceed
<1>3. CASE UNCHANGED vars  BY <1>3 DEF vars
<1>4. ASSUME NEW p \in 0 .. MaxPages - 1, Evict(p) \/ FlushPage(p)  PROVE Stays
  BY <1>4 DEF Evict, FlushPage, Write
<1>5. ASSUME NEW s \in Schemas \cup {NoSchema}, NEW type \in Compressions, Open(s, type)  PROVE Stays
  BY <1>5 DEF Open
<1>6. ASSUME NEW p \in 0 .. MaxPages - 1, NEW c \in Page, Change(p, c)  PROVE Stays
  BY <1>6 DEF Change
<1>7. ASSUME NEW close \in BOOLEAN, Flush(close)  PROVE Stays
  BY <1>7 DEF Flush
<1>8. ASSUME NEW part \in Parts, WriteBack(part)  PROVE Stays
  BY <1>8 DEF WriteBack
<1>9. CASE WriteSchemaLen  BY <1>9 DEF WriteSchemaLen
<1>10. CASE CreateHeader \/ CreateSync \/ WriteSchemaData \/ Recover
  BY <1>10 DEF CreateHeader, CreateSync, WriteSchemaData, Recover
<1>11. CASE FlushHeader \/ FlushSync \/ Die
  BY <1>11 DEF FlushHeader, FlushSync, Die
<1> QED  BY <1>1, <1>2, <1>3, <1>4, <1>5, <1>6, <1>7, <1>8, <1>9, <1>10, <1>11 DEF Next

\* Every step keeps it, but a power loss that takes the schema and the storing of one that
\* read_schema refuses.
LEMMA NextSound ==
    ASSUME Fits, Restores, FileInv, [Next]_vars
    PROVE  FileInv'
<1>1. (schema_lost => schema_lost') /\ (oversized => oversized')  BY HistoryGrows
<1> SUFFICES ASSUME Sound, ~schema_lost', ~oversized'  PROVE Sound'
  BY <1>1 DEF FileInv
<1>2. CASE PowerLoss
  <2>1. ~SchemaUnsynced  BY <1>2 DEF PowerLoss
  <2> QED  BY <1>2, <2>1, PowerLossSound
<1>3. CASE UNCHANGED vars
  <2>1. /\ UNCHANGED <<exists, file, disk, pc, closing, explicit, schema, ct, mem, dirty, next_page_id,
                       outcome, kept, opens, changes>>
    BY <1>3 DEF vars, mem_vars
  <2>2. TypeOK'  BY <2>1 DEF Sound, TypeOK
  <2>3. Shape'  BY <2>1, ShapeStays DEF Sound
  <2>4. Opening'  BY <2>1 DEF Sound, Opening
  <2>5. Memory'  BY <2>1 DEF Sound, Memory, Serving
  <2>6. Kept'  BY <2>1, KeptStays DEF Sound
  <2>7. Ended'  BY <2>1 DEF Sound, Ended
  <2> QED  BY <2>2, <2>3, <2>4, <2>5, <2>6, <2>7 DEF Sound
<1>4. ASSUME NEW s \in Schemas \cup {NoSchema}, NEW type \in Compressions, Open(s, type)  PROVE Sound'
  BY <1>4, OpenSound
<1>5. ASSUME NEW p \in 0 .. MaxPages - 1, NEW c \in Page, Change(p, c)  PROVE Sound'
  BY <1>5, ChangeSound
<1>6. ASSUME NEW p \in 0 .. MaxPages - 1, Evict(p) \/ FlushPage(p)  PROVE Sound'
  BY <1>6, EvictSound
<1>7. ASSUME NEW close \in BOOLEAN, Flush(close)  PROVE Sound'
  BY <1>7, FlushSound
<1>8. ASSUME NEW part \in Parts, WriteBack(part)  PROVE Sound'
  BY <1>8, WriteBackSound
<1>9. CASE CreateHeader  BY <1>9, CreateHeaderSound
<1>10. CASE CreateSync  BY <1>10, CreateSyncSound
<1>11. CASE Check  BY <1>11, CheckSound
<1>12. CASE WriteSchemaLen  BY <1>12, WriteSchemaLenSound
<1>13. CASE WriteSchemaData  BY <1>13, WriteSchemaDataSound
<1>14. CASE Recover  BY <1>14, RecoverSound
<1>15. CASE FlushHeader  BY <1>15, FlushHeaderSound
<1>16. CASE FlushSync  BY <1>16, FlushSyncSound
<1>17. CASE Die  BY <1>17, DieSound
<1> QED
  BY <1>2, <1>3, <1>4, <1>5, <1>6, <1>7, <1>8, <1>9, <1>10, <1>11, <1>12, <1>13, <1>14, <1>15, <1>16,
     <1>17 DEF Next

----------------------------------------------------------------------------
(* The theorems *)

\* The data file keeps its layout through every order of page writes, write-backs of the
\* system, process deaths and power losses, as long as none of these undoes write_schema
\* and every schema given to write_schema is one that read_schema accepts: the slots are
\* those of the stored schema, each is whole, and every checkpointed page is in the file
\* and on the medium.
THEOREM FileCorrect == Fits /\ Restores => (Spec => []FileInv)
<1> SUFFICES ASSUME Fits, Restores  PROVE Spec => []FileInv
  OBVIOUS
<1>1. Init => FileInv  BY InitSound DEF FileInv
<1>2. FileInv /\ [Next]_vars => FileInv'  BY NextSound
<1> QED  BY <1>1, <1>2, PTL DEF Spec

\* recover() hands out page ids below the bound and decoded pages only, until a power loss
\* takes the schema or one beyond the limits is stored: no slot behind the schema block is
\* taken for a page that was not written by write_page_to_disk, but the zeros of slot 0.
THEOREM FileTypeOK == Fits /\ Restores => (Spec => [](~schema_lost /\ ~oversized => TypeOK))
<1> SUFFICES ASSUME Fits, Restores  PROVE Spec => [](~schema_lost /\ ~oversized => TypeOK)
  OBVIOUS
<1>1. FileInv => (~schema_lost /\ ~oversized => TypeOK)  BY DEF FileInv, Sound
<1>2. Spec => []FileInv  BY FileCorrect
<1> QED  BY <1>1, <1>2, PTL

\* A clean page read from its slot is what was last written to it, whatever was written to
\* the other slots and with whatever compression (read_page_raw, write_page_to_disk), behind
\* a schema that data_start_offset leaves room for.
THEOREM FileReadsBack == Fits /\ Restores => (Spec => [](~schema_lost => ReadsBack))
<1> SUFFICES ASSUME Fits, Restores  PROVE Spec => [](~schema_lost => ReadsBack)
  OBVIOUS
<1>1. FileInv => (~schema_lost => ReadsBack)  BY SoundReadsBack DEF FileInv, ReadsBack
<1>2. Spec => []FileInv  BY FileCorrect
<1> QED  BY <1>1, <1>2, PTL

\* The pages of a checkpoint stay readable, with the contents of the checkpoint or of a
\* later write, after every later death, power loss and refused open (flush_all, recover),
\* if no schema was stored that read_schema or deserialise_schema refuses.
THEOREM FilePagesSurvive == Fits /\ Restores => (Spec => [](~schema_lost => PagesSurvive))
<1> SUFFICES ASSUME Fits, Restores  PROVE Spec => [](~schema_lost => PagesSurvive)
  OBVIOUS
<1>1. FileInv => (~schema_lost => PagesSurvive)  BY SoundPagesSurvive DEF FileInv, PagesSurvive
<1>2. Spec => []FileInv  BY FileCorrect
<1> QED  BY <1>1, <1>2, PTL

\* The rows of a checkpointed page are decoded with the schema they were encoded with only
\* (the comment of DB::open), unless a power loss took the schema or it is beyond the
\* limits of read_schema.
THEOREM FileSchemaKept == Fits /\ Restores => (Spec => []SchemaKept)
<1> SUFFICES ASSUME Fits, Restores  PROVE Spec => []SchemaKept
  OBVIOUS
<1>1. FileInv => SchemaKept
  <2>1. CASE schema_lost \/ oversized  BY <2>1 DEF SchemaKept
  <2>2. CASE ~schema_lost /\ ~oversized  BY <2>2, SoundSchemaKept DEF FileInv
  <2> QED  BY <2>1, <2>2
<1>2. Spec => []FileInv  BY FileCorrect
<1> QED  BY <1>1, <1>2, PTL

\* A database with a checkpoint, all of whose schemas were within the limits of read_schema,
\* is never found unreadable or corrupt, and open() refuses it only for an explicit schema
\* that differs from the stored one.
THEOREM FileRefusedWithReason == Fits /\ Restores => (Spec => [](~schema_lost => RefusedWithReason))
<1> SUFFICES ASSUME Fits, Restores  PROVE Spec => [](~schema_lost => RefusedWithReason)
  OBVIOUS
<1>1. FileInv => (~schema_lost => RefusedWithReason)  BY SoundRefused DEF FileInv, RefusedWithReason
<1>2. Spec => []FileInv  BY FileCorrect
<1> QED  BY <1>1, <1>2, PTL

\* Where no schema is beyond the limits, a database with a checkpoint can be opened again
\* unless a power loss takes the schema: the limits are the only reason for the "corrupt"
\* of open() (db.cpp) that Schema::validate() does not see.
THEOREM FileReopens ==
    Fits /\ Restores /\ WithinLimits => (Spec => [](~schema_lost => Reopens))
<1> SUFFICES ASSUME Fits, Restores, WithinLimits
             PROVE  Spec => [](~schema_lost => Reopens)
  OBVIOUS
<1> DEFINE Inv == schema_lost \/ (~oversized /\ Sound)
<1>1. Init => Inv  BY InitSound DEF Init
<1>2. ASSUME Inv, [Next]_vars  PROVE Inv'
  <2>1. FileInv'  BY <1>2, NextSound DEF FileInv
  <2>2. CASE schema_lost  BY <1>2, <2>2, HistoryGrows
  <2>3. CASE ~oversized /\ Sound
    <3>1. pc = "write_len" => Readable(schema)  BY <2>3 DEF Sound, Opening, WithinLimits
    <3>2. ~oversized'  BY <1>2, <2>3, <3>1, HistoryGrows
    <3> QED  BY <2>1, <3>2 DEF FileInv
  <2> QED  BY <1>2, <2>2, <2>3
<1>3. Inv => (~schema_lost => Reopens)  BY DEF Sound, Ended, Reopens
<1> QED  BY <1>1, <1>2, <1>3, PTL DEF Spec
=============================================================================
