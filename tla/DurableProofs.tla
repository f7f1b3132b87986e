--------------------------- MODULE DurableProofs ---------------------------
(***************************************************************************)
(* Proofs about what a restart would recover from the files of XdlDB.      *)
(* While the process lives and the log can be written, the recovered table *)
(* is the one that lookups see, and step by step, whatever is evicted and  *)
(* whenever the log buffer overflows, it changes only in rows of the call. *)
(* With room for the call in the log buffer and the cache, calls take      *)
(* effect as a whole at their sync: the engine implements DurableTable.    *)
(* With crashes at any step, of a recovery too, and with failing log       *)
(* writes, the rows that lookups find between calls are recovered.         *)
(***************************************************************************)
EXTENDS ScanProofs

----------------------------------------------------------------------------
(* The log *)

\* All records since the last checkpoint, in the file or still in the buffer.
LogOf == walFile \o walBuf

Says(log, n, t, id) == log[n].t = t /\ log[n].id = id

\* The log deletes the row.
Deleted(log, id) == \E n \in 1..Len(log) : Says(log, n, "DELETE", id)

\* The INSERT records of a row behind its last DELETE record.
Standing(log, id) ==
    {n \in 1..Len(log) : /\ Says(log, n, "INSERT", id)
                         /\ \A d \in 1..Len(log) : Says(log, d, "DELETE", id) => d < n}

\* No record of the row.
Silent(log, id) == \A n \in 1..Len(log) : log[n].id # id

----------------------------------------------------------------------------
(* The invariant *)

\* The step that indexes the row that was just logged.
Logged(t, id) ==
    \/ Len(t) > 0 /\ t[1].s = "index_row" /\ t[1].x = id
    \/ Len(t) > 1 /\ t[1].s = "sync" /\ t[2].s = "index_row" /\ t[2].x = id

\* The value of a row in memory, as logged so far.
Value(id) ==
    IF index[id] # NoEntry THEN RowAt(Pager, index[id]).val
    ELSE IF Logged(todo, id) THEN RowsOf(Pager, next - 1)[Len(RowsOf(Pager, next - 1))].val
    ELSE NoVal

\* A copy of the row is in a counted page of the file.
OnDisk(id) == \E q \in 0..count - 1 : \E k \in 1..Len(disk[q]) : disk[q][k].id = id

\* The log makes the value of a row v; if it says nothing of it, the row is stored.
Agrees(log, id, v, stored) ==
    /\ \A n \in Standing(log, id) : log[n].val = v
    /\ v # NoVal /\ Standing(log, id) = {} => ~Deleted(log, id) /\ stored

\* What the log says of a row is what memory has.
LogAgrees == \A id \in Ids : Agrees(LogOf, id, Value(id), OnDisk(id))

\* A copy in the file of a row that the log does not delete is on the page of the row.
DiskAgrees ==
    \A q \in 0..count - 1 : \A k \in 1..Len(disk[q]) :
        LET id == disk[q][k].id
        IN  ~Deleted(LogOf, id) =>
              index[id] # NoEntry /\ index[id].page = q /\ RowAt(Pager, index[id]).val = disk[q][k].val

\* A call syncs what it logs.
SyncAhead(t) ==
    \A i \in 1..Len(t) : t[i].s \in {"log_insert", "erase_row"} =>
        \E j \in i..Len(t) : t[j].s = "sync"
Buffered == walBuf # <<>> => \E i \in 1..Len(todo) : todo[i].s = "sync"

DurableInv ==
    /\ ScanInv
    /\ open \/ todo # <<>> => LogAgrees /\ DiskAgrees
    /\ SyncAhead(todo) /\ Buffered

----------------------------------------------------------------------------
(* Facts about the log *)

\* One more record.
LEMMA LogAppend ==
    ASSUME NEW log \in Seq(LogRecord), NEW r \in LogRecord, NEW id
    PROVE  LET new == Append(log, r)
           IN  /\ new \in Seq(LogRecord) /\ Len(new) = Len(log) + 1 /\ new[Len(log) + 1] = r
               /\ \A n \in 1..Len(log) : new[n] = log[n]
               /\ r.id # id => /\ Deleted(new, id) <=> Deleted(log, id)
                               /\ Standing(new, id) = Standing(log, id)
               /\ r.id = id /\ r.t = "INSERT" =>
                    /\ Deleted(new, id) <=> Deleted(log, id)
                    /\ Standing(new, id) = Standing(log, id) \cup {Len(log) + 1}
               /\ r.id = id /\ r.t = "DELETE" => Deleted(new, id) /\ Standing(new, id) = {}
<1> DEFINE new == Append(log, r)
           m == Len(log) + 1
<1>1. /\ new \in Seq(LogRecord) /\ Len(new) = m /\ new[m] = r /\ Len(log) \in Nat
      /\ \A n \in 1..Len(log) : new[n] = log[n]
  OBVIOUS
<1> HIDE DEF new
<1>2. /\ \A n \in 1..Len(log) : n \in 1..m /\ n < m
      /\ \A n \in 1..m : n = m \/ n \in 1..Len(log)
      /\ m \in 1..m
  BY <1>1
<1> HIDE DEF m
<1>3. r.id # id => (Deleted(new, id) <=> Deleted(log, id))
  BY <1>1, <1>2 DEF Deleted, Says
<1>4. ASSUME r.id # id PROVE Standing(new, id) = Standing(log, id)
  <2>1. \A n : n \in Standing(new, id) => n \in Standing(log, id)
    BY <1>1, <1>2, <1>4 DEF Standing, Says
  <2>2. \A n : n \in Standing(log, id) => n \in Standing(new, id)
    BY <1>1, <1>2, <1>4 DEF Standing, Says
  <2> QED BY <2>1, <2>2
<1>5. r.id = id /\ r.t = "INSERT" => (Deleted(new, id) <=> Deleted(log, id))
  BY <1>1, <1>2 DEF Deleted, Says
<1>6. ASSUME r.id = id, r.t = "INSERT" PROVE Standing(new, id) = Standing(log, id) \cup {m}
  <2>1. \A n : n \in Standing(new, id) => n \in Standing(log, id) \cup {m}
    BY <1>1, <1>2, <1>6 DEF Standing, Says
  <2>2. \A n : n \in Standing(log, id) => n \in Standing(new, id)
    BY <1>1, <1>2, <1>6 DEF Standing, Says
  <2>3. m \in Standing(new, id)
    <3>1. \A d \in 1..m : Says(new, d, "DELETE", id) => d < m
      BY <1>1, <1>2, <1>6 DEF Says
    <3> QED BY <1>1, <1>2, <1>6, <3>1 DEF Standing, Says
  <2> QED BY <2>1, <2>2, <2>3
<1>7. ASSUME r.id = id, r.t = "DELETE" PROVE Deleted(new, id) /\ Standing(new, id) = {}
  <2>1. Says(new, m, "DELETE", id) /\ m \in 1..Len(new)
    BY <1>1, <1>2, <1>7 DEF Says
  <2>2. \A n \in 1..m : ~(m < n)
    BY <1>1, <1>2
  <2> QED BY <1>1, <2>1, <2>2 DEF Deleted, Standing
<1> QED BY <1>1, <1>3, <1>4, <1>5, <1>6, <1>7 DEF new, m

\* A record of another row.
LEMMA AgreesOther ==
    ASSUME NEW log \in Seq(LogRecord), NEW r \in LogRecord, NEW id, r.id # id,
           NEW v, NEW stored, Agrees(log, id, v, stored)
    PROVE  Agrees(Append(log, r), id, v, stored)
<1> DEFINE new == Append(log, r)
<1>1. /\ (Deleted(new, id) <=> Deleted(log, id)) /\ Standing(new, id) = Standing(log, id)
      /\ \A n \in 1..Len(log) : new[n] = log[n]
  BY LogAppend
<1> HIDE DEF new
<1>2. \A n \in Standing(log, id) : n \in 1..Len(log)
  BY DEF Standing
<1>3. Agrees(new, id, v, stored)
  BY <1>1, <1>2 DEF Agrees
<1> QED BY <1>3 DEF new

\* An INSERT record of a row that is not there.
LEMMA AgreesInsert ==
    ASSUME NEW log \in Seq(LogRecord), NEW r \in LogRecord, r.t = "INSERT",
           NEW s1, NEW s2, Agrees(log, r.id, NoVal, s1)
    PROVE  Agrees(Append(log, r), r.id, r.val, s2)
<1> DEFINE new == Append(log, r)
<1>1. /\ Standing(new, r.id) = Standing(log, r.id) \cup {Len(log) + 1}
      /\ new[Len(log) + 1] = r
  BY LogAppend
<1> HIDE DEF new
<1>2. Standing(log, r.id) = {}
  <2> SUFFICES ASSUME NEW n \in Standing(log, r.id) PROVE FALSE
    OBVIOUS
  <2>1. n \in 1..Len(log) /\ log[n].t = "INSERT" /\ log[n].val = NoVal
    BY DEF Agrees, Standing, Says
  <2>2. log[n].val \in Vals
    BY <2>1 DEF LogRecord
  <2> QED BY <2>1, <2>2, SentinelAssumption
<1>3. Agrees(new, r.id, r.val, s2)
  BY <1>1, <1>2 DEF Agrees
<1> QED BY <1>3 DEF new

\* A DELETE record.
LEMMA AgreesDelete ==
    ASSUME NEW log \in Seq(LogRecord), NEW r \in LogRecord, r.t = "DELETE", NEW stored
    PROVE  Agrees(Append(log, r), r.id, NoVal, stored)
<1> DEFINE new == Append(log, r)
<1>1. Standing(new, r.id) = {}
  BY LogAppend
<1> HIDE DEF new
<1>2. Agrees(new, r.id, NoVal, stored)
  BY <1>1 DEF Agrees
<1> QED BY <1>2 DEF new

\* write_record() adds one record to the log, wherever the buffer ends up.
LEMMA LogWritten ==
    ASSUME EngineInv, NEW r \in LogRecord, write_record(r)
    PROVE  LogOf \in Seq(LogRecord) /\ LogOf' = Append(LogOf, r) /\ walBuf' # <<>>
<1>1. walFile \in Seq(LogRecord) /\ walBuf \in Seq(LogRecord)
  BY DEF EngineInv, Types
<1>2. CASE Len(walBuf) + 1 > WAL_BUFFER_SIZE
  <2>1. walFile' = walFile \o walBuf /\ walBuf' = <<r>>
    BY <1>2 DEF write_record
  <2>2. walBuf' # <<>>
    BY <2>1
  <2> QED BY <1>1, <2>1, <2>2 DEF LogOf
<1>3. CASE ~(Len(walBuf) + 1 > WAL_BUFFER_SIZE)
  <2>1. walFile' = walFile /\ walBuf' = Append(walBuf, r)
    BY <1>3 DEF write_record
  <2>2. walBuf' # <<>>
    BY <1>1, <2>1
  <2> QED BY <1>1, <2>1, <2>2 DEF LogOf
<1> QED BY <1>2, <1>3

\* sync() moves the buffer to the file.
LEMMA LogSynced ==
    ASSUME EngineInv, sync
    PROVE  LogOf \in Seq(LogRecord) /\ LogOf' = LogOf /\ walBuf' = <<>>
<1>1. walFile \in Seq(LogRecord) /\ walBuf \in Seq(LogRecord)
  BY DEF EngineInv, Types
<1>2. (walFile \o walBuf) \o <<>> = walFile \o walBuf
  BY <1>1
<1> QED BY <1>1, <1>2 DEF LogOf, sync
----------------------------------------------------------------------------
(* Steps of a call *)

\* No row moves: an entry keeps its page and the value of its row.
RowsStay ==
    \A id \in Ids :
        /\ index[id] = NoEntry <=> index'[id] = NoEntry
        /\ index[id] # NoEntry => /\ index'[id].page = index[id].page
                                  /\ RowAt(Pager', index'[id]).val = RowAt(Pager, index[id]).val

\* Some pages are written to their slots.
PagesWritten ==
    /\ count' = count
    /\ \A q \in 0..count - 1 :
         \/ disk'[q] = disk[q]
         \/ q \in 0..next - 1 /\ disk'[q] = RowsOf(Pager, q)

LEMMA LoggedPending ==
    ASSUME NEW t, NEW id, Logged(t, id)
    PROVE  Pending(t)
BY DEF Logged, Pending

\* The row that waits for its entry after a step.
LEMMA LoggedNext ==
    ASSUME EngineInv, PlanShape(todo), todo # <<>>, Done, NEW id
    PROVE  Logged(todo', id) <=>
             \/ todo[1].s = "log_insert" /\ todo[1].x = id
             \/ todo[1].s = "sync" /\ Logged(todo, id)
<1>1. /\ PlanShape(todo)
      /\ Len(todo) \in Nat \ {0} /\ Len(todo') = Len(todo) - 1
      /\ \A i \in 1..Len(todo') : todo'[i] = todo[i + 1] /\ i + 1 \in 2..Len(todo) /\ i + 1 \in 1..Len(todo)
  BY PlanRest
<1>2. AppendShape(todo)
  BY DEF EngineInv, StepsOK
<1>3. Len(todo') > 0 => todo'[1] = todo[2] /\ 2 \in 2..Len(todo) /\ 2 - 1 = 1
  BY <1>1
<1>4. Len(todo') > 1 => todo'[2] = todo[3] /\ 3 \in 2..Len(todo) /\ 3 - 1 = 2 /\ 3 - 2 = 1 /\ 3 > 2
  BY <1>1
<1>5. 1 \in 1..Len(todo) /\ 1 + 1 = 2 /\ 1 + 2 = 3
  BY <1>1
<1>6. Len(todo') > 0 <=> Len(todo) > 1
  BY <1>1
<1>7. Len(todo') > 1 <=> Len(todo) > 2
  BY <1>1
<1>8. /\ Len(todo') > 0 /\ todo[2].s = "index_row" =>
           \/ todo[1].s \in {"append_row", "log_insert"} /\ SameRow(todo[1], todo[2])
           \/ todo[1].s = "sync"
      /\ Len(todo') > 1 /\ todo[3].s = "index_row" /\ todo[2].s = "sync" =>
           todo[1].s = "log_insert" /\ SameRow(todo[1], todo[3])
  BY <1>2, <1>3, <1>4 DEF AppendShape
<1>9. /\ todo[1].s = "append_row" => todo[2].s = "log_insert"
      /\ todo[1].s = "log_insert" =>
           \/ Len(todo) > 1 /\ todo[2].s = "index_row"
           \/ Len(todo) > 2 /\ todo[2].s = "sync" /\ todo[3].s = "index_row"
  <2>1. /\ todo[1].s = "append_row" => 1 + 1 \in 1..Len(todo) /\ todo[1 + 1].s = "log_insert"
        /\ todo[1].s = "log_insert" =>
             \/ 1 + 1 \in 1..Len(todo) /\ todo[1 + 1].s = "index_row"
             \/ 1 + 2 \in 1..Len(todo) /\ todo[1 + 1].s = "sync" /\ todo[1 + 2].s = "index_row"
    BY <1>1, <1>5 DEF PlanShape
  <2>2. (2 \in 1..Len(todo) => Len(todo) > 1) /\ (3 \in 1..Len(todo) => Len(todo) > 2)
    BY <1>1
  <2> QED BY <1>5, <2>1, <2>2
<1>10. ASSUME Logged(todo', id)
       PROVE  \/ todo[1].s = "log_insert" /\ todo[1].x = id
              \/ todo[1].s = "sync" /\ Logged(todo, id)
  <2>1. CASE Len(todo') > 0 /\ todo'[1].s = "index_row" /\ todo'[1].x = id
    BY <1>3, <1>6, <1>8, <1>9, <2>1 DEF SameRow, Logged
  <2>2. CASE Len(todo') > 1 /\ todo'[1].s = "sync" /\ todo'[2].s = "index_row" /\ todo'[2].x = id
    <3>1. Len(todo') > 0
      BY <1>1, <2>2
    <3> QED BY <1>3, <1>4, <1>8, <2>2, <3>1 DEF SameRow
  <2> QED BY <1>10, <2>1, <2>2 DEF Logged
<1>11. ASSUME todo[1].s = "log_insert", todo[1].x = id PROVE Logged(todo', id)
  <2>1. CASE Len(todo) > 1 /\ todo[2].s = "index_row"
    BY <1>3, <1>6, <1>8, <1>11, <2>1 DEF SameRow, Logged
  <2>2. CASE Len(todo) > 2 /\ todo[2].s = "sync" /\ todo[3].s = "index_row"
    <3>1. Len(todo') > 0 /\ Len(todo') > 1
      BY <1>1, <2>2
    <3> QED BY <1>3, <1>4, <1>8, <1>11, <2>2, <3>1 DEF SameRow, Logged
  <2> QED BY <1>9, <1>11, <2>1, <2>2
<1>12. ASSUME todo[1].s = "sync", Logged(todo, id) PROVE Logged(todo', id)
  BY <1>3, <1>6, <1>12 DEF Logged
<1> QED BY <1>10, <1>11, <1>12

LEMMA LoggedDone ==
    ASSUME ScanInv, todo # <<>>, Done, NEW id
    PROVE  Logged(todo', id) <=>
             \/ todo[1].s = "log_insert" /\ todo[1].x = id
             \/ todo[1].s = "sync" /\ Logged(todo, id)
BY LoggedNext DEF ScanInv

\* The counted pages of the file hold rows.
LEMMA FileRows ==
    ASSUME EngineInv, NEW q \in 0..count - 1
    PROVE  /\ disk[q] \in Seq(Row)
           /\ \A k \in 1..Len(disk[q]) : disk[q][k] \in Row /\ disk[q][k].id \in Ids /\ disk[q][k].val \in Vals
<1>1. q \in DOMAIN disk
  BY DEF EngineInv, CountOK
<1>2. disk[q] \in Seq(Row)
  BY <1>1, StepFacts DEF PagerOK, PagerShape
<1>3. \A k \in 1..Len(disk[q]) : disk[q][k] \in Row
  BY <1>2
<1> QED BY <1>2, <1>3 DEF Row

\* Writing pages: a copy in the file of a row that the log does not delete stays on the
\* page of the row.
LEMMA DiskWrites ==
    ASSUME ScanInv, DiskAgrees, ~Pending(todo), RowsStay, PagesWritten, LogOf' = LogOf
    PROVE  /\ DiskAgrees'
           /\ \A id \in Ids : ~Deleted(LogOf, id) /\ OnDisk(id) => OnDisk(id)'
<1>1. \A q \in 0..next - 1 : \A k \in 1..Len(RowsOf(Pager, q)) :
         LET r == RowsOf(Pager, q)[k]
         IN  /\ r.id \in Ids /\ index[r.id] # NoEntry /\ index[r.id].page = q
             /\ RowAt(Pager, index[r.id]).val = r.val
  BY PageRows DEF ScanInv, RowsIndexed, RowAt
<1>2. \A q \in 0..count - 1 : \A k \in 1..Len(disk[q]) : disk[q][k].id \in Ids
  BY FileRows DEF ScanInv
<1>3. DiskAgrees'
  <2> SUFFICES ASSUME NEW q \in 0..count - 1, NEW k \in 1..Len(disk'[q]), NEW id, id = disk'[q][k].id,
                      ~Deleted(LogOf, id)
               PROVE  /\ index'[id] # NoEntry /\ index'[id].page = q
                      /\ RowAt(Pager', index'[id]).val = disk'[q][k].val
    BY DEF DiskAgrees, PagesWritten
  <2>1. id \in Ids /\ index[id] # NoEntry /\ index[id].page = q /\ RowAt(Pager, index[id]).val = disk'[q][k].val
    <3>1. CASE disk'[q] = disk[q]
      BY <1>2, <3>1 DEF DiskAgrees
    <3>2. CASE q \in 0..next - 1 /\ disk'[q] = RowsOf(Pager, q)
      BY <1>1, <3>2
    <3> QED BY <3>1, <3>2 DEF PagesWritten
  <2> QED BY <2>1 DEF RowsStay
<1>4. ASSUME NEW id \in Ids, ~Deleted(LogOf, id), OnDisk(id) PROVE OnDisk(id)'
  <2>1. PICK q \in 0..count - 1 : \E k \in 1..Len(disk[q]) : disk[q][k].id = id
    BY <1>4 DEF OnDisk
  <2>2. index[id] # NoEntry /\ index[id].page = q
    BY <1>4, <2>1 DEF DiskAgrees
  <2>3. \E k \in 1..Len(disk'[q]) : disk'[q][k].id = id
    <3>1. CASE disk'[q] = disk[q]
      BY <2>1, <3>1
    <3>2. CASE q \in 0..next - 1 /\ disk'[q] = RowsOf(Pager, q)
      BY <1>4, <2>2, <3>2 DEF ScanInv, EntriesExact, PlaceOf, RowAt
    <3> QED BY <3>1, <3>2 DEF PagesWritten
  <2> QED BY <2>3 DEF OnDisk, PagesWritten
<1> QED BY <1>3, <1>4

\* A step that moves no row and logs nothing.
LEMMA QuietAgrees ==
    ASSUME ScanInv, LogAgrees, DiskAgrees, ~Pending(todo), \A id \in Ids : ~Logged(todo', id),
           RowsStay, PagesWritten, LogOf' = LogOf
    PROVE  LogAgrees' /\ DiskAgrees'
<1>1. /\ DiskAgrees'
      /\ \A id \in Ids : ~Deleted(LogOf, id) /\ OnDisk(id) => OnDisk(id)'
  BY DiskWrites
<1>2. ASSUME NEW id \in Ids PROVE Agrees(LogOf, id, Value(id), OnDisk(id))'
  <2>1. ~Logged(todo, id) /\ ~Logged(todo', id)
    BY LoggedPending
  <2>2. Value(id)' = Value(id)
    BY <2>1 DEF Value, RowsStay
  <2>3. Agrees(LogOf, id, Value(id), OnDisk(id))
    BY DEF LogAgrees
  <2> QED BY <1>1, <2>2, <2>3 DEF Agrees
<1> QED BY <1>1, <1>2 DEF LogAgrees

\* The rest of a call still syncs what it has logged.
LEMMA DoneSync ==
    ASSUME ScanInv, SyncAhead(todo), Buffered, todo # <<>>, Done,
           todo[1].s = "sync" => walBuf' = <<>>,
           todo[1].s \notin {"sync", "log_insert", "erase_row"} => walBuf' = walBuf \/ walBuf' = <<>>
    PROVE  SyncAhead(todo') /\ Buffered'
<1>1. /\ Len(todo) \in Nat \ {0} /\ Len(todo') = Len(todo) - 1
      /\ \A i \in 1..Len(todo') : todo'[i] = todo[i + 1] /\ i + 1 \in 1..Len(todo)
  BY RestFacts
<1>2. ASSUME NEW j \in 1..Len(todo), j > 1 PROVE j - 1 \in 1..Len(todo') /\ todo'[j - 1] = todo[j]
  <2>1. j - 1 \in 1..Len(todo') /\ (j - 1) + 1 = j
    BY <1>1, <1>2
  <2> QED BY <1>1, <2>1
<1>3. SyncAhead(todo')
  <2> SUFFICES ASSUME NEW i \in 1..Len(todo'), todo'[i].s \in {"log_insert", "erase_row"}
               PROVE  \E j \in i..Len(todo') : todo'[j].s = "sync"
    BY DEF SyncAhead
  <2>1. PICK j \in i + 1..Len(todo) : todo[j].s = "sync"
    BY <1>1 DEF SyncAhead
  <2>2. j \in 1..Len(todo) /\ j > 1 /\ j - 1 \in i..Len(todo')
    BY <1>1
  <2> QED BY <1>2, <2>1, <2>2
<1>4. Buffered'
  <2> SUFFICES ASSUME walBuf' # <<>>
               PROVE  \E i \in 1..Len(todo') : todo'[i].s = "sync"
    BY DEF Buffered
  <2>1. PICK j \in 1..Len(todo) : todo[j].s = "sync"
    <3>1. CASE todo[1].s \in {"log_insert", "erase_row"}
      <4>1. 1 \in 1..Len(todo)
        BY <1>1
      <4> QED BY <3>1, <4>1 DEF SyncAhead
    <3>2. CASE todo[1].s \notin {"log_insert", "erase_row"}
      BY <3>2 DEF Buffered
    <3> QED BY <3>1, <3>2
  <2>2. j # 1
    BY <2>1
  <2>3. j > 1
    BY <1>1, <2>2
  <2> QED BY <1>2, <2>1, <2>3
<1> QED BY <1>3, <1>4

\* No page changes its rows and no entry its place.
LEMMA StayRows ==
    ASSUME ScanInv,
           \A pid \in 0..next - 1 : RowsOf(Pager', pid) = RowsOf(Pager, pid),
           \A id \in Ids : /\ index[id] = NoEntry <=> index'[id] = NoEntry
                           /\ index[id] # NoEntry => /\ index'[id].page = index[id].page
                                                     /\ index'[id].slot = index[id].slot
    PROVE  RowsStay
<1> SUFFICES ASSUME NEW id \in Ids, index[id] # NoEntry
             PROVE  RowAt(Pager', index'[id]) = RowAt(Pager, index[id])
  BY DEF RowsStay
<1>1. index[id].page \in 0..next - 1
  BY DEF ScanInv, EngineInv, Entries
<1> QED BY <1>1 DEF RowAt

\* A pager step writes pages as they are.
LEMMA KeepsWritten ==
    ASSUME EngineInv, Keeps(Pager, Pager', next), count' = count
    PROVE  PagesWritten
<1>1. Pager.disk = disk /\ Pager'.disk = disk'
  BY DEF Pager
<1>2. 0..count - 1 \subseteq DOMAIN disk'
  BY <1>1 DEF EngineInv, CountOK, Keeps
<1> QED BY <1>1, <1>2 DEF Keeps, PagesWritten

LEMMA FetchStay ==
    ASSUME ScanInv, NEW pid \in 0..next - 1, PagerBecomes(get_page(Pager, pid)),
           UNCHANGED <<count, next, index, mode>>
    PROVE  RowsStay /\ PagesWritten
<1> DEFINE q == get_page(Pager, pid)
<1>1. EngineInv
  BY DEF ScanInv
<1>2. PagerOK(q, next) /\ Keeps(Pager, q, next) /\ PagerBecomes(q)
  BY <1>1, StepFacts, GetPageFacts
<1> HIDE DEF q
<1>3. Pager' = q
  BY <1>1, <1>2, PagerStep
<1>4. \A x \in 0..next - 1 : RowsOf(Pager', x) = RowsOf(Pager, x)
  BY <1>2, <1>3 DEF Keeps
<1>5. RowsStay
  BY <1>4, StayRows
<1>6. PagesWritten
  BY <1>1, <1>2, <1>3, KeepsWritten
<1> QED BY <1>5, <1>6

\* A step that moves pages only.
MovesPages ==
    /\ todo # <<>> /\ Done /\ RowsStay /\ PagesWritten
    /\ UNCHANGED <<walFile, walBuf>>
    /\ todo[1].s \in {"touch_last", "append_row", "touch_row", "visit_page", "flush_page", "set_index", "opened"}
    /\ open' \/ todo' # <<>>

\* A step does not leave the database closed.
LEMMA StillOpen ==
    ASSUME EngineInv, todo # <<>>, Done, open' = open, todo[1].s # "opened"
    PROVE  open' \/ todo' # <<>>
<1> SUFFICES ASSUME todo' = <<>>, ~open PROVE FALSE
  OBVIOUS
<1>1. Len(todo) \in Nat \ {0} /\ Len(todo') = Len(todo) - 1
  <2>1. todo \in Seq(StepType) /\ todo' = Tail(todo) /\ todo # <<>>
    BY DEF EngineInv, StepsOK, Done
  <2>2. \A t \in Seq(StepType) : t # <<>> => Len(t) \in Nat \ {0} /\ Len(Tail(t)) = Len(t) - 1
    OBVIOUS
  <2> QED BY <2>1, <2>2
<1>2. Len(todo') = 0
  OBVIOUS
<1>3. Len(todo) = 1
  BY <1>1, <1>2
<1> QED BY <1>3 DEF EngineInv, OpenReady

LEMMA QuietDurable ==
    ASSUME DurableInv, ScanInv', MovesPages
    PROVE  DurableInv'
<1> USE DEF MovesPages
<1>1. ScanInv /\ LogAgrees /\ DiskAgrees /\ SyncAhead(todo) /\ Buffered
  BY DEF DurableInv
<1>2. ~Pending(todo) /\ \A id \in Ids : ~Logged(todo', id)
  BY <1>1, LoggedDone DEF Pending
<1>3. LogOf' = LogOf
  BY DEF LogOf
<1>4. LogAgrees' /\ DiskAgrees'
  BY <1>1, <1>2, <1>3, QuietAgrees
<1>5. SyncAhead(todo') /\ Buffered'
  BY <1>1, DoneSync
<1> QED BY <1>4, <1>5 DEF DurableInv

LEMMA TouchLastQuiet == ScanInv /\ TouchLast => MovesPages
<1> SUFFICES ASSUME ScanInv, TouchLast PROVE MovesPages
  OBVIOUS
<1>1. ScanInv /\ EngineInv
  BY DEF ScanInv
<1>2. /\ todo # <<>> /\ todo[1].s = "touch_last" /\ Done /\ next \in Nat
      /\ UNCHANGED <<count, walFile, walBuf, next, index, mode>>
  BY <1>1, StepFacts DEF TouchLast, IsNext
<1>3. RowsStay /\ PagesWritten
  <2>1. CASE next > 0
    <3>1. next - 1 \in 0..next - 1 /\ PagerBecomes(get_page(Pager, next - 1))
      BY <1>2, <2>1 DEF TouchLast
    <3> QED BY <1>1, <1>2, <3>1, FetchStay
  <2>2. CASE ~(next > 0)
    <3>1. UNCHANGED <<disk, offs, lru, cached>>
      BY <2>2 DEF TouchLast, pagerVars
    <3>2. Pager' = Pager
      BY <1>2, <3>1 DEF Pager
    <3> QED BY <1>2, <3>1, <3>2 DEF RowsStay, PagesWritten
  <2> QED BY <2>1, <2>2
<1>4. open' \/ todo' # <<>>
  BY <1>1, <1>2, StillOpen DEF TouchLast
<1> QED BY <1>1, <1>2, <1>3, <1>4 DEF MovesPages

LEMMA TouchLastDurable == DurableInv /\ TouchLast => DurableInv'
BY TouchLastScan, TouchLastQuiet, QuietDurable DEF DurableInv

LEMMA TouchRowQuiet == ScanInv /\ TouchRow => MovesPages
<1> SUFFICES ASSUME ScanInv, TouchRow PROVE MovesPages
  OBVIOUS
<1>1. ScanInv /\ EngineInv
  BY DEF ScanInv
<1>2. /\ todo # <<>> /\ todo[1].s = "touch_row" /\ Done /\ todo[1].x \in Ids /\ 1 \in 1..Len(todo)
      /\ PagerBecomes(get_page(Pager, index[todo[1].x].page))
      /\ UNCHANGED <<count, walFile, walBuf, next, index, mode>>
  BY <1>1, StepFacts DEF TouchRow, IsNext, RowNames
<1>3. index[todo[1].x] # NoEntry
  BY <1>1, <1>2 DEF EngineInv, EraseReady
<1>4. index[todo[1].x].page \in 0..next - 1
  BY <1>1, <1>2, <1>3 DEF EngineInv, Entries
<1>5. RowsStay /\ PagesWritten
  BY <1>1, <1>2, <1>4, FetchStay
<1>6. open' \/ todo' # <<>>
  BY <1>1, <1>2, StillOpen DEF TouchRow
<1> QED BY <1>1, <1>2, <1>5, <1>6 DEF MovesPages

LEMMA TouchRowDurable == DurableInv /\ TouchRow => DurableInv'
BY TouchRowScan, TouchRowQuiet, QuietDurable DEF DurableInv

LEMMA VisitPageQuiet == ScanInv /\ VisitPage => MovesPages
<1> SUFFICES ASSUME ScanInv, VisitPage PROVE MovesPages
  OBVIOUS
<1>1. ScanInv /\ EngineInv
  BY DEF ScanInv
<1>2. /\ todo # <<>> /\ todo[1].s = "visit_page" /\ Done /\ 1 \in 1..Len(todo)
      /\ PagerBecomes(get_page(Pager, todo[1].x))
      /\ UNCHANGED <<count, walFile, walBuf, next, index, mode>>
  BY <1>1, StepFacts DEF VisitPage, IsNext
<1>3. todo[1].x \in 0..next - 1
  BY <1>1, <1>2 DEF EngineInv, FlushReady
<1>4. RowsStay /\ PagesWritten
  BY <1>1, <1>2, <1>3, FetchStay
<1>5. open' \/ todo' # <<>>
  BY <1>1, <1>2, StillOpen DEF VisitPage
<1> QED BY <1>1, <1>2, <1>4, <1>5 DEF MovesPages

LEMMA VisitPageDurable == DurableInv /\ VisitPage => DurableInv'
BY VisitPageScan, VisitPageQuiet, QuietDurable DEF DurableInv

LEMMA FlushPageQuiet == ScanInv /\ FlushPage => MovesPages
<1> SUFFICES ASSUME ScanInv, FlushPage PROVE MovesPages
  OBVIOUS
<1>1. ScanInv /\ EngineInv
  BY DEF ScanInv
<1>2. /\ todo # <<>> /\ todo[1].s = "flush_page" /\ Done
      /\ UNCHANGED <<count, walFile, walBuf, next>>
      /\ Keeps(Pager, Pager', next)
      /\ \A i \in Ids :
           /\ index[i] = NoEntry <=> index'[i] = NoEntry
           /\ index[i] # NoEntry => index'[i].page = index[i].page /\ index'[i].slot = index[i].slot
  BY <1>1, FlushPageFacts
<1>3. \A pid \in 0..next - 1 : RowsOf(Pager', pid) = RowsOf(Pager, pid)
  BY <1>2 DEF Keeps
<1>4. RowsStay
  BY <1>1, <1>2, <1>3, StayRows
<1>5. PagesWritten
  BY <1>1, <1>2, KeepsWritten
<1>6. open' \/ todo' # <<>>
  BY <1>1, <1>2, StillOpen DEF FlushPage
<1> QED BY <1>1, <1>2, <1>4, <1>5, <1>6 DEF MovesPages

LEMMA FlushPageDurable == DurableInv /\ FlushPage => DurableInv'
BY FlushPageScan, FlushPageQuiet, QuietDurable DEF DurableInv

LEMMA ReadDurable == ASSUME NEW pid \in Nat PROVE DurableInv /\ Read(pid) => DurableInv'
<1> SUFFICES ASSUME DurableInv, Read(pid) PROVE DurableInv'
  OBVIOUS
<1>1. ScanInv /\ ScanInv' /\ EngineInv
  BY ReadScan DEF DurableInv, ScanInv
<1>2. /\ pid \in 0..next - 1 /\ PagerBecomes(get_page(Pager, pid)) /\ open /\ todo = <<>>
      /\ UNCHANGED <<count, walFile, walBuf, next, index, todo, mode>>
  BY <1>1, StepFacts DEF Read, Idle
<1>3. RowsStay /\ PagesWritten
  BY <1>1, <1>2, FetchStay
<1>4. Len(todo) = 0
  BY <1>2
<1>5. ~Pending(todo) /\ \A id \in Ids : ~Logged(todo', id)
  BY <1>2, <1>4 DEF Pending, Logged
<1>6. LogOf' = LogOf
  BY <1>2 DEF LogOf
<1>7. LogAgrees' /\ DiskAgrees'
  BY <1>1, <1>2, <1>3, <1>5, <1>6, QuietAgrees DEF DurableInv
<1> QED BY <1>1, <1>2, <1>7 DEF DurableInv, SyncAhead, Buffered
----------------------------------------------------------------------------
(* Steps of an insert *)

\* get_or_create_writable_page() may evict pages; the new row is not among them.
LEMMA AppendDisk ==
    ASSUME EngineInv, AppendRow
    PROVE  PagesWritten
<1> DEFINE row == [id |-> todo[1].x, val |-> todo[1].v]
           fits == next > 0 /\ HasRoom(RowsOf(Pager, next - 1), row.val)
           pid == IF fits THEN next - 1 ELSE next
           p == IF fits THEN Pager ELSE new_page(Pager, next)
           q == SetRows(p, pid, append_row(RowsOf(p, pid), row))
<1>1. PagerBecomes(q) /\ count' = count
  BY StepFacts DEF AppendRow, IsNext
<1>2. next \in Nat /\ PagerOK(Pager, next) /\ Pager.disk = disk /\ 0..count - 1 \subseteq DOMAIN disk
  BY StepFacts DEF EngineInv, CountOK
<1>3. PagerShape(p) /\ Keeps(Pager, p, next)
  <2>1. CASE fits
    BY <1>2, <2>1 DEF PagerOK, Keeps
  <2>2. CASE ~fits
    <3>1. p = new_page(Pager, next)
      BY <2>2
    <3> HIDE DEF p
    <3> QED BY <1>2, <3>1, NewPageFacts DEF PagerOK
  <2> QED BY <2>1, <2>2
<1>4. disk' = p.disk
  <2>1. disk' = q.disk
    BY <1>1 DEF PagerBecomes
  <2>2. p = [disk |-> p.disk, offs |-> p.offs, lru |-> p.lru, cached |-> p.cached, cap |-> p.cap]
    BY <1>3 DEF PagerShape
  <2> HIDE DEF p, pid, row
  <2>3. q.disk = p.disk
    BY <2>2 DEF SetRows
  <2> QED BY <2>1, <2>3
<1> HIDE DEF p
<1>5. 0..count - 1 \subseteq DOMAIN p.disk
  BY <1>2, <1>3 DEF Keeps
<1> QED BY <1>1, <1>2, <1>3, <1>4, <1>5 DEF Keeps, PagesWritten

\* The rows that were there stay where they are.
LEMMA AppendStays ==
    ASSUME ScanInv, AppendRow
    PROVE  RowsStay
<1> DEFINE m == next'
           new == Pager'
           old == IF m = next THEN RowsOf(Pager, next - 1) ELSE <<>>
           rows == RowsOf(new, m - 1)
<1>1. EngineInv /\ next \in Nat
  BY StepFacts DEF ScanInv
<1>2. /\ index' = index /\ m \in Nat \ {0} /\ (m = next \/ m = next + 1)
      /\ \A x \in 0..m - 2 : RowsOf(new, x) = RowsOf(Pager, x)
      /\ \A k \in 1..Len(old) : rows[k] = old[k]
  BY <1>1, AppendRowFacts
<1>3. m = next => old = RowsOf(Pager, next - 1)
  OBVIOUS
<1>4. rows = RowsOf(new, m - 1)
  OBVIOUS
<1> HIDE DEF m, new, old, rows
<1>5. ASSUME NEW id \in Ids, index[id] # NoEntry
      PROVE  RowAt(new, index[id]) = RowAt(Pager, index[id])
  <2> DEFINE x == index[id].page
             k == index[id].slot
  <2>1. x \in 0..next - 1 /\ k \in 1..Len(RowsOf(Pager, x))
    BY <1>1, <1>5 DEF ScanInv, EngineInv, Entries, EntriesExact, PlaceOf
  <2> HIDE DEF x, k
  <2>2. RowsOf(new, x)[k] = RowsOf(Pager, x)[k]
    <3>1. CASE x = m - 1
      <4>1. m = next /\ k \in 1..Len(old) /\ old = RowsOf(Pager, x)
        BY <1>1, <1>2, <1>3, <2>1, <3>1
      <4> QED BY <1>2, <1>4, <3>1, <4>1
    <3>2. CASE x # m - 1
      <4>1. x \in 0..m - 2
        BY <1>1, <1>2, <2>1, <3>2
      <4> QED BY <1>2, <4>1
    <3> QED BY <3>1, <3>2
  <2> QED BY <2>2 DEF RowAt, x, k
<1> QED BY <1>2, <1>5 DEF RowsStay, new

LEMMA AppendRowQuiet == ScanInv /\ AppendRow => MovesPages
<1> SUFFICES ASSUME ScanInv, AppendRow PROVE MovesPages
  OBVIOUS
<1>1. EngineInv
  BY DEF ScanInv
<1>2. todo # <<>> /\ todo[1].s = "append_row" /\ Done /\ UNCHANGED <<walFile, walBuf, open>>
  BY <1>1, AppendRowFacts
<1>3. open' \/ todo' # <<>>
  BY <1>1, <1>2, StillOpen
<1> QED BY <1>1, <1>2, <1>3, AppendDisk, AppendStays DEF MovesPages

LEMMA AppendRowDurable == DurableInv /\ AppendRow => DurableInv'
BY AppendRowScan, AppendRowQuiet, QuietDurable DEF DurableInv

LEMMA LogInsertDurable == DurableInv /\ LogInsert => DurableInv'
<1> SUFFICES ASSUME DurableInv, LogInsert PROVE DurableInv'
  OBVIOUS
<1> DEFINE x == todo[1].x
           v == todo[1].v
           r == [t |-> "INSERT", id |-> x, val |-> v]
<1>1. /\ ScanInv /\ ScanInv' /\ EngineInv
      /\ LogAgrees /\ DiskAgrees /\ SyncAhead(todo) /\ Buffered
  <2>1. todo # <<>>
    BY DEF LogInsert, IsNext
  <2> QED BY <2>1, LogInsertScan DEF DurableInv, ScanInv
<1>2. /\ todo # <<>> /\ todo[1].s = "log_insert" /\ Done /\ x \in Ids /\ v \in Vals /\ 1 \in 1..Len(todo)
      /\ write_record(r)
      /\ UNCHANGED <<disk, offs, lru, cached, count, next, index, mode>>
  BY <1>1, StepFacts DEF LogInsert, IsNext, pagerVars, RowNames, ValueNames
<1>3. Pager' = Pager
  BY <1>2 DEF Pager
<1>4. r \in LogRecord /\ r.id = x /\ r.val = v /\ r.t = "INSERT"
  BY <1>2 DEF LogRecord, Record
<1>5. index[x] = NoEntry
  BY <1>1, <1>2 DEF ScanInv, Fresh, InsertNames
<1>6. RowsOf(Pager, next - 1)[Len(RowsOf(Pager, next - 1))].val = v
  <2>1. LastRow(Pager, next, x, v)
    BY <1>1, <1>2 DEF EngineInv, AppendReady
  <2> QED BY <2>1 DEF LastRow, Last
<1>7. \A id : ~Logged(todo, id) /\ (Logged(todo', id) <=> id = x)
  BY <1>1, <1>2, LoggedDone DEF Logged
<1> HIDE DEF x, v, r
<1>8. LogOf \in Seq(LogRecord) /\ LogOf' = Append(LogOf, r)
  BY <1>1, <1>2, <1>4, LogWritten
<1>9. \A id : Deleted(LogOf', id) <=> Deleted(LogOf, id)
  BY <1>4, <1>8, LogAppend
<1>10. \A id : OnDisk(id)' <=> OnDisk(id)
  BY <1>2 DEF OnDisk
<1>11. LogAgrees'
  <2> SUFFICES ASSUME NEW id \in Ids PROVE Agrees(LogOf', id, Value(id)', OnDisk(id)')
    BY DEF LogAgrees
  <2>1. Agrees(LogOf, id, Value(id), OnDisk(id))
    BY <1>1 DEF LogAgrees
  <2>2. CASE id = x
    <3>1. Value(id) = NoVal /\ Value(id)' = v
      BY <1>2, <1>3, <1>5, <1>6, <1>7, <2>2 DEF Value
    <3> QED BY <1>4, <1>8, <2>1, <2>2, <3>1, AgreesInsert
  <2>3. CASE id # x
    <3>1. Value(id)' = Value(id)
      BY <1>2, <1>3, <1>7, <2>3 DEF Value
    <3>2. Agrees(Append(LogOf, r), id, Value(id), OnDisk(id))
      BY <1>4, <1>8, <2>1, <2>3, AgreesOther
    <3> QED BY <1>8, <1>10, <3>1, <3>2 DEF Agrees
  <2> QED BY <2>2, <2>3
<1>12. DiskAgrees'
  BY <1>1, <1>2, <1>3, <1>9 DEF DiskAgrees
<1>13. SyncAhead(todo') /\ Buffered'
  BY <1>1, <1>2, DoneSync
<1> QED BY <1>1, <1>11, <1>12, <1>13 DEF DurableInv

LEMMA SyncDurable == DurableInv /\ Sync => DurableInv'
<1> SUFFICES ASSUME DurableInv, Sync PROVE DurableInv'
  OBVIOUS
<1>1. /\ ScanInv /\ ScanInv' /\ EngineInv
      /\ LogAgrees /\ DiskAgrees /\ SyncAhead(todo) /\ Buffered
  <2>1. todo # <<>>
    BY DEF Sync, IsNext
  <2> QED BY <2>1, SyncScan DEF DurableInv, ScanInv
<1>2. /\ todo # <<>> /\ todo[1].s = "sync" /\ Done /\ sync
      /\ UNCHANGED <<disk, offs, lru, cached, count, next, index, mode>>
  BY <1>1, StepFacts DEF Sync, IsNext, pagerVars
<1>3. Pager' = Pager
  BY <1>2 DEF Pager
<1>4. LogOf' = LogOf /\ walBuf' = <<>>
  BY <1>1, <1>2, LogSynced
<1>5. \A id : Logged(todo', id) <=> Logged(todo, id)
  BY <1>1, <1>2, LoggedDone
<1>6. LogAgrees'
  <2>1. ASSUME NEW id \in Ids PROVE Value(id)' = Value(id) /\ (OnDisk(id)' <=> OnDisk(id))
    BY <1>2, <1>3, <1>5 DEF Value, OnDisk
  <2> QED BY <1>1, <1>4, <2>1 DEF LogAgrees, Agrees
<1>7. DiskAgrees'
  BY <1>1, <1>2, <1>3, <1>4 DEF DiskAgrees
<1>8. SyncAhead(todo') /\ Buffered'
  BY <1>1, <1>2, <1>4, DoneSync
<1> QED BY <1>1, <1>6, <1>7, <1>8 DEF DurableInv

LEMMA IndexRowDurable == DurableInv /\ IndexRow => DurableInv'
<1> SUFFICES ASSUME DurableInv, IndexRow PROVE DurableInv'
  OBVIOUS
<1> DEFINE x == todo[1].x
           rows == RowsOf(Pager, next - 1)
           e == [page |-> next - 1, slot |-> Len(rows), off |-> (next - 1) \in offs]
<1>1. /\ ScanInv /\ ScanInv' /\ EngineInv /\ EngineInv'
      /\ LogAgrees /\ DiskAgrees /\ SyncAhead(todo) /\ Buffered
  <2>1. todo # <<>>
    BY DEF IndexRow, IsNext
  <2> QED BY <2>1, IndexRowScan DEF DurableInv, ScanInv
<1>2. /\ todo # <<>> /\ todo[1].s = "index_row" /\ Done /\ x \in Ids /\ 1 \in 1..Len(todo) /\ Len(todo) > 0
      /\ UNCHANGED <<disk, offs, lru, cached, count, walFile, walBuf, next, mode>>
      /\ index' = [index EXCEPT ![x] = e]
  <2>1. /\ todo # <<>> /\ Head(todo).s = "index_row" /\ Done
        /\ UNCHANGED <<disk, offs, lru, cached, count, walFile, walBuf, next, mode>>
        /\ index' = [index EXCEPT ![Head(todo).x] = e]
    BY DEF IndexRow, IsNext, files
  <2>2. Head(todo) = todo[1] /\ Len(todo) \in Nat \ {0} /\ (todo[1].s \in RowNames => todo[1].x \in Ids)
    BY <1>1, <2>1, StepFacts
  <2> HIDE DEF e
  <2>3. x \in Ids /\ 1 \in 1..Len(todo) /\ Len(todo) > 0
    BY <2>1, <2>2 DEF RowNames
  <2> QED BY <2>1, <2>2, <2>3
<1>3. Pager' = Pager /\ LogOf' = LogOf
  BY <1>2 DEF Pager, LogOf
<1>4. index[x] = NoEntry
  BY <1>1, <1>2 DEF ScanInv, Fresh, InsertNames
<1>5. index'[x] = e /\ \A id \in Ids : id # x => index'[id] = index[id]
  <2>1. index \in [Ids -> Entry \cup {NoEntry}]
    BY <1>1 DEF EngineInv, Types
  <2> HIDE DEF e
  <2> QED BY <1>2, <2>1
<1>6. e # NoEntry /\ RowAt(Pager, e) = rows[Len(rows)]
  <2>1. next \in Nat /\ next > 0 /\ next - 1 \in 0..next - 1 /\ Len(rows) > 0
    <3>1. LastRow(Pager, next, todo[1].x, todo[1].v)
      BY <1>1, <1>2 DEF EngineInv, AppendReady
    <3> QED BY <1>1, <3>1, StepFacts DEF LastRow
  <2>2. Len(rows) \in Nat
    BY <1>1, <2>1, PageRows
  <2> HIDE DEF rows
  <2>3. e \in Entry
    BY <2>1, <2>2 DEF Entry
  <2> QED BY <2>3, NoEntryAssumption DEF RowAt, rows
<1>7. /\ \A id : Logged(todo, id) <=> id = x
      /\ \A id : ~Logged(todo', id)
  BY <1>1, <1>2, LoggedDone DEF Logged
<1>8. rows = RowsOf(Pager, next - 1)
  OBVIOUS
<1> HIDE DEF x, e, rows
<1>9. ASSUME NEW id \in Ids PROVE Value(id)' = Value(id)
  <2>1. CASE id = x
    <3>1. Value(id) = rows[Len(rows)].val
      BY <1>4, <1>7, <1>8, <2>1 DEF Value
    <3>2. Value(id)' = RowAt(Pager, e).val
      BY <1>3, <1>5, <1>6, <2>1 DEF Value
    <3> QED BY <1>6, <3>1, <3>2
  <2>2. CASE id # x
    BY <1>2, <1>3, <1>5, <1>7, <2>2 DEF Value
  <2> QED BY <2>1, <2>2
<1>10. \A id \in Ids : OnDisk(id)' <=> OnDisk(id)
  BY <1>2 DEF OnDisk
<1>11. LogAgrees'
  BY <1>1, <1>3, <1>9, <1>10 DEF LogAgrees, Agrees
<1>12. DiskAgrees'
  <2> SUFFICES ASSUME NEW q \in 0..count - 1, NEW k \in 1..Len(disk[q]), ~Deleted(LogOf, disk[q][k].id)
               PROVE  LET id == disk[q][k].id
                      IN  index'[id] # NoEntry /\ index'[id].page = q /\ RowAt(Pager, index'[id]).val = disk[q][k].val
    BY <1>2, <1>3 DEF DiskAgrees
  <2> DEFINE id == disk[q][k].id
  <2>1. index[id] # NoEntry /\ index[id].page = q /\ RowAt(Pager, index[id]).val = disk[q][k].val
    BY <1>1 DEF DiskAgrees
  <2>2. id \in Ids
    BY <1>1, FileRows
  <2>3. id # x
    BY <1>4, <2>1
  <2> HIDE DEF id
  <2>4. index'[id] = index[id]
    BY <1>5, <2>2, <2>3
  <2>5. index'[id] # NoEntry /\ index'[id].page = q /\ RowAt(Pager, index'[id]).val = disk[q][k].val
    BY <2>1, <2>4
  <2> QED BY <2>5 DEF id
<1>13. SyncAhead(todo') /\ Buffered'
  BY <1>1, <1>2, DoneSync
<1> QED BY <1>1, <1>11, <1>12, <1>13 DEF DurableInv

LEMMA EraseRowDurable == DurableInv /\ EraseRow => DurableInv'
<1> SUFFICES ASSUME DurableInv, EraseRow PROVE DurableInv'
  OBVIOUS
<1> DEFINE x == todo[1].x
           r == [t |-> "DELETE", id |-> x, val |-> NoVal]
<1>1. /\ ScanInv /\ ScanInv' /\ EngineInv
      /\ LogAgrees /\ DiskAgrees /\ SyncAhead(todo) /\ Buffered
  <2>1. todo # <<>>
    BY DEF EraseRow, IsNext
  <2> QED BY <2>1, EraseRowScan DEF DurableInv, ScanInv
<1>2. /\ todo # <<>> /\ todo[1].s = "erase_row" /\ Done /\ x \in Ids
      /\ write_record(r) /\ Unindex(x)
      /\ UNCHANGED <<count, next, mode>>
  BY <1>1, StepFacts DEF EraseRow, IsNext, RowNames
<1>3. index[x] # NoEntry /\ index[x].page \in DOMAIN cached /\ ~Pending(todo)
  BY <1>1, <1>2 DEF EngineInv, EraseReady, EraseNames, Pending
<1>4. r \in LogRecord /\ r.id = x /\ r.t = "DELETE"
  BY <1>2 DEF LogRecord, Record
<1>5. \A id : ~Logged(todo, id) /\ ~Logged(todo', id)
  BY <1>1, <1>2, LoggedDone DEF Logged
<1> HIDE DEF x, r
<1>6. /\ disk' = disk /\ index'[x] = NoEntry
      /\ \A i \in Ids : i # x =>
           /\ index[i] = NoEntry <=> index'[i] = NoEntry
           /\ index[i] # NoEntry => /\ index'[i].page = index[i].page
                                    /\ RowAt(Pager', index'[i]) = RowAt(Pager, index[i])
  BY <1>1, <1>2, <1>3, UnindexScan
<1>7. LogOf \in Seq(LogRecord) /\ LogOf' = Append(LogOf, r)
  BY <1>1, <1>2, <1>4, LogWritten
<1>8. \A id : Deleted(LogOf', id) <=> Deleted(LogOf, id) \/ id = x
  BY <1>4, <1>7, LogAppend
<1>9. LogAgrees'
  <2> SUFFICES ASSUME NEW id \in Ids PROVE Agrees(LogOf', id, Value(id)', OnDisk(id)')
    BY DEF LogAgrees
  <2>1. Agrees(LogOf, id, Value(id), OnDisk(id))
    BY <1>1 DEF LogAgrees
  <2>2. CASE id = x
    <3>1. Value(id)' = NoVal
      BY <1>5, <1>6, <2>2 DEF Value
    <3> QED BY <1>4, <1>7, <2>2, <3>1, AgreesDelete
  <2>3. CASE id # x
    <3>1. Value(id)' = Value(id)
      BY <1>5, <1>6, <2>3 DEF Value
    <3>2. Agrees(Append(LogOf, r), id, Value(id), OnDisk(id))
      BY <1>4, <1>7, <2>1, <2>3, AgreesOther
    <3>3. OnDisk(id)' <=> OnDisk(id)
      BY <1>2, <1>6 DEF OnDisk
    <3> QED BY <1>7, <3>1, <3>2, <3>3 DEF Agrees
  <2> QED BY <2>2, <2>3
<1>10. DiskAgrees'
  <2> SUFFICES ASSUME NEW q \in 0..count - 1, NEW k \in 1..Len(disk[q]), ~Deleted(LogOf', disk[q][k].id)
               PROVE  LET id == disk[q][k].id
                      IN  index'[id] # NoEntry /\ index'[id].page = q /\ RowAt(Pager', index'[id]).val = disk[q][k].val
    BY <1>2, <1>6 DEF DiskAgrees
  <2> DEFINE id == disk[q][k].id
  <2>1. ~Deleted(LogOf, id) /\ id # x
    BY <1>8
  <2>2. index[id] # NoEntry /\ index[id].page = q /\ RowAt(Pager, index[id]).val = disk[q][k].val
    BY <1>1, <2>1 DEF DiskAgrees
  <2>3. id \in Ids
    BY <1>1, FileRows
  <2> QED BY <1>6, <2>1, <2>2, <2>3
<1>11. SyncAhead(todo') /\ Buffered'
  BY <1>1, <1>2, DoneSync
<1> QED BY <1>1, <1>9, <1>10, <1>11 DEF DurableInv
----------------------------------------------------------------------------
(* checkpoint(), close() and open() *)

LEMMA PendingStarts ==
    ASSUME ScanInv, todo # <<>>, Done, todo[1].s \notin {"append_row", "log_insert", "sync"}
    PROVE  ~Pending(todo')
<1>1. /\ Len(todo) \in Nat \ {0} /\ Len(todo') = Len(todo) - 1
      /\ \A i \in 1..Len(todo') : todo'[i] = todo[i + 1] /\ i + 1 \in 2..Len(todo) /\ i + 1 \in 1..Len(todo)
  BY RestFacts
<1>2. AppendShape(todo)
  BY DEF ScanInv, EngineInv, StepsOK
<1>3. Len(todo') > 0 => todo'[1] = todo[2] /\ 2 \in 2..Len(todo) /\ 2 - 1 = 1
  BY <1>1
<1>4. Len(todo') > 1 => todo'[2] = todo[3] /\ 3 \in 2..Len(todo) /\ 3 - 1 = 2 /\ 3 - 2 = 1 /\ 3 > 2
  BY <1>1
<1>5. ~(Len(todo') > 0 /\ todo'[1].s \in {"log_insert", "index_row"})
  BY <1>2, <1>3 DEF AppendShape
<1>6. ~(Len(todo') > 1 /\ todo'[1].s = "sync" /\ todo'[2].s = "index_row")
  <2>1. Len(todo') > 1 => Len(todo') > 0
    BY <1>1
  <2> QED BY <1>2, <1>3, <1>4, <2>1 DEF AppendShape
<1> QED BY <1>5, <1>6 DEF Pending

\* The file holds the rows that the index leads to.
FileIsRows ==
    /\ \A q \in 0..count - 1 : \A k \in 1..Len(disk[q]) :
         LET id == disk[q][k].id
         IN  index[id] # NoEntry /\ index[id].page = q /\ RowAt(Pager, index[id]).val = disk[q][k].val
    /\ \A id \in Ids : index[id] # NoEntry => OnDisk(id)

LEMMA FlushedFile == ScanInv /\ ~Pending(todo) /\ Flushed => FileIsRows
<1> SUFFICES ASSUME ScanInv, ~Pending(todo), Flushed PROVE FileIsRows
  OBVIOUS
<1>1. EngineInv /\ count = next
  BY DEF ScanInv, Flushed
<1>2. \A q \in 0..next - 1 : RowsOf(Pager, q) = disk[q]
  <2>1. \A q \in DOMAIN cached : disk[q] = cached[q].rows
    BY <1>1, StepFacts DEF PagerOK, Flushed, Dirty
  <2>2. Pager.cached = cached /\ Pager.disk = disk
    BY <1>1, StepFacts
  <2> QED BY <2>1, <2>2 DEF RowsOf
<1>3. ASSUME NEW q \in 0..count - 1, NEW k \in 1..Len(disk[q])
      PROVE  LET id == disk[q][k].id
             IN  index[id] # NoEntry /\ index[id].page = q /\ RowAt(Pager, index[id]).val = disk[q][k].val
  BY <1>1, <1>2 DEF ScanInv, RowsIndexed, RowAt
<1>4. ASSUME NEW id \in Ids, index[id] # NoEntry PROVE OnDisk(id)
  <2>1. index[id].page \in 0..next - 1
    BY <1>1, <1>4 DEF EngineInv, Entries
  <2>2. PlaceOf(Pager, index[id], id)
    BY <1>4 DEF ScanInv, EntriesExact
  <2> QED BY <1>1, <1>2, <2>1, <2>2 DEF OnDisk, PlaceOf, RowAt
<1> QED BY <1>3, <1>4 DEF FileIsRows

\* A file that holds the rows needs no log.
LEMMA EmptyLog == FileIsRows /\ LogOf = <<>> /\ (\A id \in Ids : ~Logged(todo, id)) => LogAgrees /\ DiskAgrees
<1> SUFFICES ASSUME FileIsRows, LogOf = <<>>, \A id \in Ids : ~Logged(todo, id)
             PROVE  LogAgrees /\ DiskAgrees
  OBVIOUS
<1>1. 1..Len(LogOf) = {}
  OBVIOUS
<1>2. \A id \in Ids : Standing(LogOf, id) = {} /\ ~Deleted(LogOf, id)
  BY <1>1 DEF Standing, Deleted
<1>3. LogAgrees
  BY <1>2 DEF LogAgrees, Agrees, FileIsRows, Value
<1>4. DiskAgrees
  BY DEF DiskAgrees, FileIsRows
<1> QED BY <1>3, <1>4

LEMMA WriteHeaderDurable == DurableInv /\ WriteHeader => DurableInv'
<1> SUFFICES ASSUME DurableInv, WriteHeader PROVE DurableInv'
  OBVIOUS
<1>1. /\ ScanInv /\ ScanInv' /\ EngineInv
      /\ LogAgrees /\ DiskAgrees /\ SyncAhead(todo) /\ Buffered
  <2>1. todo # <<>>
    BY DEF WriteHeader, IsNext
  <2> QED BY <2>1, WriteHeaderScan DEF DurableInv, ScanInv
<1>2. /\ todo # <<>> /\ todo[1].s = "write_header" /\ Done /\ Len(todo) \in Nat \ {0}
      /\ count' = next
      /\ UNCHANGED <<disk, offs, lru, cached, walFile, walBuf, next, index, mode>>
  BY <1>1, StepFacts DEF WriteHeader, IsNext
<1>3. Flushed'
  <2>1. 1 \in 1..Len(todo)
    BY <1>2
  <2>2. \A pid \in Dirty : \E j \in 1..Len(todo) : j < 1 /\ todo[j].x = pid
    BY <1>1, <1>2, <2>1 DEF EngineInv, FlushReady
  <2>3. Dirty = {}
    BY <2>2
  <2> QED BY <1>2, <2>3 DEF Flushed, Dirty
<1>4. ~Pending(todo') /\ \A id \in Ids : ~Logged(todo, id) /\ ~Logged(todo', id)
  <2>1. ~Pending(todo') /\ ~Pending(todo)
    BY <1>1, <1>2, PendingStarts DEF Pending
  <2> QED BY <2>1, LoggedPending
<1>5. FileIsRows'
  <2>1. (ScanInv /\ ~Pending(todo) /\ Flushed)'
    BY <1>1, <1>3, <1>4
  <2> QED BY <2>1, FlushedFile, PTL
<1>6. Pager' = Pager /\ LogOf' = LogOf
  BY <1>2 DEF Pager, LogOf
<1>7. DiskAgrees'
  BY <1>5 DEF DiskAgrees, FileIsRows
<1>8. LogAgrees'
  <2> SUFFICES ASSUME NEW id \in Ids PROVE Agrees(LogOf', id, Value(id)', OnDisk(id)')
    BY DEF LogAgrees
  <2>1. Agrees(LogOf, id, Value(id), OnDisk(id))
    BY <1>1 DEF LogAgrees
  <2>2. Value(id)' = Value(id)
    BY <1>2, <1>4, <1>6 DEF Value
  <2>3. Value(id) # NoVal => OnDisk(id)'
    BY <1>2, <1>4, <1>5 DEF Value, FileIsRows
  <2> QED BY <1>6, <2>1, <2>2, <2>3 DEF Agrees
<1>9. SyncAhead(todo') /\ Buffered'
  BY <1>1, <1>2, DoneSync
<1> QED BY <1>1, <1>7, <1>8, <1>9 DEF DurableInv

LEMMA ClearWalDurable == DurableInv /\ ClearWal => DurableInv'
<1> SUFFICES ASSUME DurableInv, ClearWal PROVE DurableInv'
  OBVIOUS
<1>1. ScanInv /\ ScanInv' /\ EngineInv /\ SyncAhead(todo) /\ Buffered
  BY ClearWalScan DEF DurableInv, ScanInv
<1>2. /\ todo # <<>> /\ todo[1].s = "clear_wal" /\ Done
      /\ walFile' = <<>> /\ walBuf' = <<>>
      /\ UNCHANGED <<disk, offs, lru, cached, count, next, index, mode>>
  BY <1>1, StepFacts DEF ClearWal, IsNext, pagerVars
<1>3. ~Pending(todo) /\ \A id \in Ids : ~Logged(todo', id)
  BY <1>1, <1>2, LoggedDone DEF Pending
<1>4. Flushed
  BY <1>1, <1>2 DEF ScanInv, CloseReady
<1>5. FileIsRows
  BY <1>1, <1>3, <1>4, FlushedFile
<1>6. Pager' = Pager
  BY <1>2 DEF Pager
<1>7. FileIsRows'
  BY <1>2, <1>5, <1>6 DEF FileIsRows, OnDisk
<1>8. LogOf' = <<>>
  BY <1>2 DEF LogOf
<1>9. (FileIsRows /\ LogOf = <<>> /\ (\A id \in Ids : ~Logged(todo, id)))'
  BY <1>3, <1>7, <1>8
<1>10. LogAgrees' /\ DiskAgrees'
  BY <1>9, EmptyLog, PTL
<1>11. SyncAhead(todo') /\ Buffered'
  BY <1>1, <1>2, DoneSync
<1> QED BY <1>1, <1>10, <1>11 DEF DurableInv
----------------------------------------------------------------------------
(* Plans *)

\* The steps of t write the rows of f, a row is not logged before it is erased.
WritesRows(t, f) ==
    /\ t \in Seq(StepType)
    /\ \A i \in 1..Len(t) :
         /\ t[i].s \in RowNames =>
              \E k \in DOMAIN f : t[i].x = f[k].id /\ (t[i].s \in ValueNames => t[i].v = f[k].val)
         /\ t[i].s = "erase_row" =>
              \A j \in 1..i - 1 : t[j].s \in {"log_insert", "erase_row"} => t[j].x # t[i].x

\* One of the rows.
Only(f, k) == [m \in {k} |-> f[m]]

\* A plan behind another one.
LEMMA WritesConcat ==
    ASSUME NEW f, NEW a, NEW b, WritesRows(a, f), WritesRows(b, f),
           \A i \in 1..Len(a), m \in 1..Len(b) :
              a[i].s \in {"log_insert", "erase_row"} /\ b[m].s = "erase_row" => a[i].x # b[m].x
    PROVE  WritesRows(a \o b, f)
<1> DEFINE c == a \o b
           n == Len(a)
<1>1. a \in Seq(StepType) /\ b \in Seq(StepType)
  BY DEF WritesRows
<1>2. /\ c \in Seq(StepType) /\ Len(c) = n + Len(b) /\ n \in Nat /\ Len(b) \in Nat
      /\ \A i \in 1..n : c[i] = a[i]
      /\ \A i \in 1..Len(b) : c[n + i] = b[i]
      /\ \A i \in 1..n + Len(b) : i \in 1..n \/ \E j \in 1..Len(b) : i = n + j
  BY <1>1, ConcatNames
<1>3. Len(a) = n
  OBVIOUS
<1> HIDE DEF c, n
<1>4. ASSUME NEW i \in 1..Len(c)
      PROVE  /\ c[i].s \in RowNames =>
                  \E k \in DOMAIN f : c[i].x = f[k].id /\ (c[i].s \in ValueNames => c[i].v = f[k].val)
             /\ c[i].s = "erase_row" =>
                  \A j \in 1..i - 1 : c[j].s \in {"log_insert", "erase_row"} => c[j].x # c[i].x
  <2>1. CASE i \in 1..n
    <3>1. c[i] = a[i] /\ i \in 1..Len(a) /\ \A j \in 1..i - 1 : c[j] = a[j]
      BY <1>2, <1>3, <2>1
    <3> QED BY <3>1 DEF WritesRows
  <2>2. ASSUME NEW m \in 1..Len(b), i = n + m
        PROVE  /\ c[i].s \in RowNames =>
                    \E k \in DOMAIN f : c[i].x = f[k].id /\ (c[i].s \in ValueNames => c[i].v = f[k].val)
               /\ c[i].s = "erase_row" =>
                    \A j \in 1..i - 1 : c[j].s \in {"log_insert", "erase_row"} => c[j].x # c[i].x
    <3>1. c[i] = b[m]
      BY <1>2, <2>2
    <3>2. c[i].s \in RowNames =>
            \E k \in DOMAIN f : c[i].x = f[k].id /\ (c[i].s \in ValueNames => c[i].v = f[k].val)
      BY <3>1 DEF WritesRows
    <3>3. ASSUME c[i].s = "erase_row", NEW j \in 1..i - 1, c[j].s \in {"log_insert", "erase_row"}
          PROVE  c[j].x # c[i].x
      <4>1. CASE j \in 1..n
        BY <1>2, <1>3, <3>1, <3>3, <4>1
      <4>2. CASE j \notin 1..n
        <5>1. j - n \in 1..m - 1 /\ j - n \in 1..Len(b) /\ n + (j - n) = j
          BY <1>2, <2>2, <4>2
        <5>2. c[j] = b[j - n]
          BY <1>2, <5>1
        <5> QED BY <3>1, <3>3, <5>1, <5>2 DEF WritesRows
      <4> QED BY <4>1, <4>2
    <3> QED BY <3>2, <3>3
  <2> QED BY <1>2, <2>1, <2>2
<1>5. WritesRows(c, f)
  BY <1>2, <1>4 DEF WritesRows
<1> QED BY <1>5 DEF c

\* More rows.
LEMMA WritesWider ==
    ASSUME NEW f, NEW t, NEW k \in DOMAIN f, WritesRows(t, Only(f, k))
    PROVE  /\ WritesRows(t, f)
           /\ \A i \in 1..Len(t) : t[i].s \in RowNames => t[i].x = f[k].id
<1> DEFINE g == Only(f, k)
<1>1. DOMAIN g = {k} /\ g[k] = f[k]
  BY DEF Only
<1> HIDE DEF g
<1>2. WritesRows(t, g)
  BY DEF g
<1> QED BY <1>1, <1>2 DEF WritesRows

LEMMA InsertWrites ==
    ASSUME NEW row \in Row, NEW sync_now \in BOOLEAN, NEW f, NEW k \in DOMAIN f, f[k] = row
    PROVE  WritesRows(InsertSteps(row, sync_now), f)
<1> DEFINE t == InsertSteps(row, sync_now)
           x == row.id
           v == row.val
<1>1. /\ t \in Seq(StepType) /\ Len(t) \in Nat
      /\ \A i \in 1..Len(t) : \/ t[i].s \in {"touch_last", "sync"}
                              \/ t[i].s \in {"append_row", "log_insert", "index_row"} /\ t[i].x = x /\ t[i].v = v
  <2>1. CASE sync_now
    <3>1. /\ t \in Seq(StepType) /\ Len(t) = 5
          /\ t[1].s = "touch_last"
          /\ t[2] = Step("append_row", x, v) /\ t[3] = Step("log_insert", x, v)
          /\ t[4].s = "sync" /\ t[5] = Step("index_row", x, v)
      BY <2>1, InsertElems
    <3> HIDE DEF t, x, v
    <3>2. \A i \in 1..Len(t) : i = 1 \/ i = 2 \/ i = 3 \/ i = 4 \/ i = 5
      BY <3>1
    <3> QED BY <3>1, <3>2 DEF Step
  <2>2. CASE ~sync_now
    <3>1. /\ t \in Seq(StepType) /\ Len(t) = 4
          /\ t[1].s = "touch_last"
          /\ t[2] = Step("append_row", x, v) /\ t[3] = Step("log_insert", x, v)
          /\ t[4] = Step("index_row", x, v)
      BY <2>2, InsertElems
    <3> HIDE DEF t, x, v
    <3>2. \A i \in 1..Len(t) : i = 1 \/ i = 2 \/ i = 3 \/ i = 4
      BY <3>1
    <3> QED BY <3>1, <3>2 DEF Step
  <2> QED BY <2>1, <2>2
<1>2. f[k].id = x /\ f[k].val = v
  OBVIOUS
<1> HIDE DEF t, x, v
<1>3. WritesRows(t, f)
  BY <1>1, <1>2 DEF WritesRows, RowNames
<1> QED BY <1>3 DEF t

LEMMA EraseWrites ==
    ASSUME NEW row, row.id \in Ids, NEW f, NEW k \in DOMAIN f, f[k].id = row.id
    PROVE  WritesRows(EraseSteps(row), f)
<1> DEFINE t == EraseSteps(row)
           x == row.id
<1>1. /\ t \in Seq(StepType) /\ Len(t) = 2
      /\ t[1] = Step("touch_row", x, NoVal) /\ t[2] = Step("erase_row", x, NoVal)
  BY DEF EraseSteps, Step, StepType, StepNames
<1> HIDE DEF t
<1>2. t[1].s = "touch_row" /\ t[1].x = x /\ t[2].s = "erase_row" /\ t[2].x = x
  BY <1>1 DEF Step
<1>3. \A i \in 1..Len(t) : i = 1 \/ i = 2
  BY <1>1
<1>4. \A j \in 1..2 - 1 : j = 1
  OBVIOUS
<1> HIDE DEF x
<1>5. ASSUME NEW i \in 1..Len(t)
      PROVE  /\ t[i].s \in RowNames =>
                  \E m \in DOMAIN f : t[i].x = f[m].id /\ (t[i].s \in ValueNames => t[i].v = f[m].val)
             /\ t[i].s = "erase_row" =>
                  \A j \in 1..i - 1 : t[j].s \in {"log_insert", "erase_row"} => t[j].x # t[i].x
  <2>1. t[i].x = f[k].id /\ t[i].s \notin ValueNames
    BY <1>2, <1>3 DEF x, ValueNames
  <2>2. t[i].s = "erase_row" => i = 2
    BY <1>2, <1>3
  <2> QED BY <1>2, <1>4, <2>1, <2>2
<1>6. WritesRows(t, f)
  BY <1>1, <1>5 DEF WritesRows
<1> QED BY <1>6 DEF t

LEMMA UpdateWrites ==
    ASSUME NEW row \in Row, NEW f, NEW k \in DOMAIN f, f[k] = row
    PROVE  WritesRows(EraseSteps(row) \o InsertSteps(row, FALSE), f)
<1> DEFINE a == EraseSteps(row)
           b == InsertSteps(row, FALSE)
<1>1. WritesRows(a, f) /\ WritesRows(b, f)
  <2>1. row.id \in Ids
    BY DEF Row
  <2> QED BY <2>1, EraseWrites, InsertWrites
<1>2. Names(b) \subseteq {"touch_last", "append_row", "log_insert", "sync", "index_row"}
  BY InsertBlock
<1> HIDE DEF a, b
<1>3. \A m \in 1..Len(b) : b[m].s # "erase_row"
  BY <1>2 DEF Names
<1>4. WritesRows(a \o b, f)
  BY <1>1, <1>3, WritesConcat
<1> QED BY <1>4 DEF a, b

\* The last step of a plan syncs the log.
LEMMA SyncLast ==
    ASSUME NEW u \in Seq(StepType)
    PROVE  SyncAhead(u \o <<Do("sync")>>)
<1> DEFINE w == <<Do("sync")>>
           t == u \o w
<1>1. w \in Seq(StepType) /\ Len(w) = 1 /\ w[1].s = "sync"
  BY DEF Do, Step, StepType, StepNames
<1> HIDE DEF w
<1>2. /\ Len(t) = Len(u) + 1 /\ Len(u) \in Nat /\ t[Len(u) + 1] = w[1]
  <2>1. /\ Len(t) = Len(u) + Len(w) /\ Len(u) \in Nat
        /\ \A i \in 1..Len(w) : t[Len(u) + i] = w[i]
    BY <1>1, ConcatNames
  <2> HIDE DEF t
  <2>2. 1 \in 1..Len(w)
    BY <1>1
  <2> QED BY <1>1, <2>1, <2>2
<1> HIDE DEF t
<1>3. \A i \in 1..Len(t) : Len(t) \in i..Len(t)
  BY <1>2
<1>4. SyncAhead(t)
  BY <1>1, <1>2, <1>3 DEF SyncAhead
<1> QED BY <1>4 DEF t, w

\* The plans of the rows of a call, which are distinct, and the sync behind them.
LEMMA FlattenWrites ==
    ASSUME NEW n \in {1, 2}, NEW s, Len(s) = n, NEW f, DOMAIN f = 1..n,
           n = 2 => f[1].id # f[2].id,
           \A i \in 1..n : WritesRows(s[i], Only(f, i))
    PROVE  LET t == FlattenSeq(s) \o <<Do("sync")>>
           IN  WritesRows(t, f) /\ SyncAhead(t)
<1> DEFINE u == FlattenSeq(s)
           w == <<Do("sync")>>
<1>1. u = IF n = 1 THEN s[1] ELSE s[1] \o s[2]
  BY FlattenFacts
<1>2. WritesRows(w, f) /\ \A m \in 1..Len(w) : w[m].s # "erase_row"
  <2>1. w \in Seq(StepType) /\ Len(w) = 1 /\ w[1].s = "sync"
    BY DEF Do, Step, StepType, StepNames
  <2> HIDE DEF w
  <2>2. \A i \in 1..Len(w) : w[i].s \notin RowNames /\ w[i].s # "erase_row"
    <3>1. \A i \in 1..Len(w) : i = 1
      BY <2>1
    <3> QED BY <2>1, <3>1 DEF RowNames
  <2> QED BY <2>1, <2>2 DEF WritesRows
<1> HIDE DEF u, w
<1>3. \A i \in 1..n : /\ WritesRows(s[i], f)
                      /\ \A j \in 1..Len(s[i]) : s[i][j].s \in RowNames => s[i][j].x = f[i].id
  <2> SUFFICES ASSUME NEW i \in 1..n
               PROVE  /\ WritesRows(s[i], f)
                      /\ \A j \in 1..Len(s[i]) : s[i][j].s \in RowNames => s[i][j].x = f[i].id
    OBVIOUS
  <2>1. i \in DOMAIN f /\ WritesRows(s[i], Only(f, i))
    OBVIOUS
  <2> QED BY <2>1, WritesWider
<1>4. WritesRows(u, f)
  <2>1. CASE n = 1
    BY <1>1, <1>3, <2>1
  <2>2. CASE n = 2
    <3> DEFINE a == s[1]
               b == s[2]
    <3>1. /\ WritesRows(a, f) /\ WritesRows(b, f) /\ u = a \o b
          /\ \A j \in 1..Len(a) : a[j].s \in RowNames => a[j].x = f[1].id
          /\ \A j \in 1..Len(b) : b[j].s \in RowNames => b[j].x = f[2].id
      BY <1>1, <1>3, <2>2
    <3> HIDE DEF a, b
    <3>2. \A i \in 1..Len(a), m \in 1..Len(b) :
             a[i].s \in {"log_insert", "erase_row"} /\ b[m].s = "erase_row" => a[i].x # b[m].x
      BY <2>2, <3>1 DEF RowNames
    <3> QED BY <3>1, <3>2, WritesConcat
  <2> QED BY <2>1, <2>2
<1>5. WritesRows(u \o w, f)
  BY <1>2, <1>4, WritesConcat
<1>6. u \in Seq(StepType)
  BY <1>4 DEF WritesRows
<1>7. SyncAhead(u \o w)
  BY <1>6, SyncLast DEF w
<1> QED BY <1>5, <1>7 DEF u, w

\* The plan of a call writes the rows of the call and syncs the log.
LEMMA CallWrites ==
    ASSUME NEW c \in Calls, CallOK(c)
    PROVE  WritesRows(StepsOf(c), c.rows) /\ SyncAhead(StepsOf(c))
<1> DEFINE f == c.rows
<1>1. PICK n \in {1, 2} :
        /\ DOMAIN f = 1..n
        /\ c.k \in {"insert", "erase", "update"} => n = 1
        /\ \A i \in 1..n : /\ f[i].id \in Ids
                           /\ c.k \notin {"erase", "erase_batch"} => f[i] \in Row
  BY CallFacts
<1>2. n = 2 => f[1].id # f[2].id
  BY <1>1 DEF CallOK
<1> HIDE DEF f
<1>3. \A i \in 1..n : i \in DOMAIN Only(f, i) /\ Only(f, i)[i] = f[i]
  BY DEF Only
<1>4. CASE c.k = "insert"
  <2> DEFINE t == InsertSteps(f[1], TRUE)
  <2>1. StepsOf(c) = t
    BY <1>4 DEF StepsOf, f
  <2>2. f[1] \in Row /\ 1 \in DOMAIN f
    BY <1>1, <1>4
  <2>3. WritesRows(t, f)
    BY <2>2, InsertWrites
  <2>4. /\ Len(t) = 5 /\ t[1].s = "touch_last"
        /\ t[2] = Step("append_row", f[1].id, f[1].val) /\ t[3] = Step("log_insert", f[1].id, f[1].val)
        /\ t[4].s = "sync" /\ t[5] = Step("index_row", f[1].id, f[1].val)
    BY <2>2, InsertElems
  <2> HIDE DEF t
  <2>5. SyncAhead(t)
    <3> SUFFICES ASSUME NEW i \in 1..Len(t), t[i].s \in {"log_insert", "erase_row"}
                 PROVE  \E j \in i..Len(t) : t[j].s = "sync"
      BY DEF SyncAhead
    <3>1. i = 1 \/ i = 2 \/ i = 3 \/ i = 4 \/ i = 5
      BY <2>4
    <3>2. i = 3
      BY <2>4, <3>1 DEF Step
    <3>3. 4 \in i..Len(t)
      BY <2>4, <3>2
    <3> QED BY <2>4, <3>3
  <2> QED BY <2>1, <2>3, <2>5 DEF f
<1>5. CASE c.k = "insert_batch"
  <2> DEFINE s == [i \in 1..n |-> InsertSteps(f[i], FALSE)]
  <2>1. StepsOf(c) = FlattenSeq(s) \o <<Do("sync")>>
    BY <1>1, <1>5 DEF StepsOf, f
  <2>2. Len(s) = n
    OBVIOUS
  <2>3. ASSUME NEW i \in 1..n PROVE WritesRows(s[i], Only(f, i))
    <3>1. s[i] = InsertSteps(f[i], FALSE) /\ f[i] \in Row
      BY <1>1, <1>5
    <3> HIDE DEF s
    <3> QED BY <1>3, <3>1, InsertWrites
  <2> HIDE DEF s
  <2> QED BY <1>1, <1>2, <2>1, <2>2, <2>3, FlattenWrites DEF f
<1>6. CASE c.k \in {"erase", "erase_batch"}
  <2> DEFINE s == [i \in 1..n |-> EraseSteps(f[i])]
  <2>1. StepsOf(c) = FlattenSeq(s) \o <<Do("sync")>>
    BY <1>1, <1>6 DEF StepsOf, f
  <2>2. Len(s) = n
    OBVIOUS
  <2>3. ASSUME NEW i \in 1..n PROVE WritesRows(s[i], Only(f, i))
    <3>1. s[i] = EraseSteps(f[i]) /\ f[i].id \in Ids
      BY <1>1, <1>6
    <3> HIDE DEF s
    <3> QED BY <1>3, <3>1, EraseWrites
  <2> HIDE DEF s
  <2> QED BY <1>1, <1>2, <2>1, <2>2, <2>3, FlattenWrites DEF f
<1>7. CASE c.k \in {"update", "update_batch"}
  <2> DEFINE s == [i \in 1..n |-> EraseSteps(f[i]) \o InsertSteps(f[i], FALSE)]
  <2>1. StepsOf(c) = FlattenSeq(s) \o <<Do("sync")>>
    BY <1>1, <1>7 DEF StepsOf, f
  <2>2. Len(s) = n
    OBVIOUS
  <2>3. ASSUME NEW i \in 1..n PROVE WritesRows(s[i], Only(f, i))
    <3>1. s[i] = EraseSteps(f[i]) \o InsertSteps(f[i], FALSE) /\ f[i] \in Row
      BY <1>1, <1>7
    <3> HIDE DEF s
    <3> QED BY <1>3, <3>1, UpdateWrites
  <2> HIDE DEF s
  <2> QED BY <1>1, <1>2, <2>1, <2>2, <2>3, FlattenWrites DEF f
<1> QED BY <1>4, <1>5, <1>6, <1>7, CallFacts DEF Kinds

\* A new plan, between calls, while nothing else changes.
LEMMA PlanDurable ==
    ASSUME DurableInv, ScanInv', Idle, SyncAhead(todo'), \A id \in Ids : ~Logged(todo', id),
           UNCHANGED <<disk, offs, lru, cached, count, walFile, walBuf, next, index, mode>>
    PROVE  DurableInv'
<1>1. ScanInv /\ LogAgrees /\ DiskAgrees /\ Buffered /\ todo = <<>>
  BY DEF DurableInv, Idle
<1>2. Pager' = Pager /\ LogOf' = LogOf
  BY DEF Pager, LogOf
<1>3. Len(todo) = 0 /\ 1..Len(todo) = {}
  BY <1>1
<1>4. ~Pending(todo)
  BY <1>3 DEF Pending
<1>5. RowsStay /\ PagesWritten
  BY <1>2 DEF RowsStay, PagesWritten
<1>6. LogAgrees' /\ DiskAgrees'
  BY <1>1, <1>2, <1>4, <1>5, QuietAgrees
<1>7. Buffered'
  BY <1>1, <1>3 DEF Buffered
<1> QED BY <1>6, <1>7 DEF DurableInv

LEMMA UpkeepDurable ==
    ASSUME DurableInv, ScanInv', UpkeepStep
    PROVE  DurableInv'
<1> USE DEF UpkeepStep
<1>1. \A i \in 1..Len(todo') : todo'[i].s \notin {"log_insert", "erase_row", "index_row", "sync"}
  BY DEF UpkeepNames
<1>2. SyncAhead(todo')
  BY <1>1 DEF SyncAhead
<1>3. todo' \in Seq(StepType)
  BY DEF ScanInv, EngineInv, StepsOK
<1>4. (Len(todo') > 0 => 1 \in 1..Len(todo')) /\ (Len(todo') > 1 => 1 \in 1..Len(todo'))
  BY <1>3
<1>5. \A id \in Ids : ~Logged(todo', id)
  BY <1>1, <1>4 DEF Logged
<1> QED BY <1>2, <1>5, PlanDurable

LEMMA BeginDurable == ASSUME NEW c \in Calls PROVE DurableInv /\ Begin(c) => DurableInv'
<1> SUFFICES ASSUME DurableInv, Begin(c) PROVE DurableInv'
  OBVIOUS
<1>1. ScanInv'
  BY BeginScan DEF DurableInv
<1>2. /\ CallOK(c) /\ Idle
      /\ UNCHANGED <<disk, offs, lru, cached, count, walFile, walBuf, next, index, mode>>
  BY DEF Begin, files
<1>3. todo' = StepsOf(c)
  BY DEF Begin
<1>4. Block(todo') /\ SyncAhead(todo')
  BY <1>2, <1>3, CallBlock, CallWrites
<1>5. \A id \in Ids : ~Logged(todo', id)
  BY <1>4 DEF Block, FollowNames, Logged
<1> QED BY <1>1, <1>2, <1>4, <1>5, PlanDurable

LEMMA CreateIndexDurable == DurableInv /\ CreateIndex => DurableInv'
BY CreateIndexScan, CreateIndexUpkeep, UpkeepDurable DEF DurableInv, ScanInv

LEMMA DropIndexUpkeep == EngineInv /\ DropIndex => UpkeepStep
<1> SUFFICES ASSUME EngineInv, DropIndex PROVE UpkeepStep
  OBVIOUS
<1>1. /\ Idle /\ todo' = <<>>
      /\ UNCHANGED <<disk, offs, lru, cached, count, walFile, walBuf, next, index, open, mode>>
  BY DEF DropIndex, files, Idle
<1>2. 1..Len(todo') = {} /\ 2..Len(todo') = {}
  BY <1>1
<1>3. PlanShape(todo') /\ Fresh'
  BY <1>2, UpkeepPlan
<1> QED BY <1>1, <1>2, <1>3 DEF UpkeepStep

LEMMA DropIndexDurable == DurableInv /\ DropIndex => DurableInv'
BY DropIndexScan, DropIndexUpkeep, UpkeepDurable DEF DurableInv, ScanInv

LEMMA CheckpointDurable == DurableInv /\ Checkpoint => DurableInv'
BY CheckpointScan, CheckpointUpkeep, UpkeepDurable DEF DurableInv, ScanInv

LEMMA CloseDurable == DurableInv /\ Close => DurableInv'
BY CloseScan, CloseUpkeep, UpkeepDurable DEF DurableInv, ScanInv


\* The index on the values is not in the files.

LEMMA SetIndexQuiet == ScanInv /\ SetIndex => MovesPages
<1> SUFFICES ASSUME ScanInv, SetIndex PROVE MovesPages
  OBVIOUS
<1>1. ScanInv /\ EngineInv
  BY DEF ScanInv
<1>2. /\ todo # <<>> /\ todo[1].s = "set_index" /\ Done
      /\ UNCHANGED <<disk, offs, lru, cached, count, walFile, walBuf, next, index, mode>>
  BY <1>1, StepFacts DEF SetIndex, IsNext, files
<1>3. Pager' = Pager
  BY <1>2 DEF Pager
<1>4. RowsStay /\ PagesWritten
  BY <1>2, <1>3 DEF RowsStay, PagesWritten
<1>5. open' \/ todo' # <<>>
  BY <1>1, <1>2, StillOpen DEF SetIndex
<1> QED BY <1>1, <1>2, <1>4, <1>5 DEF MovesPages

LEMMA SetIndexDurable == DurableInv /\ SetIndex => DurableInv'
BY SetIndexScan, SetIndexQuiet, QuietDurable DEF DurableInv

LEMMA OpenedQuiet == ScanInv /\ Opened => MovesPages
<1> SUFFICES ASSUME ScanInv, Opened PROVE MovesPages
  OBVIOUS
<1>1. ScanInv /\ EngineInv
  BY DEF ScanInv
<1>2. /\ todo # <<>> /\ todo[1].s = "opened" /\ Done
      /\ UNCHANGED <<disk, offs, lru, cached, count, walFile, walBuf, next, index, mode>>
  BY <1>1, StepFacts DEF Opened, IsNext, files
<1>3. Pager' = Pager
  BY <1>2 DEF Pager
<1>4. RowsStay /\ PagesWritten
  BY <1>2, <1>3 DEF RowsStay, PagesWritten
<1>5. open' \/ todo' # <<>>
  BY DEF Opened
<1> QED BY <1>1, <1>2, <1>4, <1>5 DEF MovesPages

LEMMA OpenedDurable == DurableInv /\ Opened => DurableInv'
BY OpenedScan, OpenedQuiet, QuietDurable DEF DurableInv

LEMMA CloseFilesDurable == DurableInv /\ CloseFiles => DurableInv'
<1> SUFFICES ASSUME DurableInv, CloseFiles PROVE DurableInv'
  OBVIOUS
<1>1. ScanInv' /\ EngineInv
  BY CloseFilesScan DEF DurableInv, ScanInv
<1>2. todo # <<>> /\ todo[1].s = "close_files" /\ Done /\ Forget
  BY <1>1, StepFacts DEF CloseFiles, IsNext
<1>3. todo' = <<>>
  BY <1>1, <1>2, LastStep
<1>4. walBuf' = <<>> /\ ~open'
  BY <1>2 DEF Forget
<1>5. 1..Len(todo') = {}
  BY <1>3
<1> QED BY <1>1, <1>3, <1>4, <1>5 DEF DurableInv, SyncAhead, Buffered

\* After close() there is nothing to replay.
LEMMA NoRecords ==
    ASSUME ScanInv, ~open, todo = <<>>
    PROVE  LET t == ReplaySteps \o <<Do("opened")>> IN Len(t) = 1 /\ t[1].s = "opened"
<1>1. walFile = <<>>
  BY DEF ScanInv, CloseReady
<1>2. ReplaySteps = <<>>
  <2>1. DOMAIN walFile = {}
    BY <1>1
  <2>2. DOMAIN ReplaySteps = {} /\ ReplaySteps = [i \in {} |-> ReplaySteps[i]]
    BY <2>1 DEF ReplaySteps
  <2> QED BY <2>2
<1> DEFINE d == Do("opened")
<1>3. d.s = "opened" /\ ReplaySteps \o <<d>> = <<>> \o <<d>>
  BY <1>2 DEF Do, Step
<1> HIDE DEF d
<1>4. <<>> \o <<d>> = <<d>>
  OBVIOUS
<1> QED BY <1>3, <1>4 DEF d

LEMMA RecoverDurable == DurableInv /\ Recover => DurableInv'
<1> SUFFICES ASSUME DurableInv, Recover PROVE DurableInv'
  OBVIOUS
<1>1. ScanInv /\ ScanInv' /\ EngineInv
  BY RecoverScan DEF DurableInv, ScanInv
<1>2. /\ ~open /\ todo = <<>>
      /\ next' = IF ValidPages = {} THEN 0 ELSE Max(ValidPages) + 1
      /\ todo' = ReplaySteps \o <<Do("opened")>>
      /\ UNCHANGED <<count, walFile, walBuf, cached>>
  BY DEF Recover, files
<1>3. walFile = <<>> /\ walBuf = <<>> /\ cached = <<>>
  BY <1>1, <1>2 DEF ScanInv, CloseReady, EngineInv, OpenReady
<1>4. Flushed'
  <2>1. next' = count
    BY <1>1, <1>2, RecoverFacts
  <2>2. DOMAIN cached' = {}
    BY <1>2, <1>3
  <2> QED BY <1>2, <2>1, <2>2 DEF Flushed, Dirty
<1>5. Len(todo') = 1 /\ todo'[1].s = "opened"
  BY <1>1, <1>2, NoRecords
<1>6. ~Pending(todo') /\ \A id \in Ids : ~Logged(todo', id)
  BY <1>5 DEF Pending, Logged
<1>7. FileIsRows'
  <2>1. (ScanInv /\ ~Pending(todo) /\ Flushed)'
    BY <1>1, <1>4, <1>6
  <2> QED BY <2>1, FlushedFile, PTL
<1>8. LogOf' = <<>>
  BY <1>2, <1>3 DEF LogOf
<1>9. LogAgrees' /\ DiskAgrees'
  <2>1. (FileIsRows /\ LogOf = <<>> /\ (\A id \in Ids : ~Logged(todo, id)))'
    BY <1>6, <1>7, <1>8
  <2> QED BY <2>1, EmptyLog, PTL
<1>10. SyncAhead(todo') /\ Buffered'
  <2>1. \A i \in 1..Len(todo') : i = 1
    BY <1>5
  <2>2. walBuf' = <<>>
    BY <1>2, <1>3
  <2>3. Buffered'
    BY <2>2 DEF Buffered
  <2> QED BY <1>5, <2>1, <2>3 DEF SyncAhead
<1> QED BY <1>1, <1>9, <1>10 DEF DurableInv

LEMMA InitDurable == Init => DurableInv
<1> SUFFICES ASSUME Init PROVE DurableInv
  OBVIOUS
<1>1. ScanInv
  BY InitScan
<1>2. walBuf = <<>> /\ todo = <<>> /\ ~open
  BY DEF Init
<1>3. 1..Len(todo) = {}
  BY <1>2
<1> QED BY <1>1, <1>2, <1>3 DEF DurableInv, SyncAhead, Buffered

LEMMA StutterDurable == DurableInv /\ UNCHANGED vars => DurableInv'
<1> SUFFICES ASSUME DurableInv, UNCHANGED vars PROVE DurableInv'
  OBVIOUS
<1>1. ScanInv'
  BY StutterScan DEF DurableInv
<1>2. UNCHANGED <<count, disk, walFile, walBuf, cached, next, index, open, todo>> /\ Pager' = Pager
  BY DEF vars, Pager
<1>3. LogOf' = LogOf /\ \A id \in Ids : Value(id)' = Value(id) /\ (OnDisk(id)' <=> OnDisk(id))
  BY <1>2 DEF LogOf, Value, OnDisk
<1>4. (LogAgrees => LogAgrees') /\ (DiskAgrees => DiskAgrees')
  BY <1>2, <1>3 DEF LogAgrees, Agrees, DiskAgrees
<1>5. SyncAhead(todo)' /\ Buffered'
  BY <1>2 DEF DurableInv, SyncAhead, Buffered
<1> QED BY <1>1, <1>2, <1>4, <1>5 DEF DurableInv

LEMMA NextDurable == Undisturbed /\ DurableInv /\ [Next]_vars => DurableInv'
<1> SUFFICES ASSUME Undisturbed, DurableInv, [Next]_vars PROVE DurableInv'
  OBVIOUS
<1>0. ScanInv
  BY DEF DurableInv
<1>1. ASSUME NEW c \in Calls, Begin(c) PROVE DurableInv'
  BY <1>1, BeginDurable
<1>2. ASSUME NEW pid \in 0..MaxPages, Read(pid) PROVE DurableInv'
  <2>1. pid \in Nat
    OBVIOUS
  <2> QED BY <1>2, <2>1, ReadDurable
<1>3. CASE CallStep
  BY <1>3, TouchLastDurable, AppendRowDurable, LogInsertDurable, IndexRowDurable,
     TouchRowDurable, EraseRowDurable, SyncDurable DEF CallStep
<1>4. CASE MaintenanceStep
  BY <1>4, VisitPageDurable, SetIndexDurable, FlushPageDurable, WriteHeaderDurable,
     ClearWalDurable, CloseFilesDurable DEF MaintenanceStep
<1>5. CASE RecoveryStep
  BY <1>0, <1>5, NoReplay, OpenedDurable DEF RecoveryStep
<1>6. CASE CreateIndex \/ DropIndex \/ Checkpoint \/ Close \/ Recover
  BY <1>6, CreateIndexDurable, DropIndexDurable, CheckpointDurable, CloseDurable, RecoverDurable
<1>7. CASE LogFails \/ Crash
  <2>1. mode \in Modes
    BY <1>0, StepFacts DEF ScanInv
  <2>2. ~mode.crash /\ ~mode.fail
    BY <2>1 DEF Undisturbed
  <2> QED BY <1>7, <2>2 DEF LogFails, Crash
<1>8. CASE UNCHANGED vars
  BY <1>8, StutterDurable
<1> QED BY <1>1, <1>2, <1>3, <1>4, <1>5, <1>6, <1>7, <1>8 DEF Next

\* While the process lives and its log writes succeed, at every step of every call the
\* records since the last checkpoint and the rows on the pages in the file agree with
\* the rows in memory.
THEOREM DurableInvariant == Undisturbed => (Spec => []DurableInv)
<1> SUFFICES ASSUME Undisturbed PROVE Spec => []DurableInv
  OBVIOUS
<1>1. Init => DurableInv
  BY InitDurable
<1>2. DurableInv /\ [Next]_vars => DurableInv'
  BY NextDurable
<1> QED BY <1>1, <1>2, PTL DEF Spec

----------------------------------------------------------------------------
(* What a restart recovers *)

\* The row of the pages, unless the log deletes it, or the first record that stands.
FromLog(log, id) == IF Standing(log, id) = {} THEN NoVal ELSE log[Min(Standing(log, id))].val

\* The first copy of the row.
FirstCopy(q, k, id) ==
    /\ disk[q][k].id = id /\ k = find_row(disk[q], id)
    /\ \A p \in 0..count - 1 : \A m \in 1..Len(disk[p]) : disk[p][m].id = id => q <= p
FromPages(id) == disk[RecoveredEntry(id).page][RecoveredEntry(id).slot].val

LEMMA DurableIs ==
    ASSUME EngineInv, NEW id \in Ids
    PROVE  /\ Deleted(walFile, id) \/ ~OnDisk(id) => Durable[id] = FromLog(walFile, id)
           /\ ~Deleted(walFile, id) /\ OnDisk(id) => Durable[id] = FromPages(id)
           /\ ~Deleted(walFile, id) /\ OnDisk(id) =>
                \E q \in 0..count - 1 : \E k \in 1..Len(disk[q]) :
                    FirstCopy(q, k, id) /\ Durable[id] = disk[q][k].val
<1> DEFINE of(t) == {n \in DOMAIN walFile : walFile[n].t = t /\ walFile[n].id = id}
           ins == {n \in of("INSERT") : \A d \in of("DELETE") : d < n}
           e == RecoveredEntry(id)
<1>1. walFile \in Seq(LogRecord) /\ DOMAIN walFile = 1..Len(walFile)
  BY DEF EngineInv, Types
<1>2. of("DELETE") = {} <=> ~Deleted(walFile, id)
  BY <1>1 DEF Deleted, Says
<1>3. ins = Standing(walFile, id)
  BY <1>1 DEF Standing, Says
<1>4. Durable[id] = IF of("DELETE") = {} /\ e # NoEntry THEN disk[e.page][e.slot].val
                    ELSE IF ins = {} THEN NoVal ELSE walFile[Min(ins)].val
  BY DEF Durable
<1> HIDE DEF of, ins
<1>5. e # NoEntry => /\ e.page \in 0..count - 1 /\ e.slot \in 1..Len(disk[e.page])
                     /\ disk[e.page][e.slot].id = id
  BY RecoverFacts
<1>6. OnDisk(id) => e # NoEntry
  <2> SUFFICES ASSUME NEW q \in 0..count - 1, NEW k \in 1..Len(disk[q]), disk[q][k].id = id
               PROVE  e # NoEntry
    BY DEF OnDisk
  <2>1. disk[q] \in Seq(Row)
    BY FileRows
  <2>2. find_row(disk[q], id) # 0
    BY <2>1, FindFacts
  <2>3. q \in ValidPages
    BY RecoverFacts
  <2> DEFINE P == {pid \in ValidPages : find_row(disk[pid], id) # 0}
             E == [page |-> Min(P), slot |-> find_row(disk[Min(P)], id), off |-> TRUE]
  <2>4. P # {}
    BY <2>2, <2>3
  <2>5. e = E
    BY <2>4 DEF RecoveredEntry
  <2>6. E \in Entry
    <3>1. P \in SUBSET Nat /\ \A p \in P : p \in 0..count - 1
      BY RecoverFacts
    <3>2. Min(P) \in Nat /\ Min(P) \in 0..count - 1
      BY <2>4, <3>1, MinFacts
    <3>3. disk[Min(P)] \in Seq(Row) /\ Min(P) \in P
      BY <2>4, <3>1, <3>2, FileRows, MinFacts
    <3>4. find_row(disk[Min(P)], id) \in Nat \ {0}
      BY <3>3, FindFacts
    <3> HIDE DEF P
    <3> QED BY <3>2, <3>4 DEF Entry
  <2> QED BY <2>5, <2>6, NoEntryAssumption
<1>7. e # NoEntry => OnDisk(id)
  BY <1>5 DEF OnDisk
<1>8. ASSUME e # NoEntry, NEW p \in 0..count - 1, NEW m \in 1..Len(disk[p]), disk[p][m].id = id
      PROVE  e.page <= p
  <2> DEFINE P == {pid \in ValidPages : find_row(disk[pid], id) # 0}
  <2>1. P # {} => e.page = Min(P)
    BY DEF RecoveredEntry
  <2>2. disk[p] \in Seq(Row)
    BY FileRows
  <2>3. p \in P /\ P \in SUBSET Nat
    BY <1>8, <2>2, FindFacts, RecoverFacts
  <2> HIDE DEF P
  <2> QED BY <2>1, <2>3, MinFacts
<1>9. FromPages(id) = disk[e.page][e.slot].val
  BY DEF FromPages
<1>10. e # NoEntry => e.slot = find_row(disk[e.page], id)
  BY DEF RecoveredEntry
<1> HIDE DEF e
<1> QED BY <1>2, <1>3, <1>4, <1>5, <1>6, <1>7, <1>8, <1>9, <1>10 DEF FromLog, FirstCopy

\* Records that say nothing of a row.
LEMMA SilentTail ==
    ASSUME NEW log \in Seq(LogRecord), NEW b \in Seq(LogRecord), NEW id, Silent(b, id)
    PROVE  /\ Deleted(log \o b, id) <=> Deleted(log, id)
           /\ Standing(log \o b, id) = Standing(log, id)
           /\ \A n \in Standing(log, id) : (log \o b)[n] = log[n] /\ log[n].val \in Vals
<1> DEFINE all == log \o b
<1>1. /\ Len(all) = Len(log) + Len(b) /\ Len(log) \in Nat /\ Len(b) \in Nat
      /\ \A n \in 1..Len(log) : all[n] = log[n] /\ n \in 1..Len(all)
      /\ \A n \in 1..Len(all) : n \in 1..Len(log) \/ (n - Len(log) \in 1..Len(b) /\ all[n] = b[n - Len(log)])
  OBVIOUS
<1> HIDE DEF all
<1>2. \A n \in 1..Len(all) : all[n].id = id => n \in 1..Len(log)
  BY <1>1 DEF Silent
<1>3. Deleted(all, id) <=> Deleted(log, id)
  BY <1>1, <1>2 DEF Deleted, Says
<1>4. Standing(all, id) = Standing(log, id)
  BY <1>1, <1>2 DEF Standing, Says
<1>5. \A n \in Standing(log, id) : all[n] = log[n] /\ log[n].val \in Vals
  <2> SUFFICES ASSUME NEW n \in Standing(log, id) PROVE all[n] = log[n] /\ log[n].val \in Vals
    OBVIOUS
  <2>1. n \in 1..Len(log) /\ log[n] \in LogRecord /\ log[n].t = "INSERT"
    BY DEF Standing, Says
  <2> QED BY <1>1, <2>1 DEF LogRecord
<1> QED BY <1>3, <1>4, <1>5 DEF all

\* A row of which the log buffer says nothing: a restart recovers the value in memory.
LEMMA DurableValue ==
    ASSUME DurableInv, open \/ todo # <<>>, NEW id \in Ids, Silent(walBuf, id)
    PROVE  Durable[id] = Value(id)
<1>1. /\ EngineInv /\ LogAgrees /\ DiskAgrees
      /\ walFile \in Seq(LogRecord) /\ walBuf \in Seq(LogRecord)
  BY DEF DurableInv, ScanInv, EngineInv, Types
<1>2. /\ Deleted(LogOf, id) <=> Deleted(walFile, id)
      /\ Standing(LogOf, id) = Standing(walFile, id)
      /\ \A n \in Standing(walFile, id) : LogOf[n] = walFile[n] /\ walFile[n].val \in Vals
  BY <1>1, SilentTail DEF LogOf
<1>3. Agrees(LogOf, id, Value(id), OnDisk(id))
  BY <1>1 DEF LogAgrees
<1>4. CASE Deleted(walFile, id) \/ ~OnDisk(id)
  <2>1. Durable[id] = FromLog(walFile, id)
    BY <1>1, <1>4, DurableIs
  <2>2. CASE Standing(walFile, id) = {}
    BY <1>2, <1>3, <1>4, <2>1, <2>2 DEF FromLog, Agrees
  <2>3. CASE Standing(walFile, id) # {}
    <3>1. Standing(walFile, id) \in SUBSET Nat
      BY DEF Standing
    <3>2. Min(Standing(walFile, id)) \in Standing(walFile, id)
      BY <2>3, <3>1, MinFacts
    <3> QED BY <1>2, <1>3, <2>1, <2>3, <3>2 DEF FromLog, Agrees
  <2> QED BY <2>2, <2>3
<1>5. CASE ~Deleted(walFile, id) /\ OnDisk(id)
  <2>1. \E q \in 0..count - 1 : \E k \in 1..Len(disk[q]) :
           disk[q][k].id = id /\ Durable[id] = disk[q][k].val
    BY <1>1, <1>5, DurableIs DEF FirstCopy
  <2>2. index[id] # NoEntry /\ RowAt(Pager, index[id]).val = Durable[id]
    BY <1>1, <1>2, <1>5, <2>1 DEF DiskAgrees
  <2> QED BY <2>2 DEF Value
<1> QED BY <1>4, <1>5

\* GetMatchesDurable.
LEMMA GetDurable == DurableInv => GetMatchesDurable
<1> SUFFICES ASSUME DurableInv, Idle, NEW id \in Ids
             PROVE  IF Durable[id] = NoVal THEN index[id] = NoEntry
                    ELSE index[id] # NoEntry /\ get(id) = [id |-> id, val |-> Durable[id]]
  BY DEF GetMatchesDurable
<1>1. ScanInv /\ open /\ todo = <<>>
  BY DEF DurableInv, Idle
<1>2. Len(todo) = 0 /\ 1..Len(todo) = {}
  BY <1>1
<1>3. walBuf = <<>> /\ ~Logged(todo, id)
  BY <1>2 DEF DurableInv, Buffered, Logged
<1>4. Silent(walBuf, id)
  BY <1>3 DEF Silent
<1>5. Durable[id] = Value(id)
  BY <1>1, <1>3, <1>4, DurableValue
<1>6. CASE index[id] = NoEntry
  BY <1>3, <1>5, <1>6 DEF Value
<1>7. CASE index[id] # NoEntry
  <2>1. get(id) \in Row /\ get(id).id = id /\ Durable[id] = get(id).val
    BY <1>1, <1>5, <1>7, GetFacts DEF Value
  <2>2. get(id) = [id |-> id, val |-> Durable[id]] /\ Durable[id] \in Vals
    BY <2>1 DEF Row
  <2> QED BY <1>7, <2>2, SentinelAssumption
<1> QED BY <1>6, <1>7

\* Between calls a lookup finds the row that a restart would recover, with its value, and
\* misses the ids that a restart would not find: XdlDB::get and XdlDB::recover agree
\* however the pages were evicted, the log buffer overflowed and the calls followed.
THEOREM EngineGetMatchesDurable == Undisturbed => (Spec => []GetMatchesDurable)
<1> SUFFICES ASSUME Undisturbed PROVE Spec => []GetMatchesDurable
  OBVIOUS
<1>1. Spec => []DurableInv
  BY DurableInvariant
<1> QED BY <1>1, GetDurable, PTL

----------------------------------------------------------------------------
(* What a step of a call changes for a restart *)

\* The call writes the row, and with the value v.
InCall(id) == call # NoCall /\ \E i \in DOMAIN call.rows : call.rows[i].id = id
OfCall(id, v) == call # NoCall /\ \E i \in DOMAIN call.rows : call.rows[i].id = id /\ call.rows[i].val = v

\* The rows of the call are those its steps write, the buffer holds its records, and a
\* row is erased before it is logged.
CallSteps ==
    \A i \in 1..Len(todo) :
        /\ todo[i].s \in RowNames => InCall(todo[i].x)
        /\ todo[i].s \in ValueNames => OfCall(todo[i].x, todo[i].v)
CallRecords ==
    \A n \in 1..Len(walBuf) :
        /\ InCall(walBuf[n].id)
        /\ walBuf[n].t = "INSERT" => OfCall(walBuf[n].id, walBuf[n].val)
EraseOnce ==
    \A i \in 1..Len(todo) : todo[i].s = "erase_row" =>
        /\ Silent(walBuf, todo[i].x)
        /\ \A j \in 1..i - 1 : todo[j].s \in {"log_insert", "erase_row"} => todo[j].x # todo[i].x

\* checkpoint() is not part of a call that writes.
Separate ==
    \A i, j \in 1..Len(todo) : todo[i].s = "sync" => todo[j].s \notin {"write_header", "clear_wal"}

\* A row whose DELETE record is still in the buffer: the files hold copies with the old
\* value, and copies with the new one on the page that the index leads to.
OldOrNew ==
    \A id \in Ids : Deleted(walBuf, id) /\ ~Deleted(walFile, id) =>
        \E v \in Vals :
            /\ \A n \in 1..Len(walFile) : Says(walFile, n, "INSERT", id) => walFile[n].val = v
            /\ \A q \in 0..count - 1 : \A k \in 1..Len(disk[q]) : disk[q][k].id = id =>
                 \/ disk[q][k].val = v
                 \/ index[id] # NoEntry /\ index[id].page = q /\ RowAt(Pager, index[id]).val = disk[q][k].val

ChangeInv == DurableInv /\ CallSteps /\ CallRecords /\ EraseOnce /\ Separate /\ OldOrNew

\* The value that a restart recovers changes only for a row of the call.
ChangesInCall ==
    \A id \in Ids : Durable'[id] # Durable[id] =>
        /\ call # NoCall
        /\ \E i \in DOMAIN call.rows :
              call.rows[i].id = id /\ Durable'[id] \in {NoVal, call.rows[i].val}

\* The files stay as they are.
LEMMA SameFiles ==
    ASSUME UNCHANGED <<count, disk, walFile>>
    PROVE  ChangesInCall
<1>1. Durable' = Durable
  BY DEF Durable, RecoveredEntry, ValidPages
<1> QED BY <1>1 DEF ChangesInCall

\* The buffer goes to the log file.
LEMMA GrownLog ==
    ASSUME EngineInv, EngineInv', CallRecords, walFile' = walFile \o walBuf, UNCHANGED <<count, disk>>
    PROVE  ChangesInCall
<1> SUFFICES ASSUME NEW id \in Ids, Durable'[id] # Durable[id]
             PROVE  InCall(id) /\ (Durable'[id] = NoVal \/ OfCall(id, Durable'[id]))
  BY DEF ChangesInCall, InCall, OfCall
<1> DEFINE all == walFile \o walBuf
           S == Standing(walFile, id)
           T == Standing(all, id)
<1>1. walFile \in Seq(LogRecord) /\ walBuf \in Seq(LogRecord) /\ walFile' = all
  BY DEF EngineInv, Types
<1>2. /\ Len(all) = Len(walFile) + Len(walBuf) /\ Len(walFile) \in Nat /\ Len(walBuf) \in Nat
      /\ \A n \in 1..Len(walFile) : all[n] = walFile[n] /\ n \in 1..Len(all)
      /\ \A n \in 1..Len(walBuf) : all[Len(walFile) + n] = walBuf[n] /\ Len(walFile) + n \in 1..Len(all)
      /\ \A n \in 1..Len(all) : n \in 1..Len(walFile) \/ (n - Len(walFile) \in 1..Len(walBuf) /\ all[n] = walBuf[n - Len(walFile)])
  BY <1>1
<1> HIDE DEF all
<1>3. OnDisk(id)' <=> OnDisk(id)
  BY DEF OnDisk
<1>4. /\ Deleted(walFile, id) \/ ~OnDisk(id) => Durable[id] = FromLog(walFile, id)
      /\ ~Deleted(walFile, id) /\ OnDisk(id) => Durable[id] = FromPages(id)
      /\ Deleted(all, id) \/ ~OnDisk(id) => Durable'[id] = FromLog(all, id)
      /\ ~Deleted(all, id) /\ OnDisk(id) => Durable'[id] = FromPages(id)
  <2>1. /\ Deleted(walFile, id) \/ ~OnDisk(id) => Durable[id] = FromLog(walFile, id)
        /\ ~Deleted(walFile, id) /\ OnDisk(id) => Durable[id] = FromPages(id)
    BY DurableIs
  <2>2. (/\ Deleted(walFile, id) \/ ~OnDisk(id) => Durable[id] = FromLog(walFile, id)
         /\ ~Deleted(walFile, id) /\ OnDisk(id) => Durable[id] = FromPages(id))'
    BY DurableIs, PTL
  <2>3. FromPages(id)' = FromPages(id)
    BY DEF FromPages, RecoveredEntry, ValidPages
  <2> QED BY <1>1, <1>3, <2>1, <2>2, <2>3
<1>5. ~Deleted(all, id) => ~Deleted(walFile, id)
  BY <1>2 DEF Deleted, Says
<1>6. ~Silent(walBuf, id)
  <2> SUFFICES ASSUME Silent(walBuf, id) PROVE FALSE
    OBVIOUS
  <2>1. /\ Deleted(all, id) <=> Deleted(walFile, id)
        /\ T = S /\ \A n \in S : all[n] = walFile[n]
    BY <1>1, SilentTail DEF all
  <2>2. S # {} => Min(S) \in S
    <3>1. S \in SUBSET Nat
      BY DEF Standing
    <3> QED BY <3>1, MinFacts
  <2>3. FromLog(all, id) = FromLog(walFile, id)
    BY <2>1, <2>2 DEF FromLog
  <2> QED BY <1>4, <2>1, <2>3
<1>7. InCall(id)
  BY <1>6 DEF Silent, CallRecords
<1>8. Durable'[id] = FromLog(all, id)
  BY <1>4, <1>5
<1>9. CASE T = {}
  BY <1>7, <1>8, <1>9 DEF FromLog
<1>10. CASE T # {}
  <2> DEFINE m == Min(T)
  <2>1. m \in T /\ \A n \in T : m <= n
    <3>1. T \in SUBSET Nat
      BY DEF Standing
    <3> QED BY <1>10, <3>1, MinFacts
  <2>2. Durable'[id] = all[m].val
    BY <1>8, <1>10 DEF FromLog
  <2> HIDE DEF m
  <2>3. m \in 1..Len(all) /\ Says(all, m, "INSERT", id) /\ \A d \in 1..Len(all) : Says(all, d, "DELETE", id) => d < m
    BY <2>1 DEF Standing
  <2>4. CASE m \notin 1..Len(walFile)
    <3>1. m - Len(walFile) \in 1..Len(walBuf) /\ all[m] = walBuf[m - Len(walFile)]
      BY <1>2, <2>3, <2>4
    <3>2. OfCall(id, all[m].val)
      BY <2>3, <3>1 DEF CallRecords, Says
    <3> QED BY <1>7, <2>2, <3>2
  <2>5. CASE m \in 1..Len(walFile)
    <3>1. \A d \in 1..Len(all) : Says(all, d, "DELETE", id) => d \in 1..Len(walFile)
      BY <1>2, <2>3, <2>5
    <3>2. Deleted(all, id) <=> Deleted(walFile, id)
      BY <1>2, <3>1 DEF Deleted, Says
    <3>3. m \in S
      BY <1>2, <2>3, <2>5 DEF Standing, Says
    <3>4. \A n \in S : n \in T
      BY <1>2, <3>1 DEF Standing, Says
    <3>5. Min(S) = m
      <4>1. S \in SUBSET Nat
        BY DEF Standing
      <4>2. Min(S) \in S /\ Min(S) <= m
        BY <3>3, <4>1, MinFacts
      <4>3. m <= Min(S) /\ Min(S) \in Nat /\ m \in Nat
        BY <2>1, <3>3, <3>4, <4>1, <4>2
      <4> QED BY <4>2, <4>3
    <3>6. FromLog(walFile, id) = all[m].val
      BY <1>2, <2>5, <3>3, <3>5 DEF FromLog
    <3>7. Durable[id] = Durable'[id]
      BY <1>4, <2>2, <3>2, <3>6
    <3> QED BY <3>7
  <2> QED BY <2>4, <2>5
<1> QED BY <1>9, <1>10

LEMMA DeletedConcat ==
    ASSUME NEW a \in Seq(LogRecord), NEW b \in Seq(LogRecord), NEW id
    PROVE  Deleted(a \o b, id) <=> Deleted(a, id) \/ Deleted(b, id)
<1> DEFINE c == a \o b
<1>1. /\ \A n \in 1..Len(a) : c[n] = a[n] /\ n \in 1..Len(c)
      /\ \A n \in 1..Len(b) : c[Len(a) + n] = b[n] /\ Len(a) + n \in 1..Len(c)
      /\ \A n \in 1..Len(c) : n \in 1..Len(a) \/ (n - Len(a) \in 1..Len(b) /\ c[n] = b[n - Len(a)])
  OBVIOUS
<1> HIDE DEF c
<1>2. Deleted(c, id) => Deleted(a, id) \/ Deleted(b, id)
  BY <1>1 DEF Deleted, Says
<1>3. Deleted(a, id) \/ Deleted(b, id) => Deleted(c, id)
  BY <1>1 DEF Deleted, Says
<1> QED BY <1>2, <1>3 DEF c

LEMMA FromLogIs ==
    ASSUME NEW log \in Seq(LogRecord), NEW id, NEW v,
           \A n \in 1..Len(log) : Says(log, n, "INSERT", id) => log[n].val = v
    PROVE  FromLog(log, id) \in {NoVal, v}
<1> DEFINE S == Standing(log, id)
<1>1. S \in SUBSET Nat /\ \A n \in S : n \in 1..Len(log) /\ Says(log, n, "INSERT", id)
  BY DEF Standing
<1>2. S # {} => Min(S) \in S
  BY <1>1, MinFacts
<1>3. FromLog(log, id) = IF S = {} THEN NoVal ELSE log[Min(S)].val
  BY DEF FromLog
<1> HIDE DEF S
<1> QED BY <1>1, <1>2, <1>3

\* A row of which the buffer has a record and the file no DELETE: the row has its value
\* from the call.
LEMMA NewValue ==
    ASSUME EngineInv, LogAgrees, CallRecords, NEW id \in Ids, ~Silent(walBuf, id), ~Deleted(walFile, id),
           index[id] # NoEntry, RowAt(Pager, index[id]).val \in Vals
    PROVE  OfCall(id, RowAt(Pager, index[id]).val)
<1> DEFINE w == RowAt(Pager, index[id]).val
           all == walFile \o walBuf
<1>1. walFile \in Seq(LogRecord) /\ walBuf \in Seq(LogRecord) /\ LogOf = all
  BY DEF EngineInv, Types, LogOf
<1>2. /\ Len(walFile) \in Nat /\ Len(walBuf) \in Nat /\ Len(all) = Len(walFile) + Len(walBuf)
      /\ \A n \in 1..Len(walFile) : all[n] = walFile[n] /\ n \in 1..Len(all)
      /\ \A n \in 1..Len(walBuf) : all[Len(walFile) + n] = walBuf[n] /\ Len(walFile) + n \in 1..Len(all)
      /\ \A n \in 1..Len(all) : n \in 1..Len(walFile) \/ (n - Len(walFile) \in 1..Len(walBuf) /\ all[n] = walBuf[n - Len(walFile)])
  BY <1>1
<1> HIDE DEF all
<1>3. Agrees(all, id, w, OnDisk(id)) /\ w # NoVal
  BY <1>1, SentinelAssumption DEF LogAgrees, Value
<1> HIDE DEF w
<1>4. PICK b \in 1..Len(walBuf) : walBuf[b].id = id
  BY DEF Silent
<1>5. walBuf[b] \in LogRecord
  BY <1>1
<1>6. walBuf[b].t = "INSERT" \/ walBuf[b].t = "DELETE"
  BY <1>5 DEF LogRecord, Record
<1>7. \E n \in Standing(all, id) : n \notin 1..Len(walFile)
  <2>1. CASE Deleted(all, id)
    <3>1. Standing(all, id) # {}
      BY <1>3, <2>1 DEF Agrees
    <3>2. PICK n \in Standing(all, id) : TRUE
      BY <3>1
    <3>3. PICK d \in 1..Len(all) : Says(all, d, "DELETE", id)
      BY <2>1 DEF Deleted
    <3>4. d \notin 1..Len(walFile)
      BY <1>2, <3>3 DEF Deleted, Says
    <3>5. d < n /\ n \in 1..Len(all)
      BY <3>3 DEF Standing
    <3> QED BY <1>2, <3>4, <3>5
  <2>2. CASE ~Deleted(all, id)
    <3>1. Len(walFile) + b \in 1..Len(all) /\ all[Len(walFile) + b] = walBuf[b] /\ Len(walFile) + b \notin 1..Len(walFile)
      BY <1>2
    <3>2. Says(all, Len(walFile) + b, "INSERT", id)
      BY <1>4, <1>6, <2>2, <3>1 DEF Deleted, Says
    <3>3. Len(walFile) + b \in Standing(all, id)
      BY <2>2, <3>1, <3>2 DEF Deleted, Standing
    <3> QED BY <3>1, <3>3
  <2> QED BY <2>1, <2>2
<1>8. PICK n \in Standing(all, id) : n \notin 1..Len(walFile)
  BY <1>7
<1>9. n \in 1..Len(all) /\ Says(all, n, "INSERT", id) /\ all[n].val = w
  BY <1>3 DEF Standing, Agrees
<1>10. n - Len(walFile) \in 1..Len(walBuf) /\ all[n] = walBuf[n - Len(walFile)]
  BY <1>2, <1>8, <1>9
<1>11. OfCall(id, w)
  BY <1>9, <1>10 DEF CallRecords, Says
<1> QED BY <1>11 DEF w

\* A copy of the row is on the page.
OnPage(q, id) == \E k \in 1..Len(disk[q]) : disk[q][k].id = id

\* Pages are written to their slots.
LEMMA WrittenPages ==
    ASSUME DurableInv, DurableInv', CallRecords, OldOrNew, open \/ todo # <<>>, open' \/ todo' # <<>>,
           ~Pending(todo), \A id \in Ids : ~Logged(todo', id),
           RowsStay, PagesWritten, UNCHANGED <<walFile, walBuf>>
    PROVE  ChangesInCall
<1> SUFFICES ASSUME NEW id \in Ids, Durable'[id] # Durable[id]
             PROVE  InCall(id) /\ (Durable'[id] = NoVal \/ OfCall(id, Durable'[id]))
  BY DEF ChangesInCall, InCall, OfCall
<1>1. /\ ScanInv /\ EngineInv /\ EngineInv' /\ LogAgrees /\ LogAgrees' /\ DiskAgrees /\ DiskAgrees'
      /\ walFile \in Seq(LogRecord) /\ walBuf \in Seq(LogRecord) /\ LogOf' = LogOf
  BY DEF DurableInv, ScanInv, EngineInv, Types, LogOf
<1>2. Value(id)' = Value(id)
  <2>1. ~Logged(todo, id) /\ ~Logged(todo', id)
    BY LoggedPending
  <2> QED BY <2>1 DEF Value, RowsStay
<1>3. ~Silent(walBuf, id)
  <2> SUFFICES ASSUME Silent(walBuf, id) PROVE FALSE
    OBVIOUS
  <2>1. Durable[id] = Value(id)
    BY DurableValue, LoggedPending
  <2>2. (DurableInv /\ (open \/ todo # <<>>) /\ Silent(walBuf, id) /\ ~Logged(todo, id))'
    BY DEF Silent
  <2>3. (Durable[id] = Value(id))'
    BY <2>2, DurableValue, PTL
  <2> QED BY <1>2, <2>1, <2>3
<1>4. InCall(id)
  BY <1>3 DEF Silent, CallRecords
<1>5. /\ Deleted(walFile, id) \/ ~OnDisk(id) => Durable[id] = FromLog(walFile, id)
      /\ Deleted(walFile, id) \/ ~OnDisk(id)' => Durable'[id] = FromLog(walFile, id)
  <2>1. (Deleted(walFile, id) \/ ~OnDisk(id) => Durable[id] = FromLog(walFile, id))'
    BY <1>1, DurableIs, PTL
  <2> QED BY <1>1, <2>1, DurableIs
<1>6. ~Deleted(walFile, id)
  BY <1>5
<1>7. OnDisk(id) => \E q \in 0..count - 1 : \E k \in 1..Len(disk[q]) :
                      FirstCopy(q, k, id) /\ Durable[id] = disk[q][k].val
  BY <1>1, <1>6, DurableIs
<1>8. OnDisk(id)' => \E q \in 0..count - 1 : \E k \in 1..Len(disk'[q]) :
                       FirstCopy(q, k, id)' /\ Durable'[id] = disk'[q][k].val
  <2>1. (~Deleted(walFile, id) /\ OnDisk(id) =>
           \E q \in 0..count - 1 : \E k \in 1..Len(disk[q]) :
              FirstCopy(q, k, id) /\ Durable[id] = disk[q][k].val)'
    BY <1>1, DurableIs, PTL
  <2> QED BY <1>6, <2>1 DEF PagesWritten
<1>9. index[id] # NoEntry => OfCall(id, RowAt(Pager, index[id]).val)
  <2> SUFFICES ASSUME index[id] # NoEntry PROVE OfCall(id, RowAt(Pager, index[id]).val)
    OBVIOUS
  <2>1. RowAt(Pager, index[id]) \in Row
    BY <1>1, GetFacts
  <2>2. RowAt(Pager, index[id]).val \in Vals
    BY <2>1 DEF Row
  <2> QED BY <1>1, <1>3, <1>6, <2>2, NewValue
\* A copy that was written is on the page of the row; a copy there is not lost.
<1>10. ASSUME NEW q \in 0..count - 1, NEW k \in 1..Len(disk'[q]), disk'[q][k].id = id, disk'[q] # disk[q]
       PROVE  index[id] # NoEntry /\ index[id].page = q /\ RowAt(Pager, index[id]).val = disk'[q][k].val
  <2>1. q \in 0..next - 1 /\ disk'[q] = RowsOf(Pager, q)
    BY <1>10 DEF PagesWritten
  <2> QED BY <1>1, <1>10, <2>1 DEF ScanInv, RowsIndexed, RowAt
<1>11. ASSUME NEW q \in 0..count - 1, OnPage(q, id), index[id] # NoEntry, index[id].page = q
       PROVE  OnPage(q, id)'
  <2>1. CASE disk'[q] = disk[q]
    BY <1>11, <2>1 DEF OnPage
  <2>2. CASE q \in 0..next - 1 /\ disk'[q] = RowsOf(Pager, q)
    BY <1>1, <1>11, <2>2 DEF ScanInv, EntriesExact, PlaceOf, RowAt, OnPage
  <2> QED BY <2>1, <2>2 DEF PagesWritten
<1>12. CASE ~Deleted(walBuf, id)
  <2>1. ~Deleted(LogOf, id)
    BY <1>1, <1>6, <1>12, DeletedConcat DEF LogOf
  <2>2. OnDisk(id)'
    <3> SUFFICES ASSUME ~OnDisk(id)' PROVE FALSE
      OBVIOUS
    <3>1. OnDisk(id)
      BY <1>5
    <3> QED BY <1>1, <2>1, <3>1, DiskWrites
  <2>3. PICK q \in 0..count - 1 : \E k \in 1..Len(disk'[q]) :
           disk'[q][k].id = id /\ Durable'[id] = disk'[q][k].val
    BY <1>8, <2>2 DEF FirstCopy
  <2>4. index'[id] # NoEntry /\ RowAt(Pager', index'[id]).val = Durable'[id]
    BY <1>1, <2>1, <2>3 DEF DiskAgrees, PagesWritten
  <2>5. index[id] # NoEntry /\ RowAt(Pager, index[id]).val = Durable'[id]
    BY <2>4 DEF RowsStay
  <2> QED BY <1>4, <1>9, <2>5
<1>13. CASE Deleted(walBuf, id)
  <2>1. PICK v \in Vals :
          /\ \A n \in 1..Len(walFile) : Says(walFile, n, "INSERT", id) => walFile[n].val = v
          /\ \A q \in 0..count - 1 : \A k \in 1..Len(disk[q]) : disk[q][k].id = id =>
               \/ disk[q][k].val = v
               \/ index[id] # NoEntry /\ index[id].page = q /\ RowAt(Pager, index[id]).val = disk[q][k].val
    BY <1>6, <1>13 DEF OldOrNew
  <2>2. CASE ~OnDisk(id)'
    <3>1. OnDisk(id)
      BY <1>5, <2>2
    <3>2. PICK q \in 0..count - 1 : \E k \in 1..Len(disk[q]) :
             disk[q][k].id = id /\ Durable[id] = disk[q][k].val
      BY <1>7, <3>1 DEF FirstCopy
    <3>3. OnPage(q, id) /\ ~OnPage(q, id)'
      BY <2>2, <3>2 DEF OnPage, OnDisk, PagesWritten
    <3>4. Durable[id] = v
      BY <1>11, <2>1, <3>2, <3>3
    <3>5. Durable'[id] = FromLog(walFile, id)
      BY <1>5, <2>2
    <3>6. FromLog(walFile, id) \in {NoVal, v}
      BY <1>1, <2>1, FromLogIs
    <3> QED BY <1>4, <3>4, <3>5, <3>6
  <2>3. CASE OnDisk(id)'
    <3>1. PICK q \in 0..count - 1 : \E k \in 1..Len(disk'[q]) :
             FirstCopy(q, k, id)' /\ Durable'[id] = disk'[q][k].val
      BY <1>8, <2>3
    <3>2. PICK k \in 1..Len(disk'[q]) : FirstCopy(q, k, id)' /\ Durable'[id] = disk'[q][k].val
      BY <3>1
    <3>3. disk'[q][k].id = id
      BY <3>2 DEF FirstCopy
    <3>4. CASE index[id] # NoEntry /\ index[id].page = q /\ RowAt(Pager, index[id]).val = disk'[q][k].val
      BY <1>4, <1>9, <3>2, <3>4
    <3>5. CASE ~(index[id] # NoEntry /\ index[id].page = q /\ RowAt(Pager, index[id]).val = disk'[q][k].val)
      <4>1. disk'[q] = disk[q]
        BY <1>10, <3>3, <3>5
      <4>2. Durable'[id] = v
        BY <2>1, <3>2, <3>3, <3>5, <4>1
      <4>3. OnDisk(id)
        BY <3>3, <4>1 DEF OnDisk
      <4>4. PICK p \in 0..count - 1 : \E m \in 1..Len(disk[p]) :
               FirstCopy(p, m, id) /\ Durable[id] = disk[p][m].val
        BY <1>7, <4>3
      <4>5. PICK m \in 1..Len(disk[p]) : FirstCopy(p, m, id) /\ Durable[id] = disk[p][m].val
        BY <4>4
      <4>6. p <= q
        BY <3>3, <4>1, <4>5 DEF FirstCopy
      <4>7. CASE p = q
        BY <3>2, <4>1, <4>5, <4>7 DEF FirstCopy
      <4>8. CASE p # q
        <5>1. OnPage(p, id) /\ index[id] # NoEntry /\ index[id].page = p
          BY <2>1, <4>2, <4>5 DEF OnPage, FirstCopy
        <5>2. OnPage(p, id)'
          BY <1>11, <5>1
        <5>3. q <= p
          BY <3>2, <5>2 DEF FirstCopy, OnPage, PagesWritten
        <5>4. p \in Int /\ q \in Int
          OBVIOUS
        <5> QED BY <4>6, <4>8, <5>3, <5>4
      <4> QED BY <4>7, <4>8
    <3> QED BY <3>4, <3>5
  <2> QED BY <2>2, <2>3
<1> QED BY <1>12, <1>13

\* A step that neither logs a row nor moves one keeps old and new apart.
LEMMA QuietOld ==
    ASSUME ScanInv, OldOrNew, ~Pending(todo), RowsStay, PagesWritten, UNCHANGED <<walFile, walBuf>>
    PROVE  OldOrNew'
<1> SUFFICES ASSUME NEW id \in Ids, Deleted(walBuf, id), ~Deleted(walFile, id)
             PROVE  \E v \in Vals :
                      /\ \A n \in 1..Len(walFile) : Says(walFile, n, "INSERT", id) => walFile[n].val = v
                      /\ \A q \in 0..count - 1 : \A k \in 1..Len(disk'[q]) : disk'[q][k].id = id =>
                           \/ disk'[q][k].val = v
                           \/ /\ index'[id] # NoEntry /\ index'[id].page = q
                              /\ RowAt(Pager', index'[id]).val = disk'[q][k].val
  BY DEF OldOrNew, PagesWritten
<1>1. PICK v \in Vals :
        /\ \A n \in 1..Len(walFile) : Says(walFile, n, "INSERT", id) => walFile[n].val = v
        /\ \A q \in 0..count - 1 : \A k \in 1..Len(disk[q]) : disk[q][k].id = id =>
             \/ disk[q][k].val = v
             \/ index[id] # NoEntry /\ index[id].page = q /\ RowAt(Pager, index[id]).val = disk[q][k].val
  BY DEF OldOrNew
<1>2. ASSUME NEW q \in 0..count - 1, NEW k \in 1..Len(disk'[q]), disk'[q][k].id = id
      PROVE  \/ disk'[q][k].val = v
             \/ /\ index'[id] # NoEntry /\ index'[id].page = q
                /\ RowAt(Pager', index'[id]).val = disk'[q][k].val
  <2>1. \/ disk'[q][k].val = v
        \/ index[id] # NoEntry /\ index[id].page = q /\ RowAt(Pager, index[id]).val = disk'[q][k].val
    <3>1. CASE disk'[q] = disk[q]
      BY <1>1, <1>2, <3>1
    <3>2. CASE q \in 0..next - 1 /\ disk'[q] = RowsOf(Pager, q)
      BY <1>2, <3>2 DEF ScanInv, RowsIndexed, RowAt
    <3> QED BY <3>1, <3>2 DEF PagesWritten
  <2> QED BY <2>1 DEF RowsStay
<1> QED BY <1>1, <1>2

\* The buffer deletes nothing.
LEMMA NothingOld ==
    ASSUME \A id \in Ids : ~Deleted(walBuf', id)
    PROVE  OldOrNew'
BY DEF OldOrNew

\* A record that the step adds to the buffer is one of the step's row.
StepRecords ==
    \A n \in 1..Len(walBuf') :
        \/ \E m \in 1..Len(walBuf) : walBuf'[n] = walBuf[m]
        \/ /\ todo[1].s \in {"log_insert", "erase_row"} /\ walBuf'[n].id = todo[1].x
           /\ walBuf'[n].t = "INSERT" => todo[1].s = "log_insert" /\ walBuf'[n].val = todo[1].v

\* The rest of a call is about the rows of the call.
LEMMA DoneChange ==
    ASSUME ScanInv, CallSteps, CallRecords, EraseOnce, Separate, todo # <<>>, Done, StepRecords, Buffered'
    PROVE  CallSteps' /\ CallRecords' /\ EraseOnce' /\ Separate'
<1>1. /\ Len(todo) \in Nat \ {0} /\ Len(todo') = Len(todo) - 1
      /\ \A i \in 1..Len(todo') : todo'[i] = todo[i + 1] /\ i + 1 \in 1..Len(todo)
  BY RestFacts
<1>2. 1 \in 1..Len(todo)
  BY <1>1
<1>3. Separate'
  BY <1>1 DEF Separate
<1>4. CASE Len(todo) = 1
  <2>1. 1..Len(todo') = {}
    BY <1>1, <1>4
  <2>2. walBuf' = <<>>
    BY <2>1 DEF Buffered
  <2>3. 1..Len(walBuf') = {}
    BY <2>2
  <2> QED BY <1>3, <2>1, <2>3 DEF CallSteps, CallRecords, EraseOnce
<1>5. CASE Len(todo) # 1
  <2>1. call' = call
    BY <1>5 DEF Done
  <2>2. \A id, v : (InCall(id) => InCall(id)') /\ (OfCall(id, v) => OfCall(id, v)')
    BY <2>1 DEF InCall, OfCall
  <2>3. CallSteps'
    BY <1>1, <2>2 DEF CallSteps
  <2>4. todo[1].s \in {"log_insert", "erase_row"} =>
          InCall(todo[1].x) /\ (todo[1].s = "log_insert" => OfCall(todo[1].x, todo[1].v))
    BY <1>2 DEF CallSteps, RowNames, ValueNames
  <2>5. CallRecords'
    BY <2>2, <2>4 DEF CallRecords, StepRecords
  <2>6. ASSUME NEW i \in 1..Len(todo'), todo'[i].s = "erase_row"
        PROVE  /\ Silent(walBuf', todo'[i].x)
               /\ \A j \in 1..i - 1 : todo'[j].s \in {"log_insert", "erase_row"} => todo'[j].x # todo'[i].x
    <3>1. i + 1 \in 1..Len(todo) /\ todo'[i] = todo[i + 1]
      BY <1>1
    <3>2. /\ Silent(walBuf, todo[i + 1].x)
          /\ \A j \in 1..i + 1 - 1 : todo[j].s \in {"log_insert", "erase_row"} => todo[j].x # todo[i + 1].x
      BY <2>6, <3>1 DEF EraseOnce
    <3>3. 1 \in 1..i + 1 - 1 /\ \A j \in 1..i - 1 : j + 1 \in 1..i + 1 - 1 /\ j \in 1..Len(todo')
      BY <1>1
    <3>4. Silent(walBuf', todo'[i].x)
      BY <3>1, <3>2, <3>3 DEF Silent, StepRecords
    <3> QED BY <1>1, <3>1, <3>2, <3>3, <3>4
  <2>7. EraseOnce'
    BY <2>6 DEF EraseOnce
  <2> QED BY <1>3, <2>3, <2>5, <2>7
<1> QED BY <1>4, <1>5

LEMMA QuietChange ==
    ASSUME ChangeInv, DurableInv', MovesPages
    PROVE  ChangeInv' /\ ChangesInCall
<1> USE DEF MovesPages
<1>1. /\ ScanInv /\ DurableInv /\ CallSteps /\ CallRecords /\ EraseOnce /\ Separate /\ OldOrNew
      /\ Buffered'
  BY DEF ChangeInv, DurableInv
<1>2. ~Pending(todo) /\ \A id \in Ids : ~Logged(todo', id)
  BY <1>1, LoggedDone DEF Pending
<1>3. StepRecords
  BY DEF StepRecords
<1>4. CallSteps' /\ CallRecords' /\ EraseOnce' /\ Separate'
  BY <1>1, <1>3, DoneChange
<1>5. OldOrNew'
  BY <1>1, <1>2, QuietOld
<1>6. ChangesInCall
  BY <1>1, <1>2, WrittenPages
<1> QED BY <1>4, <1>5, <1>6 DEF ChangeInv

\* write_record(): the record joins the buffer, which a full buffer leaves for the file.
LEMMA RecordChange ==
    ASSUME EngineInv, EngineInv', CallRecords, NEW r \in LogRecord, write_record(r),
           todo[1].s \in {"log_insert", "erase_row"}, r.id = todo[1].x,
           r.t = "INSERT" => todo[1].s = "log_insert" /\ r.val = todo[1].v,
           UNCHANGED <<count, disk>>
    PROVE  StepRecords /\ ChangesInCall
<1>1. walBuf \in Seq(LogRecord)
  BY DEF EngineInv, Types
<1>2. CASE Len(walBuf) + 1 > WAL_BUFFER_SIZE
  <2>1. walFile' = walFile \o walBuf /\ walBuf' = <<r>>
    BY <1>2 DEF write_record
  <2>2. ChangesInCall
    BY <2>1, GrownLog
  <2>3. \A n \in 1..Len(walBuf') : walBuf'[n] = r
    BY <2>1
  <2> QED BY <2>2, <2>3 DEF StepRecords
<1>3. CASE ~(Len(walBuf) + 1 > WAL_BUFFER_SIZE)
  <2>1. walFile' = walFile /\ walBuf' = Append(walBuf, r)
    BY <1>3 DEF write_record
  <2>2. ChangesInCall
    BY <2>1, SameFiles
  <2>3. \A n \in 1..Len(walBuf') : walBuf'[n] = r \/ (n \in 1..Len(walBuf) /\ walBuf'[n] = walBuf[n])
    BY <1>1, <2>1
  <2> QED BY <2>2, <2>3 DEF StepRecords
<1> QED BY <1>2, <1>3

LEMMA LogInsertChange == ChangeInv /\ LogInsert => ChangeInv' /\ ChangesInCall
<1> SUFFICES ASSUME ChangeInv, LogInsert PROVE ChangeInv' /\ ChangesInCall
  OBVIOUS
<1> DEFINE x == todo[1].x
           v == todo[1].v
           r == [t |-> "INSERT", id |-> x, val |-> v]
<1>1. /\ DurableInv /\ DurableInv' /\ ScanInv /\ EngineInv /\ EngineInv' /\ Buffered'
      /\ CallSteps /\ CallRecords /\ EraseOnce /\ Separate /\ OldOrNew
      /\ walBuf \in Seq(LogRecord)
  BY LogInsertDurable DEF ChangeInv, DurableInv, ScanInv, EngineInv, Types
<1>2. /\ todo # <<>> /\ todo[1].s = "log_insert" /\ Done /\ x \in Ids /\ v \in Vals
      /\ write_record(r)
      /\ UNCHANGED <<disk, offs, lru, cached, count, next, index, mode>>
  BY <1>1, StepFacts DEF LogInsert, IsNext, pagerVars, RowNames, ValueNames
<1>3. r \in LogRecord /\ r.id = x /\ r.val = v /\ r.t = "INSERT"
  BY <1>2 DEF LogRecord, Record
<1> HIDE DEF r
<1>4. StepRecords /\ ChangesInCall
  BY <1>1, <1>2, <1>3, RecordChange
<1>5. CallSteps' /\ CallRecords' /\ EraseOnce' /\ Separate'
  BY <1>1, <1>2, <1>4, DoneChange
<1>6. OldOrNew'
  <2>1. CASE Len(walBuf) + 1 > WAL_BUFFER_SIZE
    <3>1. walBuf' = <<r>>
      BY <1>2, <2>1 DEF write_record
    <3>2. \A n \in 1..Len(walBuf') : walBuf'[n] = r
      BY <3>1
    <3>3. \A id \in Ids : ~Deleted(walBuf', id)
      BY <1>3, <3>2 DEF Deleted, Says
    <3> QED BY <3>3, NothingOld
  <2>2. CASE ~(Len(walBuf) + 1 > WAL_BUFFER_SIZE)
    <3>1. walFile' = walFile /\ walBuf' = Append(walBuf, r)
      BY <1>2, <2>2 DEF write_record
    <3>2. \A id \in Ids : Deleted(walBuf', id) <=> Deleted(walBuf, id)
      BY <1>1, <1>3, <3>1, LogAppend
    <3>3. Pager' = Pager
      BY <1>2 DEF Pager
    <3> QED BY <1>1, <1>2, <3>1, <3>2, <3>3 DEF OldOrNew
  <2> QED BY <2>1, <2>2
<1> QED BY <1>1, <1>4, <1>5, <1>6 DEF ChangeInv

LEMMA SyncChange == ChangeInv /\ Sync => ChangeInv' /\ ChangesInCall
<1> SUFFICES ASSUME ChangeInv, Sync PROVE ChangeInv' /\ ChangesInCall
  OBVIOUS
<1>1. /\ DurableInv /\ DurableInv' /\ ScanInv /\ EngineInv /\ EngineInv' /\ Buffered'
      /\ CallSteps /\ CallRecords /\ EraseOnce /\ Separate
  BY SyncDurable DEF ChangeInv, DurableInv, ScanInv
<1>2. /\ todo # <<>> /\ Done /\ walFile' = walFile \o walBuf /\ walBuf' = <<>>
      /\ UNCHANGED <<disk, count>>
  BY DEF Sync, IsNext, sync, pagerVars
<1>3. 1..Len(walBuf') = {}
  BY <1>2
<1>4. StepRecords /\ \A id \in Ids : ~Deleted(walBuf', id)
  BY <1>3 DEF StepRecords, Deleted
<1>5. CallSteps' /\ CallRecords' /\ EraseOnce' /\ Separate'
  BY <1>1, <1>2, <1>4, DoneChange
<1> QED BY <1>1, <1>2, <1>4, <1>5, GrownLog, NothingOld DEF ChangeInv

LEMMA IndexRowChange == ChangeInv /\ IndexRow => ChangeInv' /\ ChangesInCall
<1> SUFFICES ASSUME ChangeInv, IndexRow PROVE ChangeInv' /\ ChangesInCall
  OBVIOUS
<1>1. /\ DurableInv /\ DurableInv' /\ ScanInv /\ EngineInv /\ Buffered'
      /\ CallSteps /\ CallRecords /\ EraseOnce /\ Separate /\ OldOrNew
  BY IndexRowDurable DEF ChangeInv, DurableInv, ScanInv
<1> DEFINE x == Head(todo).x
           e == [page |-> next - 1, slot |-> Len(RowsOf(Pager, next - 1)), off |-> (next - 1) \in offs]
<1>2. /\ todo # <<>> /\ Head(todo).s = "index_row" /\ Done
      /\ UNCHANGED <<disk, offs, lru, cached, count, walFile, walBuf, next, mode>>
      /\ index' = [index EXCEPT ![x] = e]
  BY DEF IndexRow, IsNext, files
<1> HIDE DEF e
<1>3. Head(todo) = todo[1] /\ 1 \in 1..Len(todo)
  <2>1. Head(todo) = todo[1] /\ Len(todo) \in Nat \ {0}
    BY <1>1, <1>2, StepFacts
  <2> QED BY <2>1
<1>4. index[x] = NoEntry
  <2>1. 1..1 - 1 = {}
    OBVIOUS
  <2> QED BY <1>1, <1>2, <1>3, <2>1 DEF ScanInv, Fresh, InsertNames
<1> HIDE DEF x
<1>5. \A id \in Ids : index[id] # NoEntry => index'[id] = index[id]
  <2>1. index \in [Ids -> Entry \cup {NoEntry}]
    BY <1>1 DEF EngineInv, Types
  <2> QED BY <1>2, <1>4, <2>1
<1>6. Pager' = Pager
  BY <1>2 DEF Pager
<1>7. OldOrNew'
  BY <1>1, <1>2, <1>5, <1>6 DEF OldOrNew
<1>8. StepRecords
  BY <1>2 DEF StepRecords
<1>9. CallSteps' /\ CallRecords' /\ EraseOnce' /\ Separate'
  BY <1>1, <1>2, <1>8, DoneChange
<1> QED BY <1>1, <1>2, <1>7, <1>9, SameFiles DEF ChangeInv

\* A row that the log does not delete: the files hold its value only.
LEMMA OneValue ==
    ASSUME EngineInv, LogAgrees, DiskAgrees, NEW x \in Ids, index[x] # NoEntry, ~Deleted(LogOf, x)
    PROVE  /\ \A n \in 1..Len(LogOf) : Says(LogOf, n, "INSERT", x) => LogOf[n].val = RowAt(Pager, index[x]).val
           /\ \A q \in 0..count - 1 : \A k \in 1..Len(disk[q]) :
                disk[q][k].id = x => disk[q][k].val = RowAt(Pager, index[x]).val
<1>1. Value(x) = RowAt(Pager, index[x]).val /\ Agrees(LogOf, x, Value(x), OnDisk(x))
  BY DEF LogAgrees, Value
<1>2. \A n \in 1..Len(LogOf) : Says(LogOf, n, "INSERT", x) => n \in Standing(LogOf, x)
  BY DEF Deleted, Standing
<1>3. \A n \in 1..Len(LogOf) : Says(LogOf, n, "INSERT", x) => LogOf[n].val = RowAt(Pager, index[x]).val
  BY <1>1, <1>2 DEF Agrees
<1> QED BY <1>3 DEF DiskAgrees

LEMMA EraseRowChange == ChangeInv /\ EraseRow => ChangeInv' /\ ChangesInCall
<1> SUFFICES ASSUME ChangeInv, EraseRow PROVE ChangeInv' /\ ChangesInCall
  OBVIOUS
<1> DEFINE x == todo[1].x
           r == [t |-> "DELETE", id |-> x, val |-> NoVal]
<1>0. todo # <<>>
  BY DEF EraseRow, IsNext
<1>1. /\ DurableInv /\ DurableInv' /\ ScanInv /\ EngineInv /\ EngineInv' /\ Buffered'
      /\ LogAgrees /\ DiskAgrees
      /\ CallSteps /\ CallRecords /\ EraseOnce /\ Separate /\ OldOrNew
      /\ walBuf \in Seq(LogRecord) /\ walFile \in Seq(LogRecord)
  BY <1>0, EraseRowDurable DEF ChangeInv, DurableInv, ScanInv, EngineInv, Types
<1>2. /\ todo[1].s = "erase_row" /\ Done /\ x \in Ids /\ 1 \in 1..Len(todo)
      /\ write_record(r) /\ Unindex(x)
      /\ UNCHANGED <<count, next, mode>>
  BY <1>0, <1>1, StepFacts DEF EraseRow, IsNext, RowNames
<1>3. index[x] # NoEntry /\ index[x].page \in DOMAIN cached /\ ~Pending(todo)
  BY <1>1, <1>2 DEF EngineInv, EraseReady, EraseNames, Pending
<1>4. r \in LogRecord /\ r.id = x /\ r.t = "DELETE"
  BY <1>2 DEF LogRecord, Record
<1>5. Silent(walBuf, x)
  BY <1>1, <1>2 DEF EraseOnce
<1>6. RowAt(Pager, index[x]).val \in Vals
  <2>1. RowAt(Pager, index[x]) \in Row
    BY <1>1, <1>2, <1>3, GetFacts
  <2> QED BY <2>1 DEF Row
<1>7. x = todo[1].x
  OBVIOUS
<1> HIDE DEF x, r
<1>8. /\ disk' = disk /\ index'[x] = NoEntry
      /\ \A i \in Ids : i # x =>
           /\ index[i] = NoEntry <=> index'[i] = NoEntry
           /\ index[i] # NoEntry => /\ index'[i].page = index[i].page
                                    /\ RowAt(Pager', index'[i]) = RowAt(Pager, index[i])
  BY <1>1, <1>2, <1>3, UnindexScan
<1>9. StepRecords /\ ChangesInCall
  BY <1>1, <1>2, <1>4, <1>7, <1>8, RecordChange
<1>10. CallSteps' /\ CallRecords' /\ EraseOnce' /\ Separate'
  BY <1>0, <1>1, <1>2, <1>9, DoneChange
<1>11. /\ LogOf = walFile \o walBuf /\ ~Deleted(walBuf, x)
       /\ Deleted(LogOf, x) <=> Deleted(walFile, x)
  <2>1. LogOf = walFile \o walBuf /\ ~Deleted(walBuf, x)
    BY <1>5 DEF LogOf, Silent, Deleted, Says
  <2> QED BY <1>1, <2>1, DeletedConcat
<1>12. \/ walFile' = walFile /\ walBuf' = Append(walBuf, r)
       \/ walFile' = LogOf /\ walBuf' = <<r>>
  BY <1>2, <1>11 DEF write_record
<1>13. ASSUME ~Deleted(walFile', x)
       PROVE  /\ \A n \in 1..Len(walFile') : Says(walFile', n, "INSERT", x) => walFile'[n].val = RowAt(Pager, index[x]).val
              /\ \A q \in 0..count - 1 : \A k \in 1..Len(disk[q]) :
                   disk[q][k].id = x => disk[q][k].val = RowAt(Pager, index[x]).val
  <2>1. ~Deleted(LogOf, x)
    BY <1>11, <1>12, <1>13
  <2>2. \A n \in 1..Len(walFile') : n \in 1..Len(LogOf) /\ LogOf[n] = walFile'[n]
    <3>1. CASE walFile' = LogOf
      BY <3>1
    <3>2. CASE walFile' = walFile
      BY <1>1, <1>11, <3>2
    <3> QED BY <1>12, <3>1, <3>2
  <2>3. /\ \A n \in 1..Len(LogOf) : Says(LogOf, n, "INSERT", x) => LogOf[n].val = RowAt(Pager, index[x]).val
        /\ \A q \in 0..count - 1 : \A k \in 1..Len(disk[q]) :
             disk[q][k].id = x => disk[q][k].val = RowAt(Pager, index[x]).val
    BY <1>1, <1>2, <1>3, <2>1, OneValue
  <2> QED BY <2>2, <2>3 DEF Says
<1>14. ASSUME NEW id \in Ids, id # x, Deleted(walBuf', id)
       PROVE  walFile' = walFile /\ Deleted(walBuf, id)
  <2>1. CASE walFile' = LogOf /\ walBuf' = <<r>>
    <3>1. \A n \in 1..Len(walBuf') : walBuf'[n] = r
      BY <2>1
    <3> QED BY <1>4, <1>14, <3>1 DEF Deleted, Says
  <2>2. CASE walFile' = walFile /\ walBuf' = Append(walBuf, r)
    BY <1>1, <1>4, <1>14, <2>2, LogAppend
  <2> QED BY <1>12, <2>1, <2>2
<1>15. OldOrNew'
  <2> SUFFICES ASSUME NEW id \in Ids, Deleted(walBuf', id), ~Deleted(walFile', id)
               PROVE  \E v \in Vals :
                        /\ \A n \in 1..Len(walFile') : Says(walFile', n, "INSERT", id) => walFile'[n].val = v
                        /\ \A q \in 0..count - 1 : \A k \in 1..Len(disk[q]) : disk[q][k].id = id =>
                             \/ disk[q][k].val = v
                             \/ /\ index'[id] # NoEntry /\ index'[id].page = q
                                /\ RowAt(Pager', index'[id]).val = disk[q][k].val
    BY <1>2, <1>8 DEF OldOrNew
  <2>1. CASE id = x
    BY <1>6, <1>13, <2>1
  <2>2. CASE id # x
    <3>1. walFile' = walFile /\ Deleted(walBuf, id)
      BY <1>14, <2>2
    <3>2. PICK v \in Vals :
            /\ \A n \in 1..Len(walFile) : Says(walFile, n, "INSERT", id) => walFile[n].val = v
            /\ \A q \in 0..count - 1 : \A k \in 1..Len(disk[q]) : disk[q][k].id = id =>
                 \/ disk[q][k].val = v
                 \/ index[id] # NoEntry /\ index[id].page = q /\ RowAt(Pager, index[id]).val = disk[q][k].val
      BY <1>1, <3>1 DEF OldOrNew
    <3> QED BY <1>8, <2>2, <3>1, <3>2
  <2> QED BY <2>1, <2>2
<1> QED BY <1>1, <1>9, <1>10, <1>15 DEF ChangeInv

\* A step of checkpoint(): the rows in memory are those of the files.
LEMMA ValueChange ==
    ASSUME DurableInv, DurableInv', open \/ todo # <<>>, open' \/ todo' # <<>>, walBuf = <<>>, walBuf' = <<>>,
           \A id \in Ids : ~Logged(todo, id) /\ ~Logged(todo', id) /\ Value(id)' = Value(id)
    PROVE  ChangesInCall
<1> SUFFICES ASSUME NEW id \in Ids PROVE Durable'[id] = Durable[id]
  BY DEF ChangesInCall
<1>1. Silent(walBuf, id) /\ Silent(walBuf', id)
  BY DEF Silent
<1>2. Durable[id] = Value(id)
  BY <1>1, DurableValue
<1>3. (DurableInv /\ (open \/ todo # <<>>) /\ Silent(walBuf, id) /\ ~Logged(todo, id))'
  BY <1>1
<1>4. (Durable[id] = Value(id))'
  BY <1>3, DurableValue, PTL
<1> QED BY <1>2, <1>4

LEMMA CheckpointSilent ==
    ASSUME DurableInv, Separate, todo # <<>>, todo[1].s \in {"write_header", "clear_wal"}
    PROVE  walBuf = <<>>
<1>1. 1 \in 1..Len(todo)
  <2>1. Len(todo) \in Nat \ {0}
    BY StepFacts DEF DurableInv, ScanInv
  <2> QED BY <2>1
<1> QED BY <1>1 DEF Separate, DurableInv, Buffered

\* A step that leaves the buffer empty.
LEMMA EmptyBuffer ==
    ASSUME ChangeInv, DurableInv', todo # <<>>, Done, walBuf' = <<>>
    PROVE  ChangeInv'
<1>1. 1..Len(walBuf') = {}
  OBVIOUS
<1>2. StepRecords /\ \A id \in Ids : ~Deleted(walBuf', id)
  BY <1>1 DEF StepRecords, Deleted
<1>3. CallSteps' /\ CallRecords' /\ EraseOnce' /\ Separate'
  BY <1>2, DoneChange DEF ChangeInv, DurableInv
<1> QED BY <1>2, <1>3, NothingOld DEF ChangeInv

LEMMA WriteHeaderChange == ChangeInv /\ WriteHeader => ChangeInv' /\ ChangesInCall
<1> SUFFICES ASSUME ChangeInv, WriteHeader PROVE ChangeInv' /\ ChangesInCall
  OBVIOUS
<1>1. DurableInv /\ DurableInv' /\ ScanInv /\ EngineInv /\ Separate
  BY WriteHeaderDurable DEF ChangeInv, DurableInv, ScanInv
<1>2. /\ todo # <<>> /\ todo[1].s = "write_header" /\ Done
      /\ UNCHANGED <<disk, offs, lru, cached, walBuf, next, index, mode, open>>
  BY <1>1, StepFacts DEF WriteHeader, IsNext
<1>3. walBuf = <<>> /\ (open' \/ todo' # <<>>)
  BY <1>1, <1>2, CheckpointSilent, StillOpen
<1>4. \A id \in Ids : ~Logged(todo, id) /\ ~Logged(todo', id)
  BY <1>1, <1>2, LoggedDone DEF Logged
<1>5. Pager' = Pager
  BY <1>2 DEF Pager
<1>6. \A id \in Ids : Value(id)' = Value(id)
  BY <1>2, <1>4, <1>5 DEF Value
<1> QED BY <1>1, <1>2, <1>3, <1>4, <1>6, ValueChange, EmptyBuffer

LEMMA ClearWalChange == ChangeInv /\ ClearWal => ChangeInv' /\ ChangesInCall
<1> SUFFICES ASSUME ChangeInv, ClearWal PROVE ChangeInv' /\ ChangesInCall
  OBVIOUS
<1>1. DurableInv /\ DurableInv' /\ ScanInv /\ EngineInv /\ Separate
  BY ClearWalDurable DEF ChangeInv, DurableInv, ScanInv
<1>2. /\ todo # <<>> /\ todo[1].s = "clear_wal" /\ Done /\ walBuf' = <<>>
      /\ UNCHANGED <<disk, offs, lru, cached, next, index, mode, open>>
  BY <1>1, StepFacts DEF ClearWal, IsNext, pagerVars
<1>3. walBuf = <<>> /\ (open' \/ todo' # <<>>)
  BY <1>1, <1>2, CheckpointSilent, StillOpen
<1>4. \A id \in Ids : ~Logged(todo, id) /\ ~Logged(todo', id)
  BY <1>1, <1>2, LoggedDone DEF Logged
<1>5. Pager' = Pager
  BY <1>2 DEF Pager
<1>6. \A id \in Ids : Value(id)' = Value(id)
  BY <1>2, <1>4, <1>5 DEF Value
<1> QED BY <1>1, <1>2, <1>3, <1>4, <1>6, ValueChange, EmptyBuffer

\* Between calls the buffer is empty.
LEMMA IdleBuffer ==
    ASSUME DurableInv, todo = <<>>
    PROVE  walBuf = <<>> /\ 1..Len(todo) = {}
<1>1. 1..Len(todo) = {}
  OBVIOUS
<1> QED BY <1>1 DEF DurableInv, Buffered

\* A plan that writes no row.
LEMMA UpkeepChange ==
    ASSUME DurableInv', walBuf' = <<>>, \A i \in 1..Len(todo') : todo'[i].s \in UpkeepNames
    PROVE  ChangeInv'
<1>1. 1..Len(walBuf') = {}
  OBVIOUS
<1>2. CallRecords' /\ \A id \in Ids : ~Deleted(walBuf', id)
  BY <1>1 DEF CallRecords, Deleted
<1>3. \A i \in 1..Len(todo') : todo'[i].s \notin RowNames \cup ValueNames \cup {"erase_row", "sync"}
  BY DEF UpkeepNames, RowNames, ValueNames
<1>4. CallSteps' /\ EraseOnce' /\ Separate'
  BY <1>3 DEF CallSteps, EraseOnce, Separate
<1> QED BY <1>2, <1>4, NothingOld DEF ChangeInv

LEMMA PlanChange ==
    ASSUME ChangeInv, CreateIndex \/ DropIndex \/ Checkpoint \/ Close
    PROVE  ChangeInv' /\ ChangesInCall
<1>1. ScanInv /\ DurableInv /\ DurableInv'
  BY CreateIndexDurable, DropIndexDurable, CheckpointDurable, CloseDurable DEF ChangeInv, DurableInv
<1>2. UpkeepStep
  BY <1>1, CreateIndexUpkeep, DropIndexUpkeep, CheckpointUpkeep, CloseUpkeep DEF ScanInv
<1>3. walBuf' = <<>>
  BY <1>1, <1>2, IdleBuffer DEF UpkeepStep, Idle
<1> QED BY <1>1, <1>2, <1>3, UpkeepChange, SameFiles DEF UpkeepStep

LEMMA CallIsCall ==
    ASSUME NEW c \in Calls
    PROVE  c # NoCall
<1> DEFINE vals(k) == IF k \in {"erase", "erase_batch"} THEN {NoVal} ELSE Vals
           len(k) == IF k \in {"insert", "erase", "update"} THEN 1 ELSE 2
<1>1. PICK k \in mode.calls \cap Kinds : c \in {[k |-> k, rows |-> rows] : rows \in [1..len(k) -> Rows(vals(k))]}
  BY DEF Calls
<1>2. PICK rows \in [1..len(k) -> Rows(vals(k))] : c = [k |-> k, rows |-> rows]
  BY <1>1
<1>3. len(k) \in Nat /\ \A i \in 1..len(k) : rows[i] \in Rows(Vals \cup {NoVal})
  BY DEF Rows
<1>4. rows \in Seq(Rows(Vals \cup {NoVal}))
  <2> DEFINE S == Rows(Vals \cup {NoVal})
             n == len(k)
  <2>1. rows \in [1..n -> S] /\ n \in Nat
    BY <1>3
  <2> HIDE DEF S, n, len
  <2>2. rows \in Seq(S)
    BY <2>1
  <2> QED BY <2>2 DEF S
<1> QED BY <1>2, <1>4, NoCallAssumption

LEMMA BeginChange == ASSUME NEW c \in Calls PROVE ChangeInv /\ Begin(c) => ChangeInv' /\ ChangesInCall
<1> SUFFICES ASSUME ChangeInv, Begin(c) PROVE ChangeInv' /\ ChangesInCall
  OBVIOUS
<1>1. DurableInv /\ DurableInv'
  BY BeginDurable DEF ChangeInv
<1>2. CallOK(c) /\ Idle /\ todo' = StepsOf(c) /\ call' = c /\ UNCHANGED <<count, disk, walFile, walBuf>>
  BY DEF Begin, files
<1>3. walBuf' = <<>>
  BY <1>1, <1>2, IdleBuffer DEF Idle
<1>4. 1..Len(walBuf') = {}
  BY <1>3
<1>5. CallRecords' /\ \A id : Silent(walBuf', id) /\ ~Deleted(walBuf', id)
  BY <1>4 DEF CallRecords, Silent, Deleted
<1>6. WritesRows(todo', c.rows) /\ Names(todo') \subseteq CallNames
  BY <1>2, CallWrites, CallBlock
<1>7. c # NoCall
  BY CallIsCall
<1>8. CallSteps'
  <2>1. \A i \in 1..Len(todo') : todo'[i].s \in ValueNames => todo'[i].s \in RowNames
    BY DEF ValueNames, RowNames
  <2> QED BY <1>2, <1>6, <1>7, <2>1 DEF WritesRows, CallSteps, InCall, OfCall
<1>9. EraseOnce'
  BY <1>5, <1>6 DEF WritesRows, EraseOnce
<1>10. Separate'
  BY <1>6 DEF Names, CallNames, Separate
<1> QED BY <1>1, <1>2, <1>5, <1>8, <1>9, <1>10, NothingOld, SameFiles DEF ChangeInv

LEMMA ReadChange == ASSUME NEW pid \in Nat PROVE ChangeInv /\ Read(pid) => ChangeInv' /\ ChangesInCall
<1> SUFFICES ASSUME ChangeInv, Read(pid) PROVE ChangeInv' /\ ChangesInCall
  OBVIOUS
<1>1. DurableInv /\ DurableInv' /\ ScanInv /\ EngineInv
  BY ReadDurable DEF ChangeInv, DurableInv, ScanInv
<1>2. /\ pid \in 0..next - 1 /\ PagerBecomes(get_page(Pager, pid)) /\ open /\ todo = <<>>
      /\ UNCHANGED <<count, walFile, walBuf, next, index, open, todo, mode>>
  BY <1>1, StepFacts DEF Read, Idle
<1>3. RowsStay
  BY <1>1, <1>2, FetchStay
<1>4. walBuf = <<>> /\ walBuf' = <<>> /\ 1..Len(todo) = {} /\ Len(todo) = 0
  BY <1>1, <1>2, IdleBuffer
<1>5. \A id \in Ids : ~Logged(todo, id) /\ ~Logged(todo', id)
  BY <1>2, <1>4 DEF Logged
<1>6. \A id \in Ids : Value(id)' = Value(id)
  BY <1>3, <1>5 DEF Value, RowsStay
<1>7. ChangesInCall
  BY <1>1, <1>2, <1>4, <1>5, <1>6, ValueChange
<1>8. ChangeInv'
  BY <1>1, <1>2, <1>4, UpkeepChange
<1> QED BY <1>7, <1>8

LEMMA CloseFilesChange == ChangeInv /\ CloseFiles => ChangeInv' /\ ChangesInCall
<1> SUFFICES ASSUME ChangeInv, CloseFiles PROVE ChangeInv' /\ ChangesInCall
  OBVIOUS
<1>1. DurableInv'
  BY CloseFilesDurable DEF ChangeInv
<1>2. todo # <<>> /\ Done /\ walBuf' = <<>> /\ UNCHANGED <<count, disk, walFile>>
  BY DEF CloseFiles, IsNext, Forget, files
<1> QED BY <1>1, <1>2, EmptyBuffer, SameFiles

LEMMA RecoverChange == ChangeInv /\ Recover => ChangeInv' /\ ChangesInCall
<1> SUFFICES ASSUME ChangeInv, Recover PROVE ChangeInv' /\ ChangesInCall
  OBVIOUS
<1>1. DurableInv /\ DurableInv' /\ ScanInv
  BY RecoverDurable DEF ChangeInv, DurableInv
<1>2. /\ ~open /\ todo = <<>> /\ todo' = ReplaySteps \o <<Do("opened")>>
      /\ UNCHANGED <<count, disk, walFile, walBuf>>
  BY DEF Recover, files
<1>3. Len(todo') = 1 /\ todo'[1].s = "opened"
  BY <1>1, <1>2, NoRecords
<1>4. walBuf' = <<>>
  BY <1>1, <1>2, IdleBuffer
<1>5. \A i \in 1..Len(todo') : todo'[i].s \in UpkeepNames
  <2>1. \A i \in 1..Len(todo') : i = 1
    BY <1>3
  <2> QED BY <1>3, <2>1 DEF UpkeepNames
<1> QED BY <1>1, <1>2, <1>4, <1>5, UpkeepChange, SameFiles

LEMMA InitChange == Init => ChangeInv
<1> SUFFICES ASSUME Init PROVE ChangeInv
  OBVIOUS
<1>1. walBuf = <<>> /\ todo = <<>>
  BY DEF Init
<1>2. 1..Len(walBuf) = {} /\ 1..Len(todo) = {}
  BY <1>1
<1> QED BY <1>2, InitDurable DEF ChangeInv, CallSteps, CallRecords, EraseOnce, Separate, OldOrNew, Deleted

LEMMA StutterChange == ChangeInv /\ UNCHANGED vars => ChangeInv' /\ ChangesInCall
<1> SUFFICES ASSUME ChangeInv, UNCHANGED vars PROVE ChangeInv' /\ ChangesInCall
  OBVIOUS
<1>1. DurableInv'
  BY StutterDurable DEF ChangeInv
<1>2. UNCHANGED <<count, disk, walFile, walBuf, index, todo, call>> /\ Pager' = Pager
  BY DEF vars, Pager
<1>3. CallSteps' /\ CallRecords' /\ EraseOnce' /\ Separate' /\ OldOrNew'
  BY <1>2 DEF ChangeInv, CallSteps, CallRecords, EraseOnce, Separate, OldOrNew, InCall, OfCall
<1> QED BY <1>1, <1>2, <1>3, SameFiles DEF ChangeInv

LEMMA NextChange == Undisturbed /\ ChangeInv /\ [Next]_vars => ChangeInv' /\ ChangesInCall
<1> SUFFICES ASSUME Undisturbed, ChangeInv, [Next]_vars PROVE ChangeInv' /\ ChangesInCall
  OBVIOUS
<1>0. DurableInv /\ ScanInv
  BY DEF ChangeInv, DurableInv
<1>1. ASSUME NEW c \in Calls, Begin(c) PROVE ChangeInv' /\ ChangesInCall
  BY <1>1, BeginChange
<1>2. ASSUME NEW pid \in 0..MaxPages, Read(pid) PROVE ChangeInv' /\ ChangesInCall
  <2>1. pid \in Nat
    OBVIOUS
  <2> QED BY <1>2, <2>1, ReadChange
<1>3. CASE TouchLast \/ AppendRow \/ TouchRow \/ VisitPage \/ SetIndex \/ FlushPage \/ Opened
  <2>1. MovesPages
    BY <1>0, <1>3, TouchLastQuiet, AppendRowQuiet, TouchRowQuiet, VisitPageQuiet, SetIndexQuiet,
       FlushPageQuiet, OpenedQuiet
  <2>2. DurableInv'
    BY <1>0, <1>3, TouchLastDurable, AppendRowDurable, TouchRowDurable, VisitPageDurable,
       SetIndexDurable, FlushPageDurable, OpenedDurable
  <2> QED BY <2>1, <2>2, QuietChange
<1>4. CASE LogInsert \/ IndexRow \/ EraseRow \/ Sync
  BY <1>4, LogInsertChange, IndexRowChange, EraseRowChange, SyncChange
<1>5. CASE WriteHeader \/ ClearWal \/ CloseFiles \/ Recover
  BY <1>5, WriteHeaderChange, ClearWalChange, CloseFilesChange, RecoverChange
<1>6. CASE CreateIndex \/ DropIndex \/ Checkpoint \/ Close
  BY <1>6, PlanChange
<1>7. CASE LogFails \/ Crash
  <2>1. mode \in Modes
    BY <1>0, StepFacts DEF ScanInv
  <2>2. ~mode.crash /\ ~mode.fail
    BY <2>1 DEF Undisturbed
  <2> QED BY <1>7, <2>2 DEF LogFails, Crash
<1>8. CASE UNCHANGED vars
  BY <1>8, StutterChange
<1> QED BY <1>0, <1>1, <1>2, <1>3, <1>4, <1>5, <1>6, <1>7, <1>8, NoReplay
        DEF Next, CallStep, MaintenanceStep, RecoveryStep

\* Step by step, what a restart would recover changes only in rows of the call in progress,
\* each to the state before or after its own change: however the log buffer overflows in
\* the middle of a batch (write_record) and whichever pages the cache evicts meanwhile.
THEOREM EngineChangesBelongToCall == Undisturbed => (Spec => ChangesBelongToCall)
<1> SUFFICES ASSUME Undisturbed PROVE Spec => ChangesBelongToCall
  OBVIOUS
<1>1. Init => ChangeInv
  BY InitChange
<1>2. ChangeInv /\ [Next]_vars => ChangeInv'
  BY NextChange
<1>3. ChangeInv /\ [Next]_vars => ChangesInCall
  BY NextChange
<1>4. ChangeInv /\ [Next]_vars =>
        [\A id \in Ids : Durable'[id] # Durable[id] =>
          /\ call # NoCall
          /\ \E i \in DOMAIN call.rows :
                call.rows[i].id = id /\ Durable'[id] \in {NoVal, call.rows[i].val}]_vars
  BY <1>3 DEF ChangesInCall
<1> QED BY <1>1, <1>2, <1>4, PTL DEF Spec, ChangesBelongToCall

----------------------------------------------------------------------------
(* The engine implements the durable table, step by step *)

\* The call in progress has not made its records durable.
Unsynced == call # NoCall /\ \E i \in 1..Len(todo) : todo[i].s = "sync"

\* No log step finds the buffer full.
RoomInLog == IsNext("log_insert") \/ IsNext("erase_row") => Len(walBuf) < WAL_BUFFER_SIZE

\* While records of a call are in the buffer no page has to leave the cache for another.
RoomInCache ==
    IsNext("touch_last") \/ IsNext("append_row") \/ IsNext("touch_row") =>
        walBuf = <<>> \/ next < mode.cap

\* Steps that log a change of the row.
LogsRow(t, i, id) == t[i].s \in {"erase_row", "log_insert"} /\ t[i].x = id
Logs(t, id) == \E i \in 1..Len(t) : LogsRow(t, i, id)
NoSync(t) == \A i \in 1..Len(t) : t[i].s # "sync"

\* An erased row is inserted again unless the call erases it, and nothing but the entry of
\* a row comes after the sync.
LoggedAgain(t, f) ==
    \A i \in 1..Len(t) : t[i].s = "erase_row" =>
        \/ \E k \in DOMAIN f : f[k].id = t[i].x /\ f[k].val = NoVal
        \/ \E j \in i + 1..Len(t) : t[j].s = "log_insert" /\ t[j].x = t[i].x
SyncEnds(t) == \A i, j \in 1..Len(t) : t[i].s = "sync" /\ i < j => t[j].s = "index_row"

\* What is known of the call in progress.
CallOf(c) ==
    /\ Table!IsCall(c)
    /\ \A i, j \in DOMAIN c.rows : i # j => c.rows[i].id # c.rows[j].id
    /\ \A i \in DOMAIN c.rows : c.rows[i].val = NoVal <=> c.k \in {"erase", "erase_batch"}
PlanOfCall ==
    call # NoCall => /\ todo # <<>> /\ Names(todo) \subseteq CallNames
                     /\ CallOf(call) /\ SyncEnds(todo) /\ LoggedAgain(todo, call.rows)

\* Before the sync a row of the call has its new value in memory or a step ahead.
Progress ==
    Unsynced => \A k \in DOMAIN call.rows :
        Logs(todo, call.rows[k].id) \/ Value(call.rows[k].id) = call.rows[k].val

TableInv == ChangeInv /\ PlanOfCall /\ Progress

\* A cache with a free place has more places than pages.
LEMMA FreePlace ==
    ASSUME EngineInv, next < mode.cap
    PROVE  ~(Len(Pager.lru) >= Pager.cap)
<1>1. /\ next \in Nat /\ PagerOK(Pager, next) /\ Pager.lru = lru /\ Pager.cap = mode.cap
      /\ lru \in Seq(Nat) /\ Once(lru) /\ mode.cap \in Nat
  BY StepFacts DEF PagerOK, PagerShape
<1>2. Len(lru) = Cardinality(ToSet(lru))
  BY <1>1, OnceCardinality
<1>3. ToSet(lru) \subseteq 0..next - 1
  <2>1. \A q \in ToSet(lru) : q \in Nat /\ q < next
    BY <1>1, ToSetFacts, StepFacts DEF PagerOK, PagerShape
  <2> QED BY <1>1, <2>1
<1>4. IsFiniteSet(0..next - 1) /\ Cardinality(0..next - 1) = next
  <2>1. 0 \in Int /\ next - 1 \in Int /\ (0 > next - 1 => next = 0) /\ next - 1 - 0 + 1 = next
    BY <1>1
  <2> QED BY <2>1, FS_Interval
<1>5. IsFiniteSet(ToSet(lru)) /\ Cardinality(ToSet(lru)) <= next
  BY <1>3, <1>4, FS_Subset
<1>6. Len(lru) \in Nat
  BY <1>1
<1> QED BY <1>1, <1>2, <1>5, <1>6

\* Then nothing is evicted.
LEMMA NothingEvicted ==
    ASSUME EngineInv, next < mode.cap, NEW pid, NEW page
    PROVE  /\ put_shared(Pager, pid, page).disk = disk
           /\ get_page(Pager, pid).disk = disk
           /\ new_page(Pager, pid).disk = disk
<1>1. \A k, g : put_shared(Pager, k, g).disk = disk
  BY FreePlace DEF put_shared, Pager
<1>2. get_page(Pager, pid).disk = disk
  BY <1>1 DEF get_page, Pager
<1> QED BY <1>1, <1>2 DEF new_page

\* Steps of a call that move pages: nothing is written to the file, or the log is.
LEMMA PageStepRoom ==
    ASSUME ScanInv, RoomInCache, TouchLast \/ AppendRow \/ TouchRow
    PROVE  MovesPages /\ (walBuf = <<>> \/ disk' = disk)
<1>1. EngineInv
  BY DEF ScanInv
<1>2. MovesPages
  BY TouchLastQuiet, AppendRowQuiet, TouchRowQuiet
<1>3. ASSUME next < mode.cap PROVE disk' = disk
  <2>1. CASE TouchLast
    BY <1>1, <1>3, <2>1, NothingEvicted DEF TouchLast, PagerBecomes, pagerVars
  <2>2. CASE TouchRow
    BY <1>1, <1>3, <2>2, NothingEvicted DEF TouchRow, PagerBecomes
  <2>3. CASE AppendRow
    <3> DEFINE row == [id |-> Head(todo).x, val |-> Head(todo).v]
               fits == next > 0 /\ HasRoom(RowsOf(Pager, next - 1), row.val)
               pid == IF fits THEN next - 1 ELSE next
               p == IF fits THEN Pager ELSE new_page(Pager, next)
    <3>1. PagerBecomes(SetRows(p, pid, append_row(RowsOf(p, pid), row)))
      BY <2>3 DEF AppendRow
    <3>2. p.disk = disk
      BY <1>1, <1>3, NothingEvicted DEF Pager
    <3> HIDE DEF p
    <3>3. \A a, b : SetRows(p, a, b).disk = p.disk
      <4>1. p = [disk |-> p.disk, offs |-> p.offs, lru |-> p.lru, cached |-> p.cached, cap |-> p.cap]
        <5>1. PagerShape(Pager) /\ PagerShape(new_page(Pager, next))
          BY <1>1, StepFacts, NewPageFacts DEF PagerOK
        <5> QED BY <5>1 DEF p, PagerShape
      <4> QED BY <4>1 DEF SetRows
    <3> QED BY <3>1, <3>2, <3>3 DEF PagerBecomes
  <2> QED BY <2>1, <2>2, <2>3
<1>4. walBuf = <<>> \/ next < mode.cap
  BY DEF RoomInCache, TouchLast, AppendRow, TouchRow
<1> QED BY <1>2, <1>3, <1>4

\* The files stay as they are.
LEMMA SameDurable ==
    ASSUME UNCHANGED <<count, disk, walFile>>
    PROVE  Durable' = Durable
BY DEF Durable, RecoveredEntry, ValidPages

\* A restart recovers the same rows.
LEMMA EqualDurable ==
    ASSUME \A id \in Ids : Durable'[id] = Durable[id]
    PROVE  Durable' = Durable
<1>1. Durable = [id \in Ids |-> Durable[id]] /\ Durable' = [id \in Ids |-> Durable'[id]]
  BY DEF Durable
<1> QED BY <1>1

LEMMA MovesValue ==
    ASSUME ScanInv, MovesPages
    PROVE  \A id \in Ids : Value(id)' = Value(id)
<1>1. ~Pending(todo) /\ \A id \in Ids : ~Logged(todo', id)
  BY LoggedDone DEF MovesPages, Pending
<1>2. \A id \in Ids : ~Logged(todo, id)
  BY <1>1, LoggedPending
<1> QED BY <1>1, <1>2 DEF Value, MovesPages, RowsStay

LEMMA MovesDurable ==
    ASSUME DurableInv, DurableInv', MovesPages, walBuf = <<>> \/ disk' = disk
    PROVE  Durable' = Durable
<1>1. CASE disk' = disk
  BY <1>1, SameDurable DEF MovesPages, PagesWritten
<1>2. CASE walBuf = <<>>
  <2> SUFFICES ASSUME NEW id \in Ids PROVE Durable'[id] = Durable[id]
    BY EqualDurable
  <2>1. todo # <<>> /\ (open' \/ todo' # <<>>) /\ Silent(walBuf, id) /\ Silent(walBuf', id)
    BY <1>2 DEF MovesPages, Silent
  <2>2. Durable[id] = Value(id)
    BY <2>1, DurableValue
  <2>3. (DurableInv /\ (open \/ todo # <<>>) /\ Silent(walBuf, id))'
    BY <2>1
  <2>4. (Durable[id] = Value(id))'
    BY <2>3, DurableValue, PTL
  <2> QED BY <2>2, <2>4, MovesValue DEF DurableInv
<1> QED BY <1>1, <1>2

\* What the steps that log make of the rows in memory.
LEMMA LogInsertValue ==
    ASSUME DurableInv, LogInsert
    PROVE  \A id \in Ids : /\ id = todo[1].x => Value(id)' = todo[1].v
                           /\ id # todo[1].x => Value(id)' = Value(id)
<1> DEFINE x == todo[1].x
           v == todo[1].v
<1>1. ScanInv /\ EngineInv
  BY DEF DurableInv, ScanInv
<1>2. /\ todo # <<>> /\ todo[1].s = "log_insert" /\ Done /\ 1 \in 1..Len(todo)
      /\ UNCHANGED <<disk, offs, lru, cached, next, index, mode>>
  BY <1>1, StepFacts DEF LogInsert, IsNext, pagerVars
<1>3. Pager' = Pager
  BY <1>2 DEF Pager
<1>4. index[x] = NoEntry
  BY <1>1, <1>2 DEF ScanInv, Fresh, InsertNames
<1>5. RowsOf(Pager, next - 1)[Len(RowsOf(Pager, next - 1))].val = v
  <2>1. LastRow(Pager, next, x, v)
    BY <1>1, <1>2 DEF EngineInv, AppendReady
  <2> QED BY <2>1 DEF LastRow, Last
<1>6. \A id : ~Logged(todo, id) /\ (Logged(todo', id) <=> id = x)
  BY <1>1, <1>2, LoggedDone DEF Logged
<1> HIDE DEF x, v
<1>7. \A id \in Ids : id = x => Value(id)' = v
  BY <1>2, <1>3, <1>4, <1>5, <1>6 DEF Value
<1>8. \A id \in Ids : id # x => Value(id)' = Value(id)
  BY <1>2, <1>3, <1>6 DEF Value
<1> QED BY <1>7, <1>8 DEF x, v

LEMMA EraseRowValue ==
    ASSUME DurableInv, EraseRow
    PROVE  \A id \in Ids : /\ id = todo[1].x => Value(id)' = NoVal
                           /\ id # todo[1].x => Value(id)' = Value(id)
<1> DEFINE x == todo[1].x
<1>1. ScanInv /\ EngineInv
  BY DEF DurableInv, ScanInv
<1>2. /\ todo # <<>> /\ todo[1].s = "erase_row" /\ Done /\ x \in Ids /\ Unindex(x)
      /\ UNCHANGED <<count, next, mode>>
  BY <1>1, StepFacts DEF EraseRow, IsNext, RowNames
<1>3. index[x] # NoEntry /\ index[x].page \in DOMAIN cached /\ ~Pending(todo)
  BY <1>1, <1>2 DEF EngineInv, EraseReady, EraseNames, Pending
<1>4. \A id : ~Logged(todo, id) /\ ~Logged(todo', id)
  BY <1>1, <1>2, LoggedDone DEF Logged
<1> HIDE DEF x
<1>5. /\ index'[x] = NoEntry
      /\ \A i \in Ids : i # x =>
           /\ index[i] = NoEntry <=> index'[i] = NoEntry
           /\ index[i] # NoEntry => RowAt(Pager', index'[i]) = RowAt(Pager, index[i])
  BY <1>1, <1>2, <1>3, UnindexScan
<1>6. \A id \in Ids : /\ id = x => Value(id)' = NoVal
                      /\ id # x => Value(id)' = Value(id)
  BY <1>4, <1>5 DEF Value
<1> QED BY <1>6 DEF x

LEMMA SyncValue ==
    ASSUME DurableInv, Sync
    PROVE  \A id \in Ids : Value(id)' = Value(id)
<1>1. ScanInv /\ EngineInv
  BY DEF DurableInv, ScanInv
<1>2. /\ todo # <<>> /\ todo[1].s = "sync" /\ Done
      /\ UNCHANGED <<disk, offs, lru, cached, next, index, mode>>
  BY <1>1, StepFacts DEF Sync, IsNext, pagerVars
<1>3. Pager' = Pager
  BY <1>2 DEF Pager
<1>4. \A id : Logged(todo', id) <=> Logged(todo, id)
  BY <1>1, <1>2, LoggedDone
<1> QED BY <1>2, <1>3, <1>4 DEF Value

LEMMA IndexRowValue ==
    ASSUME DurableInv, IndexRow
    PROVE  \A id \in Ids : Value(id)' = Value(id)
<1> DEFINE x == todo[1].x
           rows == RowsOf(Pager, next - 1)
           e == [page |-> next - 1, slot |-> Len(rows), off |-> (next - 1) \in offs]
<1>1. ScanInv /\ EngineInv
  BY DEF DurableInv, ScanInv
<1>2. /\ todo # <<>> /\ Head(todo).s = "index_row" /\ Done
      /\ UNCHANGED <<disk, offs, lru, cached, next, mode>>
      /\ index' = [index EXCEPT ![Head(todo).x] = e]
  BY DEF IndexRow, IsNext, files
<1>3. /\ todo[1].s = "index_row" /\ index' = [index EXCEPT ![x] = e] /\ x \in Ids
      /\ 1 \in 1..Len(todo) /\ Len(todo) > 0
  <2>1. Head(todo) = todo[1] /\ Len(todo) \in Nat \ {0} /\ (todo[1].s \in RowNames => todo[1].x \in Ids)
    BY <1>1, <1>2, StepFacts
  <2>2. todo[1].s = "index_row" /\ 1 \in 1..Len(todo) /\ Len(todo) > 0
    BY <1>2, <2>1
  <2>3. todo[1].x \in Ids
    BY <2>1, <2>2 DEF RowNames
  <2> HIDE DEF e
  <2> QED BY <1>2, <2>1, <2>2, <2>3
<1>4. Pager' = Pager
  BY <1>2 DEF Pager
<1>5. index[x] = NoEntry
  BY <1>1, <1>3 DEF ScanInv, Fresh, InsertNames
<1>6. index'[x] = e /\ \A id \in Ids : id # x => index'[id] = index[id]
  <2>1. index \in [Ids -> Entry \cup {NoEntry}]
    BY <1>1 DEF EngineInv, Types
  <2> HIDE DEF e
  <2> QED BY <1>3, <2>1
<1>7. e # NoEntry /\ RowAt(Pager, e) = rows[Len(rows)]
  <2>1. next \in Nat /\ next > 0 /\ next - 1 \in 0..next - 1 /\ Len(rows) > 0
    <3>1. LastRow(Pager, next, todo[1].x, todo[1].v)
      BY <1>1, <1>2, <1>3 DEF EngineInv, AppendReady
    <3> QED BY <1>1, <3>1, StepFacts DEF LastRow
  <2>2. Len(rows) \in Nat
    BY <1>1, <2>1, PageRows
  <2> HIDE DEF rows
  <2>3. e \in Entry
    BY <2>1, <2>2 DEF Entry
  <2> QED BY <2>3, NoEntryAssumption DEF RowAt, rows
<1>8. (\A id : Logged(todo, id) <=> id = x) /\ (\A id : ~Logged(todo', id))
  BY <1>1, <1>2, <1>3, LoggedDone DEF Logged
<1>9. rows = RowsOf(Pager, next - 1)
  OBVIOUS
<1> HIDE DEF x, e, rows
<1> SUFFICES ASSUME NEW id \in Ids PROVE Value(id)' = Value(id)
  OBVIOUS
<1>10. CASE id = x
  <2>1. Value(id) = rows[Len(rows)].val
    BY <1>5, <1>8, <1>9, <1>10 DEF Value
  <2>2. Value(id)' = RowAt(Pager, e).val
    BY <1>4, <1>6, <1>7, <1>10 DEF Value
  <2> QED BY <1>7, <2>1, <2>2
<1>11. CASE id # x
  BY <1>2, <1>4, <1>6, <1>8, <1>11 DEF Value
<1> QED BY <1>10, <1>11

----------------------------------------------------------------------------
(* The plan of a call, as far as it logs *)

\* One plan behind another.
LEMMA ConcatLogs ==
    ASSUME NEW a \in Seq(StepType), NEW b \in Seq(StepType), NEW f
    PROVE  /\ \A id : Logs(a, id) \/ Logs(b, id) => Logs(a \o b, id)
           /\ LoggedAgain(a, f) /\ LoggedAgain(b, f) => LoggedAgain(a \o b, f)
           /\ NoSync(a) /\ NoSync(b) => NoSync(a \o b)
<1> DEFINE c == a \o b
           n == Len(a)
           m == Len(b)
<1>1. /\ c \in Seq(StepType) /\ Len(c) = n + m /\ n \in Nat /\ m \in Nat
      /\ \A i \in 1..n : c[i] = a[i]
      /\ \A i \in 1..m : c[n + i] = b[i]
      /\ \A i \in 1..n + m : i \in 1..n \/ \E j \in 1..m : i = n + j
  BY ConcatNames
<1>2. Len(a) = n /\ Len(b) = m
  OBVIOUS
<1> HIDE DEF c, n, m
<1>3. (\A i \in 1..n : i \in 1..Len(c)) /\ (\A i \in 1..m : n + i \in 1..Len(c))
  BY <1>1
<1>4. \A id : Logs(a, id) \/ Logs(b, id) => Logs(c, id)
  BY <1>1, <1>2, <1>3 DEF Logs, LogsRow
<1>5. ASSUME LoggedAgain(a, f), LoggedAgain(b, f) PROVE LoggedAgain(c, f)
  <2> SUFFICES ASSUME NEW i \in 1..Len(c), c[i].s = "erase_row",
                      ~\E k \in DOMAIN f : f[k].id = c[i].x /\ f[k].val = NoVal
               PROVE  \E j \in i + 1..Len(c) : c[j].s = "log_insert" /\ c[j].x = c[i].x
    BY DEF LoggedAgain
  <2>1. CASE i \in 1..n
    <3>1. c[i] = a[i] /\ i \in 1..Len(a)
      BY <1>1, <1>2, <2>1
    <3>2. PICK j \in i + 1..Len(a) : a[j].s = "log_insert" /\ a[j].x = a[i].x
      BY <1>5, <3>1 DEF LoggedAgain
    <3>3. j \in 1..n /\ j \in i + 1..Len(c)
      BY <1>1, <1>2, <2>1
    <3>4. c[j] = a[j]
      BY <1>1, <3>3
    <3> QED BY <3>1, <3>2, <3>3, <3>4
  <2>2. ASSUME NEW p \in 1..m, i = n + p
        PROVE  \E j \in i + 1..Len(c) : c[j].s = "log_insert" /\ c[j].x = c[i].x
    <3>1. c[i] = b[p]
      BY <1>1, <2>2
    <3>2. PICK j \in p + 1..m : b[j].s = "log_insert" /\ b[j].x = b[p].x
      BY <1>2, <1>5, <3>1 DEF LoggedAgain
    <3>3. j \in 1..m /\ n + j \in i + 1..Len(c)
      BY <1>1, <2>2
    <3>4. c[n + j] = b[j]
      BY <1>1, <3>3
    <3> QED BY <3>1, <3>2, <3>3, <3>4
  <2> QED BY <1>1, <2>1, <2>2
<1>6. ASSUME NoSync(a), NoSync(b), NEW i \in 1..Len(c) PROVE c[i].s # "sync"
  <2>1. CASE i \in 1..n
    BY <1>1, <1>2, <1>6, <2>1 DEF NoSync
  <2>2. ASSUME NEW p \in 1..m, i = n + p PROVE c[i].s # "sync"
    <3>1. c[i] = b[p]
      BY <1>1, <2>2
    <3> QED BY <1>2, <1>6, <3>1 DEF NoSync
  <2> QED BY <1>1, <2>1, <2>2
<1>7. NoSync(a) /\ NoSync(b) => NoSync(c)
  BY <1>6 DEF NoSync
<1> QED BY <1>4, <1>5, <1>7 DEF c

\* The plan of a row of the call.
RowLogged(t, f, k) ==
    t \in Seq(StepType) /\ Logs(t, f[k].id) /\ LoggedAgain(t, f) /\ NoSync(t)

LEMMA InsertLogged ==
    ASSUME NEW row \in Row, NEW f, NEW k \in DOMAIN f, f[k] = row
    PROVE  RowLogged(InsertSteps(row, FALSE), f, k)
<1> DEFINE t == InsertSteps(row, FALSE)
           x == row.id
           v == row.val
<1>1. /\ t \in Seq(StepType) /\ Len(t) = 4
      /\ t[1].s = "touch_last"
      /\ t[2] = Step("append_row", x, v) /\ t[3] = Step("log_insert", x, v)
      /\ t[4] = Step("index_row", x, v)
  BY InsertElems
<1>2. f[k].id = x
  OBVIOUS
<1> HIDE DEF t, x, v
<1>3. \A i \in 1..Len(t) : i = 1 \/ i = 2 \/ i = 3 \/ i = 4
  BY <1>1
<1>4. \A i \in 1..Len(t) : t[i].s \in {"touch_last", "append_row", "log_insert", "index_row"}
  BY <1>1, <1>3 DEF Step
<1>5. 3 \in 1..Len(t) /\ t[3].s = "log_insert" /\ t[3].x = x
  BY <1>1 DEF Step
<1>6. RowLogged(t, f, k)
  BY <1>1, <1>2, <1>4, <1>5 DEF RowLogged, Logs, LogsRow, LoggedAgain, NoSync
<1> QED BY <1>6 DEF t

LEMMA EraseElems ==
    ASSUME NEW row, row.id \in Ids
    PROVE  LET t == EraseSteps(row)
           IN  /\ t \in Seq(StepType) /\ Len(t) = 2
               /\ t[1].s = "touch_row" /\ t[2].s = "erase_row" /\ t[2].x = row.id
               /\ \A i \in 1..Len(t) : i = 1 \/ i = 2
               /\ 2 \in 1..Len(t)
<1> DEFINE t == EraseSteps(row)
           x == row.id
<1>1. /\ t \in Seq(StepType) /\ Len(t) = 2
      /\ t[1] = Step("touch_row", x, NoVal) /\ t[2] = Step("erase_row", x, NoVal)
  BY DEF EraseSteps, Step, StepType, StepNames
<1> HIDE DEF t
<1>2. t[1].s = "touch_row" /\ t[2].s = "erase_row" /\ t[2].x = x
  BY <1>1 DEF Step
<1>3. 2 \in 1..Len(t) /\ \A i \in 1..Len(t) : i = 1 \/ i = 2
  BY <1>1
<1> QED BY <1>1, <1>2, <1>3 DEF t

LEMMA EraseLogged ==
    ASSUME NEW row, row.id \in Ids, row.val = NoVal, NEW f, NEW k \in DOMAIN f, f[k] = row
    PROVE  RowLogged(EraseSteps(row), f, k)
<1> DEFINE t == EraseSteps(row)
           x == row.id
<1>1. /\ t \in Seq(StepType) /\ Len(t) = 2
      /\ t[1].s = "touch_row" /\ t[2].s = "erase_row" /\ t[2].x = x
      /\ 2 \in 1..Len(t) /\ \A i \in 1..Len(t) : i = 1 \/ i = 2
  BY EraseElems
<1>2. f[k].id = x /\ f[k].val = NoVal
  OBVIOUS
<1> HIDE DEF t, x
<1>3. NoSync(t)
  BY <1>1 DEF NoSync
<1>4. LoggedAgain(t, f)
  BY <1>1, <1>2 DEF LoggedAgain
<1>5. RowLogged(t, f, k)
  BY <1>1, <1>2, <1>3, <1>4 DEF RowLogged, Logs, LogsRow
<1> QED BY <1>5 DEF t

LEMMA UpdateLogged ==
    ASSUME NEW row \in Row, NEW f, NEW k \in DOMAIN f, f[k] = row
    PROVE  RowLogged(EraseSteps(row) \o InsertSteps(row, FALSE), f, k)
<1> DEFINE a == EraseSteps(row)
           b == InsertSteps(row, FALSE)
           x == row.id
           c == a \o b
<1>1. /\ a \in Seq(StepType) /\ Len(a) = 2
      /\ a[1].s = "touch_row" /\ a[2].s = "erase_row" /\ a[2].x = x
      /\ 2 \in 1..Len(a) /\ \A i \in 1..Len(a) : i = 1 \/ i = 2
  <2>1. row.id \in Ids
    BY DEF Row
  <2> QED BY <2>1, EraseElems
<1>2. RowLogged(b, f, k)
  BY InsertLogged
<1>3. /\ Len(b) = 4 /\ b[3].s = "log_insert" /\ b[3].x = x
      /\ Names(b) \subseteq {"touch_last", "append_row", "log_insert", "sync", "index_row"}
  <2>1. Len(b) = 4 /\ b[3] = Step("log_insert", row.id, row.val)
    BY InsertElems
  <2>2. Names(b) \subseteq {"touch_last", "append_row", "log_insert", "sync", "index_row"}
    BY InsertBlock
  <2> HIDE DEF b
  <2> QED BY <2>1, <2>2 DEF Step
<1>4. f[k].id = x
  OBVIOUS
<1> HIDE DEF a, b, x
<1>5. /\ c \in Seq(StepType) /\ Len(c) = 2 + 4
      /\ \A i \in 1..2 : c[i] = a[i]
      /\ \A i \in 1..4 : c[2 + i] = b[i]
      /\ \A i \in 1..2 + 4 : i \in 1..2 \/ \E j \in 1..4 : i = 2 + j
      /\ \A id : Logs(a, id) \/ Logs(b, id) => Logs(c, id)
      /\ NoSync(a) /\ NoSync(b) => NoSync(c)
  <2>1. b \in Seq(StepType)
    BY <1>2 DEF RowLogged
  <2>2. /\ c \in Seq(StepType) /\ Len(c) = Len(a) + Len(b)
        /\ \A i \in 1..Len(a) : c[i] = a[i]
        /\ \A i \in 1..Len(b) : c[Len(a) + i] = b[i]
        /\ \A i \in 1..Len(a) + Len(b) : i \in 1..Len(a) \/ \E j \in 1..Len(b) : i = Len(a) + j
    BY <1>1, <2>1, ConcatNames
  <2>3. /\ \A id : Logs(a, id) \/ Logs(b, id) => Logs(c, id)
        /\ NoSync(a) /\ NoSync(b) => NoSync(c)
    BY <1>1, <2>1, ConcatLogs
  <2> HIDE DEF c
  <2>4. Len(a) = 2 /\ Len(b) = 4
    BY <1>1, <1>3
  <2> QED BY <2>2, <2>3, <2>4
<1>6. NoSync(a)
  BY <1>1 DEF NoSync
<1> HIDE DEF c
<1>7. LoggedAgain(c, f)
  <2> SUFFICES ASSUME NEW i \in 1..Len(c), c[i].s = "erase_row"
               PROVE  \E j \in i + 1..Len(c) : c[j].s = "log_insert" /\ c[j].x = c[i].x
    BY DEF LoggedAgain
  <2>1. \A j \in 1..4 : b[j].s # "erase_row"
    BY <1>3 DEF Names
  <2>2. i \in 1..2
    BY <1>5, <2>1
  <2>3. i = 2 /\ c[i].x = x
    BY <1>1, <1>5, <2>2
  <2>4. 3 \in 1..4 /\ 5 \in i + 1..Len(c) /\ 2 + 3 = 5
    BY <1>5, <2>3
  <2>5. c[5] = b[3]
    BY <1>5, <2>4
  <2> QED BY <1>3, <2>3, <2>4, <2>5
<1>8. RowLogged(c, f, k)
  BY <1>2, <1>5, <1>6, <1>7 DEF RowLogged
<1> QED BY <1>8 DEF c, a, b

\* The plan of the call.
CallLogged(t, f) ==
    /\ \A k \in DOMAIN f : Logs(t, f[k].id)
    /\ LoggedAgain(t, f) /\ SyncEnds(t) /\ t # <<>>
    /\ \E i \in 1..Len(t) : t[i].s = "sync"

LEMMA FlattenLogged ==
    ASSUME NEW n \in {1, 2}, NEW s, Len(s) = n, NEW f, DOMAIN f = 1..n,
           \A i \in 1..n : RowLogged(s[i], f, i)
    PROVE  CallLogged(FlattenSeq(s) \o <<Do("sync")>>, f)
<1> DEFINE u == FlattenSeq(s)
           w == <<Do("sync")>>
           t == u \o w
<1>1. u = IF n = 1 THEN s[1] ELSE s[1] \o s[2]
  BY FlattenFacts
<1>2. w \in Seq(StepType) /\ Len(w) = 1 /\ w[1].s = "sync"
  BY DEF Do, Step, StepType, StepNames
<1> HIDE DEF u, w
<1>3. \A i \in 1..Len(w) : i = 1
  BY <1>2
<1>4. LoggedAgain(w, f)
  BY <1>2, <1>3 DEF LoggedAgain
<1>5. u \in Seq(StepType) /\ LoggedAgain(u, f) /\ NoSync(u) /\ \A k \in DOMAIN f : Logs(u, f[k].id)
  <2>1. CASE n = 1
    BY <1>1, <2>1 DEF RowLogged
  <2>2. CASE n = 2
    <3> DEFINE a == s[1]
               b == s[2]
    <3>1. RowLogged(a, f, 1) /\ RowLogged(b, f, 2) /\ u = a \o b /\ \A k \in DOMAIN f : k = 1 \/ k = 2
      BY <1>1, <2>2
    <3> HIDE DEF a, b
    <3>2. a \in Seq(StepType) /\ b \in Seq(StepType)
      BY <3>1 DEF RowLogged
    <3>3. u \in Seq(StepType)
      BY <3>1, <3>2, ConcatNames
    <3> QED BY <3>1, <3>2, <3>3, ConcatLogs DEF RowLogged
  <2> QED BY <2>1, <2>2
<1>6. (\A k \in DOMAIN f : Logs(t, f[k].id)) /\ LoggedAgain(t, f)
  BY <1>2, <1>4, <1>5, ConcatLogs
<1>7. /\ t \in Seq(StepType) /\ Len(t) = Len(u) + 1 /\ Len(u) \in Nat
      /\ \A i \in 1..Len(u) : t[i] = u[i]
      /\ \A i \in 1..Len(w) : t[Len(u) + i] = w[i]
  <2>1. /\ t \in Seq(StepType) /\ Len(t) = Len(u) + Len(w) /\ Len(u) \in Nat
        /\ \A i \in 1..Len(u) : t[i] = u[i]
        /\ \A i \in 1..Len(w) : t[Len(u) + i] = w[i]
    BY <1>2, <1>5, ConcatNames
  <2> HIDE DEF t
  <2> QED BY <1>2, <2>1
<1> HIDE DEF t
<1>8. 1 \in 1..Len(w)
  BY <1>2
<1>9. t[Len(t)].s = "sync" /\ Len(t) \in 1..Len(t)
  BY <1>2, <1>7, <1>8
<1>10. \A i, j \in 1..Len(t) : i < j => i \in 1..Len(u)
  BY <1>7
<1>11. SyncEnds(t)
  BY <1>5, <1>7, <1>10 DEF SyncEnds, NoSync
<1>12. t # <<>>
  BY <1>7
<1>13. CallLogged(t, f)
  BY <1>6, <1>9, <1>11, <1>12 DEF CallLogged
<1> QED BY <1>13 DEF t, u, w

LEMMA CallLogs ==
    ASSUME NEW c \in Calls, CallOK(c)
    PROVE  CallLogged(StepsOf(c), c.rows) /\ CallOf(c)
<1> DEFINE f == c.rows
<1>1. PICK n \in {1, 2} :
        /\ DOMAIN f = 1..n
        /\ c.k \in {"insert", "erase", "update"} => n = 1
        /\ \A i \in 1..n : /\ f[i].id \in Ids
                           /\ c.k \notin {"erase", "erase_batch"} => f[i] \in Row
  BY CallFacts
<1>2. /\ \A i, j \in DOMAIN f : i # j => f[i].id # f[j].id
      /\ \A i \in DOMAIN f : f[i].val = NoVal <=> c.k \in {"erase", "erase_batch"}
  BY DEF CallOK
<1>3. c.k \in Kinds
  BY CallFacts
<1>4. CallOf(c)
  <2>1. \A i \in DOMAIN f : f[i].id \in Ids /\ f[i].val \in Vals \cup {NoVal}
    BY <1>1, <1>2 DEF Row
  <2>2. Table!IsCall(c)
    BY <1>3, <2>1 DEF Table!IsCall, Kinds, Table!Kinds
  <2> QED BY <1>2, <2>2 DEF CallOf
<1> HIDE DEF f
<1>5. CASE c.k = "insert"
  <2> DEFINE t == InsertSteps(f[1], TRUE)
  <2>1. StepsOf(c) = t
    BY <1>5 DEF StepsOf, f
  <2>2. f[1] \in Row /\ \A k \in DOMAIN f : k = 1
    BY <1>1, <1>5
  <2>3. /\ t \in Seq(StepType) /\ Len(t) = 5 /\ t[1].s = "touch_last"
        /\ t[2] = Step("append_row", f[1].id, f[1].val) /\ t[3] = Step("log_insert", f[1].id, f[1].val)
        /\ t[4].s = "sync" /\ t[5] = Step("index_row", f[1].id, f[1].val)
    BY <2>2, InsertElems
  <2> HIDE DEF t
  <2>4. \A i \in 1..Len(t) : i = 1 \/ i = 2 \/ i = 3 \/ i = 4 \/ i = 5
    BY <2>3
  <2>5. /\ t[2].s = "append_row" /\ t[3].s = "log_insert" /\ t[3].x = f[1].id /\ t[5].s = "index_row"
        /\ 3 \in 1..Len(t) /\ 4 \in 1..Len(t) /\ t # <<>>
    <3>1. /\ t[2].s = "append_row" /\ t[3].s = "log_insert" /\ t[3].x = f[1].id /\ t[5].s = "index_row"
      BY <2>3 DEF Step
    <3>2. 3 \in 1..Len(t) /\ 4 \in 1..Len(t) /\ t # <<>>
      BY <2>3
    <3> QED BY <3>1, <3>2
  <2>6. SyncEnds(t)
    <3> SUFFICES ASSUME NEW i \in 1..Len(t), NEW j \in 1..Len(t), t[i].s = "sync", i < j
                 PROVE  t[j].s = "index_row"
      BY DEF SyncEnds
    <3>1. i = 4
      BY <2>3, <2>4, <2>5
    <3>2. j = 5
      BY <2>4, <3>1
    <3> QED BY <2>5, <3>2
  <2>7. LoggedAgain(t, f)
    BY <2>3, <2>4, <2>5 DEF LoggedAgain
  <2> QED BY <1>4, <2>1, <2>2, <2>3, <2>5, <2>6, <2>7 DEF f, CallLogged, Logs, LogsRow
<1>6. CASE c.k = "insert_batch"
  <2> DEFINE s == [i \in 1..n |-> InsertSteps(f[i], FALSE)]
  <2>1. StepsOf(c) = FlattenSeq(s) \o <<Do("sync")>>
    BY <1>1, <1>6 DEF StepsOf, f
  <2>2. Len(s) = n
    OBVIOUS
  <2>3. ASSUME NEW i \in 1..n PROVE RowLogged(s[i], f, i)
    <3>1. s[i] = InsertSteps(f[i], FALSE) /\ f[i] \in Row
      BY <1>1, <1>6
    <3> HIDE DEF s
    <3> QED BY <1>1, <3>1, InsertLogged
  <2> HIDE DEF s
  <2> QED BY <1>1, <1>4, <2>1, <2>2, <2>3, FlattenLogged DEF f
<1>7. CASE c.k \in {"erase", "erase_batch"}
  <2> DEFINE s == [i \in 1..n |-> EraseSteps(f[i])]
  <2>1. StepsOf(c) = FlattenSeq(s) \o <<Do("sync")>>
    BY <1>1, <1>7 DEF StepsOf, f
  <2>2. Len(s) = n
    OBVIOUS
  <2>3. ASSUME NEW i \in 1..n PROVE RowLogged(s[i], f, i)
    <3>1. s[i] = EraseSteps(f[i]) /\ f[i].id \in Ids /\ f[i].val = NoVal
      BY <1>1, <1>2, <1>7
    <3> HIDE DEF s
    <3> QED BY <1>1, <3>1, EraseLogged
  <2> HIDE DEF s
  <2> QED BY <1>1, <1>4, <2>1, <2>2, <2>3, FlattenLogged DEF f
<1>8. CASE c.k \in {"update", "update_batch"}
  <2> DEFINE s == [i \in 1..n |-> EraseSteps(f[i]) \o InsertSteps(f[i], FALSE)]
  <2>1. StepsOf(c) = FlattenSeq(s) \o <<Do("sync")>>
    BY <1>1, <1>8 DEF StepsOf, f
  <2>2. Len(s) = n
    OBVIOUS
  <2>3. ASSUME NEW i \in 1..n PROVE RowLogged(s[i], f, i)
    <3>1. s[i] = EraseSteps(f[i]) \o InsertSteps(f[i], FALSE) /\ f[i] \in Row
      BY <1>1, <1>8
    <3> HIDE DEF s
    <3> QED BY <1>1, <3>1, UpdateLogged
  <2> HIDE DEF s
  <2> QED BY <1>1, <1>4, <2>1, <2>2, <2>3, FlattenLogged DEF f
<1> QED BY <1>3, <1>5, <1>6, <1>7, <1>8 DEF Kinds

----------------------------------------------------------------------------
(* Steps of the engine as steps of the table *)

\* The rest of the plan.
LEMMA DonePlan ==
    ASSUME ScanInv, PlanOfCall, todo # <<>>, Done
    PROVE  PlanOfCall'
<1> SUFFICES ASSUME call' # NoCall
             PROVE  /\ todo' # <<>> /\ Names(todo') \subseteq CallNames
                    /\ CallOf(call') /\ SyncEnds(todo') /\ LoggedAgain(todo', call'.rows)
  BY DEF PlanOfCall, CallOf, Table!IsCall, SyncEnds, LoggedAgain, Names
<1>1. /\ Len(todo) \in Nat \ {0} /\ Len(todo') = Len(todo) - 1
      /\ \A i \in 1..Len(todo') : todo'[i] = todo[i + 1] /\ i + 1 \in 1..Len(todo)
  BY RestFacts
<1>2. call' = call /\ call # NoCall /\ Len(todo) # 1
  BY DEF Done
<1>3. Names(todo) \subseteq CallNames /\ CallOf(call) /\ SyncEnds(todo) /\ LoggedAgain(todo, call.rows)
  BY <1>2 DEF PlanOfCall
<1>4. todo' # <<>>
  <2>1. Len(todo') # 0
    BY <1>1, <1>2
  <2> QED BY <2>1
<1>5. Names(todo') \subseteq CallNames
  BY <1>1, <1>3 DEF Names
<1>6. \A i, j \in 1..Len(todo') : i < j => i + 1 < j + 1
  BY <1>1
<1>7. SyncEnds(todo')
  BY <1>1, <1>3, <1>6 DEF SyncEnds
<1>8. ASSUME NEW i \in 1..Len(todo'), todo'[i].s = "erase_row",
             ~\E k \in DOMAIN call.rows : call.rows[k].id = todo'[i].x /\ call.rows[k].val = NoVal
      PROVE  \E j \in i + 1..Len(todo') : todo'[j].s = "log_insert" /\ todo'[j].x = todo'[i].x
  <2>1. PICK j \in i + 1 + 1..Len(todo) : todo[j].s = "log_insert" /\ todo[j].x = todo[i + 1].x
    BY <1>1, <1>3, <1>8 DEF LoggedAgain
  <2>2. j - 1 \in i + 1..Len(todo') /\ j - 1 \in 1..Len(todo') /\ (j - 1) + 1 = j
    BY <1>1
  <2> QED BY <1>1, <2>1, <2>2
<1>9. LoggedAgain(todo', call.rows)
  BY <1>8 DEF LoggedAgain
<1> QED BY <1>2, <1>3, <1>4, <1>5, <1>7, <1>9

\* A step changes the value of the row that it logs, and that row has the value of the call
\* or a step ahead.
StepValue ==
    \A id \in Ids :
        /\ ~LogsRow(todo, 1, id) => Value(id)' = Value(id)
        /\ LogsRow(todo, 1, id) =>
             \A k \in DOMAIN call.rows : call.rows[k].id = id =>
                Logs(todo', id) \/ Value(id)' = call.rows[k].val

LEMMA DoneProgress ==
    ASSUME ScanInv, PlanOfCall, Progress, todo # <<>>, Done, call # NoCall => StepValue
    PROVE  Progress'
<1> SUFFICES ASSUME Unsynced', NEW k \in DOMAIN call'.rows
             PROVE  (Logs(todo, call.rows[k].id) \/ Value(call.rows[k].id) = call.rows[k].val)'
  BY DEF Progress
<1>1. /\ Len(todo) \in Nat \ {0} /\ Len(todo') = Len(todo) - 1
      /\ \A i \in 1..Len(todo') : todo'[i] = todo[i + 1] /\ i + 1 \in 1..Len(todo)
  BY RestFacts
<1>2. call' = call /\ call # NoCall /\ Unsynced /\ k \in DOMAIN call.rows
  BY <1>1 DEF Unsynced, Done
<1>3. call.rows[k].id \in Ids
  BY <1>2 DEF PlanOfCall, CallOf, Table!IsCall
<1>4. PICK id \in Ids : id = call.rows[k].id
  BY <1>3
<1>5. Logs(todo, id) \/ Value(id) = call.rows[k].val
  BY <1>2, <1>4 DEF Progress
<1>6. \A i \in 1..Len(todo) : i = 1 \/ (i - 1 \in 1..Len(todo') /\ (i - 1) + 1 = i)
  BY <1>1
<1>7. ASSUME Logs(todo, id), ~LogsRow(todo, 1, id) PROVE Logs(todo', id)
  <2>1. PICK i \in 1..Len(todo) : LogsRow(todo, i, id)
    BY <1>7 DEF Logs
  <2>2. i - 1 \in 1..Len(todo') /\ (i - 1) + 1 = i
    BY <1>6, <1>7, <2>1
  <2>3. todo'[i - 1] = todo[i]
    BY <1>1, <2>2
  <2> QED BY <2>1, <2>2, <2>3 DEF Logs, LogsRow
<1>8. Logs(todo', id) \/ Value(id)' = call.rows[k].val
  BY <1>2, <1>4, <1>5, <1>7 DEF StepValue
<1> QED BY <1>2, <1>4, <1>8

\* A step that logs nothing.
LEMMA QuietTable ==
    ASSUME ScanInv, PlanOfCall, Progress, todo # <<>>, Done, \A id \in Ids : Value(id)' = Value(id),
           todo[1].s \notin {"erase_row", "log_insert"}
    PROVE  PlanOfCall' /\ Progress'
<1>1. StepValue
  BY DEF StepValue, LogsRow
<1> QED BY <1>1, DonePlan, DoneProgress

LEMMA LogInsertTable ==
    ASSUME TableInv, LogInsert
    PROVE  PlanOfCall' /\ Progress'
<1>1. DurableInv /\ ScanInv /\ EngineInv /\ CallSteps /\ PlanOfCall /\ Progress
  BY DEF TableInv, ChangeInv, DurableInv, ScanInv
<1>2. todo # <<>> /\ todo[1].s = "log_insert" /\ Done /\ 1 \in 1..Len(todo)
  BY <1>1, StepFacts DEF LogInsert, IsNext
<1>3. \A id \in Ids : /\ id = todo[1].x => Value(id)' = todo[1].v
                      /\ id # todo[1].x => Value(id)' = Value(id)
  BY <1>1, LogInsertValue
<1>4. OfCall(todo[1].x, todo[1].v)
  BY <1>1, <1>2 DEF CallSteps, ValueNames
<1>5. \A k \in DOMAIN call.rows : call.rows[k].id = todo[1].x => call.rows[k].val = todo[1].v
  BY <1>1, <1>4 DEF OfCall, PlanOfCall, CallOf
<1>6. StepValue
  BY <1>2, <1>3, <1>5 DEF StepValue, LogsRow
<1> QED BY <1>1, <1>2, <1>6, DonePlan, DoneProgress

LEMMA EraseRowTable ==
    ASSUME TableInv, EraseRow
    PROVE  PlanOfCall' /\ Progress'
<1>1. DurableInv /\ ScanInv /\ EngineInv /\ CallSteps /\ PlanOfCall /\ Progress
  BY DEF TableInv, ChangeInv, DurableInv, ScanInv
<1>2. todo # <<>> /\ todo[1].s = "erase_row" /\ Done /\ 1 \in 1..Len(todo)
  BY <1>1, StepFacts DEF EraseRow, IsNext
<1>3. \A id \in Ids : /\ id = todo[1].x => Value(id)' = NoVal
                      /\ id # todo[1].x => Value(id)' = Value(id)
  BY <1>1, EraseRowValue
<1>4. /\ Len(todo) \in Nat \ {0} /\ Len(todo') = Len(todo) - 1
      /\ \A i \in 1..Len(todo') : todo'[i] = todo[i + 1] /\ i + 1 \in 1..Len(todo)
  BY <1>1, <1>2, RestFacts
<1>5. ASSUME call # NoCall, NEW k \in DOMAIN call.rows, call.rows[k].id = todo[1].x
      PROVE  Logs(todo', todo[1].x) \/ call.rows[k].val = NoVal
  <2>1. CASE \E m \in DOMAIN call.rows : call.rows[m].id = todo[1].x /\ call.rows[m].val = NoVal
    BY <1>1, <1>5, <2>1 DEF PlanOfCall, CallOf
  <2>2. CASE \E j \in 1 + 1..Len(todo) : todo[j].s = "log_insert" /\ todo[j].x = todo[1].x
    <3>1. PICK j \in 1 + 1..Len(todo) : todo[j].s = "log_insert" /\ todo[j].x = todo[1].x
      BY <2>2
    <3>2. j - 1 \in 1..Len(todo') /\ (j - 1) + 1 = j
      BY <1>4
    <3> QED BY <1>4, <3>1, <3>2 DEF Logs, LogsRow
  <2> QED BY <1>1, <1>2, <1>5, <2>1, <2>2 DEF PlanOfCall, LoggedAgain
<1>6. call # NoCall => StepValue
  BY <1>2, <1>3, <1>5 DEF StepValue, LogsRow
<1> QED BY <1>1, <1>2, <1>6, DonePlan, DoneProgress

\* Without a call in progress there is none behind a step that begins none.
LEMMA NoCallTable ==
    ASSUME call' = NoCall
    PROVE  PlanOfCall' /\ Progress'
BY DEF PlanOfCall, Progress, Unsynced

\* The steps of a call are its own.
LEMMA OnlyCallSteps ==
    ASSUME TableInv, call # NoCall
    PROVE  /\ todo # <<>> /\ \A s : IsNext(s) => s \in CallNames
           /\ ~Idle /\ ~MaintenanceStep /\ ~Opened /\ ~Recover
<1>1. EngineInv /\ todo # <<>> /\ Names(todo) \subseteq CallNames
  BY DEF TableInv, ChangeInv, DurableInv, ScanInv, PlanOfCall
<1>2. Head(todo) = todo[1] /\ Len(todo) \in Nat \ {0}
  BY <1>1, StepFacts
<1>3. 1 \in 1..Len(todo)
  BY <1>2
<1>4. Head(todo).s \in CallNames
  BY <1>1, <1>2, <1>3 DEF Names
<1>5. \A s : IsNext(s) => s \in CallNames
  BY <1>4 DEF IsNext
<1>6. ~MaintenanceStep /\ ~Opened
  BY <1>5 DEF CallNames, MaintenanceStep, VisitPage, SetIndex, FlushPage, WriteHeader, ClearWal,
              CloseFiles, Opened
<1> QED BY <1>1, <1>5, <1>6 DEF Idle, Recover

LEMMA BeginTable ==
    ASSUME NEW c \in Calls, TableInv, Begin(c)
    PROVE  PlanOfCall' /\ Progress'
<1>1. CallOK(c) /\ todo' = StepsOf(c) /\ call' = c
  BY DEF Begin
<1>2. CallLogged(todo', call'.rows) /\ CallOf(call') /\ Names(todo') \subseteq CallNames
  BY <1>1, CallLogs, CallBlock
<1>3. PlanOfCall'
  BY <1>2 DEF PlanOfCall, CallLogged, CallOf, Table!IsCall, SyncEnds, LoggedAgain, Names
<1>4. Progress'
  BY <1>2 DEF Progress, CallLogged
<1> QED BY <1>3, <1>4

LEMMA NextTable ==
    ASSUME Undisturbed, TableInv, [Next]_vars
    PROVE  TableInv'
<1>1. DurableInv /\ ScanInv /\ EngineInv /\ ChangeInv /\ PlanOfCall /\ Progress
  BY DEF TableInv, ChangeInv, DurableInv, ScanInv
<1>2. ChangeInv'
  BY <1>1, NextChange
<1> SUFFICES PlanOfCall' /\ Progress'
  BY <1>2 DEF TableInv
<1>3. ASSUME NEW c \in Calls, Begin(c) PROVE PlanOfCall' /\ Progress'
  BY <1>3, BeginTable
<1>4. CASE TouchLast \/ AppendRow \/ TouchRow
  <2>1. MovesPages
    BY <1>1, <1>4, TouchLastQuiet, AppendRowQuiet, TouchRowQuiet
  <2>2. /\ todo # <<>> /\ Done
        /\ todo[1].s \in {"touch_last", "append_row", "touch_row", "visit_page", "flush_page", "set_index", "opened"}
    BY <2>1 DEF MovesPages
  <2> QED BY <1>1, <2>1, <2>2, MovesValue, QuietTable
<1>5. CASE Sync \/ IndexRow
  <2>1. \A id \in Ids : Value(id)' = Value(id)
    BY <1>1, <1>5, SyncValue, IndexRowValue
  <2>2. todo # <<>> /\ Done /\ todo[1].s \in {"sync", "index_row"}
    BY <1>1, <1>5, StepFacts DEF Sync, IndexRow, IsNext
  <2> QED BY <1>1, <2>1, <2>2, QuietTable
<1>6. CASE LogInsert \/ EraseRow
  BY <1>6, LogInsertTable, EraseRowTable
<1>7. CASE LogFails \/ Crash
  <2>1. ~mode.crash /\ ~mode.fail
    BY <1>1, StepFacts DEF Undisturbed
  <2> QED BY <1>7, <2>1 DEF LogFails, Crash
<1>8. CASE UNCHANGED vars
  <2>1. UNCHANGED <<todo, call, index, next>> /\ Pager' = Pager
    BY <1>8 DEF vars, Pager
  <2>2. PlanOfCall'
    BY <1>1, <2>1 DEF PlanOfCall, CallOf, Table!IsCall, SyncEnds, LoggedAgain, Names
  <2>3. Progress'
    BY <1>1, <2>1 DEF Progress, Unsynced, Logs, LogsRow, Value, Logged
  <2> QED BY <2>2, <2>3
<1>9. CASE (\E pid \in 0..MaxPages : Read(pid)) \/ CreateIndex \/ DropIndex \/ Checkpoint \/ Close
           \/ MaintenanceStep \/ Opened \/ Recover
  <2>1. call = NoCall
    BY <1>9, OnlyCallSteps DEF Read, CreateIndex, DropIndex, Checkpoint, Close
  <2>2. call' = NoCall
    BY <1>9, <2>1 DEF Read, CreateIndex, DropIndex, Checkpoint, Close, MaintenanceStep, VisitPage,
          SetIndex, FlushPage, WriteHeader, ClearWal, CloseFiles, Opened, Recover, Done
  <2> QED BY <2>2, NoCallTable
<1> QED BY <1>1, <1>3, <1>4, <1>5, <1>6, <1>7, <1>8, <1>9, NoReplay DEF Next, CallStep, RecoveryStep

LEMMA InitTable == Init => TableInv
<1> SUFFICES ASSUME Init PROVE TableInv
  OBVIOUS
<1>1. call = NoCall
  BY DEF Init
<1> QED BY <1>1, InitChange DEF TableInv, PlanOfCall, Progress, Unsynced

\* The call that has not taken effect.
LEMMA PendingIs ==
    ASSUME EngineInv
    PROVE  PendingCall = IF Unsynced THEN call ELSE NoCall
<1>1. DOMAIN todo = 1..Len(todo)
  BY DEF EngineInv, StepsOK
<1> QED BY <1>1 DEF PendingCall, Unsynced

\* A step that does not sync.
LEMMA PendingStays ==
    ASSUME ScanInv, ScanInv', todo # <<>>, Done, todo[1].s # "sync"
    PROVE  PendingCall' = PendingCall
<1>1. /\ Len(todo) \in Nat \ {0} /\ Len(todo') = Len(todo) - 1
      /\ \A i \in 1..Len(todo') : todo'[i] = todo[i + 1] /\ i + 1 \in 1..Len(todo)
  BY RestFacts
<1>2. \A i \in 1..Len(todo) : i = 1 \/ (i - 1 \in 1..Len(todo') /\ (i - 1) + 1 = i)
  BY <1>1
<1>3. (\E i \in 1..Len(todo) : todo[i].s = "sync") <=> (\E i \in 1..Len(todo') : todo'[i].s = "sync")
  <2>1. ASSUME NEW i \in 1..Len(todo), todo[i].s = "sync" PROVE \E j \in 1..Len(todo') : todo'[j].s = "sync"
    <3>1. i - 1 \in 1..Len(todo') /\ (i - 1) + 1 = i
      BY <1>2, <2>1
    <3>2. todo'[i - 1] = todo[i]
      BY <1>1, <3>1
    <3> QED BY <2>1, <3>1, <3>2
  <2>2. ASSUME NEW i \in 1..Len(todo'), todo'[i].s = "sync" PROVE \E j \in 1..Len(todo) : todo[j].s = "sync"
    BY <1>1, <2>2
  <2> QED BY <2>1, <2>2
<1>4. (\E i \in 1..Len(todo) : todo[i].s = "sync") => call' = call
  <2>1. Len(todo) = 1 => 1..Len(todo') = {}
    BY <1>1
  <2> QED BY <1>3, <2>1 DEF Done
<1>5. DOMAIN todo = 1..Len(todo) /\ DOMAIN todo' = 1..Len(todo')
  BY DEF ScanInv, EngineInv, StepsOK
<1> QED BY <1>3, <1>4, <1>5 DEF PendingCall

\* The sync is the step at which the call takes effect, as a whole.
LEMMA SyncCommits ==
    ASSUME TableInv, TableInv', Sync, call # NoCall
    PROVE  Table!Commit
<1>1. /\ DurableInv /\ DurableInv' /\ ScanInv /\ EngineInv /\ EngineInv' /\ CallRecords
      /\ PlanOfCall /\ Progress
  BY DEF TableInv, ChangeInv, DurableInv, ScanInv
<1>2. /\ todo # <<>> /\ todo[1].s = "sync" /\ Done /\ walBuf' = <<>> /\ open' = open /\ 1 \in 1..Len(todo)
  BY <1>1, StepFacts DEF Sync, sync, IsNext
<1>3. Unsynced
  BY <1>2 DEF Unsynced
<1>4. \A j \in 1..Len(todo) : j = 1 \/ todo[j].s = "index_row"
  <2>1. \A j \in 1..Len(todo) : j = 1 \/ 1 < j
    OBVIOUS
  <2> QED BY <1>1, <1>2, <2>1 DEF PlanOfCall, SyncEnds
<1>5. \A id : ~Logs(todo, id)
  BY <1>2, <1>4 DEF Logs, LogsRow
<1>6. \A k \in DOMAIN call.rows : Value(call.rows[k].id) = call.rows[k].val
  BY <1>1, <1>3, <1>5 DEF Progress
<1>7. ~Unsynced'
  <2>1. \A i \in 1..Len(todo') : todo'[i] = todo[i + 1] /\ i + 1 \in 2..Len(todo) /\ i + 1 \in 1..Len(todo)
    BY <1>1, <1>2, RestFacts
  <2>2. \A i \in 2..Len(todo) : i # 1
    OBVIOUS
  <2>3. \A i \in 1..Len(todo') : todo'[i].s = "index_row"
    BY <1>4, <2>1, <2>2
  <2> QED BY <2>3 DEF Unsynced
<1>8. PendingCall = call /\ PendingCall' = NoCall
  <2>1. PendingCall = call
    BY <1>1, <1>3, PendingIs
  <2>2. (PendingCall = IF Unsynced THEN call ELSE NoCall)'
    BY <1>1, PendingIs, PTL
  <2> QED BY <1>7, <2>1, <2>2
<1>9. ASSUME NEW id \in Ids PROVE Durable'[id] = Value(id)
  <2>1. open' \/ todo' # <<>>
    BY <1>1, <1>2, StillOpen
  <2>2. Silent(walBuf', id)
    BY <1>2 DEF Silent
  <2>3. (DurableInv /\ (open \/ todo # <<>>) /\ Silent(walBuf, id))'
    BY <1>1, <2>1, <2>2
  <2>4. (Durable[id] = Value(id))'
    BY <2>3, DurableValue, PTL
  <2> QED BY <1>1, <2>4, SyncValue
<1>10. ASSUME NEW id \in Ids PROVE Table!Effect(call, Durable)[id] = Value(id)
  <2>1. CASE \E i \in DOMAIN call.rows : call.rows[i].id = id
    <3> DEFINE i == CHOOSE i \in DOMAIN call.rows : call.rows[i].id = id
    <3>1. i \in DOMAIN call.rows /\ call.rows[i].id = id
      BY <2>1
    <3>2. Table!Effect(call, Durable)[id] = IF call.k \in {"erase", "erase_batch"} THEN NoVal ELSE call.rows[i].val
      BY <2>1 DEF Table!Effect
    <3> HIDE DEF i
    <3>3. call.rows[i].val = NoVal <=> call.k \in {"erase", "erase_batch"}
      BY <1>1, <3>1 DEF PlanOfCall, CallOf
    <3> QED BY <1>6, <3>1, <3>2, <3>3
  <2>2. CASE ~\E i \in DOMAIN call.rows : call.rows[i].id = id
    <3>1. Table!Effect(call, Durable)[id] = Durable[id]
      BY <2>2 DEF Table!Effect
    <3>2. Silent(walBuf, id)
      BY <1>1, <2>2 DEF CallRecords, InCall, Silent
    <3>3. Durable[id] = Value(id)
      BY <1>1, <1>2, <3>2, DurableValue
    <3> QED BY <3>1, <3>3
  <2> QED BY <2>1, <2>2
<1>11. Durable' = Table!Effect(call, Durable)
  <2>1. /\ Durable' = [id \in Ids |-> Durable'[id]]
        /\ Table!Effect(call, Durable) = [id \in Ids |-> Table!Effect(call, Durable)[id]]
    BY DEF Durable, Table!Effect
  <2> QED BY <1>9, <1>10, <2>1
<1> QED BY <1>8, <1>11 DEF Table!Commit

\* A call enters between two others.
LEMMA BeginBegins ==
    ASSUME NEW c \in Calls, TableInv, TableInv', Begin(c)
    PROVE  Table!Begin
<1>1. DurableInv /\ ScanInv /\ EngineInv /\ EngineInv'
  BY DEF TableInv, ChangeInv, DurableInv, ScanInv
<1>2. Idle /\ CallOK(c) /\ todo' = StepsOf(c) /\ call' = c /\ UNCHANGED <<count, disk, walFile>>
  BY DEF Begin, files
<1>3. Durable' = Durable
  BY <1>2, SameDurable
<1>4. c # NoCall /\ CallLogged(todo', c.rows) /\ CallOf(c)
  BY <1>2, CallLogs, CallIsCall
<1>5. PendingCall = NoCall /\ PendingCall' = c
  <2>1. 1..Len(todo) = {}
    BY <1>1, <1>2, IdleBuffer DEF Idle
  <2>2. PendingCall = NoCall
    BY <1>1, <2>1, PendingIs DEF Unsynced
  <2>3. (PendingCall = IF Unsynced THEN call ELSE NoCall)'
    BY <1>1, PendingIs, PTL
  <2>4. Unsynced'
    BY <1>2, <1>4 DEF Unsynced, CallLogged
  <2> QED BY <1>2, <2>2, <2>3, <2>4
<1>6. \A i \in DOMAIN c.rows : (Durable[c.rows[i].id] = NoVal) <=> (c.k \in {"insert", "insert_batch"})
  <2>1. GetMatchesDurable
    BY <1>1, GetDurable
  <2>2. \A id \in Ids : Durable[id] = NoVal <=> index[id] = NoEntry
    BY <1>2, <2>1 DEF GetMatchesDurable
  <2>3. \A i \in DOMAIN c.rows : c.rows[i].id \in Ids
    BY <1>4 DEF CallOf, Table!IsCall
  <2> QED BY <1>2, <2>2, <2>3 DEF CallOK
<1>7. Table!IsCall(c)
  BY <1>4 DEF CallOf
<1>8. Table!IsCall(PendingCall')
  BY <1>5, <1>7
<1> QED BY <1>3, <1>4, <1>5, <1>6, <1>8 DEF Table!Begin

\* Steps that leave the table as it is.
LEMMA TableStays ==
    ASSUME Undisturbed, TableInv, TableInv', [Next]_vars, RoomInCache,
           walFile' = walFile \/ (RoomInLog /\ ~Sync) \/ call = NoCall
    PROVE  Durable' = Durable
<1>1. /\ ChangeInv /\ DurableInv /\ DurableInv' /\ ScanInv /\ EngineInv
  BY DEF TableInv, ChangeInv, DurableInv, ScanInv
<1>2. CASE call = NoCall
  <2>1. ChangesInCall
    BY <1>1, NextChange
  <2> QED BY <1>2, <2>1, EqualDurable DEF ChangesInCall
<1>3. CASE TouchLast \/ AppendRow \/ TouchRow
  BY <1>1, <1>3, PageStepRoom, MovesDurable
<1>4. CASE call # NoCall /\ (LogInsert \/ EraseRow)
  <2>1. walFile' = walFile
    <3>1. walBuf \in Seq(LogRecord) /\ WAL_BUFFER_SIZE \in Nat
      BY <1>1, BufferAssumption DEF EngineInv, Types
    <3>2. RoomInLog => Len(walBuf) < WAL_BUFFER_SIZE
      BY <1>4 DEF RoomInLog, LogInsert, EraseRow
    <3>3. Len(walBuf) \in Nat
      BY <3>1
    <3> QED BY <1>4, <3>1, <3>2, <3>3 DEF LogInsert, EraseRow, write_record
  <2>2. UNCHANGED <<count, disk>>
    BY <1>1, <1>4 DEF LogInsert, EraseRow, pagerVars, Unindex, PagerBecomes, SetRows, Pager
  <2> QED BY <2>1, <2>2, SameDurable
<1>5. CASE call # NoCall /\ Sync
  BY <1>5, SameDurable DEF Sync, pagerVars
<1>6. CASE IndexRow
  BY <1>6, SameDurable DEF IndexRow, files
<1>7. CASE \E c \in Calls : Begin(c)
  BY <1>7, SameDurable DEF Begin, files
<1>8. CASE LogFails \/ Crash
  <2>1. ~mode.crash /\ ~mode.fail
    BY <1>1, StepFacts DEF Undisturbed
  <2> QED BY <1>8, <2>1 DEF LogFails, Crash
<1>9. CASE UNCHANGED vars
  BY <1>9, SameDurable DEF vars
<1>10. CASE (\E pid \in 0..MaxPages : Read(pid)) \/ CreateIndex \/ DropIndex \/ Checkpoint \/ Close
            \/ MaintenanceStep \/ Opened \/ Recover
  <2>1. call = NoCall
    BY <1>10, OnlyCallSteps DEF Read, CreateIndex, DropIndex, Checkpoint, Close
  <2> QED BY <1>2, <2>1
<1> QED BY <1>1, <1>2, <1>3, <1>4, <1>5, <1>6, <1>7, <1>8, <1>9, <1>10, NoReplay
        DEF Next, CallStep, RecoveryStep

\* Every step of the engine is a step of the table or none.
LEMMA StepMaps ==
    ASSUME Undisturbed, TableInv, TableInv', [Next]_vars, RoomInCache, RoomInLog
    PROVE  [Table!Next]_<<Durable, PendingCall>>
<1>1. DurableInv /\ ScanInv /\ ScanInv' /\ EngineInv /\ EngineInv'
  BY DEF TableInv, ChangeInv, DurableInv, ScanInv
<1>2. CASE \E c \in Calls : Begin(c)
  BY <1>2, BeginBegins DEF Table!Next
<1>3. CASE call # NoCall /\ Sync
  BY <1>3, SyncCommits DEF Table!Next
<1> SUFFICES ASSUME ~\E c \in Calls : Begin(c), ~(call # NoCall /\ Sync)
             PROVE  UNCHANGED <<Durable, PendingCall>>
  BY <1>2, <1>3
<1>4. Durable' = Durable
  BY TableStays
<1>5. CASE call = NoCall
  <2>1. call' = NoCall
    <3>1. CASE CallStep \/ MaintenanceStep \/ Opened
      BY <1>5, <3>1 DEF CallStep, TouchLast, AppendRow, LogInsert, IndexRow, TouchRow, EraseRow, Sync,
            MaintenanceStep, VisitPage, SetIndex, FlushPage, WriteHeader, ClearWal, CloseFiles, Opened, Done
    <3>2. CASE LogFails \/ Crash \/ UNCHANGED vars
      BY <1>5, <3>2 DEF LogFails, Crash, vars
    <3>3. CASE (\E pid \in 0..MaxPages : Read(pid)) \/ CreateIndex \/ DropIndex \/ Checkpoint \/ Close \/ Recover
      BY <1>5, <3>3 DEF Read, CreateIndex, DropIndex, Checkpoint, Close, Recover
    <3> QED BY <1>1, <3>1, <3>2, <3>3, NoReplay DEF Next, RecoveryStep
  <2>2. PendingCall = NoCall /\ PendingCall' = NoCall
    BY <1>5, <2>1 DEF PendingCall
  <2> QED BY <1>4, <2>2
<1>6. CASE call # NoCall /\ CallStep
  <2>1. todo # <<>> /\ Done /\ todo[1].s # "sync"
    BY <1>1, <1>6, StepFacts DEF CallStep, TouchLast, AppendRow, LogInsert, IndexRow, TouchRow, EraseRow, IsNext
  <2> QED BY <1>1, <1>4, <2>1, PendingStays
<1>7. CASE UNCHANGED vars
  BY <1>4, <1>7 DEF vars, PendingCall
<1>8. CASE call # NoCall /\ ~CallStep /\ ~UNCHANGED vars
  <2>1. ~mode.crash /\ ~mode.fail
    BY <1>1, StepFacts DEF Undisturbed
  <2> QED BY <1>1, <1>8, <2>1, OnlyCallSteps, NoReplay
          DEF Next, RecoveryStep, LogFails, Crash, Read, CreateIndex, DropIndex, Checkpoint, Close
<1> QED BY <1>5, <1>6, <1>7, <1>8

LEMMA InitMaps == Init => Table!Init
<1> SUFFICES ASSUME Init PROVE Table!Init
  OBVIOUS
<1>1. count = 0 /\ walFile = <<>> /\ todo = <<>> /\ call = NoCall
  BY DEF Init
<1>2. PendingCall = NoCall
  BY <1>1 DEF PendingCall
<1>3. EngineInv
  BY InitInv
<1>4. ASSUME NEW id \in Ids PROVE Durable[id] = NoVal
  <2>1. ~OnDisk(id) /\ Standing(walFile, id) = {}
    <3>1. 0..count - 1 = {} /\ 1..Len(walFile) = {}
      BY <1>1
    <3> QED BY <3>1 DEF OnDisk, Standing
  <2>2. Durable[id] = FromLog(walFile, id)
    BY <1>3, <2>1, DurableIs
  <2> QED BY <2>1, <2>2 DEF FromLog
<1>5. Durable = [id \in Ids |-> NoVal]
  <2>1. Durable = [id \in Ids |-> Durable[id]]
    BY DEF Durable
  <2> QED BY <1>4, <2>1
<1> QED BY <1>2, <1>5 DEF Table!Init

\* Before its sync a call of db.cpp has set each of its rows in memory or will still log it,
\* and after the sync it only enters rows in the index.
THEOREM TableInvariant == Undisturbed => (Spec => []TableInv)
<1> SUFFICES ASSUME Undisturbed PROVE Spec => []TableInv
  OBVIOUS
<1>1. Init => TableInv
  BY InitTable
<1>2. TableInv /\ [Next]_vars => TableInv'
  BY NextTable
<1> QED BY <1>1, <1>2, PTL DEF Spec

\* The engine implements the durable table while no call outgrows the buffers and the
\* process lives: every step of db.cpp maps to a whole call taking effect at its sync
\* (wal_->sync()), to a call entering, or to no change of what a restart would recover.
THEOREM EngineImplementsTable == Undisturbed => (Spec /\ [](RoomInLog /\ RoomInCache) => ImplementsTable)
<1> SUFFICES ASSUME Undisturbed PROVE Spec /\ [](RoomInLog /\ RoomInCache) => ImplementsTable
  OBVIOUS
<1>1. Spec => []TableInv
  BY TableInvariant
<1>2. Init => Table!Init
  BY InitMaps
<1>3. TableInv /\ TableInv' /\ [Next]_vars /\ RoomInLog /\ RoomInCache => [Table!Next]_<<Durable, PendingCall>>
  BY StepMaps
<1> QED BY <1>1, <1>2, <1>3, PTL DEF Spec, ImplementsTable, Table!Spec

\* The write-ahead rule: a write to the data file or to its header changes nothing that a
\* restart recovers, as long as no page leaves the cache while records of the call are in
\* the log buffer.  Without that condition TLC finds PageWritesAreNeutral violated.
THEOREM EnginePageWritesNeutral == Undisturbed => (Spec /\ []RoomInCache => PageWritesAreNeutral)
<1> SUFFICES ASSUME Undisturbed PROVE Spec /\ []RoomInCache => PageWritesAreNeutral
  OBVIOUS
<1>1. Spec => []TableInv
  BY TableInvariant
<1>2. TableInv /\ TableInv' /\ [Next]_vars /\ RoomInCache => [UNCHANGED walFile => Durable' = Durable]_vars
  BY TableStays
<1> QED BY <1>1, <1>2, PTL DEF Spec, PageWritesAreNeutral

----------------------------------------------------------------------------
(* Crashes and failing log writes: no row is lost with the calls that fail *)

\* The file has a copy of the row on the page of its entry, which recovery counts.
Stored(id) ==
    /\ index[id].page \in 0..count - 1
    /\ \E k \in 1..Len(disk[index[id].page]) : disk[index[id].page][k].id = id

\* The log has the row, or does not delete it from the file.
Backed(log, id) == Standing(log, id) # {} \/ (~Deleted(log, id) /\ Stored(id))

\* While the database is open every indexed row is backed, a row that is to be indexed is
\* logged, and the log is only dropped once the pages are written.
ServingOK ==
    open => /\ PlanShape(todo)
            /\ \A id \in Ids : index[id] # NoEntry => Backed(LogOf, id)
            /\ \A id \in Ids : Logged(todo, id) => Standing(LogOf, id) # {}
            /\ todo # <<>> /\ todo[1].s = "clear_wal" => Flushed

\* What the replay of the n-th record has left to do.
RedoStep(e, n) ==
    /\ e.s \in RedoNames
    /\ e.s = "index_row" => n \in 1..Len(walFile) /\ walFile[n].t = "INSERT" /\ walFile[n].id = e.x

IsReplayOf(e, r) == e.s = (IF r.t = "INSERT" THEN "replay_insert" ELSE "replay_delete") /\ e.x = r.id

\* The first n records are replayed, but for the d steps at the head of the list.
Redone(n, d) ==
    /\ n <= Len(walFile) /\ Len(todo) = d + (Len(walFile) - n) + 1
    /\ \A i \in 1..Len(walFile) - n : IsReplayOf(todo[d + i], walFile[n + i])
    /\ \A j \in 1..d : RedoStep(todo[j], n)
    /\ \A id \in Ids : index[id] # NoEntry =>
         \/ Backed(SubSeq(walFile, 1, n), id)
         \/ \E j \in 1..d : todo[j].s = "unindex" /\ todo[j].x = id

RecoveryOK ==
    ~open => /\ walBuf = <<>>
             /\ todo # <<>> => \E n, d \in Nat : Redone(n, d)

SafeInv == EngineInv /\ ServingOK /\ RecoveryOK

\* Writing pages to their slots never takes the stored copy of an indexed row away.
LEMMA StoredStays ==
    ASSUME EngineInv, PagesWritten, NEW id \in Ids, index[id] # NoEntry,
           index'[id].page = index[id].page, Stored(id)
    PROVE  Stored(id)'
<1> DEFINE pid == index[id].page
<1>1. pid \in 0..count - 1 /\ count' = count /\ index'[id].page = pid
  BY DEF Stored, PagesWritten
<1>2. \E k \in 1..Len(disk[pid]) : disk[pid][k].id = id
  BY DEF Stored
<1>3. \E k \in 1..Len(RowsOf(Pager, pid)) : RowsOf(Pager, pid)[k].id = id
  BY DEF EngineInv, Entries, Holds
<1>4. disk'[pid] = disk[pid] \/ disk'[pid] = RowsOf(Pager, pid)
  BY <1>1 DEF PagesWritten
<1> HIDE DEF pid
<1>5. \E k \in 1..Len(disk'[pid]) : disk'[pid][k].id = id
  BY <1>2, <1>3, <1>4
<1> QED BY <1>1, <1>5 DEF Stored

\* The record of another row, or an INSERT record, leaves a row backed; an INSERT record
\* backs its own row.
LEMMA BackedAppend ==
    ASSUME NEW log \in Seq(LogRecord), NEW r \in LogRecord, NEW id
    PROVE  /\ Backed(log, id) /\ r.id # id => Backed(Append(log, r), id)
           /\ r.t = "INSERT" /\ r.id = id => Standing(Append(log, r), id) # {}
<1> DEFINE new == Append(log, r)
<1>1. /\ r.id # id => /\ Deleted(new, id) <=> Deleted(log, id)
                      /\ Standing(new, id) = Standing(log, id)
      /\ r.id = id /\ r.t = "INSERT" => Standing(new, id) = Standing(log, id) \cup {Len(log) + 1}
  BY LogAppend
<1> HIDE DEF new
<1>2. Backed(log, id) /\ r.id # id => Backed(new, id)
  BY <1>1 DEF Backed
<1>3. r.t = "INSERT" /\ r.id = id => Standing(new, id) # {}
  BY <1>1
<1> QED BY <1>2, <1>3 DEF new

\* The first step of a recovery: of the record that is being replayed, the next record, or
\* the end.
LEMMA ClosedHead ==
    ASSUME EngineInv, ~open, todo # <<>>, NEW n \in Nat, NEW d \in Nat, Redone(n, d)
    PROVE  /\ Len(walFile) \in Nat /\ n \in 0..Len(walFile)
           /\ \/ d > 0 /\ RedoStep(todo[1], n)
              \/ d = 0 /\ n < Len(walFile) /\ IsReplayOf(todo[1], walFile[n + 1])
              \/ d = 0 /\ n = Len(walFile) /\ Len(todo) = 1 /\ todo[1].s = "opened"
<1>1. /\ Len(walFile) \in Nat /\ n <= Len(walFile) /\ Len(todo) = d + (Len(walFile) - n) + 1
      /\ \A i \in 1..Len(walFile) - n : IsReplayOf(todo[d + i], walFile[n + i])
      /\ \A j \in 1..d : RedoStep(todo[j], n)
  BY DEF Redone, EngineInv, Types
<1>2. CASE d > 0
  <2>1. 1 \in 1..d
    BY <1>2
  <2> QED BY <1>1, <1>2, <2>1
<1>3. CASE d = 0 /\ n < Len(walFile)
  <2>1. 1 \in 1..Len(walFile) - n /\ d + 1 = 1
    BY <1>1, <1>3
  <2> QED BY <1>1, <1>3, <2>1
<1>4. CASE d = 0 /\ n = Len(walFile)
  <2>1. Len(todo) = 1
    BY <1>1, <1>4
  <2> QED BY <1>1, <1>4, <2>1 DEF EngineInv, OpenReady
<1> QED BY <1>1, <1>2, <1>3, <1>4

\* The steps that a recovery does not have are those of an open database.
LEMMA OpenHead ==
    ASSUME SafeInv, todo # <<>>,
           todo[1].s \notin RedoNames \cup ReplayNames
    PROVE  open
<1> SUFFICES ASSUME ~open PROVE FALSE
  OBVIOUS
<1>1. PICK n \in Nat, d \in Nat : Redone(n, d)
  BY DEF SafeInv, RecoveryOK
<1>2. EngineInv
  BY DEF SafeInv
<1> QED BY <1>1, <1>2, ClosedHead DEF RedoStep, IsReplayOf, RedoNames, ReplayNames

\* A step of a call that serves: no row is indexed that the log does not have.
LEMMA ServeStep ==
    ASSUME SafeInv, open, todo # <<>>, Done, PagesWritten, LogOf' = LogOf,
           todo[1].s \notin {"log_insert", "write_header"},
           \A id \in Ids : index'[id] # NoEntry =>
              \/ Logged(todo, id)
              \/ index[id] # NoEntry /\ index'[id].page = index[id].page
    PROVE  ServingOK'
<1>1. /\ EngineInv /\ PlanShape(todo)
      /\ \A id \in Ids : index[id] # NoEntry => Backed(LogOf, id)
      /\ \A id \in Ids : Logged(todo, id) => Standing(LogOf, id) # {}
  BY DEF SafeInv, ServingOK
<1>2. PlanShape(todo')
  BY <1>1, PlanRest
<1>3. ASSUME NEW id \in Ids, Logged(todo', id) PROVE Standing(LogOf', id) # {}
  BY <1>1, <1>3, LoggedNext
<1>4. ASSUME NEW id \in Ids, index'[id] # NoEntry
      PROVE  Standing(LogOf', id) # {} \/ (~Deleted(LogOf', id) /\ Stored(id)')
  <2>1. CASE Logged(todo, id)
    BY <1>1, <2>1
  <2>2. CASE index[id] # NoEntry /\ index'[id].page = index[id].page
    <3>1. Standing(LogOf, id) # {} \/ (~Deleted(LogOf, id) /\ Stored(id))
      BY <1>1, <2>2 DEF Backed
    <3>2. Stored(id) => Stored(id)'
      BY <1>1, <2>2, StoredStays
    <3> QED BY <3>1, <3>2
  <2> QED BY <1>4, <2>1, <2>2
<1>5. todo' # <<>> => todo'[1].s # "clear_wal"
  BY <1>1, NextStep
<1> QED BY <1>2, <1>3, <1>4, <1>5 DEF ServingOK, Backed

\* A step of the record that is being replayed: it is done, or the row it left is about to
\* be removed.
LEMMA RedoneStep ==
    ASSUME SafeInv, ~open, todo # <<>>, Done, PagesWritten, UNCHANGED <<walFile, walBuf, open>>,
           todo[1].s \in RedoNames,
           todo[1].s = "unindex" => index'[todo[1].x] = NoEntry,
           \A id \in Ids : index'[id] # NoEntry =>
              \/ todo[1].s = "index_row" /\ todo[1].x = id
              \/ index[id] # NoEntry /\ index'[id].page = index[id].page
    PROVE  RecoveryOK'
<1>1. EngineInv /\ walBuf = <<>>
  BY DEF SafeInv, RecoveryOK
<1>2. PICK n \in Nat, d \in Nat : Redone(n, d)
  BY DEF SafeInv, RecoveryOK
<1>3. Len(walFile) \in Nat /\ n \in 0..Len(walFile) /\ d > 0 /\ RedoStep(todo[1], n)
  BY <1>1, <1>2, ClosedHead DEF IsReplayOf, RedoNames
<1>4. /\ n <= Len(walFile) /\ Len(todo) = d + (Len(walFile) - n) + 1
      /\ \A i \in 1..Len(walFile) - n : IsReplayOf(todo[d + i], walFile[n + i])
      /\ \A j \in 1..d : RedoStep(todo[j], n)
      /\ \A id \in Ids : index[id] # NoEntry =>
           \/ Backed(SubSeq(walFile, 1, n), id)
           \/ \E j \in 1..d : todo[j].s = "unindex" /\ todo[j].x = id
  BY <1>2 DEF Redone
<1>5. /\ Len(todo') = Len(todo) - 1
      /\ \A i \in 1..Len(todo) - 1 : todo'[i] = todo[i + 1]
  BY <1>1, TailFacts DEF EngineInv, Done
<1> DEFINE e == d - 1
<1>6. /\ e \in Nat /\ Len(todo') = e + (Len(walFile) - n) + 1
      /\ \A j \in 1..e : j + 1 \in 1..d /\ j \in 1..Len(todo) - 1
      /\ \A j \in 1..d : j = 1 \/ (j - 1 \in 1..e /\ (j - 1) + 1 = j)
      /\ \A i \in 1..Len(walFile) - n : (e + i) + 1 = d + i /\ e + i \in 1..Len(todo) - 1
  BY <1>3, <1>4, <1>5
<1> HIDE DEF e
<1>7. ASSUME NEW i \in 1..Len(walFile) - n PROVE IsReplayOf(todo'[e + i], walFile[n + i])
  <2>1. todo'[e + i] = todo[d + i]
    BY <1>5, <1>6
  <2> QED BY <1>4, <2>1
<1>8. \A j \in 1..e : RedoStep(todo'[j], n)
  BY <1>4, <1>5, <1>6
<1> DEFINE log == SubSeq(walFile, 1, n)
<1>9. ASSUME NEW id \in Ids, index'[id] # NoEntry
      PROVE  \/ Standing(log, id) # {} \/ (~Deleted(log, id) /\ Stored(id)')
             \/ \E j \in 1..e : todo'[j].s = "unindex" /\ todo'[j].x = id
  <2>1. CASE todo[1].s = "index_row" /\ todo[1].x = id
    <3>1. n \in 1..Len(walFile) /\ walFile[n].t = "INSERT" /\ walFile[n].id = id
      BY <1>3, <2>1 DEF RedoStep
    <3>2. walFile \in Seq(LogRecord)
      BY <1>1 DEF EngineInv, Types
    <3>3. Len(log) = n /\ log[n] = walFile[n] /\ n \in 1..n
      BY <1>3, <3>1, <3>2
    <3> HIDE DEF log
    <3>4. Says(log, n, "INSERT", id)
      BY <3>1, <3>3 DEF Says
    <3>5. \A m \in 1..Len(log) : Says(log, m, "DELETE", id) => m # n
      BY <3>1, <3>3 DEF Says
    <3>6. \A m \in 1..Len(log) : Says(log, m, "DELETE", id) => m < n
      BY <1>3, <3>3, <3>5
    <3> QED BY <3>3, <3>4, <3>6 DEF Standing
  <2>2. CASE index[id] # NoEntry /\ index'[id].page = index[id].page
    <3>1. CASE Backed(log, id)
      <4>1. Stored(id) => Stored(id)'
        BY <1>1, <2>2, StoredStays
      <4> QED BY <3>1, <4>1 DEF Backed
    <3>2. CASE \E j \in 1..d : todo[j].s = "unindex" /\ todo[j].x = id
      <4>1. PICK j \in 1..d : todo[j].s = "unindex" /\ todo[j].x = id
        BY <3>2
      <4>2. j # 1
        BY <1>9, <4>1
      <4>3. j - 1 \in 1..e /\ todo'[j - 1] = todo[j]
        BY <1>5, <1>6, <4>1, <4>2
      <4> QED BY <4>1, <4>3
    <3> QED BY <1>4, <2>2, <3>1, <3>2
  <2> QED BY <1>9, <2>1, <2>2
<1> HIDE DEF log
<1>10. Redone(n, e)'
  <2>1. log = SubSeq(walFile', 1, n)
    BY DEF log
  <2>2. \A id \in Ids : index'[id] # NoEntry =>
           \/ Backed(SubSeq(walFile, 1, n), id)'
           \/ \E j \in 1..e : todo'[j].s = "unindex" /\ todo'[j].x = id
    BY <1>9, <2>1 DEF Backed
  <2>3. \A j \in 1..e : RedoStep(todo[j], n)'
    BY <1>8 DEF RedoStep
  <2>4. \A i \in 1..Len(walFile') - n : IsReplayOf(todo[e + i], walFile[n + i])'
    BY <1>7 DEF IsReplayOf
  <2> QED BY <1>4, <1>6, <2>2, <2>3, <2>4 DEF Redone
<1> QED BY <1>1, <1>6, <1>10 DEF RecoveryOK

\* The prefix of the log that ends with its next record.
LEMMA NextPrefix ==
    ASSUME NEW log \in Seq(LogRecord), NEW n \in Nat, n < Len(log)
    PROVE  /\ SubSeq(log, 1, n) \in Seq(LogRecord) /\ log[n + 1] \in LogRecord
           /\ SubSeq(log, 1, n + 1) = Append(SubSeq(log, 1, n), log[n + 1])
<1>1. Len(log) \in Nat /\ n + 1 \in 1..Len(log) /\ n \in 0..Len(log)
  OBVIOUS
<1>2. log[n + 1] \in LogRecord
  BY <1>1
<1> DEFINE a == SubSeq(log, 1, n)
           b == SubSeq(log, 1, n + 1)
<1>3. /\ a \in Seq(LogRecord) /\ Len(a) = n /\ \A i \in 1..n : a[i] = log[i]
  BY <1>1
<1>4. /\ b \in Seq(LogRecord) /\ Len(b) = n + 1 /\ \A i \in 1..n + 1 : b[i] = log[i]
  BY <1>1
<1> HIDE DEF a, b
<1>5. /\ Append(a, log[n + 1]) \in Seq(LogRecord) /\ Len(Append(a, log[n + 1])) = n + 1
      /\ \A i \in 1..n : Append(a, log[n + 1])[i] = a[i]
      /\ Append(a, log[n + 1])[n + 1] = log[n + 1]
  BY <1>2, <1>3
<1>6. \A i \in 1..n + 1 : i \in 1..n \/ i = n + 1
  BY <1>1
<1>7. \A i \in 1..n + 1 : Append(a, log[n + 1])[i] = b[i]
  BY <1>3, <1>4, <1>5, <1>6
<1>8. b = Append(a, log[n + 1])
  BY <1>4, <1>5, <1>7
<1> QED BY <1>2, <1>3, <1>8 DEF a, b

\* Recovery starts with the rows of the counted pages and the whole log to replay.
LEMMA RecoverSafe == SafeInv /\ Recover => SafeInv'
<1> SUFFICES ASSUME SafeInv, Recover PROVE SafeInv'
  OBVIOUS
<1>1. EngineInv /\ EngineInv' /\ walFile \in Seq(LogRecord) /\ count \in Nat
  BY RecoverKeeps DEF SafeInv, EngineInv, Types, CountOK
<1>2. /\ ~open /\ ~open' /\ walBuf = <<>> /\ walBuf' = <<>>
      /\ todo' = ReplaySteps \o <<Do("opened")>>
      /\ index' = [id \in Ids |-> RecoveredEntry(id)]
      /\ UNCHANGED <<count, disk, walFile>>
  BY DEF Recover, files, SafeInv, RecoveryOK
<1> DEFINE m == Len(walFile)
           b == ReplaySteps
<1>3. /\ m \in Nat /\ Len(b) = m
      /\ \A i \in 1..m : IsReplayOf(b[i], walFile[i])
  BY <1>1 DEF ReplaySteps, IsReplayOf, Step, LogRecord, Record
<1>4. /\ Len(todo') = m + 1 /\ \A i \in 1..m : todo'[i] = b[i]
  <2>1. b \in Seq(StepType)
    <3>1. \A i \in 1..m : walFile[i] \in LogRecord
      BY <1>1
    <3>2. \A i \in 1..m : b[i] \in StepType
      BY <3>1 DEF ReplaySteps, Step, StepType, StepNames, LogRecord, Record
    <3>3. b = [i \in 1..m |-> b[i]]
      BY <1>1 DEF ReplaySteps
    <3> HIDE DEF b
    <3> QED BY <1>3, <3>2, <3>3
  <2>2. Do("opened") \in StepType
    BY DEF Do, Step, StepType, StepNames
  <2> HIDE DEF b
  <2>3. b \o <<Do("opened")>> = todo'
    BY <1>2 DEF b
  <2> QED BY <1>3, <2>1, <2>2, <2>3
<1> HIDE DEF m, b
<1>5. ASSUME NEW id \in Ids, index'[id] # NoEntry PROVE Backed(SubSeq(walFile, 1, 0), id)'
  <2>1. index'[id] = RecoveredEntry(id)
    BY <1>2, <1>5
  <2>2. /\ index'[id].page \in 0..count - 1
        /\ index'[id].slot \in 1..Len(disk[index'[id].page])
        /\ disk[index'[id].page][index'[id].slot].id = id
    BY <1>1, <1>5, <2>1, RecoverFacts
  <2>3. Stored(id)'
    BY <1>2, <2>2 DEF Stored
  <2>4. Len(SubSeq(walFile', 1, 0)) = 0
    BY <1>1, <1>2
  <2>5. ~Deleted(SubSeq(walFile', 1, 0), id)
    BY <2>4 DEF Deleted
  <2> QED BY <2>3, <2>5 DEF Backed
<1>6. Redone(0, 0)'
  <2>1. 1..0 = {} /\ 0 <= m /\ m + 1 = 0 + (m - 0) + 1 /\ m - 0 = m
    BY <1>3
  <2>2. \A i \in 1..m : 0 + i = i
    BY <1>3
  <2>3. m = Len(walFile')
    BY <1>2 DEF m
  <2>4. \A i \in 1..Len(walFile') - 0 : IsReplayOf(todo[0 + i], walFile[0 + i])'
    BY <1>2, <1>3, <1>4, <2>1, <2>2, <2>3 DEF IsReplayOf
  <2> QED BY <1>4, <1>5, <2>1, <2>3, <2>4 DEF Redone
<1> QED BY <1>1, <1>2, <1>6 DEF SafeInv, ServingOK, RecoveryOK

\* The record after the first n.
LEMMA OneMore ==
    ASSUME NEW n \in Nat, NEW w \in Nat, n < w
    PROVE  n + 1 \in Nat /\ n + 1 <= w /\ n + 1 \in 1..w /\ w - n = (w - (n + 1)) + 1
OBVIOUS

\* The steps of the next record take its place.
LEMMA RedoNext ==
    ASSUME SafeInv, ~open, todo # <<>>, todo[1].s \in {"replay_insert", "replay_delete"},
           NEW a \in Seq(StepType), todo' = a \o Tail(todo),
           UNCHANGED <<count, disk, walFile, walBuf, index, open>>,
           \A n \in 1..Len(walFile) : IsReplayOf(todo[1], walFile[n]) =>
              \A j \in 1..Len(a) : RedoStep(a[j], n),
           todo[1].s = "replay_delete" /\ index[todo[1].x] # NoEntry =>
              \E j \in 1..Len(a) : a[j].s = "unindex" /\ a[j].x = todo[1].x
    PROVE  RecoveryOK'
<1>1. EngineInv /\ walBuf = <<>> /\ walFile \in Seq(LogRecord)
  BY DEF SafeInv, RecoveryOK, EngineInv, Types
<1>2. PICK n \in Nat, d \in Nat : Redone(n, d)
  BY DEF SafeInv, RecoveryOK
<1>3. /\ Len(walFile) \in Nat /\ n < Len(walFile) /\ d = 0 /\ IsReplayOf(todo[1], walFile[n + 1])
  BY <1>1, <1>2, ClosedHead DEF RedoStep, RedoNames
<1>4. /\ Len(todo) = (Len(walFile) - n) + 1
      /\ \A i \in 1..Len(walFile) - n : IsReplayOf(todo[i], walFile[n + i])
      /\ \A id \in Ids : index[id] # NoEntry => Backed(SubSeq(walFile, 1, n), id)
  BY <1>2, <1>3 DEF Redone
<1> DEFINE m == n + 1
           k == Len(a)
           b == Tail(todo)
           r == walFile[m]
<1>5. /\ b \in Seq(StepType) /\ Len(b) = Len(todo) - 1 /\ \A i \in 1..Len(todo) - 1 : b[i] = todo[i + 1]
  <2>1. StepsOK(todo)
    BY <1>1 DEF EngineInv
  <2> QED BY <2>1, TailFacts DEF StepsOK
<1>6. /\ Len(todo') = k + Len(b) /\ k \in Nat
      /\ \A i \in 1..k : todo'[i] = a[i]
      /\ \A i \in 1..Len(b) : todo'[k + i] = b[i]
  BY <1>5, ConcatNames
<1> HIDE DEF b, k
<1>7. /\ m \in Nat /\ m <= Len(walFile) /\ m \in 1..Len(walFile)
      /\ Len(todo') = k + (Len(walFile) - m) + 1
      /\ \A i \in 1..Len(walFile) - m :
           i \in 1..Len(b) /\ i \in 1..Len(todo) - 1 /\ i + 1 \in 1..Len(walFile) - n /\ n + (i + 1) = m + i
  <2> DEFINE w == Len(walFile)
  <2>1. /\ w \in Nat /\ n < w /\ n \in Nat /\ k \in Nat /\ Len(todo) = (w - n) + 1
        /\ Len(b) = Len(todo) - 1 /\ Len(todo') = k + Len(b)
    BY <1>3, <1>4, <1>5, <1>6
  <2> HIDE DEF w
  <2>2. m \in Nat /\ m <= w /\ m \in 1..w /\ w - n = (w - m) + 1
    BY <2>1, OneMore
  <2>3. Len(b) = w - n
    BY <2>1
  <2>4. m \in Nat /\ m <= w /\ m \in 1..w /\ Len(todo') = k + (w - m) + 1
    BY <2>1, <2>2, <2>3
  <2>5. \A i \in 1..w - m :
           i \in 1..Len(b) /\ i \in 1..Len(todo) - 1 /\ i + 1 \in 1..w - n /\ n + (i + 1) = m + i
    BY <2>1
  <2> QED BY <2>4, <2>5 DEF w
<1>8. ASSUME NEW i \in 1..Len(walFile) - m PROVE IsReplayOf(todo'[k + i], walFile[m + i])
  <2>1. todo'[k + i] = todo[i + 1]
    BY <1>5, <1>6, <1>7
  <2>2. IsReplayOf(todo[i + 1], walFile[n + (i + 1)])
    BY <1>4, <1>7
  <2> QED BY <1>7, <2>1, <2>2
<1>9. \A j \in 1..k : RedoStep(todo'[j], m)
  BY <1>3, <1>6, <1>7 DEF k
<1>10. /\ SubSeq(walFile, 1, n) \in Seq(LogRecord) /\ r \in LogRecord
       /\ SubSeq(walFile, 1, m) = Append(SubSeq(walFile, 1, n), r)
  BY <1>1, <1>3, NextPrefix
<1>11. IsReplayOf(todo[1], r) /\ r.t \in {"INSERT", "DELETE"}
  BY <1>3, <1>10 DEF LogRecord, Record
<1> HIDE DEF r, m
<1>12. ASSUME NEW id \in Ids, index[id] # NoEntry
       PROVE  \/ Backed(SubSeq(walFile, 1, m), id)
              \/ \E j \in 1..k : todo'[j].s = "unindex" /\ todo'[j].x = id
  <2>1. CASE r.id # id
    BY <1>4, <1>10, <1>12, <2>1, BackedAppend
  <2>2. CASE r.id = id /\ r.t = "INSERT"
    BY <1>10, <2>2, BackedAppend DEF Backed
  <2>3. CASE r.id = id /\ r.t = "DELETE"
    <3>1. todo[1].s = "replay_delete" /\ todo[1].x = id
      BY <1>11, <2>3 DEF IsReplayOf
    <3> QED BY <1>6, <1>12, <3>1 DEF k
  <2> QED BY <1>11, <2>1, <2>2, <2>3
<1>13. Redone(m, k)'
  <2>1. \A id \in Ids : index'[id] # NoEntry =>
           \/ Backed(SubSeq(walFile, 1, m), id)'
           \/ \E j \in 1..k : todo'[j].s = "unindex" /\ todo'[j].x = id
    <3>1. \A id \in Ids : Stored(id)' <=> Stored(id)
      BY DEF Stored
    <3> QED BY <1>12, <3>1 DEF Backed
  <2>2. \A j \in 1..k : RedoStep(todo[j], m)'
    BY <1>9 DEF RedoStep
  <2>3. \A i \in 1..Len(walFile') - m : IsReplayOf(todo[k + i], walFile[m + i])'
    BY <1>8 DEF IsReplayOf
  <2> QED BY <1>7, <2>1, <2>2, <2>3 DEF Redone
<1> QED BY <1>1, <1>6, <1>7, <1>13 DEF RecoveryOK

LEMMA EmptyPlan == PlanShape(<<>>) /\ \A id : ~Logged(<<>>, id)
<1>1. Len(<<>>) = 0 /\ 1..0 = {} /\ 2..0 = {}
  OBVIOUS
<1> QED BY <1>1 DEF PlanShape, Logged

\* Records are replayed before the database is open.
LEMMA ReplayClosed ==
    ASSUME SafeInv, todo # <<>>, todo[1].s \in RedoingNames
    PROVE  ~open
<1>1. 1 \in 1..Len(todo)
  BY StepFacts DEF SafeInv
<1> QED BY <1>1 DEF SafeInv, ServingOK, PlanShape

LEMMA ReplayInsertSafe == SafeInv /\ ReplayInsert => SafeInv'
<1> SUFFICES ASSUME SafeInv, ReplayInsert PROVE SafeInv'
  OBVIOUS
<1>1. EngineInv /\ EngineInv'
  BY ReplayInsertKeeps DEF SafeInv
<1>2. /\ todo # <<>> /\ todo[1].s = "replay_insert" /\ todo[1].x \in Ids /\ todo[1].v \in Vals
      /\ todo' = ReplayInsertSteps(todo[1].x, todo[1].v) \o Tail(todo)
      /\ UNCHANGED <<count, disk, walFile, walBuf, index, open>>
  BY <1>1, StepFacts DEF ReplayInsert, IsNext, files, RowNames, ValueNames
<1>3. ~open
  BY <1>2, ReplayClosed DEF RedoingNames
<1> DEFINE x == todo[1].x
           v == todo[1].v
           a == ReplayInsertSteps(x, v)
<1>4. /\ a \in Seq(StepType)
      /\ \A j \in 1..Len(a) : /\ a[j].s \in {"touch_last", "append_row", "index_row"}
                              /\ a[j].s = "index_row" => a[j].x = x
  <2>1. CASE index[x] # NoEntry
    BY <2>1 DEF ReplayInsertSteps
  <2>2. CASE index[x] = NoEntry
    <3> DEFINE p == Do("touch_last")
               q == Step("append_row", x, v)
               r == Step("index_row", x, v)
    <3>1. a = <<p, q, r>>
      BY <2>2 DEF ReplayInsertSteps
    <3>2. /\ p \in StepType /\ p.s = "touch_last"
          /\ q \in StepType /\ q.s = "append_row"
          /\ r \in StepType /\ r.s = "index_row" /\ r.x = x
      BY <1>2 DEF Do, Step, StepType, StepNames
    <3> HIDE DEF a, p, q, r, x
    <3>3. /\ a \in Seq(StepType) /\ \A j \in 1..Len(a) : a[j] = p \/ a[j] = q \/ a[j] = r
      BY <3>1, <3>2
    <3> QED BY <3>2, <3>3
  <2> QED BY <2>1, <2>2
<1> HIDE DEF a
<1>5. ASSUME NEW n \in 1..Len(walFile), IsReplayOf(todo[1], walFile[n]), NEW j \in 1..Len(a)
      PROVE  RedoStep(a[j], n)
  <2>1. walFile[n].t = "INSERT" /\ walFile[n].id = x
    BY <1>2, <1>5 DEF IsReplayOf
  <2> QED BY <1>4, <2>1 DEF RedoStep, RedoNames
<1>6. RecoveryOK'
  BY <1>2, <1>3, <1>4, <1>5, RedoNext DEF a
<1> QED BY <1>1, <1>2, <1>3, <1>6 DEF SafeInv, ServingOK

LEMMA ReplayDeleteSafe == SafeInv /\ ReplayDelete => SafeInv'
<1> SUFFICES ASSUME SafeInv, ReplayDelete PROVE SafeInv'
  OBVIOUS
<1>1. EngineInv /\ EngineInv'
  BY ReplayDeleteKeeps DEF SafeInv
<1> DEFINE x == todo[1].x
           a == IF index[x] = NoEntry THEN <<>>
                ELSE <<Step("touch_row", x, NoVal), Step("unindex", x, NoVal)>>
<1>2. /\ todo # <<>> /\ todo[1].s = "replay_delete" /\ x \in Ids
      /\ todo' = a \o Tail(todo)
      /\ UNCHANGED <<count, disk, walFile, walBuf, index, open>>
  BY <1>1, StepFacts DEF ReplayDelete, IsNext, files, RowNames
<1>3. ~open
  BY <1>2, ReplayClosed DEF RedoingNames
<1>4. /\ a \in Seq(StepType)
      /\ \A j \in 1..Len(a) : a[j].s \in {"touch_row", "unindex"}
      /\ index[x] # NoEntry => \E j \in 1..Len(a) : a[j].s = "unindex" /\ a[j].x = x
  <2>1. CASE index[x] = NoEntry
    BY <2>1
  <2>2. CASE index[x] # NoEntry
    <3> DEFINE p == Step("touch_row", x, NoVal)
               q == Step("unindex", x, NoVal)
    <3>1. a = <<p, q>>
      BY <2>2
    <3>2. /\ p \in StepType /\ p.s = "touch_row"
          /\ q \in StepType /\ q.s = "unindex" /\ q.x = x
      BY <1>2 DEF Step, StepType, StepNames
    <3> HIDE DEF a, p, q, x
    <3>3. /\ a \in Seq(StepType) /\ \A j \in 1..Len(a) : a[j] = p \/ a[j] = q
          /\ 2 \in 1..Len(a) /\ a[2] = q
      BY <3>1, <3>2
    <3> QED BY <3>2, <3>3
  <2> QED BY <2>1, <2>2
<1> HIDE DEF a
<1>5. ASSUME NEW n \in 1..Len(walFile), NEW j \in 1..Len(a)
      PROVE  RedoStep(a[j], n)
  BY <1>4 DEF RedoStep, RedoNames
<1>6. RecoveryOK'
  BY <1>2, <1>3, <1>4, <1>5, RedoNext
<1> QED BY <1>1, <1>2, <1>3, <1>6 DEF SafeInv, ServingOK

\* Once every record is replayed, the log is the whole log.
LEMMA OpenedSafe == SafeInv /\ Opened => SafeInv'
<1> SUFFICES ASSUME SafeInv, Opened PROVE SafeInv'
  OBVIOUS
<1>1. EngineInv /\ EngineInv' /\ walFile \in Seq(LogRecord)
  BY OpenedKeeps DEF SafeInv, EngineInv, Types
<1>2. /\ todo # <<>> /\ todo[1].s = "opened" /\ Done /\ open'
      /\ UNCHANGED <<count, disk, walFile, walBuf, index>>
  BY <1>1, StepFacts DEF Opened, IsNext, files
<1>3. todo' = <<>>
  BY <1>1, <1>2, LastStep
<1>4. CASE open
  <2>1. \A id \in Ids : Stored(id)' <=> Stored(id)
    BY <1>2 DEF Stored
  <2>2. LogOf' = LogOf
    BY <1>2 DEF LogOf
  <2>3. \A id \in Ids : index[id] # NoEntry => Backed(LogOf, id)
    BY <1>4 DEF SafeInv, ServingOK
  <2>4. \A id \in Ids : index'[id] # NoEntry => Backed(LogOf, id)'
    BY <1>2, <2>1, <2>2, <2>3 DEF Backed
  <2> QED BY <1>1, <1>2, <1>3, <2>4, EmptyPlan DEF SafeInv, ServingOK, RecoveryOK
<1>5. CASE ~open
  <2>1. PICK n \in Nat, d \in Nat : Redone(n, d)
    BY <1>2, <1>5 DEF SafeInv, RecoveryOK
  <2>2. d = 0 /\ n = Len(walFile)
    BY <1>1, <1>2, <1>5, <2>1, ClosedHead DEF RedoStep, RedoNames, IsReplayOf
  <2>3. \A id \in Ids : index[id] # NoEntry => Backed(SubSeq(walFile, 1, n), id)
    BY <2>1, <2>2 DEF Redone
  <2>4. SubSeq(walFile, 1, n) = walFile /\ walFile \o <<>> = walFile
    BY <1>1, <2>2
  <2>5. LogOf' = walFile
    BY <1>2, <1>5, <2>4 DEF LogOf, SafeInv, RecoveryOK
  <2>6. \A id \in Ids : Stored(id)' <=> Stored(id)
    BY <1>2 DEF Stored
  <2>7. \A id \in Ids : index'[id] # NoEntry => Backed(LogOf, id)'
    BY <1>2, <2>3, <2>4, <2>5, <2>6 DEF Backed
  <2> QED BY <1>1, <1>2, <1>3, <2>7, EmptyPlan DEF SafeInv, ServingOK, RecoveryOK
<1> QED BY <1>4, <1>5

\* A step that moves pages between cache and file, or appends a row, and indexes nothing.
MovesOnly ==
    /\ todo # <<>> /\ Done /\ PagesWritten /\ UNCHANGED <<walFile, walBuf, open>>
    /\ todo[1].s \in {"touch_last", "append_row", "touch_row", "visit_page", "flush_page", "set_index"}
    /\ \A id \in Ids : index'[id] # NoEntry => index[id] # NoEntry /\ index'[id].page = index[id].page

LEMMA MovesSafe ==
    ASSUME SafeInv, EngineInv', MovesOnly
    PROVE  SafeInv'
<1>1. LogOf' = LogOf
  BY DEF MovesOnly, LogOf
<1>2. CASE open
  <2>1. ServingOK'
    BY <1>1, <1>2, ServeStep DEF MovesOnly
  <2> QED BY <1>2, <2>1 DEF SafeInv, RecoveryOK, MovesOnly
<1>3. CASE ~open
  <2>1. todo[1].s \in RedoNames
    BY <1>3, OpenHead DEF MovesOnly, RedoNames, ReplayNames
  <2>2. RecoveryOK'
    BY <1>3, <2>1, RedoneStep DEF MovesOnly
  <2> QED BY <1>3, <2>2 DEF SafeInv, ServingOK, MovesOnly
<1> QED BY <1>2, <1>3

LEMMA FetchWritten ==
    ASSUME EngineInv, NEW pid \in 0..next - 1, PagerBecomes(get_page(Pager, pid)),
           UNCHANGED <<count, next, index, mode>>
    PROVE  PagesWritten
<1> DEFINE q == get_page(Pager, pid)
<1>1. PagerOK(q, next) /\ Keeps(Pager, q, next) /\ PagerBecomes(q)
  BY StepFacts, GetPageFacts
<1> HIDE DEF q
<1>2. Pager' = q
  BY <1>1, PagerStep
<1> QED BY <1>1, <1>2, KeepsWritten

LEMMA TouchLastSafe == SafeInv /\ TouchLast => SafeInv'
<1> SUFFICES ASSUME SafeInv, TouchLast PROVE SafeInv'
  OBVIOUS
<1>1. EngineInv /\ EngineInv'
  BY TouchLastKeeps DEF SafeInv
<1>2. /\ todo # <<>> /\ todo[1].s = "touch_last" /\ Done /\ next \in Nat
      /\ UNCHANGED <<count, walFile, walBuf, next, index, open, mode>>
  BY <1>1, StepFacts DEF TouchLast, IsNext
<1>3. PagesWritten
  <2>1. CASE next > 0
    <3>1. next - 1 \in 0..next - 1 /\ PagerBecomes(get_page(Pager, next - 1))
      BY <1>2, <2>1 DEF TouchLast
    <3> QED BY <1>1, <1>2, <3>1, FetchWritten
  <2>2. CASE ~(next > 0)
    BY <1>2, <2>2 DEF TouchLast, pagerVars, PagesWritten
  <2> QED BY <2>1, <2>2
<1> QED BY <1>1, <1>2, <1>3, MovesSafe DEF MovesOnly

LEMMA TouchRowSafe == SafeInv /\ TouchRow => SafeInv'
<1> SUFFICES ASSUME SafeInv, TouchRow PROVE SafeInv'
  OBVIOUS
<1>1. EngineInv /\ EngineInv'
  BY TouchRowKeeps DEF SafeInv
<1>2. /\ todo # <<>> /\ todo[1].s = "touch_row" /\ Done /\ Len(todo) \in Nat \ {0}
      /\ todo[1].x \in Ids
      /\ PagerBecomes(get_page(Pager, index[todo[1].x].page))
      /\ UNCHANGED <<count, walFile, walBuf, next, index, open, mode>>
  BY <1>1, StepFacts DEF TouchRow, IsNext, RowNames
<1>3. 1 \in 1..Len(todo)
  BY <1>2
<1>4. index[todo[1].x].page \in 0..next - 1
  BY <1>1, <1>2, <1>3 DEF EngineInv, EraseReady, Entries
<1>5. PagesWritten
  BY <1>1, <1>2, <1>4, FetchWritten
<1> QED BY <1>1, <1>2, <1>5, MovesSafe DEF MovesOnly

LEMMA VisitPageSafe == SafeInv /\ VisitPage => SafeInv'
<1> SUFFICES ASSUME SafeInv, VisitPage PROVE SafeInv'
  OBVIOUS
<1>1. EngineInv /\ EngineInv'
  BY VisitPageKeeps DEF SafeInv
<1>2. /\ todo # <<>> /\ todo[1].s = "visit_page" /\ Done /\ Len(todo) \in Nat \ {0}
      /\ PagerBecomes(get_page(Pager, todo[1].x))
      /\ UNCHANGED <<count, walFile, walBuf, next, index, open, mode>>
  BY <1>1, StepFacts DEF VisitPage, IsNext
<1>3. 1 \in 1..Len(todo)
  BY <1>2
<1>4. todo[1].x \in 0..next - 1
  BY <1>1, <1>2, <1>3 DEF EngineInv, FlushReady
<1>5. PagesWritten
  BY <1>1, <1>2, <1>4, FetchWritten
<1> QED BY <1>1, <1>2, <1>5, MovesSafe DEF MovesOnly

LEMMA FlushPageSafe == SafeInv /\ FlushPage => SafeInv'
<1> SUFFICES ASSUME SafeInv, FlushPage PROVE SafeInv'
  OBVIOUS
<1>1. EngineInv /\ EngineInv'
  BY FlushPageKeeps DEF SafeInv
<1>2. /\ todo # <<>> /\ todo[1].s = "flush_page" /\ Done
      /\ UNCHANGED <<count, walFile, walBuf, open>>
      /\ Keeps(Pager, Pager', next)
      /\ \A i \in Ids :
           /\ index[i] = NoEntry <=> index'[i] = NoEntry
           /\ index[i] # NoEntry => index'[i].page = index[i].page
  BY <1>1, FlushPageFacts
<1>3. PagesWritten
  BY <1>1, <1>2, KeepsWritten
<1> QED BY <1>1, <1>2, <1>3, MovesSafe DEF MovesOnly

LEMMA SetIndexSafe == SafeInv /\ SetIndex => SafeInv'
<1> SUFFICES ASSUME SafeInv, SetIndex PROVE SafeInv'
  OBVIOUS
<1>1. EngineInv /\ EngineInv'
  BY SetIndexKeeps DEF SafeInv
<1>2. /\ todo # <<>> /\ todo[1].s = "set_index" /\ Done
      /\ UNCHANGED <<count, disk, walFile, walBuf, index, open>>
  BY <1>1, StepFacts DEF SetIndex, IsNext, files
<1>3. PagesWritten
  BY <1>2 DEF PagesWritten
<1> QED BY <1>1, <1>2, <1>3, MovesSafe DEF MovesOnly

LEMMA AppendRowSafe == SafeInv /\ AppendRow => SafeInv'
<1> SUFFICES ASSUME SafeInv, AppendRow PROVE SafeInv'
  OBVIOUS
<1>1. EngineInv /\ EngineInv'
  BY AppendRowKeeps DEF SafeInv
<1>2. /\ todo # <<>> /\ todo[1].s = "append_row" /\ Done
      /\ UNCHANGED <<walFile, walBuf, index, open>>
  BY <1>1, AppendRowFacts
<1>3. PagesWritten
  BY <1>1, AppendDisk
<1> QED BY <1>1, <1>2, <1>3, MovesSafe DEF MovesOnly

LEMMA IndexRowSafe == SafeInv /\ IndexRow => SafeInv'
<1> SUFFICES ASSUME SafeInv, IndexRow PROVE SafeInv'
  OBVIOUS
<1>1. EngineInv /\ EngineInv' /\ index \in [Ids -> Entry \cup {NoEntry}]
  BY IndexRowKeeps DEF SafeInv, EngineInv, Types
<1>2. /\ todo # <<>> /\ todo[1].s = "index_row" /\ Done /\ todo[1].x \in Ids /\ Len(todo) \in Nat \ {0}
      /\ UNCHANGED <<count, disk, walFile, walBuf, open>>
      /\ \A id \in Ids : id # todo[1].x => index'[id] = index[id]
  BY <1>1, StepFacts DEF IndexRow, IsNext, files, RowNames
<1>3. PagesWritten /\ LogOf' = LogOf
  BY <1>2 DEF PagesWritten, LogOf
<1>4. Logged(todo, todo[1].x)
  BY <1>2 DEF Logged
<1>5. CASE open
  <2>1. ServingOK'
    BY <1>2, <1>3, <1>4, <1>5, ServeStep
  <2> QED BY <1>1, <1>2, <1>5, <2>1 DEF SafeInv, RecoveryOK
<1>6. CASE ~open
  <2>1. RecoveryOK'
    BY <1>2, <1>3, <1>6, RedoneStep DEF RedoNames
  <2> QED BY <1>1, <1>2, <1>6, <2>1 DEF SafeInv, ServingOK
<1> QED BY <1>5, <1>6

\* A row that is erased leaves the index; the entries of the others keep their pages.
LEMMA UnindexEntries ==
    ASSUME EngineInv, NEW id \in Ids, Unindex(id)
    PROVE  \A i \in Ids : index'[i] # NoEntry =>
              i # id /\ index[i] # NoEntry /\ index'[i].page = index[i].page
<1> DEFINE rest == erase_row(RowsOf(Pager, index[id].page), SlotOf(id))
<1>1. index' = RepairedIndex(id, rest)
  BY DEF Unindex
<1> HIDE DEF rest
<1>2. index \in [Ids -> Entry \cup {NoEntry}]
  BY DEF EngineInv, Types
<1>3. ASSUME NEW i \in Ids, index'[i] # NoEntry
      PROVE  i # id /\ index[i] # NoEntry /\ index'[i].page = index[i].page
  <2>1. i # id
    BY <1>1, <1>3 DEF RepairedIndex
  <2>2. index[i] # NoEntry => index[i] \in Entry
    BY <1>2
  <2>3. CASE index'[i] = index[i]
    BY <1>3, <2>1, <2>3
  <2>4. CASE index[i] # NoEntry /\ index'[i] = [index[i] EXCEPT !.slot = find_row(rest, i)]
    BY <2>1, <2>2, <2>4 DEF Entry
  <2> QED BY <1>1, <2>1, <2>3, <2>4 DEF RepairedIndex
<1> QED BY <1>3

LEMMA ReplayEraseSafe == SafeInv /\ ReplayErase => SafeInv'
<1> SUFFICES ASSUME SafeInv, ReplayErase PROVE SafeInv'
  OBVIOUS
<1>1. EngineInv /\ EngineInv'
  BY ReplayEraseKeeps DEF SafeInv
<1>2. /\ todo # <<>> /\ todo[1].s = "unindex" /\ Done /\ todo[1].x \in Ids
      /\ Unindex(todo[1].x) /\ UNCHANGED <<count, walFile, walBuf, next, open, mode>>
  BY <1>1, StepFacts DEF ReplayErase, IsNext, RowNames
<1>3. ~open
  BY <1>2, ReplayClosed DEF RedoingNames
<1>4. index[todo[1].x] # NoEntry /\ index[todo[1].x].page \in DOMAIN cached
  BY <1>1, <1>2 DEF EngineInv, EraseReady, EraseNames
<1>5. disk' = disk
  BY <1>1, <1>2, <1>4, UnindexPages
<1>6. PagesWritten
  BY <1>2, <1>5 DEF PagesWritten
<1>7. \A i \in Ids : index'[i] # NoEntry =>
         i # todo[1].x /\ index[i] # NoEntry /\ index'[i].page = index[i].page
  BY <1>1, <1>2, UnindexEntries
<1>8. RecoveryOK'
  BY <1>2, <1>3, <1>6, <1>7, RedoneStep DEF RedoNames
<1> QED BY <1>1, <1>2, <1>3, <1>8 DEF SafeInv, ServingOK

LEMMA LogInsertSafe == SafeInv /\ LogInsert => SafeInv'
<1> SUFFICES ASSUME SafeInv, LogInsert PROVE SafeInv'
  OBVIOUS
<1>1. EngineInv /\ EngineInv'
  BY LogInsertKeeps DEF SafeInv
<1> DEFINE r == [t |-> "INSERT", id |-> todo[1].x, val |-> todo[1].v]
<1>2. /\ todo # <<>> /\ todo[1].s = "log_insert" /\ Done /\ write_record(r)
      /\ todo[1].x \in Ids /\ todo[1].v \in Vals
      /\ UNCHANGED <<count, disk, index, open>>
  BY <1>1, StepFacts DEF LogInsert, IsNext, pagerVars, RowNames, ValueNames
<1>3. open
  BY <1>2, OpenHead DEF RedoNames, ReplayNames
<1>4. r \in LogRecord /\ r.t = "INSERT" /\ r.id = todo[1].x
  BY <1>2 DEF LogRecord, Record
<1> HIDE DEF r
<1>5. LogOf \in Seq(LogRecord) /\ LogOf' = Append(LogOf, r)
  BY <1>1, <1>2, <1>4, LogWritten
<1>6. /\ PlanShape(todo)
      /\ \A id \in Ids : index[id] # NoEntry => Backed(LogOf, id)
  BY <1>3 DEF SafeInv, ServingOK
<1>7. PlanShape(todo') /\ (todo' # <<>> => todo'[1].s # "clear_wal")
  BY <1>1, <1>2, <1>6, PlanRest, NextStep
<1>8. \A id \in Ids : Logged(todo', id) => Standing(LogOf', id) # {}
  <2>1. \A id \in Ids : Logged(todo', id) => todo[1].x = id
    BY <1>1, <1>2, <1>6, LoggedNext
  <2> QED BY <1>4, <1>5, <2>1, BackedAppend
<1>9. ASSUME NEW id \in Ids, index'[id] # NoEntry PROVE Backed(LogOf, id)'
  <2>1. Stored(id)' <=> Stored(id)
    BY <1>2 DEF Stored
  <2>2. Backed(LogOf, id)
    BY <1>2, <1>6, <1>9
  <2>3. CASE r.id = id
    BY <1>4, <1>5, <2>3, BackedAppend DEF Backed
  <2>4. CASE r.id # id
    <3>1. Backed(Append(LogOf, r), id)
      BY <1>4, <1>5, <2>2, <2>4, BackedAppend
    <3> QED BY <1>5, <2>1, <3>1 DEF Backed
  <2> QED BY <2>3, <2>4
<1> QED BY <1>1, <1>2, <1>3, <1>7, <1>8, <1>9 DEF SafeInv, ServingOK, RecoveryOK

LEMMA EraseRowSafe == SafeInv /\ EraseRow => SafeInv'
<1> SUFFICES ASSUME SafeInv, EraseRow PROVE SafeInv'
  OBVIOUS
<1>1. EngineInv /\ EngineInv'
  BY EraseRowKeeps DEF SafeInv
<1> DEFINE r == [t |-> "DELETE", id |-> todo[1].x, val |-> NoVal]
<1>2. /\ todo # <<>> /\ todo[1].s = "erase_row" /\ Done /\ write_record(r) /\ todo[1].x \in Ids
      /\ Unindex(todo[1].x) /\ UNCHANGED <<count, next, open, mode>>
  BY <1>1, StepFacts DEF EraseRow, IsNext, RowNames
<1>3. open
  BY <1>2, OpenHead DEF RedoNames, ReplayNames
<1>4. r \in LogRecord /\ r.id = todo[1].x
  BY <1>2 DEF LogRecord, Record
<1> HIDE DEF r
<1>5. LogOf \in Seq(LogRecord) /\ LogOf' = Append(LogOf, r)
  BY <1>1, <1>2, <1>4, LogWritten
<1>6. /\ PlanShape(todo)
      /\ \A id \in Ids : index[id] # NoEntry => Backed(LogOf, id)
  BY <1>3 DEF SafeInv, ServingOK
<1>7. /\ PlanShape(todo') /\ (todo' # <<>> => todo'[1].s # "clear_wal")
      /\ \A id \in Ids : ~Logged(todo', id)
  BY <1>1, <1>2, <1>6, PlanRest, NextStep, LoggedNext
<1>8. index[todo[1].x] # NoEntry /\ index[todo[1].x].page \in DOMAIN cached
  BY <1>1, <1>2 DEF EngineInv, EraseReady, EraseNames
<1>9. disk' = disk
  BY <1>1, <1>2, <1>8, UnindexPages
<1>10. ASSUME NEW id \in Ids, index'[id] # NoEntry PROVE Backed(LogOf, id)'
  <2>1. id # todo[1].x /\ index[id] # NoEntry /\ index'[id].page = index[id].page
    BY <1>1, <1>2, <1>10, UnindexEntries
  <2>2. Stored(id)' <=> Stored(id)
    BY <1>2, <1>9, <2>1 DEF Stored
  <2>3. Backed(Append(LogOf, r), id)
    BY <1>4, <1>5, <1>6, <2>1, BackedAppend
  <2> QED BY <1>5, <2>2, <2>3 DEF Backed
<1> QED BY <1>1, <1>2, <1>3, <1>7, <1>10 DEF SafeInv, ServingOK, RecoveryOK

LEMMA SyncSafe == SafeInv /\ Sync => SafeInv'
<1> SUFFICES ASSUME SafeInv, Sync PROVE SafeInv'
  OBVIOUS
<1>1. EngineInv /\ EngineInv'
  BY SyncKeeps DEF SafeInv
<1>2. /\ todo # <<>> /\ todo[1].s = "sync" /\ Done /\ sync
      /\ UNCHANGED <<count, disk, index, open>>
  BY <1>1, StepFacts DEF Sync, IsNext, pagerVars
<1>3. open
  BY <1>2, OpenHead DEF RedoNames, ReplayNames
<1>4. LogOf' = LogOf /\ PagesWritten
  BY <1>1, <1>2, LogSynced DEF PagesWritten
<1>5. ServingOK'
  BY <1>2, <1>3, <1>4, ServeStep
<1> QED BY <1>1, <1>2, <1>3, <1>5 DEF SafeInv, RecoveryOK

\* The header is written when no page is dirty.
LEMMA WriteHeaderSafe == SafeInv /\ WriteHeader => SafeInv'
<1> SUFFICES ASSUME SafeInv, WriteHeader PROVE SafeInv'
  OBVIOUS
<1>1. EngineInv /\ EngineInv'
  BY WriteHeaderKeeps DEF SafeInv
<1>2. /\ todo # <<>> /\ todo[1].s = "write_header" /\ Done /\ Len(todo) \in Nat \ {0}
      /\ count' = next
      /\ UNCHANGED <<disk, cached, walFile, walBuf, next, index, open>>
  BY <1>1, StepFacts DEF WriteHeader, IsNext
<1>3. open
  BY <1>2, OpenHead DEF RedoNames, ReplayNames
<1>4. /\ PlanShape(todo)
      /\ \A id \in Ids : index[id] # NoEntry => Backed(LogOf, id)
  BY <1>3 DEF SafeInv, ServingOK
<1>5. PlanShape(todo') /\ \A id \in Ids : ~Logged(todo', id)
  BY <1>1, <1>2, <1>4, PlanRest, LoggedNext
<1>6. Flushed'
  <2>1. 1 \in 1..Len(todo)
    BY <1>2
  <2>2. \A pid \in Dirty : \E j \in 1..Len(todo) : j < 1 /\ todo[j].x = pid
    BY <1>1, <1>2, <2>1 DEF EngineInv, FlushReady
  <2>3. Dirty = {}
    BY <2>2
  <2> QED BY <1>2, <2>3 DEF Flushed, Dirty
<1>7. LogOf' = LogOf
  BY <1>2 DEF LogOf
<1>8. ASSUME NEW id \in Ids, index'[id] # NoEntry PROVE Backed(LogOf, id)'
  <2>1. index[id] # NoEntry /\ index[id].page \in 0..next - 1
    BY <1>1, <1>2, <1>8 DEF EngineInv, Entries
  <2>2. Stored(id) => Stored(id)'
    BY <1>2, <2>1 DEF Stored
  <2> QED BY <1>4, <1>7, <2>1, <2>2 DEF Backed
<1> QED BY <1>1, <1>2, <1>3, <1>5, <1>6, <1>8 DEF SafeInv, ServingOK, RecoveryOK

\* The log is dropped when every indexed row is in the file.
LEMMA ClearWalSafe == SafeInv /\ ClearWal => SafeInv'
<1> SUFFICES ASSUME SafeInv, ClearWal PROVE SafeInv'
  OBVIOUS
<1>1. EngineInv /\ EngineInv'
  BY ClearWalKeeps DEF SafeInv
<1>2. /\ todo # <<>> /\ todo[1].s = "clear_wal" /\ Done
      /\ walFile' = <<>> /\ walBuf' = <<>>
      /\ UNCHANGED <<count, disk, index, open>>
  BY <1>1, StepFacts DEF ClearWal, IsNext, pagerVars
<1>3. open
  BY <1>2, OpenHead DEF RedoNames, ReplayNames
<1>4. PlanShape(todo) /\ Flushed
  BY <1>2, <1>3 DEF SafeInv, ServingOK
<1>5. /\ PlanShape(todo') /\ (todo' # <<>> => todo'[1].s # "clear_wal")
      /\ \A id \in Ids : ~Logged(todo', id)
  BY <1>1, <1>2, <1>4, PlanRest, NextStep, LoggedNext
<1>6. Len(LogOf') = 0
  BY <1>2 DEF LogOf
<1>7. ASSUME NEW id \in Ids, index'[id] # NoEntry PROVE Backed(LogOf, id)'
  <2> DEFINE pid == index[id].page
  <2>1. pid \in 0..next - 1 /\ Holds(Pager, pid, id)
    BY <1>1, <1>2, <1>7 DEF EngineInv, Entries
  <2>2. RowsOf(Pager, pid) = disk[pid]
    BY <1>1, <1>4, StepFacts DEF PagerOK, RowsOf, Flushed, Dirty
  <2>3. pid \in 0..count - 1
    BY <1>4, <2>1 DEF Flushed
  <2>4. Stored(id)
    BY <2>1, <2>2, <2>3 DEF Stored, Holds
  <2>5. Stored(id)'
    BY <1>2, <2>4 DEF Stored
  <2>6. ~Deleted(LogOf', id)
    BY <1>6 DEF Deleted
  <2> QED BY <2>5, <2>6 DEF Backed
<1> QED BY <1>1, <1>2, <1>3, <1>5, <1>7 DEF SafeInv, ServingOK, RecoveryOK

\* Calls that start, fail or read while nothing else is going on.
LEMMA PlanSafe ==
    ASSUME SafeInv, EngineInv', open, open', PlanShape(todo'), \A id \in Ids : ~Logged(todo', id),
           todo' # <<>> => todo'[1].s # "clear_wal",
           PagesWritten, UNCHANGED <<walFile, walBuf, index>>
    PROVE  SafeInv'
<1>1. EngineInv /\ \A id \in Ids : index[id] # NoEntry => Backed(LogOf, id)
  BY DEF SafeInv, ServingOK
<1>2. LogOf' = LogOf
  BY DEF LogOf
<1>3. ASSUME NEW id \in Ids, index'[id] # NoEntry PROVE Backed(LogOf, id)'
  <2>1. index[id] # NoEntry /\ Backed(LogOf, id)
    BY <1>1, <1>3
  <2>2. Stored(id) => Stored(id)'
    BY <1>1, <2>1, StoredStays
  <2> QED BY <1>2, <2>1, <2>2 DEF Backed
<1> QED BY <1>3 DEF SafeInv, ServingOK, RecoveryOK

LEMMA BeginSafe == ASSUME NEW c \in Calls PROVE SafeInv /\ Begin(c) => SafeInv'
<1> SUFFICES ASSUME SafeInv, Begin(c) PROVE SafeInv'
  OBVIOUS
<1>1. EngineInv'
  BY BeginKeeps DEF SafeInv
<1>2. /\ CallOK(c) /\ open /\ open'
      /\ UNCHANGED <<disk, count, walFile, walBuf, index>>
  BY DEF Begin, files, Idle
<1>3. todo' = StepsOf(c)
  BY DEF Begin
<1>4. Block(todo') /\ Names(todo') \subseteq CallNames
  BY <1>2, <1>3, CallBlock
<1>5. \A id \in Ids : ~Logged(todo', id)
  BY <1>4 DEF Block, FollowNames, Logged
<1>6. PlanShape(todo') /\ todo' \in Seq(StepType)
  BY <1>2, <1>3, StepsPlan DEF CallPlan
<1>7. todo' # <<>> => todo'[1].s # "clear_wal"
  <2>1. todo' # <<>> => 1 \in 1..Len(todo')
    BY <1>6
  <2> QED BY <1>4, <2>1 DEF Names, CallNames
<1>8. PagesWritten
  BY <1>2 DEF PagesWritten
<1> QED BY <1>1, <1>2, <1>5, <1>6, <1>7, <1>8, PlanSafe

LEMMA UpkeepSafe ==
    ASSUME SafeInv, CreateIndex \/ DropIndex \/ Checkpoint \/ Close
    PROVE  SafeInv'
<1>1. EngineInv /\ EngineInv'
  BY CreateIndexKeeps, DropIndexKeeps, CheckpointKeeps, CloseKeeps DEF SafeInv
<1>2. UpkeepStep
  BY <1>1, CreateIndexUpkeep, DropIndexUpkeep, CheckpointUpkeep, CloseUpkeep
<1>3. /\ open /\ open' /\ PlanShape(todo') /\ \A i \in 1..Len(todo') : todo'[i].s \in UpkeepNames
      /\ todo' # <<>> => todo'[1].s # "clear_wal"
      /\ UNCHANGED <<disk, count, walFile, walBuf, index>>
  BY <1>2 DEF UpkeepStep, Idle
<1>4. todo' \in Seq(StepType)
  BY <1>1 DEF EngineInv, StepsOK
<1>5. (Len(todo') > 0 => 1 \in 1..Len(todo')) /\ (Len(todo') > 1 => 1 \in 1..Len(todo'))
  BY <1>4
<1>6. \A id \in Ids : ~Logged(todo', id)
  BY <1>3, <1>5 DEF Logged, UpkeepNames
<1>7. PagesWritten
  BY <1>3 DEF PagesWritten
<1> QED BY <1>1, <1>3, <1>6, <1>7, PlanSafe

LEMMA ReadSafe == ASSUME NEW pid \in Nat PROVE SafeInv /\ Read(pid) => SafeInv'
<1> SUFFICES ASSUME SafeInv, Read(pid) PROVE SafeInv'
  OBVIOUS
<1>1. EngineInv /\ EngineInv'
  BY ReadKeeps DEF SafeInv
<1>2. /\ pid \in 0..next - 1 /\ PagerBecomes(get_page(Pager, pid)) /\ open /\ open' /\ todo' = <<>>
      /\ UNCHANGED <<count, walFile, walBuf, next, index, mode>>
  BY <1>1, StepFacts DEF Read, Idle
<1>3. PagesWritten
  BY <1>1, <1>2, FetchWritten
<1> QED BY <1>1, <1>2, <1>3, EmptyPlan, PlanSafe

\* A call that fails to write the log ends; what it has logged before stays in the buffer.
LEMMA LogFailsSafe == SafeInv /\ LogFails => SafeInv'
<1> SUFFICES ASSUME SafeInv, LogFails PROVE SafeInv'
  OBVIOUS
<1>1. EngineInv /\ EngineInv'
  BY LogFailsKeeps DEF SafeInv
<1>2. /\ call # NoCall /\ todo' = <<>>
      /\ UNCHANGED <<disk, count, walFile, walBuf, index, open>>
  BY DEF LogFails, files
<1>3. open
  BY <1>1, <1>2 DEF EngineInv, OpenReady
<1>4. PagesWritten
  BY <1>2 DEF PagesWritten
<1> QED BY <1>1, <1>2, <1>3, <1>4, EmptyPlan, PlanSafe

\* What is in memory is lost, the rows and the log in the files stay.
LEMMA ForgetSafe ==
    ASSUME SafeInv, CloseFiles \/ Crash
    PROVE  SafeInv'
<1>1. EngineInv /\ EngineInv'
  BY CloseFilesKeeps, CrashKeeps DEF SafeInv
<1>2. Forget /\ todo' = <<>>
  <2>1. CASE Crash
    BY <2>1 DEF Crash
  <2>2. CASE CloseFiles
    <3>1. todo # <<>> /\ todo[1].s = "close_files" /\ Done
      BY <1>1, <2>2, StepFacts DEF CloseFiles, IsNext
    <3> QED BY <1>1, <2>2, <3>1, LastStep DEF CloseFiles
  <2> QED BY <2>1, <2>2
<1> QED BY <1>1, <1>2 DEF SafeInv, ServingOK, RecoveryOK, Forget

LEMMA InitSafe == Init => SafeInv
BY InitInv DEF Init, SafeInv, ServingOK, RecoveryOK

LEMMA StutterSafe == SafeInv /\ UNCHANGED vars => SafeInv'
<1> SUFFICES ASSUME SafeInv, UNCHANGED vars PROVE SafeInv'
  OBVIOUS
<1>1. EngineInv'
  BY StutterKeeps DEF SafeInv
<1>2. UNCHANGED <<count, disk, walFile, walBuf, cached, next, index, open, todo>>
  BY DEF vars
<1>3. \A id \in Ids : Stored(id)' <=> Stored(id)
  BY <1>2 DEF Stored
<1>4. LogOf' = LogOf
  BY <1>2 DEF LogOf
<1>5. ServingOK'
  <2>1. Flushed' <=> Flushed
    BY <1>2 DEF Flushed, Dirty
  <2> QED BY <1>2, <1>3, <1>4, <2>1 DEF SafeInv, ServingOK, Backed
<1>6. RecoveryOK'
  <2>1. ASSUME NEW n \in Nat, NEW d \in Nat, Redone(n, d) PROVE Redone(n, d)'
    BY <1>2, <1>3, <2>1 DEF Redone, Backed, RedoStep, IsReplayOf
  <2> QED BY <1>2, <2>1 DEF SafeInv, RecoveryOK
<1> QED BY <1>1, <1>5, <1>6 DEF SafeInv

LEMMA NextSafe == SafeInv /\ [Next]_vars => SafeInv'
<1> SUFFICES ASSUME SafeInv, [Next]_vars PROVE SafeInv'
  OBVIOUS
<1>1. ASSUME NEW c \in Calls, Begin(c) PROVE SafeInv'
  BY <1>1, BeginSafe
<1>2. ASSUME NEW pid \in 0..MaxPages, Read(pid) PROVE SafeInv'
  <2>1. pid \in Nat
    OBVIOUS
  <2> QED BY <1>2, <2>1, ReadSafe
<1>3. CASE CallStep
  BY <1>3, TouchLastSafe, AppendRowSafe, LogInsertSafe, IndexRowSafe, TouchRowSafe, EraseRowSafe, SyncSafe
     DEF CallStep
<1>4. CASE MaintenanceStep
  BY <1>4, VisitPageSafe, SetIndexSafe, FlushPageSafe, WriteHeaderSafe, ClearWalSafe, ForgetSafe
     DEF MaintenanceStep
<1>5. CASE Recover \/ RecoveryStep
  BY <1>5, RecoverSafe, ReplayInsertSafe, ReplayDeleteSafe, ReplayEraseSafe, OpenedSafe DEF RecoveryStep
<1>6. CASE CreateIndex \/ DropIndex \/ Checkpoint \/ Close
  BY <1>6, UpkeepSafe
<1>7. CASE LogFails \/ Crash
  BY <1>7, LogFailsSafe, ForgetSafe
<1>8. CASE UNCHANGED vars
  BY <1>8, StutterSafe
<1> QED BY <1>1, <1>2, <1>3, <1>4, <1>5, <1>6, <1>7, <1>8 DEF Next

\* A backed row is recovered.
LEMMA SafeRows == SafeInv => IndexedRowsDurable
<1> SUFFICES ASSUME SafeInv, open, walBuf = <<>>, NEW id \in Ids, index[id] # NoEntry
             PROVE  Durable[id] # NoVal
  BY DEF IndexedRowsDurable, Idle
<1>1. EngineInv /\ walFile \in Seq(LogRecord) /\ Backed(LogOf, id)
  BY DEF SafeInv, EngineInv, Types, ServingOK
<1>2. LogOf = walFile
  <2>1. walFile \o <<>> = walFile
    BY <1>1
  <2> QED BY <2>1 DEF LogOf
<1>3. CASE ~Deleted(walFile, id) /\ OnDisk(id)
  <2>1. PICK q \in 0..count - 1 : \E k \in 1..Len(disk[q]) : Durable[id] = disk[q][k].val
    BY <1>1, <1>3, DurableIs
  <2>2. Durable[id] \in Vals
    BY <1>1, <2>1, FileRows
  <2> QED BY <2>2, SentinelAssumption
<1>4. CASE Deleted(walFile, id) \/ ~OnDisk(id)
  <2> DEFINE S == Standing(walFile, id)
  <2>1. S # {}
    BY <1>1, <1>2, <1>4 DEF Backed, Stored, OnDisk
  <2>2. S \in SUBSET Nat /\ \A n \in S : n \in 1..Len(walFile) /\ walFile[n].t = "INSERT"
    BY DEF Standing, Says
  <2>3. Durable[id] = walFile[Min(S)].val
    BY <1>1, <1>4, <2>1, DurableIs DEF FromLog
  <2> HIDE DEF S
  <2>4. Min(S) \in S
    BY <2>1, <2>2, MinFacts
  <2> DEFINE k == Min(S)
  <2>5. k \in 1..Len(walFile) /\ walFile[k].t = "INSERT" /\ Durable[id] = walFile[k].val
    BY <2>2, <2>3, <2>4
  <2> HIDE DEF k
  <2>6. walFile[k] \in LogRecord
    BY <1>1, <2>5
  <2>7. Durable[id] \in Vals
    BY <2>5, <2>6 DEF LogRecord
  <2> QED BY <2>7, SentinelAssumption
<1> QED BY <1>3, <1>4

\* In every workload, with the process dying between any two steps, recovery included, with
\* failing log writes and with evictions: between calls, once the log has no unwritten
\* record, a row that lookups find is recovered after a restart.
THEOREM EngineIndexedRowsDurable == Spec => []IndexedRowsDurable
<1>1. Init => SafeInv
  BY InitSafe
<1>2. SafeInv /\ [Next]_vars => SafeInv'
  BY NextSafe
<1>3. SafeInv => IndexedRowsDurable
  BY SafeRows
<1> QED BY <1>1, <1>2, <1>3, PTL DEF Spec

=============================================================================
