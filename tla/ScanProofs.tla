----------------------------- MODULE ScanProofs -----------------------------
(***************************************************************************)
(* Proofs about what readers of XdlDB see, for runs in which the process   *)
(* does not die and the log can be written: the index, the pages that      *)
(* scan() reads and the secondary index agree, whatever is evicted,        *)
(* updated, erased, checkpointed, closed and opened again.                 *)
(***************************************************************************)
EXTENDS XdlDBProofs

\* The process lives until it closes the database, and write() does not fail.
Undisturbed == \A m \in Modes : ~m.crash /\ ~m.fail

----------------------------------------------------------------------------
(* The invariant *)

InsertNames == {"append_row", "log_insert", "index_row"}
RedoingNames == {"replay_insert", "replay_delete", "unindex"}

RowAt(p, e) == RowsOf(p, e.page)[e.slot]

\* The entry of an id is the place of its row.
PlaceOf(p, e, id) == e.slot \in 1..Len(RowsOf(p, e.page)) /\ RowAt(p, e).id = id

\* The last row is on its page and not yet in the index.
Pending(t) ==
    \/ Len(t) > 0 /\ t[1].s \in {"log_insert", "index_row"}
    \/ Len(t) > 1 /\ t[1].s = "sync" /\ t[2].s = "index_row"

\* An entry leads to the slot of its row.
EntriesExact == \A id \in Ids : index[id] # NoEntry => PlaceOf(Pager, index[id], id)

\* Every row is the one its id's entry leads to, or the one just appended.
RowsIndexed ==
    \A pid \in 0..next - 1 : \A k \in 1..Len(RowsOf(Pager, pid)) :
        LET e == index[RowsOf(Pager, pid)[k].id]
        IN  \/ e # NoEntry /\ e.page = pid /\ e.slot = k
            \/ Pending(todo) /\ pid = next - 1 /\ k = Len(RowsOf(Pager, pid))

\* A row that is to be appended has no entry, or its entry is erased before.
Fresh ==
    \A i \in 1..Len(todo) : todo[i].s \in InsertNames =>
        \/ index[todo[i].x] = NoEntry
        \/ \E j \in 1..i - 1 : todo[j].s = "erase_row" /\ todo[j].x = todo[i].x

\* The secondary index has the rows of the primary index.
SecondaryExact ==
    sec # NoIndex =>
        \A v \in Vals, x \in Ids :
            <<v, x>> \in sec <=> index[x] # NoEntry /\ RowAt(Pager, index[x]).val = v

\* A row that was appended is logged and indexed before anything else, no id is inserted
\* twice by a call, close() ends with the header, the log and the files, and nothing is
\* replayed.
PlanShape(t) ==
    /\ \A i \in 1..Len(t) :
         /\ t[i].s \notin RedoingNames
         /\ t[i].s = "append_row" => i + 1 \in 1..Len(t) /\ t[i + 1].s = "log_insert"
         /\ t[i].s = "log_insert" =>
              \/ i + 1 \in 1..Len(t) /\ t[i + 1].s = "index_row"
              \/ i + 2 \in 1..Len(t) /\ t[i + 1].s = "sync" /\ t[i + 2].s = "index_row"
    /\ \A i, j \in 1..Len(t) :
         i < j /\ t[i].s = "index_row" /\ t[j].s \in InsertNames => t[i].x # t[j].x
    /\ \A i \in 2..Len(t) :
         /\ t[i].s = "clear_wal" => t[i - 1].s = "write_header"
         /\ t[i].s = "close_files" => t[i - 1].s = "clear_wal"

\* The header and the slots of the file are those of the pages.
Flushed == Dirty = {} /\ count = next

\* No id has two rows in the pages of the file.
FileUnique ==
    \A p, q \in 0..count - 1 : \A k \in 1..Len(disk[p]), m \in 1..Len(disk[q]) :
        disk[p][k].id = disk[q][m].id => p = q /\ k = m

CloseReady ==
    /\ todo # <<>> /\ todo[1].s \in {"clear_wal", "close_files"} => Flushed
    /\ todo # <<>> /\ todo[1].s = "close_files" => walFile = <<>> /\ walBuf = <<>>
    /\ ~open /\ todo = <<>> => walFile = <<>> /\ walBuf = <<>> /\ FileUnique /\ sec = NoIndex

ScanInv ==
    /\ EngineInv
    /\ EntriesExact /\ RowsIndexed /\ Fresh /\ SecondaryExact
    /\ PlanShape(todo) /\ CloseReady
----------------------------------------------------------------------------
(* Steps of a call *)

\* The rows of a page are rows.
LEMMA PageRows ==
    ASSUME EngineInv, NEW pid \in 0..next - 1
    PROVE  /\ RowsOf(Pager, pid) \in Seq(Row) /\ Len(RowsOf(Pager, pid)) \in Nat
           /\ \A k \in 1..Len(RowsOf(Pager, pid)) :
                /\ RowsOf(Pager, pid)[k] \in Row
                /\ RowsOf(Pager, pid)[k].id \in Ids /\ RowsOf(Pager, pid)[k].val \in Vals
                /\ RowsOf(Pager, pid)[k] = [id |-> RowsOf(Pager, pid)[k].id, val |-> RowsOf(Pager, pid)[k].val]
<1> DEFINE rows == RowsOf(Pager, pid)
<1>1. rows \in Seq(Row)
  BY StepFacts, RowsFacts
<1> HIDE DEF rows
<1>2. Len(rows) \in Nat /\ \A k \in 1..Len(rows) : rows[k] \in Row
  BY <1>1
<1>3. \A k \in 1..Len(rows) : rows[k].id \in Ids /\ rows[k].val \in Vals
                               /\ rows[k] = [id |-> rows[k].id, val |-> rows[k].val]
  BY <1>2 DEF Row
<1> QED BY <1>1, <1>2, <1>3 DEF rows

LEMMA TailShape ==
    ASSUME NEW t \in Seq(StepType), t # <<>>, PlanShape(t)
    PROVE  PlanShape(Tail(t))
<1> DEFINE u == Tail(t)
<1>1. /\ u \in Seq(StepType) /\ Len(u) = Len(t) - 1 /\ Len(t) \in Nat \ {0}
      /\ \A i \in 1..Len(u) : u[i] = t[i + 1]
  OBVIOUS
<1> HIDE DEF u
<1>2. \A i \in 1..Len(u) : i + 1 \in 1..Len(t) /\ i + 1 \in 2..Len(t)
  BY <1>1
<1>3. ASSUME NEW i \in 1..Len(u)
      PROVE  /\ u[i].s \notin RedoingNames
             /\ u[i].s = "append_row" => i + 1 \in 1..Len(u) /\ u[i + 1].s = "log_insert"
             /\ u[i].s = "log_insert" =>
                  \/ i + 1 \in 1..Len(u) /\ u[i + 1].s = "index_row"
                  \/ i + 2 \in 1..Len(u) /\ u[i + 1].s = "sync" /\ u[i + 2].s = "index_row"
  <2> DEFINE j == i + 1
  <2>1. j \in 1..Len(t) /\ u[i] = t[j]
    BY <1>1, <1>2
  <2>2. j + 1 \in 1..Len(t) => i + 1 \in 1..Len(u) /\ u[i + 1] = t[j + 1]
    BY <1>1
  <2>3. j + 2 \in 1..Len(t) => i + 2 \in 1..Len(u) /\ i + 1 \in 1..Len(u)
                               /\ u[i + 2] = t[j + 2] /\ u[i + 1] = t[j + 1]
    BY <1>1
  <2> HIDE DEF j
  <2>4. /\ t[j].s \notin RedoingNames
        /\ t[j].s = "append_row" => j + 1 \in 1..Len(t) /\ t[j + 1].s = "log_insert"
        /\ t[j].s = "log_insert" =>
             \/ j + 1 \in 1..Len(t) /\ t[j + 1].s = "index_row"
             \/ j + 2 \in 1..Len(t) /\ t[j + 1].s = "sync" /\ t[j + 2].s = "index_row"
    BY <2>1 DEF PlanShape
  <2> QED BY <2>1, <2>2, <2>3, <2>4
<1>4. ASSUME NEW i \in 1..Len(u), NEW j \in 1..Len(u), i < j, u[i].s = "index_row", u[j].s \in InsertNames
      PROVE  u[i].x # u[j].x
  <2>1. i + 1 < j + 1 /\ u[i] = t[i + 1] /\ u[j] = t[j + 1]
    BY <1>1, <1>4
  <2> QED BY <1>2, <1>4, <2>1 DEF PlanShape
<1>5. ASSUME NEW i \in 2..Len(u)
      PROVE  /\ u[i].s = "clear_wal" => u[i - 1].s = "write_header"
             /\ u[i].s = "close_files" => u[i - 1].s = "clear_wal"
  <2>1. i + 1 \in 2..Len(t) /\ u[i] = t[i + 1] /\ u[i - 1] = t[(i + 1) - 1]
    BY <1>1
  <2> QED BY <2>1 DEF PlanShape
<1>6. PlanShape(u)
  BY <1>3, <1>4, <1>5 DEF PlanShape
<1> QED BY <1>6 DEF u

\* What is known of the steps that are left.
LEMMA PlanRest ==
    ASSUME EngineInv, PlanShape(todo), todo # <<>>, Done
    PROVE  /\ todo \in Seq(StepType) /\ todo' \in Seq(StepType)
           /\ PlanShape(todo') /\ PlanShape(todo) /\ todo[1] \in StepType
           /\ Len(todo) \in Nat \ {0} /\ Len(todo') = Len(todo) - 1
           /\ \A i \in 1..Len(todo') : todo'[i] = todo[i + 1] /\ i + 1 \in 2..Len(todo) /\ i + 1 \in 1..Len(todo)
<1> DEFINE t == todo
<1>1. StepsOK(t) /\ t # <<>> /\ PlanShape(t) /\ todo' = Tail(t)
  BY DEF EngineInv, Done
<1>2. t \in Seq(StepType)
  BY <1>1 DEF StepsOK
<1> HIDE DEF t
<1>3. /\ StepsOK(Tail(t)) /\ t[1] \in StepType
      /\ Len(Tail(t)) = Len(t) - 1 /\ Len(t) \in Nat \ {0}
      /\ \A i \in 1..Len(t) - 1 : Tail(t)[i] = t[i + 1]
  BY <1>1, TailFacts
<1>4. Tail(t) \in Seq(StepType)
  BY <1>3 DEF StepsOK
<1>5. PlanShape(Tail(t))
  BY <1>1, <1>2, TailShape
<1>6. \A i \in 1..Len(t) - 1 : i + 1 \in 2..Len(t) /\ i + 1 \in 1..Len(t)
  BY <1>3
<1> QED BY <1>1, <1>2, <1>3, <1>4, <1>5, <1>6 DEF t

LEMMA RestFacts ==
    ASSUME ScanInv, todo # <<>>, Done
    PROVE  /\ todo \in Seq(StepType) /\ todo' \in Seq(StepType)
           /\ PlanShape(todo') /\ PlanShape(todo) /\ todo[1] \in StepType
           /\ Len(todo) \in Nat \ {0} /\ Len(todo') = Len(todo) - 1
           /\ \A i \in 1..Len(todo') : todo'[i] = todo[i + 1] /\ i + 1 \in 2..Len(todo) /\ i + 1 \in 1..Len(todo)
BY PlanRest DEF ScanInv

LEMMA DoneScan ==
    ASSUME ScanInv, todo # <<>>, Done,
           \A id \in Ids : index[id] = NoEntry =>
              index'[id] = NoEntry \/ (todo[1].s = "index_row" /\ todo[1].x = id),
           todo[1].s = "erase_row" => index'[todo[1].x] = NoEntry
    PROVE  PlanShape(todo)' /\ Fresh'
<1>1. /\ PlanShape(todo') /\ PlanShape(todo)
      /\ Len(todo) \in Nat \ {0} /\ Len(todo') = Len(todo) - 1
      /\ \A i \in 1..Len(todo') : todo'[i] = todo[i + 1] /\ i + 1 \in 2..Len(todo) /\ i + 1 \in 1..Len(todo)
  BY RestFacts
<1>2. ASSUME NEW i \in 1..Len(todo'), todo'[i].s \in InsertNames
      PROVE  \/ index'[todo'[i].x] = NoEntry
             \/ \E j \in 1..i - 1 : todo'[j].s = "erase_row" /\ todo'[j].x = todo'[i].x
  <2> DEFINE x == todo'[i].x
  <2>1. i + 1 \in 1..Len(todo) /\ todo[i + 1].s \in InsertNames /\ todo[i + 1].x = x /\ 1 \in 1..Len(todo) /\ 1 < i + 1
    BY <1>1, <1>2
  <2>2. x \in Ids
    BY <2>1 DEF ScanInv, EngineInv, StepsOK, InsertNames, RowNames
  <2>3. ~(todo[1].s = "index_row" /\ todo[1].x = x)
    BY <1>1, <2>1 DEF PlanShape
  <2>4. \/ index[x] = NoEntry
        \/ \E j \in 1..(i + 1) - 1 : todo[j].s = "erase_row" /\ todo[j].x = x
    BY <2>1 DEF ScanInv, Fresh
  <2>5. CASE index[x] = NoEntry
    BY <2>2, <2>3, <2>5
  <2>6. ASSUME NEW j \in 1..(i + 1) - 1, todo[j].s = "erase_row", todo[j].x = x
        PROVE  \/ index'[x] = NoEntry
               \/ \E k \in 1..i - 1 : todo'[k].s = "erase_row" /\ todo'[k].x = x
    <3>1. CASE j = 1
      BY <2>6, <3>1
    <3>2. CASE j # 1
      <4>1. j - 1 \in 1..i - 1 /\ j - 1 \in 1..Len(todo') /\ (j - 1) + 1 = j
        BY <3>2, <1>1
      <4>2. todo'[j - 1] = todo[j]
        BY <1>1, <4>1
      <4> QED BY <2>6, <4>1, <4>2
    <3> QED BY <3>1, <3>2
  <2> QED BY <2>4, <2>5, <2>6
<1>3. Fresh'
  BY <1>2 DEF Fresh
<1> QED BY <1>1, <1>3

\* clear_wal follows write_header and close_files follows clear_wal; the database is open
\* at the end of a call unless the call closes it.
LEMMA NextStep ==
    ASSUME EngineInv, PlanShape(todo), todo # <<>>, Done
    PROVE  /\ todo' # <<>> =>
                /\ todo'[1].s = "clear_wal" => todo[1].s = "write_header"
                /\ todo'[1].s = "close_files" => todo[1].s = "clear_wal"
           /\ open' = open /\ todo[1].s # "opened" => ~(~open' /\ todo' = <<>>)
<1>1. /\ todo' \in Seq(StepType) /\ PlanShape(todo)
      /\ Len(todo) \in Nat \ {0} /\ Len(todo') = Len(todo) - 1
      /\ \A i \in 1..Len(todo') : todo'[i] = todo[i + 1] /\ i + 1 \in 2..Len(todo) /\ i + 1 \in 1..Len(todo)
  BY PlanRest
<1>2. ASSUME todo' # <<>>
      PROVE  /\ todo'[1].s = "clear_wal" => todo[1].s = "write_header"
             /\ todo'[1].s = "close_files" => todo[1].s = "clear_wal"
  <2>1. 1 \in 1..Len(todo')
    BY <1>1, <1>2
  <2>2. todo'[1] = todo[1 + 1] /\ 1 + 1 \in 2..Len(todo)
    BY <1>1, <2>1
  <2>3. /\ todo[1 + 1].s = "clear_wal" => todo[(1 + 1) - 1].s = "write_header"
        /\ todo[1 + 1].s = "close_files" => todo[(1 + 1) - 1].s = "clear_wal"
    BY <1>1, <2>2 DEF PlanShape
  <2> QED BY <2>2, <2>3
<1>3. ASSUME open' = open, todo[1].s # "opened", ~open', todo' = <<>> PROVE FALSE
  <2>1. Len(todo') = 0
    BY <1>3
  <2>2. Len(todo) = 1
    BY <1>1, <2>1
  <2>3. ~open
    BY <1>3
  <2>4. todo[Len(todo)].s = "opened"
    BY <2>3 DEF EngineInv, OpenReady
  <2> QED BY <1>3, <2>2, <2>4
<1> QED BY <1>2, <1>3

LEMMA NextName ==
    ASSUME ScanInv, todo # <<>>, Done
    PROVE  /\ todo' # <<>> =>
                /\ todo'[1].s = "clear_wal" => todo[1].s = "write_header"
                /\ todo'[1].s = "close_files" => todo[1].s = "clear_wal"
           /\ open' = open /\ todo[1].s # "opened" => ~(~open' /\ todo' = <<>>)
BY NextStep DEF ScanInv

LEMMA DoneClose ==
    ASSUME ScanInv, todo # <<>>, Done, open' = open,
           todo[1].s \notin {"write_header", "clear_wal", "close_files", "opened"}
    PROVE  CloseReady'
<1>1. /\ todo' # <<>> =>
           /\ todo'[1].s = "clear_wal" => todo[1].s = "write_header"
           /\ todo'[1].s = "close_files" => todo[1].s = "clear_wal"
      /\ ~(~open' /\ todo' = <<>>)
  BY NextName
<1> QED BY <1>1 DEF CloseReady

\* A row that waits for its entry goes on waiting until index_row.
LEMMA PendingDone ==
    ASSUME ScanInv, todo # <<>>, Done, todo[1].s # "index_row", Pending(todo)
    PROVE  Pending(todo')
<1>1. /\ PlanShape(todo)
      /\ Len(todo) \in Nat \ {0} /\ Len(todo') = Len(todo) - 1
      /\ \A i \in 1..Len(todo') : todo'[i] = todo[i + 1]
  BY RestFacts
<1>2. CASE todo[1].s = "log_insert"
  <2>1. \/ 1 + 1 \in 1..Len(todo) /\ todo[1 + 1].s = "index_row"
        \/ 1 + 2 \in 1..Len(todo) /\ todo[1 + 1].s = "sync" /\ todo[1 + 2].s = "index_row"
    <3>1. 1 \in 1..Len(todo)
      BY <1>1
    <3> QED BY <1>1, <1>2, <3>1 DEF PlanShape
  <2>2. CASE 1 + 1 \in 1..Len(todo) /\ todo[1 + 1].s = "index_row"
    <3>1. 1 \in 1..Len(todo') /\ todo'[1].s = "index_row"
      BY <1>1, <2>2
    <3> QED BY <3>1 DEF Pending
  <2>3. CASE 1 + 2 \in 1..Len(todo) /\ todo[1 + 1].s = "sync" /\ todo[1 + 2].s = "index_row"
    <3>1. 1 \in 1..Len(todo') /\ 2 \in 1..Len(todo') /\ 1 + 2 = 2 + 1
      BY <1>1, <2>3
    <3>2. todo'[1].s = "sync" /\ todo'[2].s = "index_row"
      BY <1>1, <2>3, <3>1
    <3> QED BY <3>1, <3>2 DEF Pending
  <2> QED BY <2>1, <2>2, <2>3
<1>3. CASE Len(todo) > 1 /\ todo[1].s = "sync" /\ todo[2].s = "index_row"
  <2>1. 1 \in 1..Len(todo') /\ todo'[1] = todo[1 + 1]
    BY <1>1, <1>3
  <2> QED BY <1>3, <2>1 DEF Pending
<1> QED BY <1>2, <1>3 DEF Pending

\* A step that leaves every row where it is, in the pages and in the index.
LEMMA SameRows ==
    ASSUME ScanInv, next' = next,
           \A pid \in 0..next - 1 : RowsOf(Pager', pid) = RowsOf(Pager, pid),
           \A id \in Ids : /\ index'[id] = NoEntry <=> index[id] = NoEntry
                           /\ index[id] # NoEntry => /\ index'[id].page = index[id].page
                                                     /\ index'[id].slot = index[id].slot,
           Pending(todo) => Pending(todo')
    PROVE  EntriesExact' /\ RowsIndexed' /\ (sec' = sec => SecondaryExact')
<1>1. ASSUME NEW id \in Ids, index'[id] # NoEntry
      PROVE  /\ index[id] # NoEntry /\ PlaceOf(Pager', index'[id], id)
             /\ RowAt(Pager', index'[id]) = RowAt(Pager, index[id])
  <2>1. index[id] # NoEntry /\ index[id].page \in 0..next - 1 /\ PlaceOf(Pager, index[id], id)
    BY <1>1 DEF ScanInv, EngineInv, Entries, EntriesExact
  <2>2. RowsOf(Pager', index'[id].page) = RowsOf(Pager, index[id].page) /\ index'[id].slot = index[id].slot
    BY <2>1
  <2> QED BY <2>1, <2>2 DEF PlaceOf, RowAt
<1>2. EntriesExact'
  BY <1>1 DEF EntriesExact
<1>3. RowsIndexed'
  <2> SUFFICES ASSUME NEW pid \in 0..next - 1, NEW k \in 1..Len(RowsOf(Pager', pid)),
                      NEW e, e = index'[RowsOf(Pager', pid)[k].id]
               PROVE  \/ e # NoEntry /\ e.page = pid /\ e.slot = k
                      \/ Pending(todo') /\ pid = next - 1 /\ k = Len(RowsOf(Pager', pid))
    BY DEF RowsIndexed
  <2> DEFINE r == RowsOf(Pager, pid)[k]
  <2>1. /\ k \in 1..Len(RowsOf(Pager, pid)) /\ e = index'[r.id]
        /\ Len(RowsOf(Pager', pid)) = Len(RowsOf(Pager, pid))
    OBVIOUS
  <2>2. r \in Row /\ r.id \in Ids
    BY <2>1, PageRows DEF ScanInv
  <2>3. \/ index[r.id] # NoEntry /\ index[r.id].page = pid /\ index[r.id].slot = k
        \/ Pending(todo) /\ pid = next - 1 /\ k = Len(RowsOf(Pager, pid))
    BY <2>1 DEF ScanInv, RowsIndexed
  <2> HIDE DEF r
  <2> QED BY <2>1, <2>2, <2>3
<1>4. ASSUME sec' = sec PROVE SecondaryExact'
  <2> SUFFICES ASSUME sec # NoIndex, NEW v \in Vals, NEW x \in Ids
               PROVE  <<v, x>> \in sec <=> index'[x] # NoEntry /\ RowAt(Pager', index'[x]).val = v
    BY <1>4 DEF SecondaryExact
  <2>1. <<v, x>> \in sec <=> index[x] # NoEntry /\ RowAt(Pager, index[x]).val = v
    BY DEF ScanInv, SecondaryExact
  <2>2. index[x] # NoEntry <=> index'[x] # NoEntry
    OBVIOUS
  <2> QED BY <1>1, <2>1, <2>2
<1> QED BY <1>2, <1>3, <1>4

\* A step of a call that leaves every row where it is.
LEMMA QuietKeeps ==
    ASSUME ScanInv, EngineInv', todo # <<>>, Done, open' = open, next' = next, sec' = sec,
           \A pid \in 0..next - 1 : RowsOf(Pager', pid) = RowsOf(Pager, pid),
           \A id \in Ids : /\ index'[id] = NoEntry <=> index[id] = NoEntry
                           /\ index[id] # NoEntry => /\ index'[id].page = index[id].page
                                                     /\ index'[id].slot = index[id].slot,
           todo[1].s \in {"touch_last", "touch_row", "visit_page", "flush_page", "log_insert", "sync"}
    PROVE  ScanInv'
<1>1. Pending(todo) => Pending(todo')
  BY PendingDone
<1>2. EntriesExact' /\ RowsIndexed' /\ SecondaryExact'
  BY <1>1, SameRows
<1>3. PlanShape(todo)' /\ Fresh'
  BY DoneScan
<1>4. CloseReady'
  BY DoneClose
<1> QED BY <1>2, <1>3, <1>4 DEF ScanInv

\* Fetching a page leaves the rows where they are.
LEMMA FetchRows ==
    ASSUME EngineInv, NEW pid \in 0..next - 1, PagerBecomes(get_page(Pager, pid)),
           UNCHANGED <<count, next, index, mode>>
    PROVE  \A q \in 0..next - 1 : RowsOf(Pager', q) = RowsOf(Pager, q)
<1> DEFINE q == get_page(Pager, pid)
<1>1. PagerOK(q, next) /\ Keeps(Pager, q, next) /\ PagerBecomes(q)
  BY StepFacts, GetPageFacts
<1> HIDE DEF q
<1>2. Pager' = q
  BY <1>1, PagerStep
<1> QED BY <1>1, <1>2 DEF Keeps

LEMMA TouchLastScan == ScanInv /\ TouchLast => ScanInv'
<1> SUFFICES ASSUME ScanInv, TouchLast PROVE ScanInv'
  OBVIOUS
<1>1. EngineInv /\ EngineInv'
  BY TouchLastKeeps DEF ScanInv
<1>2. /\ todo # <<>> /\ todo[1].s = "touch_last" /\ Done /\ next \in Nat
      /\ UNCHANGED <<count, next, index, sec, open, mode>>
  BY <1>1, StepFacts DEF TouchLast, IsNext
<1>3. \A pid \in 0..next - 1 : RowsOf(Pager', pid) = RowsOf(Pager, pid)
  <2>1. CASE next > 0
    <3>1. next - 1 \in 0..next - 1 /\ PagerBecomes(get_page(Pager, next - 1))
      BY <1>2, <2>1 DEF TouchLast
    <3> QED BY <1>1, <1>2, <3>1, FetchRows
  <2>2. CASE ~(next > 0)
    BY <1>2, <2>2
  <2> QED BY <2>1, <2>2
<1> QED BY <1>1, <1>2, <1>3, QuietKeeps

LEMMA TouchRowScan == ScanInv /\ TouchRow => ScanInv'
<1> SUFFICES ASSUME ScanInv, TouchRow PROVE ScanInv'
  OBVIOUS
<1>1. EngineInv /\ EngineInv'
  BY TouchRowKeeps DEF ScanInv
<1>2. /\ todo # <<>> /\ todo[1].s = "touch_row" /\ Done /\ todo[1].x \in Ids /\ 1 \in 1..Len(todo)
      /\ PagerBecomes(get_page(Pager, index[todo[1].x].page))
      /\ UNCHANGED <<count, next, index, sec, open, mode>>
  BY <1>1, StepFacts DEF TouchRow, IsNext, RowNames
<1>3. index[todo[1].x] # NoEntry
  BY <1>1, <1>2 DEF EngineInv, EraseReady
<1>4. index[todo[1].x].page \in 0..next - 1
  BY <1>1, <1>2, <1>3 DEF EngineInv, Entries
<1>5. \A pid \in 0..next - 1 : RowsOf(Pager', pid) = RowsOf(Pager, pid)
  BY <1>1, <1>2, <1>4, FetchRows
<1> QED BY <1>1, <1>2, <1>5, QuietKeeps

LEMMA VisitPageScan == ScanInv /\ VisitPage => ScanInv'
<1> SUFFICES ASSUME ScanInv, VisitPage PROVE ScanInv'
  OBVIOUS
<1>1. EngineInv /\ EngineInv'
  BY VisitPageKeeps DEF ScanInv
<1>2. /\ todo # <<>> /\ todo[1].s = "visit_page" /\ Done /\ 1 \in 1..Len(todo)
      /\ PagerBecomes(get_page(Pager, todo[1].x))
      /\ UNCHANGED <<count, next, index, sec, open, mode>>
  BY <1>1, StepFacts DEF VisitPage, IsNext
<1>3. todo[1].x \in 0..next - 1
  BY <1>1, <1>2 DEF EngineInv, FlushReady
<1>4. \A pid \in 0..next - 1 : RowsOf(Pager', pid) = RowsOf(Pager, pid)
  BY <1>1, <1>2, <1>3, FetchRows
<1> QED BY <1>1, <1>2, <1>4, QuietKeeps

LEMMA ReadScan == ASSUME NEW pid \in Nat PROVE ScanInv /\ Read(pid) => ScanInv'
<1> SUFFICES ASSUME ScanInv, Read(pid) PROVE ScanInv'
  OBVIOUS
<1>1. EngineInv /\ EngineInv'
  BY ReadKeeps DEF ScanInv
<1>2. /\ pid \in 0..next - 1 /\ PagerBecomes(get_page(Pager, pid)) /\ open /\ todo = <<>>
      /\ UNCHANGED <<count, walFile, walBuf, next, index, sec, open, todo, call, mode>>
  BY <1>1, StepFacts DEF Read, Idle
<1>3. \A q \in 0..next - 1 : RowsOf(Pager', q) = RowsOf(Pager, q)
  BY <1>1, <1>2, FetchRows
<1>4. EntriesExact' /\ RowsIndexed' /\ SecondaryExact'
  BY <1>2, <1>3, SameRows
<1>5. Fresh' /\ PlanShape(todo)' /\ CloseReady'
  BY <1>2 DEF ScanInv, Fresh, CloseReady
<1> QED BY <1>1, <1>4, <1>5 DEF ScanInv

LEMMA LogInsertScan == ScanInv /\ LogInsert => ScanInv'
<1> SUFFICES ASSUME ScanInv, LogInsert PROVE ScanInv'
  OBVIOUS
<1>1. EngineInv /\ EngineInv'
  BY LogInsertKeeps DEF ScanInv
<1>2. /\ todo # <<>> /\ todo[1].s = "log_insert" /\ Done
      /\ UNCHANGED <<disk, offs, lru, cached, next, index, sec, open, mode>>
  BY <1>1, StepFacts DEF LogInsert, IsNext, pagerVars
<1>3. Pager' = Pager
  BY <1>2 DEF Pager
<1> QED BY <1>1, <1>2, <1>3, QuietKeeps

LEMMA SyncScan == ScanInv /\ Sync => ScanInv'
<1> SUFFICES ASSUME ScanInv, Sync PROVE ScanInv'
  OBVIOUS
<1>1. EngineInv /\ EngineInv'
  BY SyncKeeps DEF ScanInv
<1>2. /\ todo # <<>> /\ todo[1].s = "sync" /\ Done
      /\ UNCHANGED <<disk, offs, lru, cached, next, index, sec, open, mode>>
  BY <1>1, StepFacts DEF Sync, IsNext, pagerVars
<1>3. Pager' = Pager
  BY <1>2 DEF Pager
<1> QED BY <1>1, <1>2, <1>3, QuietKeeps

LEMMA FlushPageScan == ScanInv /\ FlushPage => ScanInv'
<1> SUFFICES ASSUME ScanInv, FlushPage PROVE ScanInv'
  OBVIOUS
<1>1. EngineInv /\ EngineInv'
  BY FlushPageKeeps DEF ScanInv
<1>2. /\ todo # <<>> /\ todo[1].s = "flush_page" /\ Done
      /\ next' = next /\ sec' = sec /\ open' = open
      /\ Keeps(Pager, Pager', next)
      /\ \A i \in Ids :
           /\ index[i] = NoEntry <=> index'[i] = NoEntry
           /\ index[i] # NoEntry => index'[i].page = index[i].page /\ index'[i].slot = index[i].slot
  BY <1>1, FlushPageFacts
<1>3. \A pid \in 0..next - 1 : RowsOf(Pager', pid) = RowsOf(Pager, pid)
  BY <1>2 DEF Keeps
<1> QED BY <1>1, <1>2, <1>3, QuietKeeps

\* A step that is not a part of an insert and changes neither rows nor entries.
LEMMA StillKeeps ==
    ASSUME ScanInv, todo # <<>>, Done,
           todo[1].s \in {"write_header", "clear_wal", "set_index", "opened"},
           UNCHANGED <<disk, offs, lru, cached, next, index, mode>>
    PROVE  /\ EntriesExact' /\ RowsIndexed' /\ (sec' = sec => SecondaryExact')
           /\ PlanShape(todo)' /\ Fresh' /\ Pager' = Pager /\ ~Pending(todo)
<1>1. Pager' = Pager
  BY DEF Pager
<1>2. ~Pending(todo)
  BY DEF Pending
<1>3. EntriesExact' /\ RowsIndexed' /\ (sec' = sec => SecondaryExact')
  BY <1>1, <1>2, SameRows
<1>4. PlanShape(todo)' /\ Fresh'
  BY DoneScan
<1> QED BY <1>1, <1>2, <1>3, <1>4

LEMMA WriteHeaderScan == ScanInv /\ WriteHeader => ScanInv'
<1> SUFFICES ASSUME ScanInv, WriteHeader PROVE ScanInv'
  OBVIOUS
<1>1. EngineInv /\ EngineInv'
  BY WriteHeaderKeeps DEF ScanInv
<1>2. /\ todo # <<>> /\ todo[1].s = "write_header" /\ Done /\ Len(todo) \in Nat \ {0}
      /\ count' = next
      /\ UNCHANGED <<disk, offs, lru, cached, walFile, walBuf, next, index, sec, open, mode>>
  BY <1>1, StepFacts DEF WriteHeader, IsNext
<1>3. Dirty = {}
  <2>1. 1 \in 1..Len(todo)
    BY <1>2
  <2>2. \A pid \in Dirty : \E j \in 1..Len(todo) : j < 1 /\ todo[j].x = pid
    BY <1>1, <1>2, <2>1 DEF EngineInv, FlushReady
  <2> QED BY <2>2
<1>4. Flushed'
  BY <1>2, <1>3 DEF Flushed, Dirty
<1>5. CloseReady'
  <2>1. /\ todo' # <<>> => todo'[1].s # "close_files"
        /\ ~(~open' /\ todo' = <<>>)
    BY <1>2, NextName
  <2> QED BY <1>4, <2>1 DEF CloseReady
<1>6. EntriesExact' /\ RowsIndexed' /\ SecondaryExact' /\ PlanShape(todo)' /\ Fresh'
  BY <1>2, StillKeeps
<1> QED BY <1>1, <1>5, <1>6 DEF ScanInv

LEMMA ClearWalScan == ScanInv /\ ClearWal => ScanInv'
<1> SUFFICES ASSUME ScanInv, ClearWal PROVE ScanInv'
  OBVIOUS
<1>1. EngineInv /\ EngineInv'
  BY ClearWalKeeps DEF ScanInv
<1>2. /\ todo # <<>> /\ todo[1].s = "clear_wal" /\ Done
      /\ walFile' = <<>> /\ walBuf' = <<>>
      /\ UNCHANGED <<disk, offs, lru, cached, count, next, index, sec, open, mode>>
  BY <1>1, StepFacts DEF ClearWal, IsNext, pagerVars
<1>3. Flushed'
  BY <1>2 DEF ScanInv, CloseReady, Flushed, Dirty
<1>4. CloseReady'
  <2>1. ~(~open' /\ todo' = <<>>)
    BY <1>2, NextName
  <2> QED BY <1>2, <1>3, <2>1 DEF CloseReady
<1>5. EntriesExact' /\ RowsIndexed' /\ SecondaryExact' /\ PlanShape(todo)' /\ Fresh'
  BY <1>2, StillKeeps
<1> QED BY <1>1, <1>4, <1>5 DEF ScanInv

\* create_index: the rows of the pages are those that the primary index leads to.
LEMMA SetIndexScan == ScanInv /\ SetIndex => ScanInv'
<1> SUFFICES ASSUME ScanInv, SetIndex PROVE ScanInv'
  OBVIOUS
<1>1. EngineInv /\ EngineInv'
  BY SetIndexKeeps DEF ScanInv
<1>2. /\ todo # <<>> /\ todo[1].s = "set_index" /\ Done
      /\ UNCHANGED <<disk, offs, lru, cached, next, index, open, mode>>
  BY <1>1, StepFacts DEF SetIndex, IsNext, files
<1>3. /\ EntriesExact' /\ RowsIndexed' /\ PlanShape(todo)' /\ Fresh'
      /\ Pager' = Pager /\ ~Pending(todo)
  BY <1>2, StillKeeps
<1>4. CloseReady'
  BY <1>2, DoneClose
<1>5. SecondaryExact'
  <2> SUFFICES ASSUME NEW v \in Vals, NEW x \in Ids
               PROVE  <<v, x>> \in sec' <=> index[x] # NoEntry /\ RowAt(Pager, index[x]).val = v
    BY <1>2, <1>3 DEF SecondaryExact
  <2> DEFINE all == UNION {ToSet(RowsOf(Pager, pid)) : pid \in 0..next - 1}
  <2>1. sec' = {<<r.val, r.id>> : r \in all}
    BY DEF SetIndex
  <2>2. \A r : r \in all <=> \E pid \in 0..next - 1 : \E k \in 1..Len(RowsOf(Pager, pid)) : r = RowsOf(Pager, pid)[k]
    <3>1. \A pid \in 0..next - 1 : \A r : r \in ToSet(RowsOf(Pager, pid)) <=>
             \E k \in 1..Len(RowsOf(Pager, pid)) : r = RowsOf(Pager, pid)[k]
      BY <1>1, PageRows, ToSetFacts
    <3> QED BY <3>1
  <2> HIDE DEF all
  <2>3. ASSUME <<v, x>> \in sec'
        PROVE  index[x] # NoEntry /\ RowAt(Pager, index[x]).val = v
    <3>1. PICK r \in all : r.val = v /\ r.id = x
      BY <2>1, <2>3
    <3>2. PICK pid \in 0..next - 1 : \E k \in 1..Len(RowsOf(Pager, pid)) : r = RowsOf(Pager, pid)[k]
      BY <2>2, <3>1
    <3>3. PICK k \in 1..Len(RowsOf(Pager, pid)) : r = RowsOf(Pager, pid)[k]
      BY <3>2
    <3>4. index[x] # NoEntry /\ index[x].page = pid /\ index[x].slot = k
      BY <1>3, <3>1, <3>3 DEF ScanInv, RowsIndexed
    <3> QED BY <3>1, <3>3, <3>4 DEF RowAt
  <2>4. ASSUME index[x] # NoEntry, RowAt(Pager, index[x]).val = v
        PROVE  <<v, x>> \in sec'
    <3>1. /\ index[x].page \in 0..next - 1 /\ index[x].slot \in 1..Len(RowsOf(Pager, index[x].page))
          /\ RowAt(Pager, index[x]).id = x
      BY <1>1, <2>4 DEF ScanInv, EngineInv, Entries, EntriesExact, PlaceOf
    <3>2. RowAt(Pager, index[x]) \in all
      BY <2>2, <3>1 DEF RowAt
    <3> QED BY <2>1, <2>4, <3>1, <3>2
  <2> QED BY <2>3, <2>4
<1> QED BY <1>1, <1>3, <1>4, <1>5 DEF ScanInv

LEMMA DropIndexScan == ScanInv /\ DropIndex => ScanInv'
<1> SUFFICES ASSUME ScanInv, DropIndex PROVE ScanInv'
  OBVIOUS
<1>1. EngineInv /\ EngineInv'
  BY DropIndexKeeps DEF ScanInv
<1>2. /\ UNCHANGED <<disk, offs, lru, cached, count, walFile, walBuf, next, index, open, todo, call, mode>>
      /\ sec' = NoIndex /\ open /\ todo = <<>>
  BY DEF DropIndex, files, Idle
<1>3. Pager' = Pager
  BY <1>2 DEF Pager
<1>4. EntriesExact' /\ RowsIndexed' /\ Fresh' /\ SecondaryExact' /\ PlanShape(todo)' /\ CloseReady'
  BY <1>2, <1>3 DEF ScanInv, EntriesExact, RowsIndexed, Fresh, SecondaryExact, CloseReady
<1> QED BY <1>1, <1>4 DEF ScanInv
----------------------------------------------------------------------------
(* Steps that change rows *)

\* The new row is the last one, and waits for its entry.
LEMMA AppendRowScan == ScanInv /\ AppendRow => ScanInv'
<1> SUFFICES ASSUME ScanInv, AppendRow PROVE ScanInv'
  OBVIOUS
<1> DEFINE m == next'
           old == IF m = next THEN RowsOf(Pager, next - 1) ELSE <<>>
           rows == RowsOf(Pager', m - 1)
<1>1. EngineInv /\ EngineInv'
  BY AppendRowKeeps DEF ScanInv
<1>2. /\ todo # <<>> /\ todo[1].s = "append_row" /\ Done
      /\ index' = index /\ sec' = sec /\ open' = open
      /\ m \in Nat \ {0} /\ (m = next \/ m = next + 1)
      /\ \A x \in 0..m - 2 : RowsOf(Pager', x) = RowsOf(Pager, x)
  BY <1>1, AppendRowFacts
<1>3. /\ old \in Seq(Row) /\ rows \in Seq(Row) /\ Len(rows) = Len(old) + 1
      /\ \A k \in 1..Len(old) : rows[k] = old[k]
  BY <1>1, AppendRowFacts
<1>4. next \in Nat
  BY <1>1, StepFacts
<1>5. (m = next => old = RowsOf(Pager, next - 1)) /\ (m # next => old = <<>>)
  OBVIOUS
<1>6. m \in Nat \ {0} /\ (m = next \/ m = next + 1)
  BY <1>2
<1> DEFINE new == Pager'
<1>7. /\ \A x \in 0..m - 2 : RowsOf(new, x) = RowsOf(Pager, x)
      /\ rows = RowsOf(new, m - 1)
  BY <1>2
<1> HIDE DEF old, m, rows, new
<1>8. ASSUME NEW x \in 0..next - 1, NEW k \in 1..Len(RowsOf(Pager, x))
      PROVE  k \in 1..Len(RowsOf(new, x)) /\ RowsOf(new, x)[k] = RowsOf(Pager, x)[k]
  <2>1. CASE x = m - 1
    <3>1. m = next /\ k \in 1..Len(old) /\ old = RowsOf(Pager, x)
      BY <1>4, <1>5, <1>6, <2>1
    <3> QED BY <1>3, <1>7, <2>1, <3>1
  <2>2. CASE x # m - 1
    <3>1. x \in 0..m - 2
      BY <1>4, <1>6, <2>2
    <3> QED BY <1>7, <3>1
  <2> QED BY <2>1, <2>2
<1>9. ASSUME NEW x \in 0..m - 1, NEW k \in 1..Len(RowsOf(new, x))
      PROVE  \/ /\ x \in 0..next - 1 /\ k \in 1..Len(RowsOf(Pager, x))
                /\ RowsOf(new, x)[k] = RowsOf(Pager, x)[k]
             \/ x = m - 1 /\ k = Len(RowsOf(new, x))
  <2>1. CASE x = m - 1 /\ k # Len(rows)
    <3>1. k \in 1..Len(old)
      BY <1>3, <1>7, <2>1
    <3>2. m = next /\ old = RowsOf(Pager, x)
      BY <1>5, <1>6, <2>1, <3>1
    <3> QED BY <1>3, <1>7, <2>1, <3>1, <3>2
  <2>2. CASE x = m - 1 /\ k = Len(rows)
    BY <1>7, <2>2
  <2>3. CASE x # m - 1
    <3>1. x \in 0..m - 2 /\ x \in 0..next - 1
      BY <1>4, <1>6, <2>3
    <3> QED BY <1>7, <3>1
  <2> QED BY <2>1, <2>2, <2>3
<1>10. ~Pending(todo) /\ Pending(todo')
  <2>1. ~Pending(todo)
    BY <1>2 DEF Pending
  <2>2. /\ PlanShape(todo)
        /\ Len(todo) \in Nat \ {0} /\ Len(todo') = Len(todo) - 1
        /\ \A i \in 1..Len(todo') : todo'[i] = todo[i + 1]
    BY <1>2, RestFacts
  <2>3. 1 + 1 \in 1..Len(todo) /\ todo[1 + 1].s = "log_insert"
    <3>1. 1 \in 1..Len(todo)
      BY <2>2
    <3> QED BY <1>2, <2>2, <3>1 DEF PlanShape
  <2>4. Len(todo') > 0 /\ todo'[1].s = "log_insert"
    BY <2>2, <2>3
  <2> QED BY <2>1, <2>4 DEF Pending
<1>11. ASSUME NEW id \in Ids, index[id] # NoEntry
       PROVE  PlaceOf(new, index[id], id) /\ RowAt(new, index[id]) = RowAt(Pager, index[id])
  <2>1. index[id].page \in 0..next - 1 /\ PlaceOf(Pager, index[id], id)
    BY <1>1, <1>11 DEF ScanInv, EngineInv, Entries, EntriesExact
  <2>2. /\ index[id].slot \in 1..Len(RowsOf(new, index[id].page))
        /\ RowAt(new, index[id]) = RowAt(Pager, index[id])
    BY <1>8, <2>1 DEF PlaceOf, RowAt
  <2> QED BY <2>1, <2>2 DEF PlaceOf
<1>12. EntriesExact' /\ SecondaryExact'
  BY <1>2, <1>11 DEF ScanInv, EntriesExact, SecondaryExact, new
<1>13. RowsIndexed'
  <2> SUFFICES ASSUME NEW x \in 0..m - 1, NEW k \in 1..Len(RowsOf(new, x)),
                      NEW e, e = index[RowsOf(new, x)[k].id]
               PROVE  \/ e # NoEntry /\ e.page = x /\ e.slot = k
                      \/ Pending(todo') /\ x = m - 1 /\ k = Len(RowsOf(new, x))
    BY <1>2 DEF RowsIndexed, m, new
  <2>1. CASE /\ x \in 0..next - 1 /\ k \in 1..Len(RowsOf(Pager, x))
             /\ RowsOf(new, x)[k] = RowsOf(Pager, x)[k]
    BY <1>10, <2>1 DEF ScanInv, RowsIndexed
  <2>2. CASE x = m - 1 /\ k = Len(RowsOf(new, x))
    BY <1>10, <2>2
  <2> QED BY <1>9, <2>1, <2>2
<1>14. PlanShape(todo)' /\ Fresh'
  BY <1>2, DoneScan
<1>15. CloseReady'
  BY <1>2, DoneClose
<1> QED BY <1>1, <1>12, <1>13, <1>14, <1>15 DEF ScanInv

\* The row that waited gets its entry.
LEMMA IndexRowScan == ScanInv /\ IndexRow => ScanInv'
<1> SUFFICES ASSUME ScanInv, IndexRow PROVE ScanInv'
  OBVIOUS
<1> DEFINE id == todo[1].x
           v == todo[1].v
           rows == RowsOf(Pager, next - 1)
           e == [page |-> next - 1, slot |-> Len(rows), off |-> (next - 1) \in offs]
<1>1. EngineInv /\ EngineInv'
  BY IndexRowKeeps DEF ScanInv
<1>2. /\ todo # <<>> /\ todo[1].s = "index_row" /\ Done /\ id \in Ids /\ v \in Vals
      /\ UNCHANGED <<disk, offs, lru, cached, next, open, mode>>
      /\ index' = [index EXCEPT ![id] = e]
      /\ sec' = IF sec = NoIndex THEN sec ELSE sec \cup {<<v, id>>}
  BY <1>1, StepFacts DEF IndexRow, IsNext, files, RowNames, ValueNames
<1>a. 1 \in 1..Len(todo)
  BY <1>1, <1>2, StepFacts
<1>3. LastRow(Pager, next, id, v)
  BY <1>1, <1>2 DEF EngineInv, AppendReady
<1>4. next \in Nat /\ next > 0 /\ next - 1 \in 0..next - 1
  BY <1>1, <1>3, StepFacts DEF LastRow
<1>5. /\ Len(rows) \in Nat \ {0} /\ rows[Len(rows)].id = id /\ rows[Len(rows)].val = v
      /\ rows = RowsOf(Pager, next - 1)
  BY <1>1, <1>3, <1>4, PageRows DEF LastRow, Last
<1>6. Pager' = Pager
  BY <1>2 DEF Pager
<1> HIDE DEF rows
<1>7. e \in Entry /\ e.page = next - 1 /\ e.slot = Len(rows)
  BY <1>4, <1>5 DEF Entry
<1> HIDE DEF e
<1>8. /\ index'[id] = e /\ e # NoEntry
      /\ \A i \in Ids : i # id => index'[i] = index[i]
  <2>1. index \in [Ids -> Entry \cup {NoEntry}]
    BY <1>1 DEF EngineInv, Types
  <2> QED BY <1>2, <1>7, <2>1, NoEntryAssumption
<1>9. index[id] = NoEntry
  BY <1>2, <1>a DEF ScanInv, Fresh, InsertNames
<1>10. RowAt(Pager, e).id = id /\ RowAt(Pager, e).val = v /\ PlaceOf(Pager, e, id)
  BY <1>5, <1>7 DEF RowAt, PlaceOf
<1> HIDE DEF id, v
<1>11. EntriesExact'
  <2> SUFFICES ASSUME NEW i \in Ids, index'[i] # NoEntry PROVE PlaceOf(Pager, index'[i], i)
    BY <1>6 DEF EntriesExact
  <2> QED BY <1>8, <1>10 DEF ScanInv, EntriesExact
<1>12. RowsIndexed'
  <2> SUFFICES ASSUME NEW pid \in 0..next - 1, NEW k \in 1..Len(RowsOf(Pager, pid)),
                      NEW f, f = index'[RowsOf(Pager, pid)[k].id]
               PROVE  f # NoEntry /\ f.page = pid /\ f.slot = k
    BY <1>2, <1>6 DEF RowsIndexed
  <2> DEFINE r == RowsOf(Pager, pid)[k]
  <2>1. r.id \in Ids
    BY <1>1, PageRows
  <2>2. \/ index[r.id] # NoEntry /\ index[r.id].page = pid /\ index[r.id].slot = k
        \/ pid = next - 1 /\ k = Len(RowsOf(Pager, pid))
    BY DEF ScanInv, RowsIndexed
  <2>3. CASE index[r.id] # NoEntry /\ index[r.id].page = pid /\ index[r.id].slot = k
    BY <1>8, <1>9, <2>1, <2>3
  <2>4. CASE pid = next - 1 /\ k = Len(RowsOf(Pager, pid))
    BY <1>5, <1>7, <1>8, <2>4
  <2> QED BY <2>2, <2>3, <2>4
<1>13. SecondaryExact'
  <2> SUFFICES ASSUME sec' # NoIndex, NEW w \in Vals, NEW x \in Ids
               PROVE  <<w, x>> \in sec' <=> index'[x] # NoEntry /\ RowAt(Pager, index'[x]).val = w
    BY <1>6 DEF SecondaryExact
  <2>1. sec # NoIndex /\ sec' = sec \cup {<<v, id>>}
    BY <1>2
  <2>2. <<w, x>> \in sec <=> index[x] # NoEntry /\ RowAt(Pager, index[x]).val = w
    BY <2>1 DEF ScanInv, SecondaryExact
  <2>3. CASE x = id
    BY <1>8, <1>9, <1>10, <2>1, <2>2, <2>3
  <2>4. CASE x # id
    BY <1>8, <2>1, <2>2, <2>4
  <2> QED BY <2>3, <2>4
<1>14. PlanShape(todo)' /\ Fresh'
  BY <1>2, <1>8, DoneScan DEF id
<1>15. CloseReady'
  BY <1>2, DoneClose
<1> QED BY <1>1, <1>11, <1>12, <1>13, <1>14, <1>15 DEF ScanInv

\* rest holds the rows except the one at slot, and find_row finds each of them in it.
OthersFound(rows, slot, rest) ==
    /\ \A k \in 1..Len(rest) : /\ rest[k].id # rows[slot].id
                               /\ find_row(rest, rest[k].id) = k
                               /\ \E a \in 1..Len(rows) : rest[k] = rows[a]
    /\ \A a \in 1..Len(rows) : a # slot =>
         /\ find_row(rest, rows[a].id) \in 1..Len(rest)
         /\ rest[find_row(rest, rows[a].id)] = rows[a]

\* erase_row on a page without two rows of one id: find_row finds each other row.
LEMMA UniqueErase ==
    ASSUME NEW rows \in Seq(Row), NEW slot \in 1..Len(rows),
           \A a, b \in 1..Len(rows) : rows[a].id = rows[b].id => a = b
    PROVE  OthersFound(rows, slot, erase_row(rows, slot))
<1> DEFINE rest == erase_row(rows, slot)
           at(k) == IF k < slot THEN k ELSE k + 1
<1>a. Len(rows) \in Nat
  OBVIOUS
<1>b. rest \in Seq(Row) /\ Len(rest) = Len(rows) - 1
      /\ \A a \in 1..Len(rows) : a # slot => \E k \in 1..Len(rest) : rest[k] = rows[a]
  BY EraseFacts
<1>1. rest \in Seq(Row) /\ Len(rest) = Len(rows) - 1 /\ Len(rows) \in Nat
      /\ \A a \in 1..Len(rows) : a # slot => \E k \in 1..Len(rest) : rest[k] = rows[a]
  BY <1>a, <1>b
<1>2. \A k \in 1..Len(rows) - 1 : rest[k] = IF k < slot THEN rows[k] ELSE rows[k + 1]
  BY RemoveAtFacts DEF erase_row
<1> HIDE DEF rest
<1>3. ASSUME NEW k \in 1..Len(rest)
      PROVE  at(k) \in 1..Len(rows) /\ at(k) # slot /\ rest[k] = rows[at(k)]
  BY <1>1, <1>2
<1>4. ASSUME NEW k \in 1..Len(rest), NEW n \in 1..Len(rest), rest[k].id = rest[n].id PROVE k = n
  <2>1. at(k) = at(n)
    <3> HIDE DEF at
    <3> QED BY <1>3, <1>4
  <2> QED BY <1>1, <2>1
<1> HIDE DEF at
<1>5. ASSUME NEW id, NEW k \in 1..Len(rest), rest[k].id = id
      PROVE  find_row(rest, id) = k
  <2>1. /\ find_row(rest, id) \in 0..Len(rest) /\ find_row(rest, id) # 0
        /\ rest[find_row(rest, id)].id = id
    BY <1>1, <1>5, FindFacts
  <2>2. find_row(rest, id) \in 1..Len(rest)
    BY <1>1, <2>1
  <2> QED BY <1>4, <1>5, <2>1, <2>2
<1>6. ASSUME NEW k \in 1..Len(rest)
      PROVE  /\ rest[k].id # rows[slot].id /\ find_row(rest, rest[k].id) = k
             /\ \E a \in 1..Len(rows) : rest[k] = rows[a]
  BY <1>3, <1>5
<1>7. ASSUME NEW a \in 1..Len(rows), a # slot
      PROVE  /\ find_row(rest, rows[a].id) \in 1..Len(rest)
             /\ rest[find_row(rest, rows[a].id)] = rows[a]
  <2>1. PICK k \in 1..Len(rest) : rest[k] = rows[a]
    BY <1>1, <1>7
  <2>2. find_row(rest, rows[a].id) = k
    BY <1>5, <2>1
  <2> QED BY <2>1, <2>2
<1>8. OthersFound(rows, slot, rest)
  BY <1>6, <1>7 DEF OthersFound
<1> QED BY <1>8 DEF rest

\* The row leaves its page and both indexes, and repair_slots_after_erase sets the slots
\* of the rows behind it.
LEMMA UnindexScan ==
    ASSUME ScanInv, NEW id \in Ids, index[id] # NoEntry, index[id].page \in DOMAIN cached,
           Unindex(id), ~Pending(todo), UNCHANGED <<count, next, mode>>
    PROVE  /\ EntriesExact' /\ RowsIndexed' /\ SecondaryExact' /\ disk' = disk
           /\ index'[id] = NoEntry
           /\ \A i \in Ids : i # id =>
                /\ index[i] = NoEntry <=> index'[i] = NoEntry
                /\ index[i] # NoEntry => /\ index'[i].page = index[i].page
                                         /\ RowAt(Pager', index'[i]) = RowAt(Pager, index[i])
<1> DEFINE pid == index[id].page
           rows == RowsOf(Pager, pid)
           slot == SlotOf(id)
           rest == erase_row(rows, slot)
           new == Pager'
<1>1. EngineInv
  BY DEF ScanInv
<1>2. UNCHANGED <<count, next, mode>> /\ Unindex(id)
  OBVIOUS
<1>3. index[id] # NoEntry /\ index[id].page \in DOMAIN cached
  OBVIOUS
<1>4. /\ RowsOf(new, pid) = rest
      /\ \A x \in 0..next - 1 : x # pid => RowsOf(new, x) = RowsOf(Pager, x)
      /\ index' = RepairedIndex(id, rest) /\ disk' = disk
      /\ sec' = IF sec = NoIndex THEN sec ELSE sec \ {<<rows[slot].val, id>>}
  <2>1. sec' = IF sec = NoIndex THEN sec ELSE sec \ {<<rows[slot].val, id>>}
    BY <1>2 DEF Unindex
  <2> QED BY <1>1, <1>2, <1>3, <2>1, UnindexPages
<1>5. pid \in 0..next - 1 /\ rows \in Seq(Row) /\ next \in Nat
  BY <1>1, <1>2, <1>3, SlotFacts, StepFacts
<1>6. slot = index[id].slot /\ slot \in 1..Len(rows) /\ rows[slot].id = id
  <2>1. index[id].slot \in 1..Len(rows) /\ rows[index[id].slot].id = id
    BY <1>2, <1>3 DEF ScanInv, EntriesExact, PlaceOf, RowAt
  <2>2. slot = IF index[id].slot \in DOMAIN rows /\ rows[index[id].slot].id = id
               THEN index[id].slot ELSE find_row(rows, id)
    BY DEF SlotOf
  <2>3. DOMAIN rows = 1..Len(rows)
    BY <1>5
  <2> HIDE DEF slot, rows
  <2> QED BY <2>1, <2>2, <2>3
<1>7. \A x \in 0..next - 1 : \A k \in 1..Len(RowsOf(Pager, x)) :
         LET e == index[RowsOf(Pager, x)[k].id]
         IN  e # NoEntry /\ e.page = x /\ e.slot = k
  BY DEF ScanInv, RowsIndexed
<1>8. \A a, b \in 1..Len(rows) : rows[a].id = rows[b].id => a = b
  <2>1. \A a \in 1..Len(rows) : index[rows[a].id].slot = a
    BY <1>5, <1>7
  <2> HIDE DEF rows
  <2> QED BY <2>1
<1> HIDE DEF rows, slot, new
<1>9. /\ \A k \in 1..Len(rest) : /\ rest[k].id # id /\ find_row(rest, rest[k].id) = k
                                 /\ \E a \in 1..Len(rows) : rest[k] = rows[a]
      /\ \A a \in 1..Len(rows) : a # slot =>
           /\ find_row(rest, rows[a].id) \in 1..Len(rest)
           /\ rest[find_row(rest, rows[a].id)] = rows[a]
  <2>1. OthersFound(rows, slot, rest)
    BY <1>5, <1>6, <1>8, UniqueErase
  <2> HIDE DEF rest
  <2> QED BY <1>6, <2>1 DEF OthersFound
<1> HIDE DEF rest, pid
<1>10. rest \in Seq(Row) /\ Len(rest) \in Nat
  <2>1. rest \in Seq(Row)
    BY <1>5, <1>6, EraseFacts DEF rest
  <2> QED BY <2>1
<1>11. ASSUME NEW i \in Ids
       PROVE  /\ i = id => index'[i] = NoEntry
              /\ i # id /\ index[i] = NoEntry => index'[i] = NoEntry
              /\ i # id /\ index[i] # NoEntry =>
                   /\ index'[i] # NoEntry /\ index'[i].page = index[i].page
                   /\ index[i].page # pid => index'[i].slot = index[i].slot
                   /\ index[i].page = pid /\ find_row(rest, i) # 0 => index'[i].slot = find_row(rest, i)
  <2>1. index'[i] = IF i = id THEN NoEntry
                    ELSE IF index[i] # NoEntry /\ index[i].page = pid /\ find_row(rest, i) # 0
                         THEN [index[i] EXCEPT !.slot = find_row(rest, i)]
                         ELSE index[i]
    BY <1>4 DEF RepairedIndex, pid
  <2>2. find_row(rest, i) # 0 => find_row(rest, i) \in Nat \ {0}
    <3>1. find_row(rest, i) \in 0..Len(rest)
      BY <1>10, FindFacts
    <3> QED BY <1>10, <3>1
  <2>3. index \in [Ids -> Entry \cup {NoEntry}]
    BY <1>1 DEF EngineInv, Types
  <2> DEFINE f == [index[i] EXCEPT !.slot = find_row(rest, i)]
  <2>4. CASE i # id /\ index[i] # NoEntry /\ index[i].page = pid /\ find_row(rest, i) # 0
    <3>1. f \in Entry /\ f.page = index[i].page /\ f.slot = find_row(rest, i)
      BY <2>2, <2>3, <2>4 DEF Entry
    <3>2. index'[i] = f
      BY <2>1, <2>4
    <3> HIDE DEF f
    <3> QED BY <2>4, <3>1, <3>2, NoEntryAssumption
  <2>5. CASE ~(i # id /\ index[i] # NoEntry /\ index[i].page = pid /\ find_row(rest, i) # 0)
    <3>1. index'[i] = IF i = id THEN NoEntry ELSE index[i]
      BY <2>1, <2>5
    <3> QED BY <2>5, <3>1
  <2> QED BY <2>4, <2>5
<1>12. ASSUME NEW i \in Ids, index'[i] # NoEntry
       PROVE  /\ i # id /\ index[i] # NoEntry
              /\ PlaceOf(new, index'[i], i) /\ RowAt(new, index'[i]) = RowAt(Pager, index[i])
  <2>1. i # id /\ index[i] # NoEntry /\ index'[i].page = index[i].page
    BY <1>11, <1>12
  <2>2. index[i].page \in 0..next - 1 /\ PlaceOf(Pager, index[i], i)
    BY <1>1, <2>1 DEF ScanInv, EngineInv, Entries, EntriesExact
  <2>3. CASE index[i].page = pid
    <3> DEFINE a == index[i].slot
    <3>1. a \in 1..Len(rows) /\ rows[a].id = i /\ RowAt(Pager, index[i]) = rows[a]
      BY <2>2, <2>3 DEF PlaceOf, RowAt, rows
    <3>2. a # slot
      BY <1>6, <2>1, <3>1
    <3> HIDE DEF a
    <3>3. find_row(rest, i) \in 1..Len(rest) /\ rest[find_row(rest, i)] = rows[a]
      BY <1>9, <3>1, <3>2
    <3>4. find_row(rest, i) # 0
      BY <1>10, <3>3
    <3>5. index'[i].slot = find_row(rest, i)
      BY <1>11, <2>1, <2>3, <3>4
    <3> QED BY <1>4, <2>1, <2>3, <3>1, <3>3, <3>5 DEF PlaceOf, RowAt
  <2>4. CASE index[i].page # pid
    <3>1. index'[i].slot = index[i].slot
      BY <1>11, <2>1, <2>4
    <3> QED BY <1>4, <2>1, <2>2, <2>4, <3>1 DEF PlaceOf, RowAt
  <2> QED BY <2>1, <2>3, <2>4
<1>13. EntriesExact'
  BY <1>12 DEF EntriesExact, new
<1>14. RowsIndexed'
  <2> SUFFICES ASSUME NEW x \in 0..next - 1, NEW k \in 1..Len(RowsOf(new, x)),
                      NEW e, e = index'[RowsOf(new, x)[k].id]
               PROVE  e # NoEntry /\ e.page = x /\ e.slot = k
    BY <1>2 DEF RowsIndexed, new
  <2>1. CASE x = pid
    <3> DEFINE i == rest[k].id
    <3>1. k \in 1..Len(rest) /\ e = index'[i]
      BY <1>4, <2>1
    <3>2. PICK a \in 1..Len(rows) : rest[k] = rows[a]
      BY <1>9, <3>1
    <3>a. rows[a].id \in Ids
      BY <1>1, <1>5, PageRows DEF rows
    <3>b. index[rows[a].id] # NoEntry /\ index[rows[a].id].page = pid
      BY <1>5, <1>7 DEF rows
    <3>3. i \in Ids /\ index[i] # NoEntry /\ index[i].page = pid
      BY <3>2, <3>a, <3>b
    <3>4. i # id /\ find_row(rest, i) = k /\ k # 0
      BY <1>9, <1>10, <3>1
    <3> HIDE DEF i
    <3> QED BY <1>11, <2>1, <3>1, <3>3, <3>4
  <2>2. CASE x # pid
    <3> DEFINE i == RowsOf(Pager, x)[k].id
    <3>1. k \in 1..Len(RowsOf(Pager, x)) /\ e = index'[i]
      BY <1>4, <2>2
    <3>a. i \in Ids
      BY <1>1, <3>1, PageRows
    <3>b. index[i] # NoEntry /\ index[i].page = x /\ index[i].slot = k
      BY <1>7, <3>1
    <3>2. index[i] # NoEntry /\ index[i].page = x /\ index[i].slot = k /\ i \in Ids
      BY <3>a, <3>b
    <3>3. i # id
      BY <2>2, <3>2 DEF pid
    <3> HIDE DEF i
    <3> QED BY <1>11, <2>2, <3>1, <3>2, <3>3
  <2> QED BY <2>1, <2>2
<1>15. SecondaryExact'
  <2> SUFFICES ASSUME sec' # NoIndex, NEW w \in Vals, NEW x \in Ids
               PROVE  <<w, x>> \in sec' <=> index'[x] # NoEntry /\ RowAt(new, index'[x]).val = w
    BY DEF SecondaryExact, new
  <2>1. sec # NoIndex /\ sec' = sec \ {<<rows[slot].val, id>>}
    BY <1>4
  <2>2. <<w, x>> \in sec <=> index[x] # NoEntry /\ RowAt(Pager, index[x]).val = w
    BY <2>1 DEF ScanInv, SecondaryExact
  <2>3. CASE x = id
    <3>1. RowAt(Pager, index[id]) = rows[slot]
      BY <1>6 DEF RowAt, rows, pid
    <3> QED BY <1>3, <1>11, <2>1, <2>2, <2>3, <3>1
  <2>4. CASE x # id
    <3>1. <<w, x>> \in sec' <=> <<w, x>> \in sec
      BY <2>1, <2>4
    <3>2. index'[x] # NoEntry <=> index[x] # NoEntry
      BY <1>11, <2>4
    <3> QED BY <1>12, <2>2, <3>1, <3>2
  <2> QED BY <2>3, <2>4
<1>16. ASSUME NEW i \in Ids, i # id, index[i] # NoEntry
       PROVE  index'[i] # NoEntry /\ RowAt(Pager', index'[i]) = RowAt(Pager, index[i])
  BY <1>11, <1>12, <1>16 DEF new
<1> QED BY <1>4, <1>11, <1>13, <1>14, <1>15, <1>16

LEMMA EraseRowScan == ScanInv /\ EraseRow => ScanInv'
<1> SUFFICES ASSUME ScanInv, EraseRow PROVE ScanInv'
  OBVIOUS
<1> DEFINE id == todo[1].x
<1>1. EngineInv /\ EngineInv'
  BY EraseRowKeeps DEF ScanInv
<1>2. /\ todo # <<>> /\ todo[1].s = "erase_row" /\ Done /\ id \in Ids
      /\ Unindex(id) /\ UNCHANGED <<count, next, open, mode>>
  BY <1>1, StepFacts DEF EraseRow, IsNext, RowNames
<1>3. index[id] # NoEntry /\ index[id].page \in DOMAIN cached
  BY <1>1, <1>2 DEF EngineInv, EraseReady, EraseNames
<1>4. ~Pending(todo)
  BY <1>2 DEF Pending
<1> HIDE DEF id
<1>5. /\ EntriesExact' /\ RowsIndexed' /\ SecondaryExact' /\ index'[id] = NoEntry
      /\ \A i \in Ids : i # id => (index[i] = NoEntry <=> index'[i] = NoEntry)
  BY <1>2, <1>3, <1>4, UnindexScan
<1>6. PlanShape(todo)' /\ Fresh'
  <2>1. \A i \in Ids : index[i] = NoEntry => index'[i] = NoEntry
    BY <1>5
  <2>2. index'[todo[1].x] = NoEntry
    BY <1>5 DEF id
  <2> QED BY <1>2, <2>1, <2>2, DoneScan
<1>7. CloseReady'
  BY <1>2, DoneClose
<1> QED BY <1>1, <1>5, <1>6, <1>7 DEF ScanInv
----------------------------------------------------------------------------
(* Plans *)

\* A plan of a call that inserts rows of the ids in X, each of which has no entry, being
\* in E, or is erased before.
CallPlan(t, X, E) ==
    /\ t \in Seq(StepType) /\ PlanShape(t) /\ Names(t) \subseteq CallNames
    /\ \A i \in 1..Len(t) : t[i].s \in InsertNames =>
         /\ t[i].x \in X
         /\ t[i].x \in E \/ \E j \in 1..i - 1 : t[j].s = "erase_row" /\ t[j].x = t[i].x

\* One plan after another.
LEMMA ConcatPlan ==
    ASSUME NEW a, NEW b, NEW X, NEW Y, NEW E, NEW F,
           CallPlan(a, X, E), CallPlan(b, Y, F), X \cap Y = {},
           \A x \in F : x \in E \/ \E i \in 1..Len(a) : a[i].s = "erase_row" /\ a[i].x = x
    PROVE  CallPlan(a \o b, X \cup Y, E)
<1> DEFINE c == a \o b
           n == Len(a)
<1>1. a \in Seq(StepType) /\ b \in Seq(StepType)
  BY DEF CallPlan
<1>2. /\ c \in Seq(StepType) /\ Len(c) = n + Len(b) /\ n \in Nat /\ Len(b) \in Nat
      /\ \A i \in 1..n : c[i] = a[i]
      /\ \A i \in 1..Len(b) : c[n + i] = b[i]
      /\ \A i \in 1..n + Len(b) : i \in 1..n \/ \E j \in 1..Len(b) : i = n + j
      /\ Names(c) = Names(a) \cup Names(b)
  BY <1>1, ConcatNames
<1> HIDE DEF c, n
<1>3. Names(c) \subseteq CallNames
  BY <1>2 DEF CallPlan
<1>4. \A i \in 1..Len(c) : (i \in 1..n /\ c[i] = a[i])
                           \/ \E j \in 1..Len(b) : i = n + j /\ c[i] = b[j]
  <2> SUFFICES ASSUME NEW i \in 1..Len(c)
               PROVE  (i \in 1..n /\ c[i] = a[i]) \/ \E j \in 1..Len(b) : i = n + j /\ c[i] = b[j]
    OBVIOUS
  <2>1. CASE i \in 1..n
    BY <1>2, <2>1
  <2>2. ASSUME NEW j \in 1..Len(b), i = n + j PROVE c[i] = b[j]
    BY <1>2, <2>2
  <2> QED BY <1>2, <2>1, <2>2
<1>5. /\ \A i \in 1..n : i \in 1..Len(a) /\ i \in 1..Len(c)
      /\ \A j \in 1..Len(b) : n + j \in 1..Len(c)
      /\ Len(a) = n
  BY <1>2 DEF n
<1>6. ASSUME NEW i \in 1..Len(c)
      PROVE  /\ c[i].s \notin RedoingNames
             /\ c[i].s = "append_row" => i + 1 \in 1..Len(c) /\ c[i + 1].s = "log_insert"
             /\ c[i].s = "log_insert" =>
                  \/ i + 1 \in 1..Len(c) /\ c[i + 1].s = "index_row"
                  \/ i + 2 \in 1..Len(c) /\ c[i + 1].s = "sync" /\ c[i + 2].s = "index_row"
  <2>1. CASE i \in 1..n /\ c[i] = a[i]
    <3>1. /\ a[i].s \notin RedoingNames
          /\ a[i].s = "append_row" => i + 1 \in 1..n /\ a[i + 1].s = "log_insert"
          /\ a[i].s = "log_insert" =>
               \/ i + 1 \in 1..n /\ a[i + 1].s = "index_row"
               \/ i + 2 \in 1..n /\ a[i + 1].s = "sync" /\ a[i + 2].s = "index_row"
      BY <1>5, <2>1 DEF CallPlan, PlanShape
    <3>2. i + 1 \in 1..n => i + 1 \in 1..Len(c) /\ c[i + 1] = a[i + 1]
      BY <1>2, <1>5
    <3>3. i + 2 \in 1..n => i + 2 \in 1..Len(c) /\ c[i + 2] = a[i + 2] /\ c[i + 1] = a[i + 1]
      <4>1. i + 2 \in 1..n => i + 1 \in 1..n
        BY <1>2
      <4> QED BY <1>2, <1>5, <4>1
    <3> QED BY <2>1, <3>1, <3>2, <3>3
  <2>2. ASSUME NEW j \in 1..Len(b), i = n + j, c[i] = b[j]
        PROVE  /\ c[i].s \notin RedoingNames
               /\ c[i].s = "append_row" => i + 1 \in 1..Len(c) /\ c[i + 1].s = "log_insert"
               /\ c[i].s = "log_insert" =>
                    \/ i + 1 \in 1..Len(c) /\ c[i + 1].s = "index_row"
                    \/ i + 2 \in 1..Len(c) /\ c[i + 1].s = "sync" /\ c[i + 2].s = "index_row"
    <3>1. /\ b[j].s \notin RedoingNames
          /\ b[j].s = "append_row" => j + 1 \in 1..Len(b) /\ b[j + 1].s = "log_insert"
          /\ b[j].s = "log_insert" =>
               \/ j + 1 \in 1..Len(b) /\ b[j + 1].s = "index_row"
               \/ j + 2 \in 1..Len(b) /\ b[j + 1].s = "sync" /\ b[j + 2].s = "index_row"
      BY DEF CallPlan, PlanShape
    <3>2. i + 1 = n + (j + 1) /\ i + 2 = n + (j + 2)
      BY <1>2, <2>2
    <3>3. j + 1 \in 1..Len(b) => i + 1 \in 1..Len(c) /\ c[i + 1] = b[j + 1]
      BY <1>2, <1>5, <3>2
    <3>4. j + 2 \in 1..Len(b) => i + 2 \in 1..Len(c) /\ c[i + 2] = b[j + 2] /\ c[i + 1] = b[j + 1]
      <4>1. j + 2 \in 1..Len(b) => j + 1 \in 1..Len(b)
        BY <1>2
      <4>2. j + 2 \in 1..Len(b) => n + (j + 2) \in 1..Len(c) /\ c[n + (j + 2)] = b[j + 2]
        BY <1>2, <1>5
      <4> QED BY <3>2, <3>3, <4>1, <4>2
    <3> QED BY <2>2, <3>1, <3>3, <3>4
  <2> QED BY <1>4, <2>1, <2>2
<1>7. ASSUME NEW i \in 1..Len(c), NEW k \in 1..Len(c), i < k, c[i].s = "index_row", c[k].s \in InsertNames
      PROVE  c[i].x # c[k].x
  <2>1. CASE i \in 1..n /\ c[i] = a[i] /\ k \in 1..n /\ c[k] = a[k]
    BY <1>5, <1>7, <2>1 DEF CallPlan, PlanShape
  <2>2. ASSUME NEW j \in 1..Len(b), k = n + j, c[k] = b[j], i \in 1..n, c[i] = a[i]
        PROVE  c[i].x # c[k].x
    <3>1. a[i].x \in X
      BY <1>5, <1>7, <2>2 DEF CallPlan, InsertNames
    <3>2. b[j].x \in Y
      BY <1>7, <2>2 DEF CallPlan
    <3> QED BY <2>2, <3>1, <3>2
  <2>3. ASSUME NEW j \in 1..Len(b), k = n + j, c[k] = b[j],
               NEW m \in 1..Len(b), i = n + m, c[i] = b[m]
        PROVE  c[i].x # c[k].x
    <3>1. m < j
      BY <1>2, <1>7, <2>3
    <3> QED BY <1>7, <2>3, <3>1 DEF CallPlan, PlanShape
  <2>4. ASSUME NEW m \in 1..Len(b), i = n + m PROVE k \notin 1..n
    BY <1>2, <1>7, <2>4
  <2>5. \/ k \in 1..n /\ c[k] = a[k]
        \/ \E j \in 1..Len(b) : k = n + j /\ c[k] = b[j]
    BY <1>4
  <2>6. \/ i \in 1..n /\ c[i] = a[i]
        \/ \E j \in 1..Len(b) : i = n + j /\ c[i] = b[j]
    BY <1>4
  <2> QED BY <2>1, <2>2, <2>3, <2>4, <2>5, <2>6
<1>8. \A i \in 2..Len(c) : c[i].s \notin {"clear_wal", "close_files"}
  <2>1. \A i \in 2..Len(c) : i \in 1..Len(c)
    BY <1>2
  <2>2. \A i \in 1..Len(c) : c[i].s \in CallNames
    BY <1>3 DEF Names
  <2> QED BY <2>1, <2>2 DEF CallNames
<1>9. PlanShape(c)
  BY <1>6, <1>7, <1>8 DEF PlanShape
<1>10. ASSUME NEW i \in 1..Len(c), c[i].s \in InsertNames
       PROVE  /\ c[i].x \in X \cup Y
              /\ c[i].x \in E \/ \E j \in 1..i - 1 : c[j].s = "erase_row" /\ c[j].x = c[i].x
  <2>1. CASE i \in 1..n /\ c[i] = a[i]
    <3>1. /\ a[i].x \in X
          /\ a[i].x \in E \/ \E j \in 1..i - 1 : a[j].s = "erase_row" /\ a[j].x = a[i].x
      BY <1>5, <1>10, <2>1 DEF CallPlan
    <3>2. \A j \in 1..i - 1 : c[j] = a[j]
      BY <1>2, <2>1
    <3> QED BY <2>1, <3>1, <3>2
  <2>2. ASSUME NEW k \in 1..Len(b), i = n + k, c[i] = b[k]
        PROVE  /\ c[i].x \in X \cup Y
               /\ c[i].x \in E \/ \E j \in 1..i - 1 : c[j].s = "erase_row" /\ c[j].x = c[i].x
    <3>1. /\ b[k].x \in Y
          /\ b[k].x \in F \/ \E j \in 1..k - 1 : b[j].s = "erase_row" /\ b[j].x = b[k].x
      BY <1>10, <2>2 DEF CallPlan
    <3>2. \A j \in 1..k - 1 : n + j \in 1..i - 1 /\ c[n + j] = b[j]
      BY <1>2, <2>2
    <3>3. ASSUME NEW j \in 1..k - 1, b[j].s = "erase_row", b[j].x = b[k].x
          PROVE  \E m \in 1..i - 1 : c[m].s = "erase_row" /\ c[m].x = c[i].x
      BY <2>2, <3>2, <3>3
    <3>4. ASSUME b[k].x \in F, b[k].x \notin E
          PROVE  \E m \in 1..i - 1 : c[m].s = "erase_row" /\ c[m].x = c[i].x
      <4>1. PICK m \in 1..Len(a) : a[m].s = "erase_row" /\ a[m].x = b[k].x
        BY <3>4
      <4>2. m \in 1..i - 1 /\ c[m] = a[m]
        BY <1>2, <1>5, <2>2
      <4> QED BY <2>2, <4>1, <4>2
    <3> QED BY <2>2, <3>1, <3>3, <3>4
  <2> QED BY <1>4, <2>1, <2>2
<1>11. CallPlan(c, X \cup Y, E)
  BY <1>2, <1>3, <1>9, <1>10 DEF CallPlan
<1> QED BY <1>11 DEF c

\* A larger set of ids.
LEMMA WiderPlan ==
    ASSUME NEW t, NEW X, NEW Y, NEW E, CallPlan(t, X, E), X \subseteq Y
    PROVE  CallPlan(t, Y, E)
BY DEF CallPlan

\* The plan of an insert.
LEMMA InsertPlan ==
    ASSUME NEW row \in Row, NEW sync_now \in BOOLEAN, NEW E, row.id \in E
    PROVE  CallPlan(InsertSteps(row, sync_now), {row.id}, E)
<1> DEFINE t == InsertSteps(row, sync_now)
           x == row.id
           v == row.val
<1>1. CASE sync_now
  <2>1. /\ t \in Seq(StepType) /\ Len(t) = 5
        /\ t[1].s = "touch_last"
        /\ t[2] = Step("append_row", x, v) /\ t[3] = Step("log_insert", x, v)
        /\ t[4].s = "sync" /\ t[5] = Step("index_row", x, v)
    BY <1>1, InsertElems
  <2>a. x \in E
    OBVIOUS
  <2> HIDE DEF t, x, v
  <2>2. /\ t[2].s = "append_row" /\ t[2].x = x /\ t[3].s = "log_insert" /\ t[3].x = x
        /\ t[5].s = "index_row" /\ t[5].x = x
    BY <2>1 DEF Step
  <2>3. \A i \in 1..Len(t) : i = 1 \/ i = 2 \/ i = 3 \/ i = 4 \/ i = 5
    BY <2>1
  <2>4. \A i \in 1..Len(t) : t[i].s \in {"touch_last", "append_row", "log_insert", "sync", "index_row"}
    BY <2>1, <2>2, <2>3
  <2>5. ASSUME NEW i \in 1..Len(t)
        PROVE  /\ t[i].s \notin RedoingNames
               /\ t[i].s = "append_row" => i + 1 \in 1..Len(t) /\ t[i + 1].s = "log_insert"
               /\ t[i].s = "log_insert" =>
                    \/ i + 1 \in 1..Len(t) /\ t[i + 1].s = "index_row"
                    \/ i + 2 \in 1..Len(t) /\ t[i + 1].s = "sync" /\ t[i + 2].s = "index_row"
    BY <2>1, <2>2, <2>3 DEF RedoingNames
  <2>6. ASSUME NEW i \in 1..Len(t), NEW j \in 1..Len(t), i < j, t[i].s = "index_row"
        PROVE  FALSE
    BY <2>1, <2>2, <2>3, <2>6
  <2>7. \A i \in 2..Len(t) : i \in 1..Len(t)
    BY <2>1
  <2>8. PlanShape(t)
    BY <2>4, <2>5, <2>6, <2>7 DEF PlanShape
  <2>9. \A i \in 1..Len(t) : t[i].s \in InsertNames => t[i].x = x
    BY <2>1, <2>2, <2>3 DEF InsertNames
  <2>10. Names(t) \subseteq CallNames
    BY <2>4 DEF Names, CallNames
  <2>11. CallPlan(t, {x}, E)
    BY <2>1, <2>a, <2>8, <2>9, <2>10 DEF CallPlan
  <2> QED BY <2>11 DEF t, x
<1>2. CASE ~sync_now
  <2>1. /\ t \in Seq(StepType) /\ Len(t) = 4
        /\ t[1].s = "touch_last"
        /\ t[2] = Step("append_row", x, v) /\ t[3] = Step("log_insert", x, v)
        /\ t[4] = Step("index_row", x, v)
    BY <1>2, InsertElems
  <2>a. x \in E
    OBVIOUS
  <2> HIDE DEF t, x, v
  <2>2. /\ t[2].s = "append_row" /\ t[2].x = x /\ t[3].s = "log_insert" /\ t[3].x = x
        /\ t[4].s = "index_row" /\ t[4].x = x
    BY <2>1 DEF Step
  <2>3. \A i \in 1..Len(t) : i = 1 \/ i = 2 \/ i = 3 \/ i = 4
    BY <2>1
  <2>4. \A i \in 1..Len(t) : t[i].s \in {"touch_last", "append_row", "log_insert", "sync", "index_row"}
    BY <2>1, <2>2, <2>3
  <2>5. ASSUME NEW i \in 1..Len(t)
        PROVE  /\ t[i].s \notin RedoingNames
               /\ t[i].s = "append_row" => i + 1 \in 1..Len(t) /\ t[i + 1].s = "log_insert"
               /\ t[i].s = "log_insert" =>
                    \/ i + 1 \in 1..Len(t) /\ t[i + 1].s = "index_row"
                    \/ i + 2 \in 1..Len(t) /\ t[i + 1].s = "sync" /\ t[i + 2].s = "index_row"
    BY <2>1, <2>2, <2>3 DEF RedoingNames
  <2>6. ASSUME NEW i \in 1..Len(t), NEW j \in 1..Len(t), i < j, t[i].s = "index_row"
        PROVE  FALSE
    BY <2>1, <2>2, <2>3, <2>6
  <2>7. \A i \in 2..Len(t) : i \in 1..Len(t)
    BY <2>1
  <2>8. PlanShape(t)
    BY <2>4, <2>5, <2>6, <2>7 DEF PlanShape
  <2>9. \A i \in 1..Len(t) : t[i].s \in InsertNames => t[i].x = x
    BY <2>1, <2>2, <2>3 DEF InsertNames
  <2>10. Names(t) \subseteq CallNames
    BY <2>4 DEF Names, CallNames
  <2>11. CallPlan(t, {x}, E)
    BY <2>1, <2>a, <2>8, <2>9, <2>10 DEF CallPlan
  <2> QED BY <2>11 DEF t, x
<1> QED BY <1>1, <1>2

\* A plan that inserts nothing.
LEMMA NoInsertPlan ==
    ASSUME NEW t \in Seq(StepType), Names(t) \subseteq {"touch_row", "erase_row", "sync"}, NEW E
    PROVE  CallPlan(t, {}, E)
<1>1. \A i \in 1..Len(t) : t[i].s \in {"touch_row", "erase_row", "sync"}
  BY DEF Names
<1>2. \A i \in 2..Len(t) : i \in 1..Len(t)
  OBVIOUS
<1>3. \A i \in 1..Len(t) : /\ t[i].s \notin RedoingNames \cup InsertNames
                           /\ t[i].s \notin {"append_row", "log_insert", "index_row", "clear_wal", "close_files"}
  BY <1>1 DEF RedoingNames, InsertNames
<1>4. PlanShape(t)
  BY <1>2, <1>3 DEF PlanShape
<1> QED BY <1>3, <1>4 DEF CallPlan, CallNames

\* The plan of an update.
LEMMA UpdatePlan ==
    ASSUME NEW row \in Row, NEW E
    PROVE  CallPlan(EraseSteps(row) \o InsertSteps(row, FALSE), {row.id}, E)
<1> DEFINE a == EraseSteps(row)
           b == InsertSteps(row, FALSE)
           x == row.id
<1>1. x \in Ids /\ "erase_row" \in EraseNames
  BY DEF Row, EraseNames
<1>2. Len(a) = 2 /\ a[2].s = "erase_row" /\ a[2].x = x
  BY DEF EraseSteps, Step
<1>3. Block(a) /\ Names(a) = {"touch_row", "erase_row"}
  BY <1>1, EraseBlock DEF EraseSteps
<1>4. CallPlan(b, {x}, {x})
  BY InsertPlan
<1> HIDE DEF a, b, x
<1>5. a \in Seq(StepType)
  BY <1>3 DEF Block, StepsOK
<1>6. CallPlan(a, {}, E)
  BY <1>3, <1>5, NoInsertPlan
<1>7. \A y \in {x} : \E i \in 1..Len(a) : a[i].s = "erase_row" /\ a[i].x = y
  BY <1>2
<1>8. CallPlan(a \o b, {} \cup {x}, E)
  BY <1>4, <1>6, <1>7, ConcatPlan
<1>9. {} \cup {x} = {x}
  OBVIOUS
<1> QED BY <1>8, <1>9 DEF a, b, x

\* The plans of the rows of a call, and the sync behind them.
LEMMA FlattenPlan ==
    ASSUME NEW n \in {1, 2}, NEW s, Len(s) = n, NEW ids, n = 2 => ids[1] # ids[2], NEW E,
           \A i \in 1..n : CallPlan(s[i], {ids[i]}, E)
    PROVE  \E X : CallPlan(FlattenSeq(s) \o <<Do("sync")>>, X, E)
<1> DEFINE u == FlattenSeq(s)
           w == <<Do("sync")>>
<1>1. u = IF n = 1 THEN s[1] ELSE s[1] \o s[2]
  BY FlattenFacts
<1>2. CallPlan(w, {}, E)
  <2>1. w \in Seq(StepType) /\ Len(w) = 1 /\ w[1].s = "sync"
    BY DEF Do, Step, StepType, StepNames
  <2> HIDE DEF w
  <2>2. \A i \in 1..Len(w) : i = 1
    BY <2>1
  <2>3. Names(w) \subseteq {"touch_row", "erase_row", "sync"}
    BY <2>1, <2>2 DEF Names
  <2> QED BY <2>1, <2>3, NoInsertPlan
<1> HIDE DEF u, w
<1>3. \E X : CallPlan(u, X, E)
  <2>1. CASE n = 1
    BY <1>1, <2>1
  <2>2. CASE n = 2
    <3>1. {ids[1]} \cap {ids[2]} = {}
      BY <2>2
    <3>2. CallPlan(s[1], {ids[1]}, E) /\ CallPlan(s[2], {ids[2]}, E)
      BY <2>2
    <3>3. \A x \in E : x \in E
      OBVIOUS
    <3>4. CallPlan(s[1] \o s[2], {ids[1]} \cup {ids[2]}, E)
      BY <3>1, <3>2, <3>3, ConcatPlan
    <3> QED BY <1>1, <2>2, <3>4
  <2> QED BY <2>1, <2>2
<1>4. PICK X : CallPlan(u, X, E)
  BY <1>3
<1>5. X \cap {} = {}
  OBVIOUS
<1>6. CallPlan(u \o w, X \cup {}, E)
  BY <1>2, <1>4, <1>5, ConcatPlan
<1> QED BY <1>6 DEF u, w

\* The plan of a call inserts rows that have no entry then.
LEMMA StepsPlan ==
    ASSUME NEW c \in Calls, CallOK(c)
    PROVE  \E X : CallPlan(StepsOf(c), X, {x \in Ids : index[x] = NoEntry})
<1> DEFINE E == {x \in Ids : index[x] = NoEntry}
<1>1. PICK n \in {1, 2} :
        /\ DOMAIN c.rows = 1..n
        /\ c.k \in {"insert", "erase", "update"} => n = 1
        /\ \A i \in 1..n : /\ c.rows[i].id \in Ids
                           /\ c.k \notin {"erase", "erase_batch"} => c.rows[i] \in Row
  BY CallFacts
<1> DEFINE ids == [i \in 1..n |-> c.rows[i].id]
<1>2. n = 2 => ids[1] # ids[2]
  BY <1>1 DEF CallOK
<1>3. \A i \in 1..n : c.k \in {"insert", "insert_batch"} => c.rows[i].id \in E
  BY <1>1 DEF CallOK
<1>4. \A i \in 1..n : ids[i] = c.rows[i].id /\ ids[i] \in Ids
  BY <1>1
<1> HIDE DEF ids, E
<1>5. CASE c.k = "insert"
  <2>1. StepsOf(c) = InsertSteps(c.rows[1], TRUE)
    BY <1>5 DEF StepsOf
  <2>2. c.rows[1] \in Row /\ c.rows[1].id \in E
    BY <1>1, <1>3, <1>5
  <2>3. CallPlan(StepsOf(c), {c.rows[1].id}, E)
    BY <2>1, <2>2, InsertPlan
  <2> QED BY <2>3 DEF E
<1>6. CASE c.k = "insert_batch"
  <2> DEFINE s == [i \in 1..n |-> InsertSteps(c.rows[i], FALSE)]
  <2>1. StepsOf(c) = FlattenSeq(s) \o <<Do("sync")>>
    BY <1>1, <1>6 DEF StepsOf
  <2>2. Len(s) = n
    OBVIOUS
  <2>3. ASSUME NEW i \in 1..n PROVE CallPlan(s[i], {ids[i]}, E)
    <3>1. s[i] = InsertSteps(c.rows[i], FALSE) /\ c.rows[i] \in Row /\ c.rows[i].id \in E
      BY <1>1, <1>3, <1>6
    <3> HIDE DEF s
    <3> QED BY <1>4, <3>1, InsertPlan
  <2> HIDE DEF s
  <2> QED BY <1>2, <2>1, <2>2, <2>3, FlattenPlan DEF E
<1>7. CASE c.k \in {"erase", "erase_batch"}
  <2> DEFINE s == [i \in 1..n |-> EraseSteps(c.rows[i])]
  <2>1. StepsOf(c) = FlattenSeq(s) \o <<Do("sync")>>
    BY <1>1, <1>7 DEF StepsOf
  <2>2. Len(s) = n
    OBVIOUS
  <2>3. ASSUME NEW i \in 1..n PROVE CallPlan(s[i], {ids[i]}, E)
    <3>1. s[i] = <<Step("touch_row", ids[i], NoVal), Step("erase_row", ids[i], NoVal)>>
      BY <1>4 DEF EraseSteps
    <3> HIDE DEF s
    <3>2. ids[i] \in Ids /\ "erase_row" \in EraseNames
      BY <1>4 DEF EraseNames
    <3>3. Block(s[i]) /\ Names(s[i]) = {"touch_row", "erase_row"}
      BY <3>1, <3>2, EraseBlock
    <3>4. s[i] \in Seq(StepType)
      BY <3>3 DEF Block, StepsOK
    <3>5. CallPlan(s[i], {}, E)
      BY <3>3, <3>4, NoInsertPlan
    <3> QED BY <3>5, WiderPlan
  <2> HIDE DEF s
  <2> QED BY <1>2, <2>1, <2>2, <2>3, FlattenPlan DEF E
<1>8. CASE c.k \in {"update", "update_batch"}
  <2> DEFINE s == [i \in 1..n |-> EraseSteps(c.rows[i]) \o InsertSteps(c.rows[i], FALSE)]
  <2>1. StepsOf(c) = FlattenSeq(s) \o <<Do("sync")>>
    BY <1>1, <1>8 DEF StepsOf
  <2>2. Len(s) = n
    OBVIOUS
  <2>3. ASSUME NEW i \in 1..n PROVE CallPlan(s[i], {ids[i]}, E)
    <3>1. s[i] = EraseSteps(c.rows[i]) \o InsertSteps(c.rows[i], FALSE) /\ c.rows[i] \in Row
      BY <1>1, <1>8
    <3> HIDE DEF s
    <3> QED BY <1>4, <3>1, UpdatePlan
  <2> HIDE DEF s
  <2> QED BY <1>2, <2>1, <2>2, <2>3, FlattenPlan DEF E
<1> QED BY <1>5, <1>6, <1>7, <1>8, CallFacts DEF Kinds

\* A new plan, between calls, while nothing else changes.
LEMMA PlanScan ==
    ASSUME ScanInv, EngineInv', Idle, PlanShape(todo'), Fresh',
           todo' # <<>> => todo'[1].s \notin {"clear_wal", "close_files"},
           UNCHANGED <<disk, offs, lru, cached, next, index, sec, open, mode>>
    PROVE  ScanInv'
<1>1. Pager' = Pager
  BY DEF Pager
<1>2. ~Pending(todo)
  BY DEF Idle, Pending
<1>3. EntriesExact' /\ RowsIndexed' /\ SecondaryExact'
  BY <1>1, <1>2, SameRows
<1>4. CloseReady'
  BY DEF Idle, CloseReady
<1> QED BY <1>3, <1>4 DEF ScanInv

LEMMA BeginScan == ASSUME NEW c \in Calls PROVE ScanInv /\ Begin(c) => ScanInv'
<1> SUFFICES ASSUME ScanInv, Begin(c) PROVE ScanInv'
  OBVIOUS
<1>1. EngineInv /\ EngineInv'
  BY BeginKeeps DEF ScanInv
<1>2. /\ CallOK(c) /\ Idle
      /\ UNCHANGED <<disk, offs, lru, cached, next, index, sec, open, mode>>
  BY DEF Begin, files
<1>3. todo' = StepsOf(c)
  BY DEF Begin
<1> DEFINE E == {x \in Ids : index[x] = NoEntry}
<1>4. PICK X : CallPlan(todo', X, E)
  BY <1>2, <1>3, StepsPlan
<1>5. /\ PlanShape(todo') /\ Names(todo') \subseteq CallNames
      /\ todo' \in Seq(StepType)
      /\ \A i \in 1..Len(todo') : todo'[i].s \in InsertNames =>
            todo'[i].x \in E \/ \E j \in 1..i - 1 : todo'[j].s = "erase_row" /\ todo'[j].x = todo'[i].x
  BY <1>4 DEF CallPlan
<1>6. Fresh'
  BY <1>2, <1>5 DEF Fresh
<1>7. todo' # <<>> => todo'[1].s \notin {"clear_wal", "close_files"}
  <2>1. todo' # <<>> => 1 \in 1..Len(todo')
    BY <1>5
  <2> QED BY <1>5, <2>1 DEF Names, CallNames
<1> QED BY <1>1, <1>2, <1>5, <1>6, <1>7, PlanScan

UpkeepNames == {"visit_page", "set_index", "flush_page", "write_header", "clear_wal", "close_files", "opened"}

\* A plan that writes no rows.
LEMMA UpkeepPlan ==
    ASSUME \A i \in 1..Len(todo') : todo'[i].s \in UpkeepNames,
           \A i \in 2..Len(todo') : i \in 1..Len(todo'),
           \A i \in 2..Len(todo') :
              /\ todo'[i].s = "clear_wal" => todo'[i - 1].s = "write_header"
              /\ todo'[i].s = "close_files" => todo'[i - 1].s = "clear_wal"
    PROVE  PlanShape(todo') /\ Fresh'
<1>1. \A i \in 1..Len(todo') : /\ todo'[i].s \notin RedoingNames \cup InsertNames
                               /\ todo'[i].s \notin {"append_row", "log_insert", "index_row"}
  BY DEF UpkeepNames, RedoingNames, InsertNames
<1>2. Fresh'
  BY <1>1 DEF Fresh
<1>3. PlanShape(todo')
  BY <1>1 DEF PlanShape
<1> QED BY <1>2, <1>3

\* The start of a call that logs nothing: what readers see stays as it is.
UpkeepStep ==
    /\ Idle /\ PlanShape(todo') /\ Fresh' /\ \A i \in 1..Len(todo') : todo'[i].s \in UpkeepNames
    /\ todo' # <<>> => todo'[1].s \notin {"clear_wal", "close_files"}
    /\ UNCHANGED <<disk, offs, lru, cached, count, walFile, walBuf, next, index, open, mode>>

LEMMA UpkeepScan ==
    ASSUME ScanInv, EngineInv', UpkeepStep, sec' = sec
    PROVE  ScanInv'
BY PlanScan DEF UpkeepStep

LEMMA CreateIndexUpkeep == EngineInv /\ CreateIndex => UpkeepStep
<1> SUFFICES ASSUME EngineInv, CreateIndex PROVE UpkeepStep
  OBVIOUS
<1>1. EngineInv
  OBVIOUS
<1> DEFINE t == [i \in 1..next |-> Step("visit_page", i - 1, NoVal)]
<1>2. /\ todo' = t \o <<Do("set_index")>> /\ Idle
      /\ UNCHANGED <<disk, offs, lru, cached, count, walFile, walBuf, next, index, open, mode>>
  BY DEF CreateIndex, files
<1>3. /\ t \in Seq(StepType) /\ \A i \in 1..Len(t) : t[i].s = "visit_page"
  <2>1. next \in Nat
    BY <1>1, StepFacts
  <2> QED BY <2>1 DEF Step, StepType, StepNames
<1> HIDE DEF t
<1>4. Block(t) /\ Names(t) \subseteq {"visit_page"} /\ Touched(t) = {} /\ Erased(t) = {}
  BY <1>3, PagesBlock
<1>5. Names(t) \cap ({"close_files", "opened"} \cup ReplayNames) = {}
  BY <1>4 DEF ReplayNames
<1>6. Block(todo') /\ Names(todo') = Names(t) \cup {"set_index"}
  BY <1>2, <1>4, <1>5, ThenBlock
<1>7. todo' \in Seq(StepType)
  BY <1>6 DEF Block, StepsOK
<1>8. \A i \in 1..Len(todo') : todo'[i].s \in {"visit_page", "set_index"}
  BY <1>4, <1>6 DEF Names
<1>9. \A i \in 2..Len(todo') : i \in 1..Len(todo')
  BY <1>7
<1>10. PlanShape(todo') /\ Fresh'
  BY <1>8, <1>9, UpkeepPlan DEF UpkeepNames
<1>11. todo' # <<>> => todo'[1].s \notin {"clear_wal", "close_files"}
  <2>1. todo' # <<>> => 1 \in 1..Len(todo')
    BY <1>7
  <2> QED BY <1>8, <2>1
<1>12. \A i \in 1..Len(todo') : todo'[i].s \in UpkeepNames
  BY <1>8 DEF UpkeepNames
<1> QED BY <1>2, <1>10, <1>11, <1>12 DEF UpkeepStep

LEMMA CreateIndexScan == ScanInv /\ CreateIndex => ScanInv'
BY CreateIndexKeeps, CreateIndexUpkeep, UpkeepScan DEF CreateIndex, ScanInv

\* The places of the steps of flush_all and of what follows it.
LEMMA FlushPlaces ==
    ASSUME NEW t, NEW n \in Nat, n > 1, Len(t) = n \/ (Len(t) = n + 1 /\ t[n + 1].s = "close_files"),
           \A i \in 1..n - 2 : t[i].s = "flush_page",
           t[n - 1].s = "write_header", t[n].s = "clear_wal"
    PROVE  /\ \A i \in 1..Len(t) : t[i].s \in UpkeepNames
           /\ \A i \in 2..Len(t) : i \in 1..Len(t)
           /\ \A i \in 2..Len(t) :
                /\ t[i].s = "clear_wal" => t[i - 1].s = "write_header"
                /\ t[i].s = "close_files" => t[i - 1].s = "clear_wal"
           /\ t[1].s \notin {"clear_wal", "close_files"}
<1>1. \A i \in 1..Len(t) : i \in 1..n - 2 \/ i = n - 1 \/ i = n \/ (i = n + 1 /\ t[i].s = "close_files")
  OBVIOUS
<1>2. \A i \in 1..Len(t) : t[i].s \in UpkeepNames
  BY <1>1 DEF UpkeepNames
<1>3. \A i \in 2..Len(t) : i \in 1..Len(t)
  OBVIOUS
<1>4. ASSUME NEW i \in 2..Len(t)
      PROVE  /\ t[i].s = "clear_wal" => t[i - 1].s = "write_header"
             /\ t[i].s = "close_files" => t[i - 1].s = "clear_wal"
  <2>1. CASE i \in 1..n - 2
    BY <2>1
  <2>2. CASE i = n - 1
    BY <2>2
  <2>3. CASE i = n
    BY <2>3
  <2>4. CASE i = n + 1 /\ t[i].s = "close_files"
    <3>1. i - 1 = n
      BY <2>4
    <3> QED BY <2>4, <3>1
  <2> QED BY <1>1, <1>3, <2>1, <2>2, <2>3, <2>4
<1>5. t[1].s \notin {"clear_wal", "close_files"}
  <2>1. 1 \in 1..n - 2 \/ 1 = n - 1
    OBVIOUS
  <2> QED BY <2>1
<1> QED BY <1>2, <1>3, <1>4, <1>5

LEMMA CheckpointUpkeep == EngineInv /\ Checkpoint => UpkeepStep
<1> SUFFICES ASSUME EngineInv, Checkpoint PROVE UpkeepStep
  OBVIOUS
<1>1. EngineInv
  OBVIOUS
<1>2. PICK order \in FlushOrders : todo' = CheckpointSteps(order)
  BY DEF Checkpoint
<1>3. /\ Idle
      /\ UNCHANGED <<disk, offs, lru, cached, count, walFile, walBuf, next, index, open, mode>>
  BY DEF Checkpoint, files
<1>4. /\ Len(todo') \in Nat /\ Len(todo') > 1
      /\ \A i \in 1..Len(todo') - 2 : todo'[i].s = "flush_page"
      /\ todo'[Len(todo') - 1].s = "write_header" /\ todo'[Len(todo')].s = "clear_wal"
  BY <1>1, <1>2, FlushBlock
<1>5. /\ \A i \in 1..Len(todo') : todo'[i].s \in UpkeepNames
      /\ \A i \in 2..Len(todo') : i \in 1..Len(todo')
      /\ \A i \in 2..Len(todo') :
           /\ todo'[i].s = "clear_wal" => todo'[i - 1].s = "write_header"
           /\ todo'[i].s = "close_files" => todo'[i - 1].s = "clear_wal"
      /\ todo'[1].s \notin {"clear_wal", "close_files"}
  BY <1>4, FlushPlaces
<1>6. PlanShape(todo') /\ Fresh'
  BY <1>5, UpkeepPlan
<1> QED BY <1>3, <1>5, <1>6 DEF UpkeepStep

LEMMA CheckpointScan == ScanInv /\ Checkpoint => ScanInv'
BY CheckpointKeeps, CheckpointUpkeep, UpkeepScan DEF Checkpoint, ScanInv

LEMMA CloseUpkeep == EngineInv /\ Close => UpkeepStep
<1> SUFFICES ASSUME EngineInv, Close PROVE UpkeepStep
  OBVIOUS
<1>1. EngineInv
  OBVIOUS
<1>2. PICK order \in FlushOrders : todo' = CheckpointSteps(order) \o <<Do("close_files")>>
  BY DEF Close
<1>3. /\ Idle
      /\ UNCHANGED <<disk, offs, lru, cached, count, walFile, walBuf, next, index, open, mode>>
  BY DEF Close, files
<1> DEFINE t == CheckpointSteps(order)
<1>4. /\ Block(t) /\ Touched(t) = {} /\ Erased(t) = {}
      /\ Names(t) \subseteq {"flush_page", "write_header", "clear_wal"}
      /\ Len(t) \in Nat /\ Len(t) > 1
      /\ \A i \in 1..Len(t) - 2 : t[i].s = "flush_page"
      /\ t[Len(t) - 1].s = "write_header" /\ t[Len(t)].s = "clear_wal"
  BY <1>1, FlushBlock
<1>5. todo' = t \o <<Do("close_files")>>
  BY <1>2
<1> HIDE DEF t
<1>6. Names(t) \cap ({"close_files", "opened"} \cup ReplayNames) = {}
  BY <1>4 DEF ReplayNames
<1>7. /\ Len(todo') = Len(t) + 1
      /\ \A i \in 1..Len(t) : todo'[i] = t[i]
      /\ todo'[Len(t) + 1] = Do("close_files")
  BY <1>4, <1>5, <1>6, ThenBlock
<1> DEFINE n == Len(t)
<1>8. /\ n \in Nat /\ n > 1 /\ Len(todo') = n + 1
      /\ \A i \in 1..n - 2 : todo'[i].s = "flush_page"
      /\ todo'[n - 1].s = "write_header" /\ todo'[n].s = "clear_wal"
  BY <1>4, <1>7
<1>9. todo'[n + 1].s = "close_files"
  BY <1>7 DEF Do, Step
<1> HIDE DEF n
<1>10. PlanShape(todo') /\ Fresh'
  <2>1. /\ \A i \in 1..Len(todo') : todo'[i].s \in UpkeepNames
        /\ \A i \in 2..Len(todo') : i \in 1..Len(todo')
        /\ \A i \in 2..Len(todo') :
             /\ todo'[i].s = "clear_wal" => todo'[i - 1].s = "write_header"
             /\ todo'[i].s = "close_files" => todo'[i - 1].s = "clear_wal"
    BY <1>8, <1>9, FlushPlaces
  <2> QED BY <2>1, UpkeepPlan
<1>11. todo'[1].s \notin {"clear_wal", "close_files"}
  BY <1>8, <1>9, FlushPlaces
<1>12. \A i \in 1..Len(todo') : todo'[i].s \in UpkeepNames
  BY <1>8, <1>9, FlushPlaces
<1> QED BY <1>3, <1>10, <1>11, <1>12 DEF UpkeepStep

LEMMA CloseScan == ScanInv /\ Close => ScanInv'
BY CloseKeeps, CloseUpkeep, UpkeepScan DEF Close, ScanInv

\* What close() leaves in the file has every row once.
LEMMA CloseFilesScan == ScanInv /\ CloseFiles => ScanInv'
<1> SUFFICES ASSUME ScanInv, CloseFiles PROVE ScanInv'
  OBVIOUS
<1>1. EngineInv /\ EngineInv'
  BY CloseFilesKeeps DEF ScanInv
<1>2. todo # <<>> /\ todo[1].s = "close_files" /\ Done /\ Forget
  BY <1>1, StepFacts DEF CloseFiles, IsNext
<1>3. todo' = <<>>
  BY <1>1, <1>2, LastStep
<1>4. /\ walBuf' = <<>> /\ next' = 0
      /\ index' = [id \in Ids |-> NoEntry] /\ sec' = NoIndex
      /\ UNCHANGED <<count, disk, walFile>>
  BY <1>2 DEF Forget, files
<1>5. Flushed /\ walFile = <<>>
  BY <1>2 DEF ScanInv, CloseReady
<1>6. ~Pending(todo)
  BY <1>2 DEF Pending
<1>7. \A pid \in 0..count - 1 : RowsOf(Pager, pid) = disk[pid] /\ pid \in 0..next - 1
  <2>1. count = next /\ \A pid \in DOMAIN cached : ~cached[pid].dirty
    BY <1>5 DEF Flushed, Dirty
  <2>2. \A pid \in DOMAIN cached : disk[pid] = cached[pid].rows
    BY <1>1, <2>1, StepFacts DEF PagerOK
  <2>3. Pager.cached = cached /\ Pager.disk = disk
    BY <1>1, StepFacts
  <2> QED BY <2>1, <2>2, <2>3 DEF RowsOf
<1>8. FileUnique
  <2> SUFFICES ASSUME NEW p \in 0..count - 1, NEW q \in 0..count - 1,
                      NEW k \in 1..Len(disk[p]), NEW m \in 1..Len(disk[q]),
                      disk[p][k].id = disk[q][m].id
               PROVE  p = q /\ k = m
    BY DEF FileUnique
  <2> DEFINE e == index[disk[p][k].id]
  <2>1. e.page = p /\ e.slot = k
    BY <1>6, <1>7 DEF ScanInv, RowsIndexed
  <2>2. e.page = q /\ e.slot = m
    BY <1>6, <1>7 DEF ScanInv, RowsIndexed
  <2> QED BY <2>1, <2>2
<1>9. CloseReady'
  <2>1. FileUnique'
    BY <1>4, <1>8 DEF FileUnique
  <2> QED BY <1>3, <1>4, <1>5, <2>1 DEF CloseReady
<1>10. PlanShape(todo') /\ Fresh'
  <2>1. 1..Len(todo') = {} /\ 2..Len(todo') = {}
    BY <1>3
  <2> QED BY <2>1 DEF PlanShape, Fresh
<1>11. EntriesExact' /\ RowsIndexed' /\ SecondaryExact'
  BY <1>4 DEF EntriesExact, RowsIndexed, SecondaryExact
<1> QED BY <1>1, <1>9, <1>10, <1>11 DEF ScanInv

\* recover() on a file that has every row once.
LEMMA RecoverScan == ScanInv /\ Recover => ScanInv'
<1> SUFFICES ASSUME ScanInv, Recover PROVE ScanInv'
  OBVIOUS
<1>1. EngineInv /\ EngineInv'
  BY RecoverKeeps DEF ScanInv
<1>2. /\ ~open /\ todo = <<>>
      /\ next' = IF ValidPages = {} THEN 0 ELSE Max(ValidPages) + 1
      /\ index' = [id \in Ids |-> RecoveredEntry(id)]
      /\ todo' = ReplaySteps \o <<Do("opened")>>
      /\ UNCHANGED <<count, disk, walFile, walBuf, lru, cached, sec, open, call, mode>>
  BY DEF Recover, files
<1>3. walFile = <<>> /\ FileUnique /\ sec = NoIndex
  BY <1>2 DEF ScanInv, CloseReady
<1>4. next' = count /\ count \in Nat /\ ValidPages = 0..count - 1
  BY <1>1, <1>2, RecoverFacts
<1>5. cached = <<>>
  BY <1>1, <1>2 DEF EngineInv, OpenReady
<1>6. todo' \in Seq(StepType) /\ Len(todo') = 1 /\ todo'[1].s = "opened"
  <2>1. ReplaySteps = <<>>
    <3>1. DOMAIN walFile = {}
      BY <1>3
    <3>2. DOMAIN ReplaySteps = {} /\ ReplaySteps = [i \in {} |-> ReplaySteps[i]]
      BY <3>1 DEF ReplaySteps
    <3> QED BY <3>2
  <2>2. Do("opened") \in StepType /\ Do("opened").s = "opened"
    BY DEF Do, Step, StepType, StepNames
  <2> DEFINE d == Do("opened")
  <2> HIDE DEF d
  <2>3. <<>> \o <<d>> = <<d>>
    OBVIOUS
  <2> QED BY <1>2, <2>1, <2>2, <2>3 DEF d
<1>7. \A i \in 1..Len(todo') : i = 1
  BY <1>6
<1>8. PlanShape(todo') /\ Fresh'
  <2>1. \A i \in 1..Len(todo') : todo'[i].s \in UpkeepNames
    BY <1>6, <1>7 DEF UpkeepNames
  <2>2. 2..Len(todo') = {}
    BY <1>6
  <2> QED BY <2>1, <2>2, UpkeepPlan
<1>9. CloseReady'
  <2>1. ASSUME todo' = <<>> PROVE FALSE
    <3>1. Len(todo') = 0
      BY <2>1
    <3> QED BY <1>6, <3>1
  <2> QED BY <1>6, <2>1 DEF CloseReady
<1>10. \A pid : RowsOf(Pager', pid) = disk[pid]
  <2>1. Pager'.cached = <<>> /\ Pager'.disk = disk
    BY <1>2, <1>5 DEF Pager
  <2>2. DOMAIN Pager'.cached = {}
    BY <2>1
  <2> QED BY <2>1, <2>2 DEF RowsOf
<1>11. EntriesExact'
  <2> SUFFICES ASSUME NEW id \in Ids, index'[id] # NoEntry
               PROVE  PlaceOf(Pager', index'[id], id)
    BY DEF EntriesExact
  <2> DEFINE e == RecoveredEntry(id)
  <2>1. index'[id] = e
    BY <1>2
  <2>2. e.slot \in 1..Len(disk[e.page]) /\ disk[e.page][e.slot].id = id
    BY <1>1, <2>1, RecoverFacts
  <2> HIDE DEF e
  <2> QED BY <1>10, <2>1, <2>2 DEF PlaceOf, RowAt
<1>12. RowsIndexed'
  <2> SUFFICES ASSUME NEW pid \in 0..count - 1, NEW k \in 1..Len(disk[pid])
               PROVE  LET e == index'[disk[pid][k].id]
                      IN  e # NoEntry /\ e.page = pid /\ e.slot = k
    BY <1>4, <1>10 DEF RowsIndexed
  <2> DEFINE id == disk[pid][k].id
             e == RecoveredEntry(id)
             P == {p \in ValidPages : find_row(disk[p], id) # 0}
  <2>1. disk[pid] \in Seq(Row) /\ pid \in ValidPages
    <3>1. pid \in DOMAIN disk
      BY <1>1, <1>4 DEF ValidPages
    <3> QED BY <1>1, <1>4, <3>1, StepFacts DEF PagerOK, PagerShape
  <2>2. id \in Ids
    <3>1. disk[pid][k] \in Row
      BY <2>1
    <3> QED BY <3>1 DEF Row
  <2>3. pid \in P
    BY <2>1, FindFacts
  <2>4. e # NoEntry
    <3>1. e = [page |-> Min(P), slot |-> find_row(disk[Min(P)], id), off |-> TRUE]
      BY <2>3 DEF RecoveredEntry
    <3>2. P \in SUBSET Nat
      BY <1>4
    <3>3. Min(P) \in P
      BY <2>3, <3>2, MinFacts
    <3> DEFINE m == Min(P)
               f == find_row(disk[m], id)
    <3>4. m \in 0..count - 1 /\ disk[m] \in Seq(Row) /\ f # 0
      <4>1. m \in ValidPages /\ f # 0
        BY <3>3
      <4>2. m \in DOMAIN disk
        BY <4>1 DEF ValidPages
      <4> QED BY <1>1, <1>4, <4>1, <4>2, StepFacts DEF PagerOK, PagerShape
    <3>5. f \in Nat \ {0}
      BY <3>4, FindFacts
    <3>6. e = [page |-> m, slot |-> f, off |-> TRUE]
      BY <3>1
    <3> HIDE DEF m, f, e
    <3>7. e \in Entry
      BY <3>4, <3>5, <3>6 DEF Entry
    <3> QED BY <3>7, NoEntryAssumption
  <2>5. /\ e.page \in 0..count - 1 /\ e.slot \in 1..Len(disk[e.page])
        /\ disk[e.page][e.slot].id = id
    BY <1>1, <2>2, <2>4, RecoverFacts
  <2>6. e.page = pid /\ e.slot = k
    BY <1>3, <2>5 DEF FileUnique
  <2>7. index'[id] = e
    BY <1>2, <2>2
  <2> QED BY <2>4, <2>6, <2>7
<1>13. SecondaryExact'
  BY <1>2, <1>3 DEF SecondaryExact
<1> QED BY <1>1, <1>8, <1>9, <1>11, <1>12, <1>13 DEF ScanInv

LEMMA OpenedScan == ScanInv /\ Opened => ScanInv'
<1> SUFFICES ASSUME ScanInv, Opened PROVE ScanInv'
  OBVIOUS
<1>1. EngineInv /\ EngineInv'
  BY OpenedKeeps DEF ScanInv
<1>2. /\ todo # <<>> /\ todo[1].s = "opened" /\ Done /\ open' = TRUE
      /\ UNCHANGED <<disk, offs, lru, cached, next, index, sec, mode>>
  BY <1>1, StepFacts DEF Opened, IsNext, files
<1>3. todo' = <<>>
  BY <1>1, <1>2, LastStep
<1>4. CloseReady'
  BY <1>2, <1>3 DEF CloseReady
<1>5. EntriesExact' /\ RowsIndexed' /\ SecondaryExact' /\ PlanShape(todo)' /\ Fresh'
  BY <1>2, StillKeeps
<1> QED BY <1>1, <1>4, <1>5 DEF ScanInv

LEMMA InitScan == Init => ScanInv
<1> SUFFICES ASSUME Init PROVE ScanInv
  OBVIOUS
<1>1. EngineInv
  BY InitInv
<1>2. /\ count = 0 /\ walFile = <<>> /\ walBuf = <<>> /\ next = 0
      /\ index = [id \in Ids |-> NoEntry] /\ sec = NoIndex /\ todo = <<>>
  BY DEF Init
<1>3. PlanShape(todo) /\ Fresh
  <2>1. 1..Len(todo) = {} /\ 2..Len(todo) = {}
    BY <1>2
  <2> QED BY <2>1 DEF PlanShape, Fresh
<1>4. FileUnique
  BY <1>2 DEF FileUnique
<1>5. EntriesExact /\ RowsIndexed /\ SecondaryExact /\ CloseReady
  BY <1>2, <1>4 DEF EntriesExact, RowsIndexed, SecondaryExact, CloseReady
<1> QED BY <1>1, <1>3, <1>5 DEF ScanInv

LEMMA StutterScan == ScanInv /\ UNCHANGED vars => ScanInv'
<1> SUFFICES ASSUME ScanInv, UNCHANGED vars PROVE ScanInv'
  OBVIOUS
<1>1. EngineInv'
  BY StutterKeeps DEF ScanInv
<1>2. UNCHANGED <<count, disk, walFile, walBuf, cached, next, index, sec, open, todo>> /\ Pager' = Pager
  BY DEF vars, Pager
<1>3. EntriesExact' /\ RowsIndexed' /\ Fresh' /\ SecondaryExact' /\ PlanShape(todo)'
  BY <1>2 DEF ScanInv, EntriesExact, RowsIndexed, Fresh, SecondaryExact
<1>4. CloseReady'
  BY <1>2 DEF ScanInv, CloseReady, Flushed, Dirty, FileUnique
<1> QED BY <1>1, <1>3, <1>4 DEF ScanInv

\* No log is replayed.
LEMMA NoReplay ==
    ASSUME ScanInv
    PROVE  ~ReplayInsert /\ ~ReplayDelete /\ ~ReplayErase
<1>1. ASSUME todo # <<>> PROVE Head(todo).s \notin RedoingNames
  <2>1. Head(todo) = todo[1] /\ Len(todo) \in Nat \ {0}
    BY <1>1, StepFacts DEF ScanInv
  <2>2. 1 \in 1..Len(todo)
    BY <2>1
  <2> QED BY <2>1, <2>2 DEF ScanInv, PlanShape
<1> QED BY <1>1 DEF ReplayInsert, ReplayDelete, ReplayErase, IsNext, RedoingNames

LEMMA NextScan == Undisturbed /\ ScanInv /\ [Next]_vars => ScanInv'
<1> SUFFICES ASSUME Undisturbed, ScanInv, [Next]_vars PROVE ScanInv'
  OBVIOUS
<1>1. ASSUME NEW c \in Calls, Begin(c) PROVE ScanInv'
  BY <1>1, BeginScan
<1>2. ASSUME NEW pid \in 0..MaxPages, Read(pid) PROVE ScanInv'
  <2>1. pid \in Nat
    OBVIOUS
  <2> QED BY <1>2, <2>1, ReadScan
<1>3. CASE CallStep
  BY <1>3, TouchLastScan, AppendRowScan, LogInsertScan, IndexRowScan, TouchRowScan,
     EraseRowScan, SyncScan DEF CallStep
<1>4. CASE MaintenanceStep
  BY <1>4, VisitPageScan, SetIndexScan, FlushPageScan, WriteHeaderScan, ClearWalScan,
     CloseFilesScan DEF MaintenanceStep
<1>5. CASE RecoveryStep
  BY <1>5, NoReplay, OpenedScan DEF RecoveryStep
<1>6. CASE CreateIndex \/ DropIndex \/ Checkpoint \/ Close \/ Recover
  BY <1>6, CreateIndexScan, DropIndexScan, CheckpointScan, CloseScan, RecoverScan
<1>7. CASE LogFails \/ Crash
  <2>1. mode \in Modes
    BY StepFacts DEF ScanInv
  <2>2. ~mode.crash /\ ~mode.fail
    BY <2>1 DEF Undisturbed
  <2> QED BY <1>7, <2>2 DEF LogFails, Crash
<1>8. CASE UNCHANGED vars
  BY <1>8, StutterScan
<1> QED BY <1>1, <1>2, <1>3, <1>4, <1>5, <1>6, <1>7, <1>8 DEF Next

\* While the process lives and its log writes succeed, at every step of every call the
\* index leads to exactly the rows on the pages, those the secondary index knows, and
\* the file that close() leaves holds every row once.
THEOREM ScanInvariant == Undisturbed => (Spec => []ScanInv)
<1> SUFFICES ASSUME Undisturbed PROVE Spec => []ScanInv
  OBVIOUS
<1>1. Init => ScanInv
  BY InitScan
<1>2. ScanInv /\ [Next]_vars => ScanInv'
  BY NextScan
<1> QED BY <1>1, <1>2, PTL DEF Spec

\* get() of an indexed id returns the row of that id.
LEMMA GetFacts ==
    ASSUME ScanInv, NEW id \in Ids, index[id] # NoEntry
    PROVE  /\ index[id].page \in 0..next - 1
           /\ index[id].slot \in 1..Len(RowsOf(Pager, index[id].page))
           /\ get(id) = RowAt(Pager, index[id]) /\ get(id) \in Row /\ get(id).id = id
<1> DEFINE e == index[id]
           rows == RowsOf(Pager, e.page)
<1>1. e.page \in 0..next - 1
  BY DEF ScanInv, EngineInv, Entries
<1>2. rows \in Seq(Row)
  BY <1>1, PageRows DEF ScanInv
<1>3. e.slot \in 1..Len(rows) /\ rows[e.slot].id = id
  BY DEF ScanInv, EntriesExact, PlaceOf, RowAt
<1>4. get(id) = IF e.slot \in DOMAIN rows THEN rows[e.slot] ELSE NoVal
  BY DEF get
<1>5. RowAt(Pager, e) = rows[e.slot]
  BY DEF RowAt
<1> HIDE DEF rows
<1>6. DOMAIN rows = 1..Len(rows) /\ rows[e.slot] \in Row
  BY <1>2, <1>3
<1> QED BY <1>1, <1>3, <1>4, <1>5, <1>6 DEF rows

\* Between calls scan() reads the row of every indexed id, once.
LEMMA ScanFacts ==
    ASSUME ScanInv, Idle
    PROVE  /\ scan \in Seq(Row) /\ Once(scan)
           /\ \A r : r \in ToSet(scan) <=> \E id \in Ids : index[id] # NoEntry /\ r = get(id)
<1> DEFINE s == [i \in 1..next |-> RowsOf(Pager, i - 1)]
<1>1. EngineInv /\ next \in Nat /\ ~Pending(todo)
  BY StepFacts DEF ScanInv, Idle, Pending
<1>2. \A i \in 1..next : i - 1 \in 0..next - 1
  BY <1>1
<1>3. s \in [1..next -> Seq(Row)]
  BY <1>1, <1>2, PageRows
<1>4. \A i \in 1..next : s[i] = RowsOf(Pager, i - 1)
  OBVIOUS
<1>5. scan = FlattenSeq(s)
  BY DEF scan
<1> HIDE DEF s
<1>6. ASSUME NEW i \in 1..next, NEW k \in 1..Len(s[i])
      PROVE  /\ s[i][k].id \in Ids /\ index[s[i][k].id] # NoEntry
             /\ index[s[i][k].id].page = i - 1 /\ index[s[i][k].id].slot = k
  <2>1. s[i][k] \in Row
    BY <1>3
  <2>2. s[i][k].id \in Ids
    BY <2>1 DEF Row
  <2> QED BY <1>1, <1>2, <1>4, <2>2 DEF ScanInv, RowsIndexed
<1>7. ASSUME NEW i \in 1..next, NEW r \in ToSet(s[i])
      PROVE  \E k \in 1..Len(s[i]) : r = s[i][k]
  BY <1>3, ToSetFacts
<1>8. \A i \in 1..next : Once(s[i])
  BY <1>6 DEF Once
<1>9. ASSUME NEW i \in 1..next, NEW j \in 1..next, i # j PROVE ToSet(s[i]) \cap ToSet(s[j]) = {}
  <2> SUFFICES ASSUME NEW r \in ToSet(s[i]), r \in ToSet(s[j]) PROVE FALSE
    OBVIOUS
  <2>1. PICK k \in 1..Len(s[i]) : r = s[i][k]
    BY <1>7
  <2>2. PICK m \in 1..Len(s[j]) : r = s[j][m]
    BY <1>7
  <2>3. index[r.id].page = i - 1 /\ index[r.id].page = j - 1
    BY <1>6, <2>1, <2>2
  <2> QED BY <1>1, <1>9, <2>3
<1>10. /\ scan \in Seq(Row) /\ Once(scan)
       /\ \A r : r \in ToSet(scan) <=> \E i \in 1..next : r \in ToSet(s[i])
  BY <1>1, <1>3, <1>5, <1>8, <1>9, FlattenOnce
<1>11. ASSUME NEW r, r \in ToSet(scan) PROVE \E id \in Ids : index[id] # NoEntry /\ r = get(id)
  <2>1. PICK i \in 1..next : r \in ToSet(s[i])
    BY <1>10, <1>11
  <2>2. PICK k \in 1..Len(s[i]) : r = s[i][k]
    BY <1>7, <2>1
  <2>3. /\ r.id \in Ids /\ index[r.id] # NoEntry
        /\ index[r.id].page = i - 1 /\ index[r.id].slot = k
    BY <1>6, <2>2
  <2>4. get(r.id) = RowsOf(Pager, i - 1)[k]
    BY <2>3, GetFacts DEF RowAt
  <2> QED BY <1>4, <2>2, <2>3, <2>4
<1>12. ASSUME NEW id \in Ids, index[id] # NoEntry PROVE get(id) \in ToSet(scan)
  <2> DEFINE i == index[id].page + 1
             k == index[id].slot
  <2>1. /\ index[id].page \in 0..next - 1 /\ k \in 1..Len(RowsOf(Pager, index[id].page))
        /\ get(id) = RowsOf(Pager, index[id].page)[k]
    BY <1>12, GetFacts DEF RowAt
  <2>2. i \in 1..next /\ i - 1 = index[id].page
    BY <1>1, <2>1
  <2> HIDE DEF i, k
  <2>3. s[i] = RowsOf(Pager, index[id].page) /\ s[i] \in Seq(Row)
    BY <1>3, <1>4, <2>2
  <2>4. get(id) \in ToSet(s[i])
    BY <2>1, <2>3, ToSetFacts
  <2> QED BY <1>10, <2>2, <2>4
<1> QED BY <1>10, <1>11, <1>12

LEMMA ScanIsIndex == ScanInv => ScanMatchesIndex
<1> SUFFICES ASSUME ScanInv, Idle PROVE ScanMatchesIndex
  BY DEF ScanMatchesIndex
<1> DEFINE live == {id \in Ids : index[id] # NoEntry}
           h == [r \in ToSet(scan) |-> r.id]
<1>1. /\ scan \in Seq(Row) /\ Once(scan)
      /\ \A r : r \in ToSet(scan) <=> \E id \in Ids : index[id] # NoEntry /\ r = get(id)
  BY ScanFacts
<1>2. ToSet(scan) = {get(id) : id \in live}
  BY <1>1
<1>3. \A id \in live : get(id).id = id /\ get(id) \in ToSet(scan)
  BY <1>1, GetFacts
<1>4. \A r \in ToSet(scan) : r.id \in live /\ r = get(r.id)
  BY <1>1, <1>3
<1>5. h \in Bijection(ToSet(scan), live)
  <2>1. h \in [ToSet(scan) -> live]
    BY <1>4
  <2>2. \A r, q \in ToSet(scan) : h[r] = h[q] => r = q
    BY <1>4
  <2>3. \A id \in live : \E r \in ToSet(scan) : h[r] = id
    BY <1>3
  <2> HIDE DEF h, live
  <2> QED BY <2>1, <2>2, <2>3 DEF Bijection, Injection, Surjection, IsInjective
<1>6. ExistsBijection(ToSet(scan), live)
  BY <1>5 DEF ExistsBijection
<1>7. IsFiniteSet(ToSet(scan)) /\ Cardinality(ToSet(scan)) = Len(scan)
  BY <1>1, OnceCardinality
<1> HIDE DEF live
<1>8. Cardinality(live) = Len(scan)
  BY <1>6, <1>7, FS_Bijection
<1> QED BY <1>2, <1>8 DEF ScanMatchesIndex, live

LEMMA RangeIsScan == ScanInv => RangeScanMatchesScan
<1> SUFFICES ASSUME ScanInv, Idle, sec # NoIndex, NEW vs \in SUBSET Vals
             PROVE  index_range_scan(vs) = {r \in ToSet(scan) : r.val \in vs}
  BY DEF RangeScanMatchesScan
<1>1. \A r : r \in ToSet(scan) <=> \E id \in Ids : index[id] # NoEntry /\ r = get(id)
  BY ScanFacts
<1>2. ASSUME NEW id \in Ids, index[id] # NoEntry
      PROVE  (\E v \in vs : <<v, id>> \in sec) <=> get(id).val \in vs
  <2>1. get(id).val \in Vals /\ get(id) = RowAt(Pager, index[id])
    BY <1>2, GetFacts DEF Row
  <2>2. \A v \in Vals : <<v, id>> \in sec <=> get(id).val = v
    BY <1>2, <2>1 DEF ScanInv, SecondaryExact
  <2> QED BY <2>1, <2>2
<1>3. index_range_scan(vs)
        = {get(id) : id \in {i \in Ids : index[i] # NoEntry /\ \E v \in vs : <<v, i>> \in sec}}
  BY DEF index_range_scan
<1> QED BY <1>1, <1>2, <1>3

\* While the process lives and its log writes succeed, scan(), which reads the pages one
\* by one without the index, visits exactly the rows that get() finds, each of them once,
\* for every cache capacity, page size and number of rows.
THEOREM EngineScanMatchesIndex == Undisturbed => (Spec => []ScanMatchesIndex)
<1> SUFFICES ASSUME Undisturbed PROVE Spec => []ScanMatchesIndex
  OBVIOUS
<1>1. Spec => []ScanInv
  BY ScanInvariant
<1>2. ScanInv => ScanMatchesIndex
  BY ScanIsIndex
<1> QED BY <1>1, <1>2, PTL

\* Under the same conditions index_range_scan() returns, through the secondary index, the
\* rows that its fallback, the filtered scan, would return.
THEOREM EngineRangeScanMatchesScan == Undisturbed => (Spec => []RangeScanMatchesScan)
<1> SUFFICES ASSUME Undisturbed PROVE Spec => []RangeScanMatchesScan
  OBVIOUS
<1>1. Spec => []ScanInv
  BY ScanInvariant
<1>2. ScanInv => RangeScanMatchesScan
  BY RangeIsScan
<1> QED BY <1>1, <1>2, PTL
=============================================================================
