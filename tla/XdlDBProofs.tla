---------------------------- MODULE XdlDBProofs ----------------------------
(***************************************************************************)
(* Proofs about XdlDB, for any set of ids and values, any page and log     *)
(* buffer sizes, any cache capacity, and any workload: crashes at any step *)
(* and failing log writes included.                                        *)
(***************************************************************************)
EXTENDS XdlDB, ListLemmas

----------------------------------------------------------------------------
(* The invariant *)

PageT == [rows : Seq(Row), dirty : BOOLEAN]

\* The parts of a pager; the map and the list of the cache hold the same pages.
PagerShape(p) ==
    /\ p = [disk |-> p.disk, offs |-> p.offs, lru |-> p.lru, cached |-> p.cached, cap |-> p.cap]
    /\ p.disk \in [DOMAIN p.disk -> Seq(Row)] /\ DOMAIN p.disk \in SUBSET Nat
    /\ p.lru \in Seq(Nat) /\ Once(p.lru)
    /\ p.cached \in [ToSet(p.lru) -> PageT]
    /\ p.offs \in SUBSET DOMAIN p.disk
    /\ p.cap \in Nat \ {0}

\* The first n pages, and no other, can be fetched, and a clean resident page is the
\* one in its slot.
PagerOK(p, n) ==
    /\ PagerShape(p)
    /\ \A q \in DOMAIN p.cached \cup p.offs : q < n
    /\ \A q \in 0..n - 1 : q \in DOMAIN p.cached \/ q \in p.offs
    /\ \A q \in DOMAIN p.cached : ~p.cached[q].dirty => q \in p.offs /\ p.disk[q] = p.cached[q].rows

\* Every page the header counts is in the file.
CountOK == count \in Nat /\ 0..count - 1 \subseteq DOMAIN disk

StepNames ==
    {"touch_last", "append_row", "log_insert", "sync", "index_row", "touch_row", "erase_row",
     "visit_page", "set_index", "flush_page", "write_header", "clear_wal", "close_files",
     "replay_insert", "replay_delete", "unindex", "opened"}
StepType == [s : StepNames, x : Ids \cup Nat, v : Vals \cup {NoVal}]
RowNames ==
    {"append_row", "log_insert", "index_row", "touch_row", "erase_row", "unindex",
     "replay_insert", "replay_delete"}
ValueNames == {"append_row", "log_insert", "index_row", "replay_insert"}
EraseNames == {"erase_row", "unindex"}
FlushNames == {"flush_page", "write_header"}
ReplayNames == {"replay_insert", "replay_delete", "opened"}

SameRow(a, b) == a.x = b.x /\ a.v = b.v

\* insert_unlocked: the row is appended after the last page was fetched, then logged,
\* then indexed, with the sync before or after.
AppendShape(t) ==
    \A i \in 2..Len(t) :
        /\ t[i].s = "append_row" => t[i - 1].s = "touch_last"
        /\ t[i].s = "log_insert" => t[i - 1].s = "append_row" /\ SameRow(t[i - 1], t[i])
        /\ t[i].s = "index_row" =>
             \/ t[i - 1].s \in {"append_row", "log_insert"} /\ SameRow(t[i - 1], t[i])
             \/ /\ t[i - 1].s = "sync"
                /\ i > 2 => t[i - 2].s = "log_insert" /\ SameRow(t[i - 2], t[i])

\* erase_unlocked: the page of the row is fetched before, and no row is erased twice
\* unless it is looked up again.
EraseShape(t) ==
    /\ \A i \in 2..Len(t) :
         t[i].s \in EraseNames => t[i - 1].s = "touch_row" /\ t[i - 1].x = t[i].x
    /\ \A i, j \in 1..Len(t) :
         t[i].s = "touch_row" /\ j < i /\ t[j].s \in EraseNames => t[j].x # t[i].x

\* flush_all: the pages, then the header.
FlushShape(t) ==
    \A i, j \in 1..Len(t) : t[i].s \in FlushNames /\ j < i => t[j].s = "flush_page"

\* open() and close(): the replay of the log comes after what the record before it
\* asked for, and the last step is the one that opens or closes.
OpenShape(t) ==
    /\ \A i \in 1..Len(t) : t[i].s \in {"close_files", "opened"} => i = Len(t)
    /\ \A i, j \in 1..Len(t) : t[i].s \in ReplayNames /\ i < j => t[j].s \in ReplayNames

StepsOK(t) ==
    /\ t \in Seq(StepType)
    /\ \A i \in 1..Len(t) :
         /\ t[i].s \in RowNames => t[i].x \in Ids
         /\ t[i].s \in ValueNames => t[i].v \in Vals
    /\ AppendShape(t) /\ EraseShape(t) /\ FlushShape(t) /\ OpenShape(t)

\* An INSERT record has a value.
LogRecord == {r \in Record : r.t = "INSERT" => r.val \in Vals}

Types ==
    /\ mode \in Modes /\ open \in BOOLEAN /\ next \in Nat
    /\ walFile \in Seq(LogRecord) /\ walBuf \in Seq(LogRecord)
    /\ index \in [Ids -> Entry \cup {NoEntry}]
    /\ sec = NoIndex \/ sec \in SUBSET (Vals \X Ids)

\* A page that has a row of the id.
Holds(p, pid, id) == \E k \in 1..Len(RowsOf(p, pid)) : RowsOf(p, pid)[k].id = id

\* An entry leads to a page that has the row.
Entries ==
    \A id \in Ids : index[id] # NoEntry =>
        index[id].page \in 0..next - 1 /\ Holds(Pager, index[id].page, id)

\* The row that was appended last, in a pager with n pages.
LastRow(p, n, x, v) ==
    /\ n > 0 /\ Len(RowsOf(p, n - 1)) > 0
    /\ Last(RowsOf(p, n - 1)) = [id |-> x, val |-> v]

\* The last page is resident when a row is appended to it, and the row is still the
\* last one when it is logged and indexed.
AppendReady ==
    todo # <<>> =>
        /\ todo[1].s = "append_row" /\ next > 0 => next - 1 \in DOMAIN cached
        /\ todo[1].s \in {"log_insert", "index_row"} => LastRow(Pager, next, todo[1].x, todo[1].v)
        /\ todo[1].s = "sync" /\ Len(todo) > 1 /\ todo[2].s = "index_row" =>
             LastRow(Pager, next, todo[2].x, todo[2].v)

\* A row to be erased is indexed, and its page is resident when it is erased.
EraseReady ==
    /\ \A i \in 1..Len(todo) : todo[i].s = "touch_row" => index[todo[i].x] # NoEntry
    /\ todo # <<>> /\ todo[1].s \in EraseNames =>
         index[todo[1].x] # NoEntry /\ index[todo[1].x].page \in DOMAIN cached

\* The pages to be visited exist, those to be written are resident, and they are all
\* the dirty pages.
FlushReady ==
    \A i \in 1..Len(todo) :
        /\ todo[i].s = "visit_page" => todo[i].x \in 0..next - 1
        /\ todo[i].s = "flush_page" => todo[i].x \in DOMAIN cached
        /\ todo[i].s = "write_header" =>
             \A pid \in Dirty : \E j \in 1..Len(todo) : j < i /\ todo[j].x = pid

\* Nothing is in memory while the database is closed.
OpenReady ==
    /\ ~open /\ todo # <<>> => todo[Len(todo)].s = "opened"
    /\ ~open /\ todo = <<>> => cached = <<>> /\ lru = <<>>
    /\ call # NoCall => open

EngineInv ==
    /\ Types /\ StepsOK(todo)
    /\ PagerOK(Pager, next) /\ CountOK /\ Entries
    /\ AppendReady /\ EraseReady /\ FlushReady /\ OpenReady
----------------------------------------------------------------------------
(* The pager *)

\* The pages of q have the rows that those of p have; the file of q has every slot of
\* the file of p, and a slot that was written holds the rows of its page.
Keeps(p, q, n) ==
    /\ \A pid \in 0..n - 1 : RowsOf(q, pid) = RowsOf(p, pid)
    /\ DOMAIN p.disk \subseteq DOMAIN q.disk
    /\ \A pid \in DOMAIN q.disk :
         \/ pid \in DOMAIN p.disk /\ q.disk[pid] = p.disk[pid]
         \/ pid \in 0..n - 1 /\ q.disk[pid] = RowsOf(p, pid)
    /\ q.cap = p.cap

Clean(page) == [rows |-> page.rows, dirty |-> FALSE]

\* The rows of a page.
LEMMA RowsFacts ==
    ASSUME NEW n \in Nat, NEW p, PagerOK(p, n), NEW pid \in 0..n - 1
    PROVE  RowsOf(p, pid) \in Seq(Row)
BY DEF PagerOK, PagerShape, RowsOf, PageT

\* Writing a page to its slot makes it clean and changes no rows.
LEMMA WriteFacts ==
    ASSUME NEW n \in Nat, NEW p, PagerOK(p, n), NEW pid \in DOMAIN p.cached
    PROVE  LET w == write_page_to_disk(p, pid)
           IN  /\ PagerOK(w, n) /\ Keeps(p, w, n)
               /\ w.lru = p.lru /\ w.offs = p.offs \cup {pid}
               /\ w.cached = Put(p.cached, pid, Clean(p.cached[pid]))
               /\ DOMAIN w.disk = DOMAIN p.disk \cup {pid}
<1> DEFINE w == write_page_to_disk(p, pid)
<1>1. /\ p.cached[pid] \in PageT /\ p.cached[pid].rows \in Seq(Row)
      /\ pid \in Nat /\ pid \in ToSet(p.lru)
  BY ToSetFacts DEF PagerOK, PagerShape, PageT
<1>2. p = [disk |-> p.disk, offs |-> p.offs, lru |-> p.lru, cached |-> p.cached, cap |-> p.cap]
  BY DEF PagerOK, PagerShape
<1>a. w = [p EXCEPT !.disk = Put(@, pid, p.cached[pid].rows), !.offs = @ \cup {pid},
                    !.cached = Put(@, pid, Clean(p.cached[pid]))]
  BY DEF write_page_to_disk, Clean
<1> HIDE DEF w
<1>3. w = [disk |-> Put(p.disk, pid, p.cached[pid].rows), offs |-> p.offs \cup {pid}, lru |-> p.lru,
           cached |-> Put(p.cached, pid, Clean(p.cached[pid])), cap |-> p.cap]
  BY <1>2, <1>a
<1>4. /\ w.disk = Put(p.disk, pid, p.cached[pid].rows) /\ w.offs = p.offs \cup {pid}
      /\ w.lru = p.lru /\ w.cached = Put(p.cached, pid, Clean(p.cached[pid])) /\ w.cap = p.cap
      /\ w = [disk |-> w.disk, offs |-> w.offs, lru |-> w.lru, cached |-> w.cached, cap |-> w.cap]
  BY <1>3
<1>5. /\ p.disk \in [DOMAIN p.disk -> Seq(Row)] /\ DOMAIN p.disk \in SUBSET Nat
      /\ p.lru \in Seq(Nat) /\ Once(p.lru) /\ p.cached \in [ToSet(p.lru) -> PageT]
      /\ p.offs \in SUBSET DOMAIN p.disk /\ p.cap \in Nat \ {0}
  BY DEF PagerOK, PagerShape
<1>6. /\ w.disk \in [DOMAIN p.disk \cup {pid} -> Seq(Row)]
      /\ DOMAIN w.disk = DOMAIN p.disk \cup {pid}
      /\ w.disk[pid] = p.cached[pid].rows
      /\ \A x \in DOMAIN p.disk : x # pid => w.disk[x] = p.disk[x]
  <2> DEFINE D == DOMAIN p.disk
             d == p.disk
             r == p.cached[pid].rows
  <2>1. d \in [D -> Seq(Row)] /\ r \in Seq(Row) /\ w.disk = Put(d, pid, r)
    BY <1>1, <1>4, <1>5
  <2> HIDE DEF D, d, r
  <2>2. /\ w.disk \in [D \cup {pid} -> Seq(Row)] /\ DOMAIN w.disk = D \cup {pid}
        /\ w.disk[pid] = r /\ \A x \in D : x # pid => w.disk[x] = d[x]
    BY <2>1 DEF Put
  <2> QED BY <2>2 DEF D, d, r
<1>7. /\ w.cached \in [ToSet(p.lru) -> PageT]
      /\ DOMAIN w.cached = DOMAIN p.cached
      /\ w.cached[pid].rows = p.cached[pid].rows /\ w.cached[pid].dirty = FALSE
      /\ \A x \in DOMAIN p.cached : x # pid => w.cached[x] = p.cached[x]
  <2> DEFINE D == ToSet(p.lru)
             c == p.cached
             r == Clean(p.cached[pid])
  <2>1. c \in [D -> PageT] /\ r \in PageT /\ w.cached = Put(c, pid, r) /\ pid \in D
    BY <1>1, <1>4, <1>5 DEF Clean, PageT
  <2>2. r.rows = p.cached[pid].rows /\ r.dirty = FALSE
    BY DEF Clean
  <2> HIDE DEF D, c, r
  <2>3. /\ w.cached \in [D \cup {pid} -> PageT] /\ w.cached[pid] = r
        /\ \A x \in D : x # pid => w.cached[x] = c[x]
    BY <2>1 DEF Put
  <2>4. D \cup {pid} = D /\ DOMAIN p.cached = D
    BY <2>1 DEF c
  <2> QED BY <2>2, <2>3, <2>4 DEF D, c
<1>8. PagerShape(w)
  BY <1>1, <1>4, <1>5, <1>6, <1>7 DEF PagerShape
<1>9. PagerOK(w, n)
  <2>1. \A q \in DOMAIN w.cached \cup w.offs : q < n
    BY <1>4, <1>7 DEF PagerOK
  <2>2. \A q \in 0..n - 1 : q \in DOMAIN w.cached \/ q \in w.offs
    BY <1>4, <1>7 DEF PagerOK
  <2>3. ASSUME NEW q \in DOMAIN w.cached, ~w.cached[q].dirty
        PROVE  q \in w.offs /\ w.disk[q] = w.cached[q].rows
    <3>1. CASE q = pid
      BY <3>1, <1>4, <1>6, <1>7
    <3>2. CASE q # pid
      BY <3>2, <2>3, <1>4, <1>5, <1>6, <1>7 DEF PagerOK
    <3> QED BY <3>1, <3>2
  <2> QED BY <1>8, <2>1, <2>2, <2>3 DEF PagerOK
<1>10. Keeps(p, w, n)
  <2>1. ASSUME NEW q \in 0..n - 1 PROVE RowsOf(w, q) = RowsOf(p, q)
    <3>1. CASE q \in DOMAIN p.cached
      BY <3>1, <1>7 DEF RowsOf
    <3>2. CASE q \notin DOMAIN p.cached
      <4>1. q \in DOMAIN p.disk /\ q # pid
        BY <3>2, <1>5 DEF PagerOK
      <4> QED BY <3>2, <4>1, <1>6, <1>7 DEF RowsOf
    <3> QED BY <3>1, <3>2
  <2>2. pid \in 0..n - 1 /\ w.disk[pid] = RowsOf(p, pid)
    BY <1>1, <1>6 DEF PagerOK, RowsOf
  <2> QED BY <2>1, <2>2, <1>4, <1>6 DEF Keeps
<1> QED BY <1>4, <1>6, <1>9, <1>10 DEF w

\* The eviction of a page: it is written if it is dirty.
LEMMA EvictFacts ==
    ASSUME NEW n \in Nat, NEW p, PagerOK(p, n), Len(p.lru) > 0
    PROVE  LET e == evict_lru(p)
           IN  /\ PagerOK(e, n) /\ Keeps(p, e, n)
               /\ DOMAIN e.cached = DOMAIN p.cached \ {Last(p.lru)}
               /\ p.offs \subseteq e.offs
<1> DEFINE v == Last(p.lru)
           w == IF p.cached[v].dirty THEN write_page_to_disk(p, v) ELSE p
           e == evict_lru(p)
<1>1. /\ p.lru \in Seq(Nat) /\ Once(p.lru) /\ DOMAIN p.cached = ToSet(p.lru)
      /\ Len(p.lru) > 0
  BY DEF PagerOK, PagerShape
<1>2. v \in DOMAIN p.cached
  BY <1>1, FrontFacts
<1>3. /\ PagerOK(w, n) /\ Keeps(p, w, n) /\ w.lru = p.lru /\ p.offs \subseteq w.offs
      /\ DOMAIN w.cached = DOMAIN p.cached
      /\ ~w.cached[v].dirty
  <2>1. CASE p.cached[v].dirty
    <3> HIDE DEF v
    <3>0. w = write_page_to_disk(p, v)
      BY <2>1
    <3>1. /\ PagerOK(w, n) /\ Keeps(p, w, n) /\ w.lru = p.lru /\ w.offs = p.offs \cup {v}
          /\ w.cached = Put(p.cached, v, Clean(p.cached[v]))
      BY <3>0, <1>2, WriteFacts
    <3> HIDE DEF w
    <3> DEFINE c == w.cached
               d == p.cached
    <3>2. c = Put(d, v, Clean(d[v])) /\ v \in DOMAIN d
      BY <3>1, <1>2
    <3> HIDE DEF c, d
    <3>3. DOMAIN c = DOMAIN d /\ c[v] = Clean(d[v])
      BY <3>2 DEF Put
    <3>4. DOMAIN w.cached = DOMAIN p.cached /\ ~w.cached[v].dirty
      BY <3>3 DEF c, d, Clean
    <3> QED BY <3>1, <3>4
  <2>2. CASE ~p.cached[v].dirty
    BY <2>2 DEF Keeps
  <2> QED BY <2>1, <2>2
<1>4. e = [w EXCEPT !.lru = Front(@), !.cached = [x \in DOMAIN @ \ {v} |-> @[x]]]
  BY DEF evict_lru
<1> HIDE DEF w, e
<1>5. w = [disk |-> w.disk, offs |-> w.offs, lru |-> w.lru, cached |-> w.cached, cap |-> w.cap]
  BY <1>3 DEF PagerOK, PagerShape
<1>6. e = [disk |-> w.disk, offs |-> w.offs, lru |-> Front(w.lru),
           cached |-> [x \in DOMAIN w.cached \ {v} |-> w.cached[x]], cap |-> w.cap]
  BY <1>4, <1>5
<1>7. /\ e.disk = w.disk /\ e.offs = w.offs /\ e.lru = Front(p.lru) /\ e.cap = w.cap
      /\ e.cached = [x \in DOMAIN p.cached \ {v} |-> w.cached[x]]
      /\ e = [disk |-> e.disk, offs |-> e.offs, lru |-> e.lru, cached |-> e.cached, cap |-> e.cap]
  BY <1>3, <1>6
<1>8. /\ e.lru \in Seq(Nat) /\ Once(e.lru) /\ ToSet(e.lru) = ToSet(p.lru) \ {v}
  BY <1>1, <1>7, FrontFacts
<1>9. /\ DOMAIN e.cached = DOMAIN p.cached \ {v}
      /\ \A x \in DOMAIN e.cached : e.cached[x] = w.cached[x]
  BY <1>7
<1>10. /\ w.disk \in [DOMAIN w.disk -> Seq(Row)] /\ DOMAIN w.disk \in SUBSET Nat
       /\ w.cached \in [ToSet(p.lru) -> PageT]
       /\ w.offs \in SUBSET DOMAIN w.disk /\ w.cap \in Nat \ {0}
  BY <1>3 DEF PagerOK, PagerShape
<1>11. e.cached \in [ToSet(e.lru) -> PageT]
  BY <1>1, <1>7, <1>8, <1>9, <1>10
<1>12. PagerShape(e)
  BY <1>7, <1>8, <1>10, <1>11 DEF PagerShape
<1>13. v \in w.offs /\ w.disk[v] = w.cached[v].rows
  BY <1>2, <1>3 DEF PagerOK
<1>14. PagerOK(e, n)
  BY <1>3, <1>7, <1>9, <1>12, <1>13 DEF PagerOK
<1>15. \A q \in 0..n - 1 : RowsOf(e, q) = RowsOf(w, q)
  BY <1>3, <1>7, <1>9, <1>13 DEF RowsOf
<1>16. Keeps(p, e, n)
  BY <1>3, <1>7, <1>15 DEF Keeps
<1> QED BY <1>3, <1>7, <1>9, <1>14, <1>16 DEF e

\* put_shared: a page that is loaded (m = n) or new (m = n + 1) becomes resident.
LEMMA PutSharedFacts ==
    ASSUME NEW n \in Nat, NEW p, PagerOK(p, n), NEW m \in Nat, n <= m,
           NEW pid \in 0..m - 1, pid \notin DOMAIN p.cached, m > n => m = n + 1 /\ pid = n,
           NEW page \in PageT,
           ~page.dirty => pid \in p.offs /\ p.disk[pid] = page.rows
    PROVE  LET r == put_shared(p, pid, page)
           IN  /\ PagerOK(r, m)
               /\ \A x \in 0..n - 1 : x # pid => RowsOf(r, x) = RowsOf(p, x)
               /\ RowsOf(r, pid) = page.rows /\ pid \in DOMAIN r.cached
               /\ DOMAIN p.disk \subseteq DOMAIN r.disk
               /\ \A x \in DOMAIN r.disk :
                    \/ x \in DOMAIN p.disk /\ r.disk[x] = p.disk[x]
                    \/ x \in 0..n - 1 /\ r.disk[x] = RowsOf(p, x)
               /\ r.cap = p.cap
<1> DEFINE q == IF Len(p.lru) >= p.cap THEN evict_lru(p) ELSE p
           r == put_shared(p, pid, page)
<1>1. /\ PagerOK(q, n) /\ Keeps(p, q, n) /\ p.offs \subseteq q.offs
      /\ pid \notin DOMAIN q.cached
  <2>1. CASE Len(p.lru) >= p.cap
    <3>1. Len(p.lru) > 0
      BY <2>1 DEF PagerOK, PagerShape
    <3> QED BY <2>1, <3>1, EvictFacts
  <2>2. CASE ~(Len(p.lru) >= p.cap)
    BY <2>2 DEF Keeps
  <2> QED BY <2>1, <2>2
<1>2. r = [q EXCEPT !.lru = <<pid>> \o @, !.cached = Put(@, pid, page)]
  BY DEF put_shared
<1> HIDE DEF q, r
<1>3. q = [disk |-> q.disk, offs |-> q.offs, lru |-> q.lru, cached |-> q.cached, cap |-> q.cap]
  BY <1>1 DEF PagerOK, PagerShape
<1>4. r = [disk |-> q.disk, offs |-> q.offs, lru |-> <<pid>> \o q.lru,
           cached |-> Put(q.cached, pid, page), cap |-> q.cap]
  BY <1>2, <1>3
<1>5. /\ r.disk = q.disk /\ r.offs = q.offs /\ r.lru = <<pid>> \o q.lru
      /\ r.cached = Put(q.cached, pid, page) /\ r.cap = q.cap
      /\ r = [disk |-> r.disk, offs |-> r.offs, lru |-> r.lru, cached |-> r.cached, cap |-> r.cap]
  BY <1>4
<1>6. /\ q.disk \in [DOMAIN q.disk -> Seq(Row)] /\ DOMAIN q.disk \in SUBSET Nat
      /\ q.lru \in Seq(Nat) /\ Once(q.lru) /\ q.cached \in [ToSet(q.lru) -> PageT]
      /\ q.offs \in SUBSET DOMAIN q.disk /\ q.cap \in Nat \ {0}
  BY <1>1 DEF PagerOK, PagerShape
<1>7. pid \in Nat /\ pid \notin ToSet(q.lru) /\ DOMAIN q.cached = ToSet(q.lru)
  BY <1>1, <1>6
<1>8. /\ r.lru \in Seq(Nat) /\ Once(r.lru) /\ ToSet(r.lru) = ToSet(q.lru) \cup {pid}
  BY <1>5, <1>6, <1>7, PushFacts
<1>9. /\ r.cached \in [ToSet(r.lru) -> PageT]
      /\ DOMAIN r.cached = DOMAIN q.cached \cup {pid}
      /\ r.cached[pid] = page
      /\ \A x \in DOMAIN q.cached : r.cached[x] = q.cached[x]
  <2> DEFINE c == q.cached
             D == ToSet(q.lru)
             E == ToSet(r.lru)
  <2>1. c \in [D -> PageT] /\ r.cached = Put(c, pid, page) /\ E = D \cup {pid} /\ pid \notin D
    BY <1>5, <1>6, <1>7, <1>8
  <2> HIDE DEF c, D, E
  <2>2. /\ r.cached \in [E -> PageT] /\ DOMAIN r.cached = D \cup {pid}
        /\ r.cached[pid] = page /\ \A x \in D : r.cached[x] = c[x]
    BY <2>1 DEF Put
  <2> QED BY <1>7, <2>2 DEF c, D, E
<1>10. PagerShape(r)
  BY <1>5, <1>6, <1>8, <1>9 DEF PagerShape
<1>11. ~page.dirty => pid \in q.offs /\ q.disk[pid] = page.rows
  <2> SUFFICES ASSUME ~page.dirty PROVE pid \in q.offs /\ q.disk[pid] = page.rows
    OBVIOUS
  <2>1. pid \in p.offs /\ p.disk[pid] = page.rows /\ pid \in 0..n - 1
    BY DEF PagerOK
  <2>2. RowsOf(q, pid) = q.disk[pid] /\ RowsOf(p, pid) = p.disk[pid]
    BY <1>1 DEF RowsOf
  <2> QED BY <1>1, <2>1, <2>2 DEF Keeps
<1>12. PagerOK(r, m)
  <2>1. \A x \in DOMAIN r.cached \cup r.offs : x < m
    <3>1. \A x \in DOMAIN q.cached \cup q.offs : x < n /\ x \in Nat
      BY <1>1, <1>6, ToSetFacts DEF PagerOK
    <3> QED BY <3>1, <1>5, <1>9
  <2>2. \A x \in 0..m - 1 : x \in DOMAIN r.cached \/ x \in r.offs
    <3>1. \A x \in 0..n - 1 : x \in DOMAIN q.cached \/ x \in q.offs
      BY <1>1 DEF PagerOK
    <3>2. \A x \in 0..m - 1 : x \in 0..n - 1 \/ x = pid
      OBVIOUS
    <3> QED BY <3>1, <3>2, <1>5, <1>9
  <2>3. \A x \in DOMAIN q.cached : ~q.cached[x].dirty => x \in q.offs /\ q.disk[x] = q.cached[x].rows
    BY <1>1 DEF PagerOK
  <2>4. \A x \in DOMAIN r.cached : ~r.cached[x].dirty => x \in r.offs /\ r.disk[x] = r.cached[x].rows
    BY <2>3, <1>5, <1>9, <1>11
  <2> QED BY <1>10, <2>1, <2>2, <2>4 DEF PagerOK
<1>13. \A x \in 0..n - 1 : x # pid => RowsOf(r, x) = RowsOf(q, x)
  BY <1>5, <1>9 DEF RowsOf
<1>14. RowsOf(r, pid) = page.rows
  BY <1>9 DEF RowsOf
<1>15. \A x \in 0..n - 1 : x # pid => RowsOf(r, x) = RowsOf(p, x)
  BY <1>1, <1>13 DEF Keeps
<1>16. /\ DOMAIN p.disk \subseteq DOMAIN r.disk
       /\ \A x \in DOMAIN r.disk :
            \/ x \in DOMAIN p.disk /\ r.disk[x] = p.disk[x]
            \/ x \in 0..n - 1 /\ r.disk[x] = RowsOf(p, x)
       /\ r.cap = p.cap
  BY <1>1, <1>5 DEF Keeps
<1> QED BY <1>9, <1>12, <1>14, <1>15, <1>16 DEF r

\* A resident page moves to the front of the list.
LEMMA MoveFacts ==
    ASSUME NEW n \in Nat, NEW p, PagerOK(p, n), NEW pid \in DOMAIN p.cached
    PROVE  LET r == [p EXCEPT !.lru = ToFront(@, pid)]
           IN  /\ PagerOK(r, n) /\ Keeps(p, r, n)
               /\ r.cached = p.cached /\ r.disk = p.disk /\ r.offs = p.offs
<1> DEFINE r == [p EXCEPT !.lru = ToFront(@, pid)]
<1>1. r = [p EXCEPT !.lru = ToFront(@, pid)]
  OBVIOUS
<1> HIDE DEF r
<1>2. p = [disk |-> p.disk, offs |-> p.offs, lru |-> p.lru, cached |-> p.cached, cap |-> p.cap]
  BY DEF PagerOK, PagerShape
<1>3. r = [disk |-> p.disk, offs |-> p.offs, lru |-> ToFront(p.lru, pid), cached |-> p.cached,
           cap |-> p.cap]
  BY <1>1, <1>2
<1>4. /\ r.disk = p.disk /\ r.offs = p.offs /\ r.lru = ToFront(p.lru, pid)
      /\ r.cached = p.cached /\ r.cap = p.cap
      /\ r = [disk |-> r.disk, offs |-> r.offs, lru |-> r.lru, cached |-> r.cached, cap |-> r.cap]
  BY <1>3
<1>5. /\ p.lru \in Seq(Nat) /\ Once(p.lru) /\ p.cached \in [ToSet(p.lru) -> PageT]
      /\ pid \in ToSet(p.lru) /\ pid \in Nat
  BY ToSetFacts DEF PagerOK, PagerShape
<1> DEFINE rest == RemoveFirst(p.lru, pid)
<1>6. rest \in Seq(Nat) /\ ToSet(rest) = ToSet(p.lru) \ {pid} /\ Once(rest)
  BY <1>5, RemoveFirstFacts
<1>7. r.lru = <<pid>> \o rest
  BY <1>4 DEF ToFront
<1> HIDE DEF rest
<1>8. r.lru \in Seq(Nat) /\ Once(r.lru) /\ ToSet(r.lru) = ToSet(p.lru)
  <2>1. pid \notin ToSet(rest)
    BY <1>6
  <2>2. r.lru \in Seq(Nat) /\ Once(r.lru) /\ ToSet(r.lru) = ToSet(rest) \cup {pid}
    BY <1>5, <1>6, <1>7, <2>1, PushFacts
  <2> QED BY <1>5, <1>6, <2>2
<1>9. PagerShape(r)
  BY <1>4, <1>5, <1>8 DEF PagerShape, PagerOK
<1>10. PagerOK(r, n)
  BY <1>4, <1>9 DEF PagerOK
<1>11. Keeps(p, r, n)
  BY <1>4 DEF Keeps, RowsOf
<1> QED BY <1>4, <1>10, <1>11 DEF r

\* get_page: the page is resident, whatever had to be evicted for it, and no rows change.
LEMMA GetPageFacts ==
    ASSUME NEW n \in Nat, NEW p, PagerOK(p, n), NEW pid \in 0..n - 1
    PROVE  LET r == get_page(p, pid)
           IN  PagerOK(r, n) /\ Keeps(p, r, n) /\ pid \in DOMAIN r.cached
<1>1. CASE pid \in DOMAIN p.cached
  BY <1>1, MoveFacts DEF get_page
<1>2. CASE pid \notin DOMAIN p.cached
  <2> DEFINE page == load_from_disk(p, pid)
             r == put_shared(p, pid, page)
  <2>1. get_page(p, pid) = r
    BY <1>2 DEF get_page
  <2>2. pid \in p.offs /\ p.disk[pid] \in Seq(Row)
    BY <1>2 DEF PagerOK, PagerShape
  <2>3. page \in PageT /\ ~page.dirty /\ page.rows = p.disk[pid]
    BY <2>2 DEF load_from_disk, PageT
  <2> HIDE DEF page
  <2>4. /\ PagerOK(r, n)
        /\ \A x \in 0..n - 1 : x # pid => RowsOf(r, x) = RowsOf(p, x)
        /\ RowsOf(r, pid) = page.rows /\ pid \in DOMAIN r.cached
        /\ DOMAIN p.disk \subseteq DOMAIN r.disk
        /\ \A x \in DOMAIN r.disk :
             \/ x \in DOMAIN p.disk /\ r.disk[x] = p.disk[x]
             \/ x \in 0..n - 1 /\ r.disk[x] = RowsOf(p, x)
        /\ r.cap = p.cap
    BY <1>2, <2>2, <2>3, PutSharedFacts
  <2> HIDE DEF r
  <2>5. RowsOf(p, pid) = page.rows
    BY <1>2, <2>3 DEF RowsOf
  <2> QED BY <2>1, <2>4, <2>5 DEF Keeps
<1> QED BY <1>1, <1>2

\* new_page: a page without rows, which is dirty.
LEMMA NewPageFacts ==
    ASSUME NEW n \in Nat, NEW p, PagerOK(p, n)
    PROVE  LET r == new_page(p, n)
           IN  /\ PagerOK(r, n + 1) /\ Keeps(p, r, n)
               /\ n \in DOMAIN r.cached /\ RowsOf(r, n) = <<>>
<1> DEFINE page == [rows |-> <<>>, dirty |-> TRUE]
           r == put_shared(p, n, page)
           m == n + 1
<1>1. new_page(p, n) = r
  BY DEF new_page
<1>2. page \in PageT /\ page.dirty /\ page.rows = <<>>
  BY DEF PageT
<1>3. n \in 0..m - 1 /\ n \notin DOMAIN p.cached /\ m \in Nat /\ n <= m /\ m = n + 1
  BY DEF PagerOK
<1> HIDE DEF page, m
<1>4. /\ PagerOK(r, m)
      /\ \A x \in 0..n - 1 : x # n => RowsOf(r, x) = RowsOf(p, x)
      /\ RowsOf(r, n) = page.rows /\ n \in DOMAIN r.cached
      /\ DOMAIN p.disk \subseteq DOMAIN r.disk
      /\ \A x \in DOMAIN r.disk :
           \/ x \in DOMAIN p.disk /\ r.disk[x] = p.disk[x]
           \/ x \in 0..n - 1 /\ r.disk[x] = RowsOf(p, x)
      /\ r.cap = p.cap
  BY <1>2, <1>3, PutSharedFacts
<1> HIDE DEF r
<1> QED BY <1>1, <1>2, <1>3, <1>4 DEF Keeps

\* An in-place change of a resident page.
LEMMA SetRowsFacts ==
    ASSUME NEW n \in Nat, NEW p, PagerOK(p, n), NEW pid \in DOMAIN p.cached, NEW rows \in Seq(Row)
    PROVE  LET r == SetRows(p, pid, rows)
           IN  /\ PagerOK(r, n) /\ RowsOf(r, pid) = rows
               /\ \A x \in 0..n - 1 : x # pid => RowsOf(r, x) = RowsOf(p, x)
               /\ r.disk = p.disk /\ r.offs = p.offs /\ r.cap = p.cap
               /\ DOMAIN r.cached = DOMAIN p.cached
<1> DEFINE r == SetRows(p, pid, rows)
           page == [rows |-> rows, dirty |-> TRUE]
<1>1. r = [p EXCEPT !.cached = Put(@, pid, page)]
  BY DEF SetRows
<1>2. page \in PageT /\ page.dirty /\ page.rows = rows
  BY DEF PageT
<1> HIDE DEF r, page
<1>3. p = [disk |-> p.disk, offs |-> p.offs, lru |-> p.lru, cached |-> p.cached, cap |-> p.cap]
  BY DEF PagerOK, PagerShape
<1>4. r = [disk |-> p.disk, offs |-> p.offs, lru |-> p.lru, cached |-> Put(p.cached, pid, page),
           cap |-> p.cap]
  BY <1>1, <1>3
<1>5. /\ r.disk = p.disk /\ r.offs = p.offs /\ r.lru = p.lru /\ r.cap = p.cap
      /\ r.cached = Put(p.cached, pid, page)
      /\ r = [disk |-> r.disk, offs |-> r.offs, lru |-> r.lru, cached |-> r.cached, cap |-> r.cap]
  BY <1>4
<1>6. /\ r.cached \in [ToSet(p.lru) -> PageT] /\ DOMAIN r.cached = DOMAIN p.cached
      /\ r.cached[pid] = page
      /\ \A x \in DOMAIN p.cached : x # pid => r.cached[x] = p.cached[x]
  <2> DEFINE c == p.cached
             D == ToSet(p.lru)
  <2>1. c \in [D -> PageT] /\ r.cached = Put(c, pid, page) /\ pid \in D
    BY <1>5 DEF PagerOK, PagerShape
  <2> HIDE DEF c, D
  <2>2. /\ r.cached \in [D -> PageT] /\ r.cached[pid] = page
        /\ \A x \in D : x # pid => r.cached[x] = c[x]
    BY <1>2, <2>1 DEF Put
  <2>3. DOMAIN r.cached = D /\ DOMAIN p.cached = D
    BY <2>1, <2>2 DEF c
  <2> QED BY <2>2, <2>3 DEF c, D
<1>7. PagerShape(r)
  BY <1>5, <1>6 DEF PagerShape, PagerOK
<1>8. PagerOK(r, n)
  BY <1>2, <1>5, <1>6, <1>7 DEF PagerOK
<1>9. RowsOf(r, pid) = rows
  BY <1>2, <1>6 DEF RowsOf
<1>10. \A x \in 0..n - 1 : x # pid => RowsOf(r, x) = RowsOf(p, x)
  BY <1>5, <1>6 DEF RowsOf
<1> QED BY <1>5, <1>6, <1>8, <1>9, <1>10 DEF r
----------------------------------------------------------------------------
(* The rows of a page *)

\* find_row: the first row of the id, 0 if there is none.
LEMMA FindFacts ==
    ASSUME NEW rows \in Seq(Row), NEW id
    PROVE  /\ find_row(rows, id) \in 0..Len(rows)
           /\ find_row(rows, id) # 0 => rows[find_row(rows, id)].id = id
           /\ \A k \in 1..Len(rows) :
                rows[k].id = id => find_row(rows, id) # 0 /\ find_row(rows, id) <= k
<1> DEFINE I == {i \in 1..Len(rows) : rows[i].id = id}
<1>1. find_row(rows, id) = IF I # {} THEN Min(I) ELSE 0
  BY DEF find_row, SelectInSeq
<1>2. I \in SUBSET Nat /\ Len(rows) \in Nat
  OBVIOUS
<1> DEFINE f == find_row(rows, id)
<1>3. CASE I # {}
  <2>1. f \in I /\ \A k \in I : f <= k
    BY <1>1, <1>2, <1>3, MinFacts
  <2> HIDE DEF f
  <2>2. f \in 1..Len(rows) /\ rows[f].id = id /\ \A k \in 1..Len(rows) : rows[k].id = id => f <= k
    BY <2>1
  <2>3. f # 0 /\ f \in 0..Len(rows)
    BY <1>2, <2>2
  <2> QED BY <2>2, <2>3 DEF f
<1>4. CASE I = {}
  BY <1>1, <1>2, <1>4
<1> QED BY <1>3, <1>4

\* erase_row: the rows of the other ids stay.
LEMMA EraseFacts ==
    ASSUME NEW rows \in Seq(Row), NEW slot \in 1..Len(rows)
    PROVE  /\ erase_row(rows, slot) \in Seq(Row)
           /\ Len(erase_row(rows, slot)) = Len(rows) - 1
           /\ \A k \in 1..Len(rows) : k # slot =>
                \E m \in 1..Len(erase_row(rows, slot)) : erase_row(rows, slot)[m] = rows[k]
           /\ \A m \in 1..Len(erase_row(rows, slot)) :
                \E k \in 1..Len(rows) : k # slot /\ erase_row(rows, slot)[m] = rows[k]
<1> DEFINE rest == erase_row(rows, slot)
<1>1. rest = RemoveAt(rows, slot)
  BY DEF erase_row
<1>2. /\ RemoveAt(rows, slot) \in Seq(Row) /\ Len(RemoveAt(rows, slot)) = Len(rows) - 1
      /\ \A k \in 1..Len(rows) - 1 :
           RemoveAt(rows, slot)[k] = IF k < slot THEN rows[k] ELSE rows[k + 1]
  BY RemoveAtFacts
<1> HIDE DEF rest
<1>3. /\ rest \in Seq(Row) /\ Len(rest) = Len(rows) - 1 /\ Len(rows) \in Nat
      /\ \A k \in 1..Len(rows) - 1 : rest[k] = IF k < slot THEN rows[k] ELSE rows[k + 1]
  BY <1>1, <1>2
<1>4. ASSUME NEW k \in 1..Len(rows), k # slot
      PROVE  \E m \in 1..Len(rest) : rest[m] = rows[k]
  <2>1. CASE k < slot
    BY <2>1, <1>3
  <2>2. CASE k > slot
    <3>1. k - 1 \in 1..Len(rest) /\ ~(k - 1 < slot) /\ (k - 1) + 1 = k
      BY <2>2, <1>3
    <3>2. rest[k - 1] = rows[k]
      BY <3>1, <1>3
    <3> QED BY <3>1, <3>2
  <2> QED BY <1>4, <2>1, <2>2
<1>5. ASSUME NEW m \in 1..Len(rest)
      PROVE  \E k \in 1..Len(rows) : k # slot /\ rest[m] = rows[k]
  <2>1. CASE m < slot
    BY <2>1, <1>3
  <2>2. CASE ~(m < slot)
    <3>1. m + 1 \in 1..Len(rows) /\ m + 1 # slot /\ rest[m] = rows[m + 1]
      BY <2>2, <1>3
    <3> QED BY <3>1
  <2> QED BY <2>1, <2>2
<1> QED BY <1>3, <1>4, <1>5 DEF rest

\* append_row: one more row, the last one.
LEMMA AppendFacts ==
    ASSUME NEW rows \in Seq(Row), NEW row \in Row
    PROVE  /\ append_row(rows, row) \in Seq(Row)
           /\ Len(append_row(rows, row)) = Len(rows) + 1
           /\ Last(append_row(rows, row)) = row
           /\ \A k \in 1..Len(rows) : append_row(rows, row)[k] = rows[k]
BY DEF append_row, Last

----------------------------------------------------------------------------
(* The steps of a call *)

\* What is left of a plan is a plan.
LEMMA TailFacts ==
    ASSUME NEW t, StepsOK(t), t # <<>>
    PROVE  /\ StepsOK(Tail(t)) /\ t[1] \in StepType /\ Head(t) = t[1]
           /\ Len(Tail(t)) = Len(t) - 1 /\ Len(t) \in Nat \ {0}
           /\ \A i \in 1..Len(t) - 1 : Tail(t)[i] = t[i + 1]
<1> DEFINE u == Tail(t)
<1>1. t \in Seq(StepType) /\ Len(t) \in Nat \ {0} /\ Head(t) = t[1] /\ t[1] \in StepType
  BY DEF StepsOK
<1>2. u \in Seq(StepType) /\ Len(u) = Len(t) - 1 /\ \A i \in 1..Len(u) : u[i] = t[i + 1]
  BY <1>1
<1> HIDE DEF u
<1>3. \A i \in 1..Len(u) : i + 1 \in 1..Len(t) /\ i + 1 \in 2..Len(t)
  BY <1>1, <1>2
<1>4. \A i \in 1..Len(u) : /\ u[i].s \in RowNames => u[i].x \in Ids
                           /\ u[i].s \in ValueNames => u[i].v \in Vals
  BY <1>2, <1>3 DEF StepsOK
<1>5. AppendShape(u)
  <2> SUFFICES ASSUME NEW i \in 2..Len(u)
               PROVE  /\ u[i].s = "append_row" => u[i - 1].s = "touch_last"
                      /\ u[i].s = "log_insert" => u[i - 1].s = "append_row" /\ SameRow(u[i - 1], u[i])
                      /\ u[i].s = "index_row" =>
                           \/ u[i - 1].s \in {"append_row", "log_insert"} /\ SameRow(u[i - 1], u[i])
                           \/ /\ u[i - 1].s = "sync"
                              /\ i > 2 => u[i - 2].s = "log_insert" /\ SameRow(u[i - 2], u[i])
    BY DEF AppendShape
  <2> DEFINE j == i + 1
  <2>1. j \in 2..Len(t) /\ j > 2 /\ u[i] = t[j] /\ u[i - 1] = t[j - 1] /\ (i > 2 => u[i - 2] = t[j - 2])
    <3>1. /\ j \in 2..Len(t) /\ j > 2 /\ i \in 1..Len(u) /\ i - 1 \in 1..Len(u) /\ (i - 1) + 1 = j - 1
          /\ i > 2 => i - 2 \in 1..Len(u) /\ (i - 2) + 1 = j - 2
      BY <1>1, <1>2
    <3>2. u[i] = t[j] /\ u[i - 1] = t[j - 1]
      BY <1>2, <3>1
    <3>3. i > 2 => u[i - 2] = t[j - 2]
      BY <1>2, <3>1
    <3> QED BY <3>1, <3>2, <3>3
  <2>2. AppendShape(t)
    BY DEF StepsOK
  <2> HIDE DEF j
  <2>3. /\ t[j].s = "append_row" => t[j - 1].s = "touch_last"
        /\ t[j].s = "log_insert" => t[j - 1].s = "append_row" /\ SameRow(t[j - 1], t[j])
        /\ t[j].s = "index_row" =>
             \/ t[j - 1].s \in {"append_row", "log_insert"} /\ SameRow(t[j - 1], t[j])
             \/ t[j - 1].s = "sync" /\ t[j - 2].s = "log_insert" /\ SameRow(t[j - 2], t[j])
    BY <2>1, <2>2 DEF AppendShape
  <2> QED BY <2>1, <2>3
<1>6. EraseShape(u)
  <2>1. EraseShape(t)
    BY DEF StepsOK
  <2>2. ASSUME NEW i \in 2..Len(u), u[i].s \in EraseNames
        PROVE  u[i - 1].s = "touch_row" /\ u[i - 1].x = u[i].x
    <3>1. i + 1 \in 2..Len(t) /\ u[i] = t[i + 1] /\ u[i - 1] = t[(i + 1) - 1]
      BY <1>1, <1>2
    <3> QED BY <2>1, <2>2, <3>1 DEF EraseShape
  <2>3. ASSUME NEW i \in 1..Len(u), NEW j \in 1..Len(u),
               u[i].s = "touch_row", j < i, u[j].s \in EraseNames
        PROVE  u[j].x # u[i].x
    <3>1. j + 1 < i + 1 /\ u[i] = t[i + 1] /\ u[j] = t[j + 1]
      BY <1>2, <2>3
    <3> QED BY <1>3, <2>1, <2>3, <3>1 DEF EraseShape
  <2> QED BY <2>2, <2>3 DEF EraseShape
<1>7. FlushShape(u)
  <2> SUFFICES ASSUME NEW i \in 1..Len(u), NEW j \in 1..Len(u), u[i].s \in FlushNames, j < i
               PROVE  u[j].s = "flush_page"
    BY DEF FlushShape
  <2>1. j + 1 < i + 1 /\ u[i] = t[i + 1] /\ u[j] = t[j + 1]
    BY <1>2
  <2> QED BY <1>3, <2>1 DEF StepsOK, FlushShape
<1>8. OpenShape(u)
  <2>1. OpenShape(t)
    BY DEF StepsOK
  <2>2. ASSUME NEW i \in 1..Len(u), u[i].s \in {"close_files", "opened"} PROVE i = Len(u)
    <3>1. t[i + 1].s \in {"close_files", "opened"} /\ i + 1 \in 1..Len(t)
      BY <1>2, <1>3, <2>2
    <3>2. i + 1 = Len(t)
      BY <3>1, <2>1 DEF OpenShape
    <3> QED BY <3>2, <1>1, <1>2
  <2>3. ASSUME NEW i \in 1..Len(u), NEW j \in 1..Len(u), u[i].s \in ReplayNames, i < j
        PROVE  u[j].s \in ReplayNames
    <3>1. i + 1 < j + 1 /\ u[i] = t[i + 1] /\ u[j] = t[j + 1]
      BY <1>2, <2>3
    <3> QED BY <1>3, <2>1, <2>3, <3>1 DEF OpenShape
  <2> QED BY <2>2, <2>3 DEF OpenShape
<1> QED BY <1>1, <1>2, <1>4, <1>5, <1>6, <1>7, <1>8 DEF StepsOK, u

\* The call goes on with its next step when the step that was done leaves what the
\* steps behind it rely on.
LEMMA DoneReady ==
    ASSUME EngineInv, todo # <<>>, Done, open' = open, todo[1].s # "opened",
           next' \in Nat, next' >= next,
           todo[1].s = "touch_last" /\ next' > 0 => next' - 1 \in DOMAIN cached',
           todo[1].s = "append_row" => LastRow(Pager', next', todo[1].x, todo[1].v),
           todo[1].s \in {"log_insert", "sync"} => \A x, v : LastRow(Pager, next, x, v) => LastRow(Pager', next', x, v),
           \A id \in Ids : /\ index[id] # NoEntry
                           /\ ~(todo[1].s \in EraseNames /\ todo[1].x = id)
                           => index'[id] # NoEntry,
           todo[1].s = "touch_row" =>
              index' = index /\ index[todo[1].x].page \in DOMAIN cached',
           todo[1].s = "flush_page" =>
              /\ DOMAIN cached' = DOMAIN cached
              /\ \A pid \in DOMAIN cached : cached'[pid].dirty => cached[pid].dirty /\ pid # todo[1].x
    PROVE  StepsOK(todo)' /\ AppendReady' /\ EraseReady' /\ FlushReady' /\ OpenReady'
<1> DEFINE t == todo
           u == todo'
<1>1. /\ StepsOK(t) /\ StepsOK(u) /\ u = Tail(t)
      /\ Len(u) = Len(t) - 1 /\ Len(t) \in Nat \ {0}
      /\ \A i \in 1..Len(t) - 1 : u[i] = t[i + 1]
  <2>1. StepsOK(t) /\ t # <<>> /\ u = Tail(t)
    BY DEF EngineInv, Done
  <2> HIDE DEF t, u
  <2> QED BY <2>1, TailFacts
<1>2. u # <<>> => Len(t) > 1 /\ u[1] = t[2] /\ 1 \in 1..Len(u) /\ 2 \in 2..Len(t)
  <2>1. u \in Seq(StepType)
    BY <1>1 DEF StepsOK
  <2> HIDE DEF u, t
  <2>2. u # <<>> => Len(u) > 0
    BY <2>1
  <2> QED BY <1>1, <2>2
<1>3. AppendReady'
  <2>1. AppendShape(t) /\ AppendReady
    BY <1>1 DEF StepsOK, EngineInv
  <2>2. ASSUME u # <<>>, u[1].s = "append_row", next' > 0 PROVE next' - 1 \in DOMAIN cached'
    <3>1. t[1].s = "touch_last"
      BY <1>2, <2>1, <2>2 DEF AppendShape
    <3> QED BY <3>1, <2>2
  <2>3. ASSUME u # <<>>, u[1].s = "log_insert" PROVE LastRow(Pager', next', u[1].x, u[1].v)
    <3>1. t[1].s = "append_row" /\ SameRow(t[1], t[2])
      BY <1>2, <2>1, <2>3 DEF AppendShape
    <3>2. t[1].x = u[1].x /\ t[1].v = u[1].v
      BY <3>1, <1>2, <2>3 DEF SameRow
    <3>3. LastRow(Pager', next', t[1].x, t[1].v)
      BY <3>1
    <3> QED BY <3>2, <3>3
  <2>4. ASSUME u # <<>>, u[1].s = "index_row" PROVE LastRow(Pager', next', u[1].x, u[1].v)
    <3>1. \/ t[1].s \in {"append_row", "log_insert"} /\ SameRow(t[1], t[2])
          \/ t[1].s = "sync"
      BY <1>2, <2>1, <2>4 DEF AppendShape
    <3>2. CASE t[1].s = "append_row" /\ SameRow(t[1], t[2])
      <4>1. t[1].x = u[1].x /\ t[1].v = u[1].v /\ LastRow(Pager', next', t[1].x, t[1].v)
        BY <3>2, <1>2, <2>4 DEF SameRow
      <4> QED BY <4>1
    <3>3. CASE t[1].s = "log_insert" /\ SameRow(t[1], t[2])
      <4>1. t[1].x = u[1].x /\ t[1].v = u[1].v
        BY <3>3, <1>2, <2>4 DEF SameRow
      <4>2. LastRow(Pager, next, t[1].x, t[1].v)
        BY <3>3, <2>1 DEF AppendReady
      <4>3. LastRow(Pager', next', t[1].x, t[1].v)
        BY <3>3, <4>2
      <4> QED BY <4>1, <4>3
    <3>4. CASE t[1].s = "sync"
      <4>1. LastRow(Pager, next, t[2].x, t[2].v)
        BY <3>4, <1>2, <2>1, <2>4 DEF AppendReady
      <4> DEFINE x == t[2].x
                 v == t[2].v
      <4>2. x = u[1].x /\ v = u[1].v
        BY <1>2, <2>4
      <4> HIDE DEF x, v
      <4>3. LastRow(Pager', next', x, v)
        BY <3>4, <4>1 DEF x, v
      <4> QED BY <4>2, <4>3
    <3> QED BY <3>1, <3>2, <3>3, <3>4
  <2>5. ASSUME u # <<>>, u[1].s = "sync", Len(u) > 1, u[2].s = "index_row"
        PROVE  LastRow(Pager', next', u[2].x, u[2].v)
    <3>1. 3 \in 2..Len(t) /\ u[2] = t[3] /\ t[2].s = "sync" /\ t[3].s = "index_row"
      BY <1>1, <1>2, <2>5
    <3>2. t[1].s = "log_insert" /\ SameRow(t[1], t[3])
      BY <2>1, <3>1 DEF AppendShape
    <3>3. LastRow(Pager, next, t[1].x, t[1].v)
      BY <3>2, <2>1 DEF AppendReady
    <3>4. LastRow(Pager', next', t[1].x, t[1].v)
      BY <3>2, <3>3
    <3>5. t[1].x = u[2].x /\ t[1].v = u[2].v
      BY <3>1, <3>2 DEF SameRow
    <3> QED BY <3>4, <3>5
  <2> QED BY <2>2, <2>3, <2>4, <2>5 DEF AppendReady
<1>4. EraseReady'
  <2>1. EraseShape(t) /\ EraseReady
    BY <1>1 DEF StepsOK, EngineInv
  <2>2. ASSUME NEW i \in 1..Len(u), u[i].s = "touch_row" PROVE index'[u[i].x] # NoEntry
    <3>1. /\ i + 1 \in 1..Len(t) /\ u[i] = t[i + 1] /\ 1 < i + 1 /\ 1 \in 1..Len(t)
      BY <1>1
    <3>2. t[i + 1].x \in Ids /\ index[t[i + 1].x] # NoEntry
      BY <1>1, <2>1, <2>2, <3>1 DEF StepsOK, RowNames, EraseReady
    <3>3. t[1].s \in EraseNames => t[1].x # t[i + 1].x
      BY <2>1, <2>2, <3>1 DEF EraseShape
    <3> QED BY <3>1, <3>2, <3>3
  <2>3. ASSUME u # <<>>, u[1].s \in EraseNames
        PROVE  index'[u[1].x] # NoEntry /\ index'[u[1].x].page \in DOMAIN cached'
    <3>1. t[1].s = "touch_row" /\ t[1].x = u[1].x
      BY <1>2, <2>1, <2>3 DEF EraseShape
    <3>2. 1 \in 1..Len(todo)
      BY <1>1
    <3>3. index[t[1].x] # NoEntry
      BY <3>1, <3>2, <2>1 DEF EraseReady
    <3> QED BY <3>1, <3>3
  <2> QED BY <2>2, <2>3 DEF EraseReady
<1>5. FlushReady'
  <2>1. FlushShape(t) /\ FlushReady
    BY <1>1 DEF StepsOK, EngineInv
  <2> SUFFICES ASSUME NEW i \in 1..Len(u)
               PROVE  /\ u[i].s = "visit_page" => u[i].x \in 0..next' - 1
                      /\ u[i].s = "flush_page" => u[i].x \in DOMAIN cached'
                      /\ u[i].s = "write_header" =>
                           \A pid \in Dirty' : \E j \in 1..Len(u) : j < i /\ u[j].x = pid
    BY DEF FlushReady
  <2>2. /\ i + 1 \in 1..Len(t) /\ u[i] = t[i + 1] /\ 1 < i + 1 /\ 1 \in 1..Len(t)
    BY <1>1
  <2>3. u[i].s = "visit_page" => u[i].x \in 0..next' - 1
    <3>1. u[i].s = "visit_page" => u[i].x \in 0..next - 1
      BY <2>1, <2>2 DEF FlushReady
    <3> QED BY <3>1 DEF EngineInv, Types
  <2>4. u[i].s \in FlushNames => t[1].s = "flush_page"
    BY <2>1, <2>2 DEF FlushShape
  <2>5. u[i].s = "flush_page" => u[i].x \in DOMAIN cached'
    BY <2>1, <2>2, <2>4 DEF FlushReady, FlushNames
  <2>6. ASSUME u[i].s = "write_header", NEW pid \in Dirty'
        PROVE  \E j \in 1..Len(u) : j < i /\ u[j].x = pid
    <3>1. pid \in Dirty /\ pid # t[1].x
      BY <2>4, <2>6 DEF Dirty, FlushNames
    <3>2. PICK k \in 1..Len(t) : k < i + 1 /\ t[k].x = pid
      BY <2>1, <2>2, <2>6, <3>1 DEF FlushReady
    <3>3. k # 1 /\ k - 1 \in 1..Len(t) - 1 /\ (k - 1) + 1 = k /\ k - 1 < i
      BY <1>1, <3>1, <3>2
    <3>4. u[k - 1] = t[k] /\ k - 1 \in 1..Len(u)
      BY <1>1, <3>3
    <3> QED BY <3>2, <3>3, <3>4
  <2> QED BY <2>3, <2>5, <2>6
<1>6. OpenReady'
  <2>1. OpenReady /\ OpenShape(t)
    BY <1>1 DEF StepsOK, EngineInv
  <2>2. ASSUME ~open', u # <<>> PROVE u[Len(u)].s = "opened"
    <3>1. ~open /\ t # <<>>
      BY <2>2
    <3>2. t[Len(t)].s = "opened"
      BY <2>1, <3>1 DEF OpenReady
    <3>3. u[Len(u)] = t[Len(t)]
      BY <1>1, <1>2, <2>2
    <3> QED BY <3>2, <3>3
  <2>3. ASSUME ~open', u = <<>> PROVE FALSE
    <3>1. ~open /\ t # <<>>
      BY <2>3
    <3>2. t[Len(t)].s = "opened"
      BY <2>1, <3>1 DEF OpenReady
    <3>3. Len(t) = 1
      BY <1>1, <2>3
    <3> QED BY <3>2, <3>3
  <2>4. call' # NoCall => open'
    BY <2>1 DEF Done, OpenReady
  <2> QED BY <2>2, <2>3, <2>4 DEF OpenReady
<1> QED BY <1>1, <1>3, <1>4, <1>5, <1>6
----------------------------------------------------------------------------
(* Steps that change no rows *)

\* A step that only moves pages between the cache and the file.
LEMMA PagerStep ==
    ASSUME EngineInv, NEW q, PagerBecomes(q), PagerOK(q, next), Keeps(Pager, q, next),
           mode' = mode, next' = next, count' = count, index' = index
    PROVE  /\ Pager' = q /\ PagerOK(Pager', next') /\ CountOK' /\ Entries'
           /\ \A x, v : LastRow(Pager, next, x, v) <=> LastRow(Pager', next', x, v)
<1>1. Pager' = q
  <2>1. q = [disk |-> q.disk, offs |-> q.offs, lru |-> q.lru, cached |-> q.cached, cap |-> q.cap]
    BY DEF PagerOK, PagerShape
  <2>2. q.cap = mode.cap
    BY DEF Keeps, Pager
  <2> QED BY <2>1, <2>2 DEF Pager, PagerBecomes
<1>2. CountOK'
  <2>1. DOMAIN disk \subseteq DOMAIN q.disk
    BY DEF Keeps, Pager
  <2> QED BY <2>1 DEF EngineInv, CountOK, PagerBecomes
<1>3. \A pid \in 0..next - 1 : RowsOf(Pager', pid) = RowsOf(Pager, pid)
  BY <1>1 DEF Keeps
<1>4. Entries'
  <2> SUFFICES ASSUME NEW id \in Ids, index[id] # NoEntry
               PROVE  index[id].page \in 0..next - 1 /\ Holds(Pager', index[id].page, id)
    BY DEF Entries
  <2>1. index[id].page \in 0..next - 1 /\ Holds(Pager, index[id].page, id)
    BY DEF EngineInv, Entries
  <2> QED BY <1>3, <2>1 DEF Holds
<1>5. ASSUME NEW x, NEW v
      PROVE  LastRow(Pager, next, x, v) <=> LastRow(Pager', next', x, v)
  <2>1. next > 0 => next - 1 \in 0..next - 1
    BY DEF EngineInv, Types
  <2> QED BY <1>3, <2>1 DEF LastRow
<1> QED BY <1>1, <1>2, <1>3, <1>4, <1>5

\* The facts about the state that every step starts from.
LEMMA StepFacts ==
    ASSUME EngineInv
    PROVE  /\ next \in Nat /\ PagerOK(Pager, next) /\ mode \in Modes
           /\ Pager.cached = cached /\ Pager.disk = disk /\ Pager.offs = offs /\ Pager.lru = lru
           /\ Pager.cap = mode.cap
           /\ todo # <<>> => /\ Head(todo) = todo[1] /\ Len(todo) \in Nat \ {0}
                             /\ todo[1] \in StepType
                             /\ todo[1].s \in RowNames => todo[1].x \in Ids
                             /\ todo[1].s \in ValueNames => todo[1].v \in Vals
<1>1. StepsOK(todo)
  BY DEF EngineInv
<1>2. todo # <<>> => /\ Head(todo) = todo[1] /\ Len(todo) \in Nat \ {0} /\ todo[1] \in StepType
  BY <1>1, TailFacts
<1>3. todo # <<>> => 1 \in 1..Len(todo)
  BY <1>2
<1>4. todo # <<>> => /\ todo[1].s \in RowNames => todo[1].x \in Ids
                     /\ todo[1].s \in ValueNames => todo[1].v \in Vals
  BY <1>1, <1>3 DEF StepsOK
<1> QED BY <1>2, <1>4 DEF EngineInv, Types, Pager

\* A step of the list that fetches a page.
LEMMA FetchKeeps ==
    ASSUME EngineInv, todo # <<>>, Done, NEW pid \in 0..next - 1,
           PagerBecomes(get_page(Pager, pid)),
           todo[1].s \in {"touch_last", "touch_row", "visit_page"},
           todo[1].s = "touch_last" => pid = next - 1,
           todo[1].s = "touch_row" => pid = index[todo[1].x].page,
           UNCHANGED <<count, walFile, walBuf, next, index, sec, open, mode>>
    PROVE  EngineInv'
<1> DEFINE q == get_page(Pager, pid)
<1>1. PagerOK(q, next) /\ Keeps(Pager, q, next) /\ pid \in DOMAIN q.cached
  BY StepFacts, GetPageFacts
<1>2. PagerBecomes(q)
  OBVIOUS
<1> HIDE DEF q
<1>3. PagerOK(Pager', next') /\ CountOK' /\ Entries' /\ Pager' = q
  BY <1>1, <1>2, PagerStep
<1>4. pid \in DOMAIN cached'
  BY <1>1, <1>2 DEF PagerBecomes
<1>5. next \in Nat
  BY StepFacts
<1>6. StepsOK(todo)' /\ AppendReady' /\ EraseReady' /\ FlushReady' /\ OpenReady'
  BY <1>4, <1>5, DoneReady DEF EraseNames
<1>7. Types'
  BY DEF EngineInv, Types
<1> QED BY <1>3, <1>6, <1>7 DEF EngineInv

LEMMA TouchLastKeeps == EngineInv /\ TouchLast => EngineInv'
<1> SUFFICES ASSUME EngineInv, TouchLast PROVE EngineInv'
  OBVIOUS
<1>1. todo # <<>> /\ todo[1].s = "touch_last" /\ next \in Nat
  BY StepFacts DEF TouchLast, IsNext
<1>2. CASE next > 0
  <2>1. next - 1 \in 0..next - 1 /\ PagerBecomes(get_page(Pager, next - 1))
    BY <1>1, <1>2 DEF TouchLast
  <2> QED BY <1>1, <2>1, FetchKeeps DEF TouchLast
<1>3. CASE ~(next > 0)
  <2>1. UNCHANGED <<disk, offs, lru, cached, count, walFile, walBuf, next, index, sec, open, mode>>
    BY <1>3 DEF TouchLast, pagerVars
  <2>2. Pager' = Pager
    BY <2>1 DEF Pager
  <2>3. Types' /\ PagerOK(Pager, next)' /\ CountOK' /\ Entries'
    BY <2>1, <2>2 DEF EngineInv, Types, CountOK, Entries
  <2>4. StepsOK(todo)' /\ AppendReady' /\ EraseReady' /\ FlushReady' /\ OpenReady'
    BY <1>1, <1>3, <2>1, DoneReady DEF TouchLast, EraseNames
  <2> QED BY <2>3, <2>4 DEF EngineInv
<1> QED BY <1>2, <1>3

LEMMA TouchRowKeeps == EngineInv /\ TouchRow => EngineInv'
<1> SUFFICES ASSUME EngineInv, TouchRow PROVE EngineInv'
  OBVIOUS
<1>1. /\ todo # <<>> /\ todo[1].s = "touch_row" /\ todo[1].x \in Ids /\ 1 \in 1..Len(todo)
      /\ Head(todo) = todo[1]
  BY StepFacts DEF TouchRow, IsNext, RowNames
<1>2. index[todo[1].x] # NoEntry
  BY <1>1 DEF EngineInv, EraseReady
<1>3. index[todo[1].x].page \in 0..next - 1
  BY <1>1, <1>2 DEF EngineInv, Entries
<1>4. PagerBecomes(get_page(Pager, index[todo[1].x].page)) /\ Done
      /\ UNCHANGED <<count, walFile, walBuf, next, index, sec, open, mode>>
  BY <1>1 DEF TouchRow
<1> QED BY <1>1, <1>3, <1>4, FetchKeeps

LEMMA VisitPageKeeps == EngineInv /\ VisitPage => EngineInv'
<1> SUFFICES ASSUME EngineInv, VisitPage PROVE EngineInv'
  OBVIOUS
<1>1. todo # <<>> /\ todo[1].s = "visit_page" /\ 1 \in 1..Len(todo) /\ Head(todo) = todo[1]
  BY StepFacts DEF VisitPage, IsNext
<1>2. todo[1].x \in 0..next - 1
  BY <1>1 DEF EngineInv, FlushReady
<1>3. PagerBecomes(get_page(Pager, todo[1].x)) /\ Done
      /\ UNCHANGED <<count, walFile, walBuf, next, index, sec, open, mode>>
  BY <1>1 DEF VisitPage
<1> QED BY <1>1, <1>2, <1>3, FetchKeeps

LEMMA ReadKeeps == ASSUME NEW pid \in Nat PROVE EngineInv /\ Read(pid) => EngineInv'
<1> SUFFICES ASSUME EngineInv, Read(pid) PROVE EngineInv'
  OBVIOUS
<1> DEFINE q == get_page(Pager, pid)
<1>1. pid \in 0..next - 1 /\ next \in Nat
  BY StepFacts DEF Read
<1>2. PagerOK(q, next) /\ Keeps(Pager, q, next)
  BY <1>1, StepFacts, GetPageFacts
<1>3. PagerBecomes(q) /\ todo = <<>> /\ open
      /\ UNCHANGED <<count, walFile, walBuf, next, index, sec, open, todo, call, mode>>
  BY DEF Read, Idle
<1> HIDE DEF q
<1>4. PagerOK(Pager', next') /\ CountOK' /\ Entries'
  BY <1>2, <1>3, PagerStep
<1>5. Types' /\ StepsOK(todo)'
  BY <1>3 DEF EngineInv, Types
<1>6. AppendReady' /\ EraseReady' /\ FlushReady' /\ OpenReady'
  BY <1>3 DEF AppendReady, EraseReady, FlushReady, OpenReady
<1> QED BY <1>4, <1>5, <1>6 DEF EngineInv

\* A step that touches neither the pages nor the primary index.
LEMMA QuietStep ==
    ASSUME EngineInv, todo # <<>>, Done,
           UNCHANGED <<disk, offs, lru, cached, next, index, open, mode>>,
           todo[1].s \in {"log_insert", "sync", "set_index", "write_header", "clear_wal"}
    PROVE  /\ StepsOK(todo)' /\ PagerOK(Pager, next)' /\ Entries'
           /\ AppendReady' /\ EraseReady' /\ FlushReady' /\ OpenReady'
<1>1. Pager' = Pager /\ next \in Nat
  BY StepFacts DEF Pager
<1>2. PagerOK(Pager, next)' /\ Entries'
  BY <1>1 DEF EngineInv, Entries
<1>3. \A x, v : LastRow(Pager, next, x, v) => LastRow(Pager', next', x, v)
  BY <1>1
<1>4. StepsOK(todo)' /\ AppendReady' /\ EraseReady' /\ FlushReady' /\ OpenReady'
  BY <1>1, <1>3, DoneReady DEF EraseNames
<1> QED BY <1>2, <1>4

\* A record goes to the buffer, and to the file when the buffer is full.
LEMMA WriteRecordFacts ==
    ASSUME EngineInv, NEW r \in LogRecord, write_record(r)
    PROVE  walFile' \in Seq(LogRecord) /\ walBuf' \in Seq(LogRecord)
<1>1. walFile \in Seq(LogRecord) /\ walBuf \in Seq(LogRecord)
  BY DEF EngineInv, Types
<1>2. walFile \o walBuf \in Seq(LogRecord) /\ <<r>> \in Seq(LogRecord) /\ Append(walBuf, r) \in Seq(LogRecord)
  BY <1>1
<1>3. CASE Len(walBuf) + 1 > WAL_BUFFER_SIZE
  BY <1>2, <1>3 DEF write_record
<1>4. CASE ~(Len(walBuf) + 1 > WAL_BUFFER_SIZE)
  BY <1>1, <1>2, <1>4 DEF write_record
<1> QED BY <1>3, <1>4

LEMMA LogInsertKeeps == EngineInv /\ LogInsert => EngineInv'
<1> SUFFICES ASSUME EngineInv, LogInsert PROVE EngineInv'
  OBVIOUS
<1>1. /\ todo # <<>> /\ todo[1].s = "log_insert" /\ Head(todo) = todo[1] /\ Done
      /\ todo[1].x \in Ids /\ todo[1].v \in Vals
      /\ UNCHANGED <<disk, offs, lru, cached, count, next, index, sec, open, mode>>
  BY StepFacts DEF LogInsert, IsNext, RowNames, ValueNames, pagerVars
<1>2. /\ StepsOK(todo)' /\ PagerOK(Pager, next)' /\ Entries'
      /\ AppendReady' /\ EraseReady' /\ FlushReady' /\ OpenReady'
  BY <1>1, QuietStep
<1> DEFINE r == [t |-> "INSERT", id |-> todo[1].x, val |-> todo[1].v]
<1>3. r \in LogRecord /\ write_record(r)
  BY <1>1 DEF LogInsert, LogRecord, Record
<1> HIDE DEF r
<1>4. walFile' \in Seq(LogRecord) /\ walBuf' \in Seq(LogRecord)
  BY <1>3, WriteRecordFacts
<1>5. Types' /\ CountOK'
  BY <1>1, <1>4 DEF EngineInv, Types, CountOK
<1> QED BY <1>2, <1>5 DEF EngineInv

LEMMA SyncKeeps == EngineInv /\ Sync => EngineInv'
<1> SUFFICES ASSUME EngineInv, Sync PROVE EngineInv'
  OBVIOUS
<1>1. /\ todo # <<>> /\ todo[1].s = "sync" /\ Done
      /\ UNCHANGED <<disk, offs, lru, cached, count, next, index, sec, open, mode>>
  BY StepFacts DEF Sync, IsNext, pagerVars
<1>2. /\ StepsOK(todo)' /\ PagerOK(Pager, next)' /\ Entries'
      /\ AppendReady' /\ EraseReady' /\ FlushReady' /\ OpenReady'
  BY <1>1, QuietStep
<1>3. Types' /\ CountOK'
  BY <1>1 DEF EngineInv, Types, CountOK, Sync, sync
<1> QED BY <1>2, <1>3 DEF EngineInv

LEMMA ClearWalKeeps == EngineInv /\ ClearWal => EngineInv'
<1> SUFFICES ASSUME EngineInv, ClearWal PROVE EngineInv'
  OBVIOUS
<1>1. /\ todo # <<>> /\ todo[1].s = "clear_wal" /\ Done
      /\ UNCHANGED <<disk, offs, lru, cached, count, next, index, sec, open, mode>>
  BY StepFacts DEF ClearWal, IsNext, pagerVars
<1>2. /\ StepsOK(todo)' /\ PagerOK(Pager, next)' /\ Entries'
      /\ AppendReady' /\ EraseReady' /\ FlushReady' /\ OpenReady'
  BY <1>1, QuietStep
<1>3. Types' /\ CountOK'
  BY <1>1 DEF EngineInv, Types, CountOK, ClearWal
<1> QED BY <1>2, <1>3 DEF EngineInv

\* The header counts pages that are all in the file: none is dirty any more.
LEMMA WriteHeaderKeeps == EngineInv /\ WriteHeader => EngineInv'
<1> SUFFICES ASSUME EngineInv, WriteHeader PROVE EngineInv'
  OBVIOUS
<1>1. /\ todo # <<>> /\ todo[1].s = "write_header" /\ Done /\ Len(todo) \in Nat \ {0}
      /\ count' = next
      /\ UNCHANGED <<disk, offs, lru, cached, walFile, walBuf, next, index, sec, open, mode>>
  BY StepFacts DEF WriteHeader, IsNext
<1>2. /\ StepsOK(todo)' /\ PagerOK(Pager, next)' /\ Entries'
      /\ AppendReady' /\ EraseReady' /\ FlushReady' /\ OpenReady'
  BY <1>1, QuietStep
<1>3. \A pid \in Dirty : FALSE
  <2>1. 1 \in 1..Len(todo)
    BY <1>1
  <2>2. \A pid \in Dirty : \E j \in 1..Len(todo) : j < 1 /\ todo[j].x = pid
    BY <1>1, <2>1 DEF EngineInv, FlushReady
  <2> QED BY <2>2
<1>4. \A pid \in 0..next - 1 : pid \in DOMAIN disk
  <2>1. \A pid \in DOMAIN cached : pid \in offs
    BY <1>3, StepFacts DEF Dirty, PagerOK
  <2>2. \A pid \in 0..next - 1 : pid \in DOMAIN cached \/ pid \in offs
    BY StepFacts DEF PagerOK
  <2>3. offs \subseteq DOMAIN disk
    BY StepFacts DEF PagerOK, PagerShape
  <2> QED BY <2>1, <2>2, <2>3
<1>5. Types' /\ CountOK'
  BY <1>1, <1>4 DEF EngineInv, Types, CountOK
<1> QED BY <1>2, <1>5 DEF EngineInv

LEMMA SetIndexKeeps == EngineInv /\ SetIndex => EngineInv'
<1> SUFFICES ASSUME EngineInv, SetIndex PROVE EngineInv'
  OBVIOUS
<1>1. /\ todo # <<>> /\ todo[1].s = "set_index" /\ Done
      /\ UNCHANGED <<disk, offs, lru, cached, count, walFile, walBuf, next, index, open, mode>>
  BY StepFacts DEF SetIndex, IsNext, files
<1>2. /\ StepsOK(todo)' /\ PagerOK(Pager, next)' /\ Entries'
      /\ AppendReady' /\ EraseReady' /\ FlushReady' /\ OpenReady'
  BY <1>1, QuietStep
<1>3. sec' \in SUBSET (Vals \X Ids)
  <2>1. \A pid \in 0..next - 1 : RowsOf(Pager, pid) \in Seq(Row)
    BY StepFacts, RowsFacts
  <2>2. \A pid \in 0..next - 1 : ToSet(RowsOf(Pager, pid)) \in SUBSET Row
    BY <2>1, ToSetFacts
  <2>3. \A r \in UNION {ToSet(RowsOf(Pager, pid)) : pid \in 0..next - 1} : r \in Row
    BY <2>2
  <2> QED BY <2>3 DEF SetIndex, Row
<1>4. Types' /\ CountOK'
  BY <1>1, <1>3 DEF EngineInv, Types, CountOK
<1> QED BY <1>2, <1>4 DEF EngineInv

LEMMA DropIndexKeeps == EngineInv /\ DropIndex => EngineInv'
<1> SUFFICES ASSUME EngineInv, DropIndex PROVE EngineInv'
  OBVIOUS
<1>1. /\ UNCHANGED <<disk, offs, lru, cached, count, walFile, walBuf, next, index, open, todo, call, mode>>
      /\ sec' = NoIndex
  BY DEF DropIndex, files
<1>2. Pager' = Pager
  BY <1>1 DEF Pager
<1>3. Types' /\ StepsOK(todo)' /\ PagerOK(Pager, next)' /\ CountOK' /\ Entries'
  BY <1>1, <1>2 DEF EngineInv, Types, CountOK, Entries
<1>4. AppendReady' /\ EraseReady' /\ FlushReady' /\ OpenReady'
  BY <1>1, <1>2 DEF EngineInv, AppendReady, EraseReady, FlushReady, OpenReady, Dirty
<1> QED BY <1>3, <1>4 DEF EngineInv

\* The entry of the row that was appended last.
LEMMA IndexRowKeeps == EngineInv /\ IndexRow => EngineInv'
<1> SUFFICES ASSUME EngineInv, IndexRow PROVE EngineInv'
  OBVIOUS
<1> DEFINE id == todo[1].x
           rows == RowsOf(Pager, next - 1)
           e == [page |-> next - 1, slot |-> Len(rows), off |-> (next - 1) \in offs]
<1>1. /\ todo # <<>> /\ todo[1].s = "index_row" /\ Done /\ id \in Ids /\ todo[1].v \in Vals
      /\ UNCHANGED <<disk, offs, lru, cached, count, walFile, walBuf, next, open, mode>>
      /\ index' = [index EXCEPT ![id] = e]
      /\ sec' = IF sec = NoIndex THEN sec ELSE sec \cup {<<todo[1].v, id>>}
  BY StepFacts DEF IndexRow, IsNext, files, RowNames, ValueNames
<1>2. LastRow(Pager, next, id, todo[1].v)
  BY <1>1 DEF EngineInv, AppendReady
<1>3. next \in Nat /\ next > 0 /\ next - 1 \in 0..next - 1
  BY <1>2, StepFacts DEF LastRow
<1>4. rows \in Seq(Row) /\ Len(rows) \in 1..Len(rows) /\ Len(rows) \in Nat \ {0}
  <2>1. rows \in Seq(Row)
    BY <1>3, StepFacts, RowsFacts
  <2>2. Len(rows) > 0
    BY <1>2 DEF LastRow
  <2> HIDE DEF rows
  <2> QED BY <2>1, <2>2
<1>5. rows[Len(rows)].id = id
  BY <1>2 DEF LastRow, Last
<1>6. Pager' = Pager
  BY <1>1 DEF Pager
<1> HIDE DEF rows
<1>7. e \in Entry /\ e.page = next - 1
  BY <1>3, <1>4 DEF Entry
<1> HIDE DEF e
<1>8. index \in [Ids -> Entry \cup {NoEntry}]
  BY DEF EngineInv, Types
<1>9. /\ index' \in [Ids -> Entry \cup {NoEntry}] /\ index'[id] = e /\ e # NoEntry
      /\ \A i \in Ids : i # id => index'[i] = index[i]
  BY <1>1, <1>7, <1>8, NoEntryAssumption
<1> HIDE DEF id
<1>10. Entries'
  <2> SUFFICES ASSUME NEW i \in Ids, index'[i] # NoEntry
               PROVE  index'[i].page \in 0..next - 1 /\ Holds(Pager, index'[i].page, i)
    BY <1>1, <1>6 DEF Entries
  <2>1. CASE i = id
    <3>1. index'[i].page = next - 1
      BY <2>1, <1>7, <1>9
    <3>2. Holds(Pager, next - 1, i)
      BY <2>1, <1>4, <1>5 DEF Holds, rows
    <3> QED BY <3>1, <3>2, <1>3
  <2>2. CASE i # id
    BY <2>2, <1>9 DEF EngineInv, Entries
  <2> QED BY <2>1, <2>2
<1>11. PagerOK(Pager, next)' /\ CountOK'
  BY <1>1, <1>6 DEF EngineInv, CountOK
<1>12. Types'
  <2>1. sec' = NoIndex \/ sec' \in SUBSET (Vals \X Ids)
    BY <1>1 DEF EngineInv, Types, id
  <2> QED BY <1>1, <1>9, <2>1 DEF EngineInv, Types
<1>13. StepsOK(todo)' /\ AppendReady' /\ EraseReady' /\ FlushReady' /\ OpenReady'
  <2>1. \A i \in Ids : index[i] # NoEntry => index'[i] # NoEntry
    BY <1>9
  <2> QED BY <1>1, <1>3, <2>1, DoneReady
<1> QED BY <1>10, <1>11, <1>12, <1>13 DEF EngineInv
----------------------------------------------------------------------------
(* Steps that change rows *)

\* append_row: one more row behind those of the last page, or on a new one.
LEMMA AppendRowFacts ==
    ASSUME EngineInv, AppendRow
    PROVE  LET old == IF next' = next THEN RowsOf(Pager, next - 1) ELSE <<>>
               rows == RowsOf(Pager', next' - 1)
           IN  /\ todo # <<>> /\ todo[1].s = "append_row" /\ Done
               /\ todo[1].x \in Ids /\ todo[1].v \in Vals
               /\ UNCHANGED <<count, walFile, walBuf, index, sec, open, mode>>
               /\ PagerOK(Pager', next') /\ next' \in Nat \ {0}
               /\ next' = next \/ next' = next + 1
               /\ \A x \in 0..next' - 2 : RowsOf(Pager', x) = RowsOf(Pager, x)
               /\ DOMAIN disk \subseteq DOMAIN disk'
               /\ old \in Seq(Row) /\ rows \in Seq(Row) /\ Len(rows) = Len(old) + 1
               /\ rows[Len(rows)] = [id |-> todo[1].x, val |-> todo[1].v]
               /\ \A k \in 1..Len(old) : rows[k] = old[k]
<1> DEFINE row == [id |-> todo[1].x, val |-> todo[1].v]
           fits == next > 0 /\ HasRoom(RowsOf(Pager, next - 1), row.val)
           pid == IF fits THEN next - 1 ELSE next
           m == IF fits THEN next ELSE next + 1
           p == IF fits THEN Pager ELSE new_page(Pager, next)
           rows == append_row(RowsOf(p, pid), row)
           q == SetRows(p, pid, rows)
<1>1. /\ todo # <<>> /\ todo[1].s = "append_row" /\ Done
      /\ todo[1].x \in Ids /\ todo[1].v \in Vals
      /\ PagerBecomes(q) /\ next' = m
      /\ UNCHANGED <<count, walFile, walBuf, index, sec, open, mode>>
  BY StepFacts DEF AppendRow, IsNext, RowNames, ValueNames
<1>2. /\ next \in Nat /\ PagerOK(Pager, next) /\ Pager.cap = mode.cap /\ Pager.disk = disk
      /\ Pager.cached = cached
  BY StepFacts
<1>3. next > 0 => next - 1 \in DOMAIN cached
  BY <1>1 DEF EngineInv, AppendReady
<1>4. row \in Row
  BY <1>1 DEF Row
<1>5. /\ PagerOK(p, m) /\ pid \in DOMAIN p.cached /\ RowsOf(p, pid) \in Seq(Row)
      /\ m \in Nat /\ next <= m /\ pid = m - 1 /\ pid \in 0..m - 1
      /\ \A x \in 0..next - 1 : RowsOf(p, x) = RowsOf(Pager, x)
      /\ DOMAIN disk \subseteq DOMAIN p.disk /\ p.cap = mode.cap
      /\ m = next \/ m = next + 1
      /\ RowsOf(p, pid) = IF m = next THEN RowsOf(Pager, next - 1) ELSE <<>>
  <2>1. CASE fits
    <3>1. p = Pager /\ m = next /\ pid = next - 1 /\ next > 0
      BY <2>1
    <3>2. pid \in DOMAIN p.cached /\ pid \in 0..m - 1
      BY <1>2, <1>3, <3>1
    <3>3. RowsOf(p, pid) \in Seq(Row)
      BY <1>2, <3>1, <3>2, RowsFacts
    <3> HIDE DEF p, pid, m
    <3> QED BY <1>2, <3>1, <3>2, <3>3
  <2>2. CASE ~fits
    <3>1. p = new_page(Pager, next) /\ m = next + 1 /\ pid = next
      BY <2>2
    <3>2. /\ PagerOK(p, m) /\ Keeps(Pager, p, next) /\ pid \in DOMAIN p.cached
          /\ RowsOf(p, pid) = <<>>
      BY <1>2, <3>1, NewPageFacts
    <3> HIDE DEF p, pid, m
    <3> QED BY <1>2, <3>1, <3>2 DEF Keeps
  <2> QED BY <2>1, <2>2
<1> HIDE DEF m, pid, p, row
<1>6. /\ rows \in Seq(Row) /\ Len(rows) = Len(RowsOf(p, pid)) + 1 /\ Last(rows) = row
      /\ \A k \in 1..Len(RowsOf(p, pid)) : rows[k] = RowsOf(p, pid)[k]
  BY <1>4, <1>5, AppendFacts
<1>7. Len(RowsOf(p, pid)) \in Nat
  BY <1>5
<1> HIDE DEF rows
<1>8. /\ PagerOK(q, m) /\ RowsOf(q, pid) = rows
      /\ \A x \in 0..m - 1 : x # pid => RowsOf(q, x) = RowsOf(p, x)
      /\ q.disk = p.disk /\ q.cap = p.cap
  BY <1>5, <1>6, SetRowsFacts
<1> HIDE DEF q
<1>9. Pager' = q
  <2>1. q = [disk |-> q.disk, offs |-> q.offs, lru |-> q.lru, cached |-> q.cached, cap |-> q.cap]
    BY <1>8 DEF PagerOK, PagerShape
  <2> QED BY <1>1, <1>5, <1>8, <2>1 DEF Pager, PagerBecomes
<1> DEFINE old == IF next' = next THEN RowsOf(Pager, next - 1) ELSE <<>>
<1>10. RowsOf(p, pid) = old /\ next' = m
  BY <1>1, <1>5
<1>11. RowsOf(Pager', next' - 1) = rows /\ next' > 0
  BY <1>5, <1>8, <1>9, <1>10
<1>12. rows[Len(rows)] = [id |-> todo[1].x, val |-> todo[1].v]
  BY <1>6 DEF Last, row
<1>13. \A x \in 0..next' - 2 : RowsOf(Pager', x) = RowsOf(Pager, x)
  <2> SUFFICES ASSUME NEW x \in 0..m - 2 PROVE RowsOf(q, x) = RowsOf(Pager, x)
    BY <1>9, <1>10
  <2>1. x \in 0..m - 1 /\ x # pid /\ x \in 0..next - 1
    BY <1>2, <1>5
  <2> QED BY <1>5, <1>8, <2>1
<1>14. DOMAIN disk \subseteq DOMAIN disk'
  BY <1>1, <1>5, <1>8 DEF PagerBecomes
<1> HIDE DEF old
<1> QED BY <1>1, <1>5, <1>6, <1>8, <1>9, <1>10, <1>11, <1>12, <1>13, <1>14 DEF old

LEMMA AppendRowKeeps == EngineInv /\ AppendRow => EngineInv'
<1> SUFFICES ASSUME EngineInv, AppendRow PROVE EngineInv'
  OBVIOUS
<1> DEFINE m == next'
           old == IF m = next THEN RowsOf(Pager, next - 1) ELSE <<>>
           rows == RowsOf(Pager', m - 1)
<1>1. /\ todo # <<>> /\ todo[1].s = "append_row" /\ Done
      /\ todo[1].x \in Ids /\ todo[1].v \in Vals
      /\ UNCHANGED <<count, walFile, walBuf, index, sec, open, mode>>
      /\ PagerOK(Pager', m) /\ m \in Nat \ {0} /\ (m = next \/ m = next + 1)
      /\ \A x \in 0..m - 2 : RowsOf(Pager', x) = RowsOf(Pager, x)
      /\ DOMAIN disk \subseteq DOMAIN disk'
  BY AppendRowFacts
<1>2. /\ old \in Seq(Row) /\ rows \in Seq(Row) /\ Len(rows) = Len(old) + 1
      /\ rows[Len(rows)] = [id |-> todo[1].x, val |-> todo[1].v]
      /\ \A k \in 1..Len(old) : rows[k] = old[k]
  BY AppendRowFacts
<1>3. next \in Nat
  BY StepFacts
<1>4. m = next => old = RowsOf(Pager, next - 1)
  OBVIOUS
<1>a. m \in Nat \ {0} /\ (m = next \/ m = next + 1)
  BY <1>1
<1> HIDE DEF old
<1>5. CountOK'
  BY <1>1 DEF EngineInv, CountOK
<1>6. Entries'
  <2> SUFFICES ASSUME NEW id \in Ids, index[id] # NoEntry
               PROVE  index[id].page \in 0..m - 1 /\ Holds(Pager', index[id].page, id)
    BY <1>1 DEF Entries
  <2> DEFINE g == index[id].page
  <2>1. g \in 0..next - 1 /\ Holds(Pager, g, id)
    BY DEF EngineInv, Entries
  <2> HIDE DEF g, m
  <2>2. g \in 0..m - 1
    BY <1>3, <1>a, <2>1
  <2>3. PICK k \in 1..Len(RowsOf(Pager, g)) : RowsOf(Pager, g)[k].id = id
    BY <2>1 DEF Holds
  <2>4. CASE g = m - 1
    <3>1. m = next
      BY <1>3, <1>a, <2>1, <2>4
    <3>2. k \in 1..Len(old) /\ old[k].id = id
      BY <1>4, <2>3, <2>4, <3>1
    <3>3. k \in 1..Len(rows) /\ rows[k].id = id
      BY <1>2, <3>2
    <3> QED BY <2>2, <2>4, <3>3 DEF Holds, g, m
  <2>5. CASE g # m - 1
    <3>1. g \in 0..m - 2
      BY <1>1, <2>2, <2>5
    <3> QED BY <1>1, <2>1, <2>2, <3>1 DEF Holds, g, m
  <2> QED BY <2>4, <2>5
<1>7. LastRow(Pager', next', todo[1].x, todo[1].v)
  <2>1. Len(rows) > 0
    BY <1>2
  <2> QED BY <1>1, <1>2, <2>1 DEF LastRow, Last
<1>8. StepsOK(todo)' /\ AppendReady' /\ EraseReady' /\ FlushReady' /\ OpenReady'
  BY <1>1, <1>3, <1>7, DoneReady DEF EraseNames
<1>9. Types'
  BY <1>1 DEF EngineInv, Types
<1> QED BY <1>1, <1>5, <1>6, <1>8, <1>9 DEF EngineInv

\* The slot that erase_unlocked uses is one that has the row.
LEMMA SlotFacts ==
    ASSUME EngineInv, NEW id \in Ids, index[id] # NoEntry
    PROVE  /\ index[id].page \in 0..next - 1
           /\ RowsOf(Pager, index[id].page) \in Seq(Row)
           /\ SlotOf(id) \in 1..Len(RowsOf(Pager, index[id].page))
           /\ RowsOf(Pager, index[id].page)[SlotOf(id)].id = id
<1> DEFINE rows == RowsOf(Pager, index[id].page)
           e == index[id]
<1>1. e.page \in 0..next - 1 /\ Holds(Pager, e.page, id)
  BY DEF EngineInv, Entries
<1>2. rows \in Seq(Row)
  BY <1>1, StepFacts, RowsFacts
<1>3. /\ find_row(rows, id) \in 0..Len(rows)
      /\ find_row(rows, id) # 0 => rows[find_row(rows, id)].id = id
      /\ \A k \in 1..Len(rows) : rows[k].id = id => find_row(rows, id) # 0
  BY <1>2, FindFacts
<1>4. find_row(rows, id) # 0
  BY <1>1, <1>3 DEF Holds
<1>5. SlotOf(id) = IF e.slot \in DOMAIN rows /\ rows[e.slot].id = id THEN e.slot ELSE find_row(rows, id)
  BY DEF SlotOf
<1> HIDE DEF rows, e
<1>6. SlotOf(id) \in 1..Len(rows) /\ rows[SlotOf(id)].id = id
  <2>1. DOMAIN rows = 1..Len(rows) /\ Len(rows) \in Nat
    BY <1>2
  <2> QED BY <2>1, <1>3, <1>4, <1>5
<1> QED BY <1>1, <1>2, <1>6 DEF rows, e

\* The row leaves its page, and the others stay.
LEMMA UnindexPages ==
    ASSUME EngineInv, NEW id \in Ids, index[id] # NoEntry, index[id].page \in DOMAIN cached,
           Unindex(id), UNCHANGED <<count, next, mode>>
    PROVE  LET pid == index[id].page
               rest == erase_row(RowsOf(Pager, pid), SlotOf(id))
           IN  /\ PagerOK(Pager', next) /\ RowsOf(Pager', pid) = rest /\ rest \in Seq(Row)
               /\ \A x \in 0..next - 1 : x # pid => RowsOf(Pager', x) = RowsOf(Pager, x)
               /\ disk' = disk /\ index' = RepairedIndex(id, rest)
<1> DEFINE pid == index[id].page
           rows == RowsOf(Pager, pid)
           slot == SlotOf(id)
           rest == erase_row(rows, slot)
           q == SetRows(Pager, pid, rest)
<1>1. /\ pid \in 0..next - 1 /\ rows \in Seq(Row) /\ slot \in 1..Len(rows)
      /\ rows[slot].id = id
  BY SlotFacts
<1>2. PagerBecomes(q) /\ index' = RepairedIndex(id, rest)
  BY DEF Unindex
<1>3. pid \in DOMAIN Pager.cached /\ PagerOK(Pager, next) /\ next \in Nat /\ Pager.cap = mode.cap
      /\ Pager.disk = disk
  BY StepFacts
<1>4. /\ rest \in Seq(Row)
      /\ \A k \in 1..Len(rows) : k # slot => \E n \in 1..Len(rest) : rest[n] = rows[k]
  <2> HIDE DEF slot, rows
  <2> QED BY <1>1, EraseFacts
<1>5. /\ PagerOK(q, next) /\ RowsOf(q, pid) = rest
      /\ \A x \in 0..next - 1 : x # pid => RowsOf(q, x) = RowsOf(Pager, x)
      /\ q.disk = Pager.disk /\ q.cap = Pager.cap
  <2> HIDE DEF rest, pid
  <2> QED BY <1>3, <1>4, SetRowsFacts
<1> HIDE DEF q
<1>6. Pager' = q
  <2>1. q = [disk |-> q.disk, offs |-> q.offs, lru |-> q.lru, cached |-> q.cached, cap |-> q.cap]
    BY <1>5 DEF PagerOK, PagerShape
  <2> QED BY <1>2, <1>3, <1>5, <2>1 DEF Pager, PagerBecomes
<1>7. disk' = disk
  BY <1>2, <1>3, <1>5 DEF PagerBecomes
<1> HIDE DEF rest
<1> QED BY <1>2, <1>4, <1>5, <1>6, <1>7 DEF rest

\* The row leaves its page; every other entry still leads to its row.
LEMMA UnindexFacts ==
    ASSUME EngineInv, NEW id \in Ids, index[id] # NoEntry, index[id].page \in DOMAIN cached,
           Unindex(id), UNCHANGED <<count, next, mode>>
    PROVE  /\ PagerOK(Pager, next)' /\ CountOK' /\ Entries'
           /\ index' \in [Ids -> Entry \cup {NoEntry}]
           /\ \A i \in Ids : i # id /\ index[i] # NoEntry => index'[i] # NoEntry
           /\ sec' = NoIndex \/ sec' \in SUBSET (Vals \X Ids)
<1> DEFINE pid == index[id].page
           rows == RowsOf(Pager, pid)
           slot == SlotOf(id)
           rest == erase_row(rows, slot)
           q == SetRows(Pager, pid, rest)
<1>1. /\ pid \in 0..next - 1 /\ rows \in Seq(Row) /\ slot \in 1..Len(rows)
      /\ rows[slot].id = id
  BY SlotFacts
<1>2. PagerBecomes(q) /\ index' = RepairedIndex(id, rest)
  BY DEF Unindex
<1>3. pid \in DOMAIN Pager.cached /\ PagerOK(Pager, next) /\ next \in Nat /\ Pager.cap = mode.cap
      /\ Pager.disk = disk
  BY StepFacts
<1>4. /\ rest \in Seq(Row)
      /\ \A k \in 1..Len(rows) : k # slot => \E n \in 1..Len(rest) : rest[n] = rows[k]
  <2> HIDE DEF slot, rows
  <2> QED BY <1>1, EraseFacts
<1>5. /\ PagerOK(q, next) /\ RowsOf(q, pid) = rest
      /\ \A x \in 0..next - 1 : x # pid => RowsOf(q, x) = RowsOf(Pager, x)
      /\ q.disk = Pager.disk /\ q.cap = Pager.cap
  <2> HIDE DEF rest, pid
  <2> QED BY <1>3, <1>4, SetRowsFacts
<1> HIDE DEF q
<1>6. Pager' = q
  <2>1. q = [disk |-> q.disk, offs |-> q.offs, lru |-> q.lru, cached |-> q.cached, cap |-> q.cap]
    BY <1>5 DEF PagerOK, PagerShape
  <2> QED BY <1>2, <1>3, <1>5, <2>1 DEF Pager, PagerBecomes
<1>7. CountOK'
  BY <1>2, <1>3, <1>5 DEF EngineInv, CountOK, PagerBecomes
<1>8. index \in [Ids -> Entry \cup {NoEntry}]
  BY DEF EngineInv, Types
<1> HIDE DEF rest, slot
<1>9. ASSUME NEW i \in Ids
      PROVE  /\ index'[i] \in Entry \cup {NoEntry}
             /\ i = id => index'[i] = NoEntry
             /\ i # id /\ index[i] = NoEntry => index'[i] = NoEntry
             /\ i # id /\ index[i] # NoEntry => index'[i] # NoEntry /\ index'[i].page = index[i].page
  <2>1. index'[i] = IF i = id THEN NoEntry
                    ELSE IF index[i] # NoEntry /\ index[i].page = index[id].page /\ find_row(rest, i) # 0
                         THEN [index[i] EXCEPT !.slot = find_row(rest, i)]
                         ELSE index[i]
    BY <1>2 DEF RepairedIndex
  <2>2. find_row(rest, i) \in 0..Len(rest)
    BY <1>4, FindFacts
  <2>3. find_row(rest, i) # 0 => find_row(rest, i) \in Nat \ {0}
    BY <1>4, <2>2
  <2> DEFINE e == [index[i] EXCEPT !.slot = find_row(rest, i)]
  <2>4. ASSUME index[i] # NoEntry, find_row(rest, i) # 0
        PROVE  e \in Entry /\ e.page = index[i].page
    BY <1>8, <2>3, <2>4 DEF Entry
  <2>5. CASE i # id /\ index[i] # NoEntry /\ index[i].page = index[id].page /\ find_row(rest, i) # 0
    <3>1. index'[i] = e /\ e \in Entry /\ e.page = index[i].page
      BY <2>1, <2>4, <2>5
    <3> HIDE DEF e
    <3> QED BY <2>5, <3>1, NoEntryAssumption
  <2>6. CASE ~(i # id /\ index[i] # NoEntry /\ index[i].page = index[id].page /\ find_row(rest, i) # 0)
    <3>1. index'[i] = IF i = id THEN NoEntry ELSE index[i]
      BY <2>1, <2>6
    <3> QED BY <1>8, <3>1
  <2> QED BY <2>5, <2>6
<1>10. index' \in [Ids -> Entry \cup {NoEntry}]
  <2>1. index' = [i \in Ids |-> index'[i]]
    BY <1>2 DEF RepairedIndex
  <2> QED BY <1>9, <2>1
<1>11. Entries'
  <2> SUFFICES ASSUME NEW i \in Ids, index'[i] # NoEntry
               PROVE  index'[i].page \in 0..next - 1 /\ Holds(q, index'[i].page, i)
    BY <1>6 DEF Entries
  <2>1. i # id /\ index[i] # NoEntry /\ index'[i].page = index[i].page
    BY <1>9
  <2>2. index[i].page \in 0..next - 1 /\ Holds(Pager, index[i].page, i)
    BY <2>1 DEF EngineInv, Entries
  <2>3. PICK k \in 1..Len(RowsOf(Pager, index[i].page)) : RowsOf(Pager, index[i].page)[k].id = i
    BY <2>2 DEF Holds
  <2>4. CASE index[i].page = pid
    <3>1. k \in 1..Len(rows) /\ rows[k].id = i /\ k # slot
      BY <1>1, <2>1, <2>3, <2>4 DEF slot
    <3>2. PICK n \in 1..Len(rest) : rest[n] = rows[k]
      BY <1>4, <3>1
    <3>3. Holds(q, pid, i)
      BY <1>5, <3>1, <3>2 DEF Holds
    <3> QED BY <2>1, <2>2, <2>4, <3>3
  <2>5. CASE index[i].page # pid
    BY <1>5, <2>1, <2>2, <2>5 DEF Holds
  <2> QED BY <2>4, <2>5
<1>12. sec' = NoIndex \/ sec' \in SUBSET (Vals \X Ids)
  <2>1. \E r : sec' = IF sec = NoIndex THEN sec ELSE sec \ {r}
    BY DEF Unindex
  <2> QED BY <2>1 DEF EngineInv, Types
<1>13. PagerOK(Pager, next)'
  BY <1>5, <1>6
<1> QED BY <1>7, <1>9, <1>10, <1>11, <1>12, <1>13

LEMMA EraseRowKeeps == EngineInv /\ EraseRow => EngineInv'
<1> SUFFICES ASSUME EngineInv, EraseRow PROVE EngineInv'
  OBVIOUS
<1> DEFINE id == todo[1].x
           r == [t |-> "DELETE", id |-> id, val |-> NoVal]
<1>1. /\ todo # <<>> /\ todo[1].s = "erase_row" /\ Done /\ id \in Ids
      /\ write_record(r) /\ Unindex(id)
      /\ UNCHANGED <<count, next, open, mode>>
  BY StepFacts DEF EraseRow, IsNext, RowNames
<1>2. index[id] # NoEntry /\ index[id].page \in DOMAIN cached
  BY <1>1 DEF EngineInv, EraseReady, EraseNames
<1>3. r \in LogRecord
  BY <1>1 DEF LogRecord, Record
<1> HIDE DEF r
<1>4. walFile' \in Seq(LogRecord) /\ walBuf' \in Seq(LogRecord)
  BY <1>1, <1>3, WriteRecordFacts
<1>5. /\ PagerOK(Pager, next)' /\ CountOK' /\ Entries'
      /\ index' \in [Ids -> Entry \cup {NoEntry}]
      /\ \A i \in Ids : i # id /\ index[i] # NoEntry => index'[i] # NoEntry
      /\ sec' = NoIndex \/ sec' \in SUBSET (Vals \X Ids)
  BY <1>1, <1>2, UnindexFacts
<1>6. next \in Nat
  BY StepFacts
<1>7. \A i \in Ids : index[i] # NoEntry /\ ~(todo[1].s \in EraseNames /\ todo[1].x = i) => index'[i] # NoEntry
  BY <1>1, <1>5 DEF EraseNames
<1>8. StepsOK(todo)' /\ AppendReady' /\ EraseReady' /\ FlushReady' /\ OpenReady'
  BY <1>1, <1>6, <1>7, DoneReady
<1>9. Types'
  BY <1>1, <1>4, <1>5 DEF EngineInv, Types
<1> QED BY <1>5, <1>8, <1>9 DEF EngineInv

LEMMA ReplayEraseKeeps == EngineInv /\ ReplayErase => EngineInv'
<1> SUFFICES ASSUME EngineInv, ReplayErase PROVE EngineInv'
  OBVIOUS
<1> DEFINE id == todo[1].x
<1>1. /\ todo # <<>> /\ todo[1].s = "unindex" /\ Done /\ id \in Ids /\ Unindex(id)
      /\ UNCHANGED <<count, walFile, walBuf, next, open, mode>>
  BY StepFacts DEF ReplayErase, IsNext, RowNames
<1>2. index[id] # NoEntry /\ index[id].page \in DOMAIN cached
  BY <1>1 DEF EngineInv, EraseReady, EraseNames
<1>3. /\ PagerOK(Pager, next)' /\ CountOK' /\ Entries'
      /\ index' \in [Ids -> Entry \cup {NoEntry}]
      /\ \A i \in Ids : i # id /\ index[i] # NoEntry => index'[i] # NoEntry
      /\ sec' = NoIndex \/ sec' \in SUBSET (Vals \X Ids)
  BY <1>1, <1>2, UnindexFacts
<1>4. next \in Nat
  BY StepFacts
<1>5. \A i \in Ids : index[i] # NoEntry /\ ~(todo[1].s \in EraseNames /\ todo[1].x = i) => index'[i] # NoEntry
  BY <1>1, <1>3 DEF EraseNames
<1>6. StepsOK(todo)' /\ AppendReady' /\ EraseReady' /\ FlushReady' /\ OpenReady'
  BY <1>1, <1>4, <1>5, DoneReady
<1>7. Types'
  BY <1>1, <1>3 DEF EngineInv, Types
<1> QED BY <1>3, <1>6, <1>7 DEF EngineInv

\* One page of flush_all is written: it is clean, and no row moves.
LEMMA FlushPageFacts ==
    ASSUME EngineInv, FlushPage
    PROVE  /\ todo # <<>> /\ todo[1].s = "flush_page" /\ Done /\ todo[1].x \in DOMAIN cached
           /\ UNCHANGED <<count, walFile, walBuf, next, sec, open, mode>>
           /\ PagerOK(Pager', next) /\ Keeps(Pager, Pager', next)
           /\ cached' = Put(cached, todo[1].x, Clean(cached[todo[1].x]))
           /\ index' \in [Ids -> Entry \cup {NoEntry}]
           /\ \A i \in Ids :
                /\ index[i] = NoEntry <=> index'[i] = NoEntry
                /\ index[i] # NoEntry => index'[i].page = index[i].page /\ index'[i].slot = index[i].slot
<1> DEFINE pid == todo[1].x
           p == [Pager EXCEPT !.lru = ToFront(@, pid)]
           q == write_page_to_disk(p, pid)
<1>1. /\ todo # <<>> /\ todo[1].s = "flush_page" /\ Done /\ 1 \in 1..Len(todo)
      /\ PagerBecomes(q)
      /\ index' = IF pid \in offs THEN index
                  ELSE [id \in Ids |->
                          IF index[id] # NoEntry /\ index[id].page = pid
                          THEN [index[id] EXCEPT !.off = TRUE] ELSE index[id]]
      /\ UNCHANGED <<count, walFile, walBuf, next, sec, open, mode>>
  <2>1. todo # <<>> /\ Head(todo) = todo[1] /\ todo[1].s = "flush_page" /\ 1 \in 1..Len(todo)
    BY StepFacts DEF FlushPage, IsNext
  <2>2. Head(todo).x = pid
    BY <2>1
  <2> HIDE DEF pid
  <2>3. PagerBecomes(q)
    BY <2>2 DEF FlushPage
  <2>4. index' = IF pid \in offs THEN index
                 ELSE [id \in Ids |->
                         IF index[id] # NoEntry /\ index[id].page = pid
                         THEN [index[id] EXCEPT !.off = TRUE] ELSE index[id]]
    BY <2>2, Zenon DEF FlushPage
  <2> QED BY <2>1, <2>3, <2>4 DEF FlushPage
<1>2. pid \in DOMAIN cached
  BY <1>1 DEF EngineInv, FlushReady
<1>3. next \in Nat /\ PagerOK(Pager, next) /\ Pager.cached = cached /\ Pager.disk = disk
      /\ Pager.cap = mode.cap
  BY StepFacts
<1> HIDE DEF pid
<1>4. /\ PagerOK(p, next) /\ Keeps(Pager, p, next) /\ p.cached = cached /\ p.disk = disk
  BY <1>2, <1>3, MoveFacts
<1> HIDE DEF p
<1>5. /\ PagerOK(q, next) /\ Keeps(p, q, next)
      /\ q.cached = Put(cached, pid, Clean(cached[pid]))
      /\ DOMAIN q.disk = DOMAIN disk \cup {pid}
  BY <1>2, <1>3, <1>4, WriteFacts
<1> HIDE DEF q
<1>6. Pager' = q
  <2>1. q = [disk |-> q.disk, offs |-> q.offs, lru |-> q.lru, cached |-> q.cached, cap |-> q.cap]
    BY <1>5 DEF PagerOK, PagerShape
  <2>2. q.cap = mode.cap
    BY <1>3, <1>4, <1>5 DEF Keeps
  <2> QED BY <1>1, <2>1, <2>2 DEF Pager, PagerBecomes
<1>7. CountOK'
  BY <1>1, <1>5 DEF EngineInv, CountOK, PagerBecomes
<1>8. \A x \in 0..next - 1 : RowsOf(q, x) = RowsOf(Pager, x)
  BY <1>4, <1>5 DEF Keeps
<1>9. index \in [Ids -> Entry \cup {NoEntry}]
  BY DEF EngineInv, Types
<1>10. ASSUME NEW i \in Ids
       PROVE  /\ index'[i] \in Entry \cup {NoEntry}
              /\ index[i] = NoEntry <=> index'[i] = NoEntry
              /\ index[i] # NoEntry => index'[i].page = index[i].page /\ index'[i].slot = index[i].slot
  <2>1. CASE pid \notin offs /\ index[i] # NoEntry /\ index[i].page = pid
    <3> DEFINE e == [index[i] EXCEPT !.off = TRUE]
    <3>1. index'[i] = e
      BY <1>1, <2>1
    <3>2. e \in Entry /\ e.page = index[i].page /\ e.slot = index[i].slot
      BY <1>9, <2>1 DEF Entry
    <3> HIDE DEF e
    <3> QED BY <2>1, <3>1, <3>2, NoEntryAssumption
  <2>2. CASE ~(pid \notin offs /\ index[i] # NoEntry /\ index[i].page = pid)
    <3>1. index'[i] = index[i]
      BY <1>1, <2>2
    <3> QED BY <1>9, <3>1
  <2> QED BY <2>1, <2>2
<1>11. index' \in [Ids -> Entry \cup {NoEntry}]
  <2>1. index' = [i \in Ids |-> index'[i]]
    BY <1>1, <1>9
  <2> QED BY <1>10, <2>1
<1>12. Keeps(Pager, q, next)
  BY <1>3, <1>4, <1>5, <1>8 DEF Keeps
<1>13. cached' = Put(cached, pid, Clean(cached[pid]))
  BY <1>1, <1>5 DEF PagerBecomes
<1> QED BY <1>1, <1>2, <1>5, <1>6, <1>10, <1>11, <1>12, <1>13 DEF pid

LEMMA FlushPageKeeps == EngineInv /\ FlushPage => EngineInv'
<1> SUFFICES ASSUME EngineInv, FlushPage PROVE EngineInv'
  OBVIOUS
<1> DEFINE pid == todo[1].x
<1>1. /\ todo # <<>> /\ todo[1].s = "flush_page" /\ Done /\ pid \in DOMAIN cached
      /\ UNCHANGED <<count, walFile, walBuf, next, sec, open, mode>>
      /\ PagerOK(Pager', next) /\ Keeps(Pager, Pager', next)
      /\ cached' = Put(cached, pid, Clean(cached[pid]))
      /\ index' \in [Ids -> Entry \cup {NoEntry}]
  BY FlushPageFacts
<1>2. \A i \in Ids : /\ index[i] = NoEntry <=> index'[i] = NoEntry
                     /\ index[i] # NoEntry => index'[i].page = index[i].page
  BY FlushPageFacts
<1> HIDE DEF pid
<1>3. next \in Nat
  BY StepFacts
<1>4. CountOK'
  <2>1. DOMAIN disk \subseteq DOMAIN disk'
    BY <1>1 DEF Keeps, Pager
  <2> QED BY <1>1, <2>1 DEF EngineInv, CountOK
<1>5. Entries'
  <2> SUFFICES ASSUME NEW i \in Ids, index'[i] # NoEntry
               PROVE  index'[i].page \in 0..next - 1 /\ Holds(Pager', index'[i].page, i)
    BY <1>1 DEF Entries
  <2>1. index[i].page \in 0..next - 1 /\ Holds(Pager, index[i].page, i)
    BY <1>2 DEF EngineInv, Entries
  <2>2. RowsOf(Pager', index[i].page) = RowsOf(Pager, index[i].page)
    BY <1>1, <2>1 DEF Keeps
  <2> QED BY <1>2, <2>1, <2>2 DEF Holds
<1>6. /\ DOMAIN cached' = DOMAIN cached
      /\ \A x \in DOMAIN cached : cached'[x].dirty => cached[x].dirty /\ x # pid
  BY <1>1 DEF Put, Clean
<1>7. StepsOK(todo)' /\ AppendReady' /\ EraseReady' /\ FlushReady' /\ OpenReady'
  <2>1. \A i \in Ids : index[i] # NoEntry => index'[i] # NoEntry
    BY <1>2
  <2> QED BY <1>1, <1>3, <1>6, <2>1, DoneReady DEF pid
<1>8. Types'
  BY <1>1 DEF EngineInv, Types
<1> QED BY <1>1, <1>4, <1>5, <1>7, <1>8 DEF EngineInv
----------------------------------------------------------------------------
(* Plans *)

Names(t) == {t[i].s : i \in 1..Len(t)}
Touched(t) == {t[i].x : i \in {k \in 1..Len(t) : t[k].s = "touch_row"}}
Erased(t) == {t[i].x : i \in {k \in 1..Len(t) : t[k].s \in EraseNames}}

FollowNames == {"append_row", "log_insert", "index_row", "erase_row", "unindex"}

\* A plan that relies on no step before it.
Block(t) ==
    /\ StepsOK(t)
    /\ Len(t) > 0 => t[1].s \notin FollowNames
    /\ Len(t) > 1 => ~(t[1].s = "sync" /\ t[2].s = "index_row")

\* The names and the rows of a plan that consists of two.
LEMMA ConcatNames ==
    ASSUME NEW a \in Seq(StepType), NEW b \in Seq(StepType)
    PROVE  /\ a \o b \in Seq(StepType) /\ Len(a \o b) = Len(a) + Len(b)
           /\ Len(a) \in Nat /\ Len(b) \in Nat
           /\ \A i \in 1..Len(a) : (a \o b)[i] = a[i]
           /\ \A i \in 1..Len(b) : (a \o b)[Len(a) + i] = b[i]
           /\ \A i \in 1..Len(a) + Len(b) : i \in 1..Len(a) \/ \E j \in 1..Len(b) : i = Len(a) + j
           /\ Names(a \o b) = Names(a) \cup Names(b)
           /\ Touched(a \o b) = Touched(a) \cup Touched(b)
           /\ Erased(a \o b) = Erased(a) \cup Erased(b)
<1> DEFINE c == a \o b
<1>1. /\ c \in Seq(StepType) /\ Len(c) = Len(a) + Len(b) /\ Len(a) \in Nat /\ Len(b) \in Nat
      /\ \A i \in 1..Len(a) : c[i] = a[i]
  OBVIOUS
<1>2. \A i \in 1..Len(b) : c[Len(a) + i] = b[i]
  <2> SUFFICES ASSUME NEW i \in 1..Len(b) PROVE c[Len(a) + i] = b[i]
    OBVIOUS
  <2>1. Len(a) + i \in 1..Len(a) + Len(b) /\ ~(Len(a) + i <= Len(a)) /\ (Len(a) + i) - Len(a) = i
    BY <1>1
  <2>2. \A k \in 1..Len(a) + Len(b) : c[k] = IF k <= Len(a) THEN a[k] ELSE b[k - Len(a)]
    BY ConcatProperties
  <2> HIDE DEF c
  <2> QED BY <2>1, <2>2
<1> HIDE DEF c
<1>3. \A i \in 1..Len(a) + Len(b) : i \in 1..Len(a) \/ \E j \in 1..Len(b) : i = Len(a) + j
  <2> SUFFICES ASSUME NEW i \in 1..Len(a) + Len(b), i \notin 1..Len(a)
               PROVE  \E j \in 1..Len(b) : i = Len(a) + j
    OBVIOUS
  <2>1. i - Len(a) \in 1..Len(b) /\ i = Len(a) + (i - Len(a))
    BY <1>1
  <2> QED BY <2>1
<1>4. \A i \in 1..Len(a) : i \in 1..Len(c)
  BY <1>1
<1>5. \A i \in 1..Len(b) : Len(a) + i \in 1..Len(c)
  BY <1>1
<1>6. \A i \in 1..Len(c) : (i \in 1..Len(a) /\ c[i] = a[i])
                           \/ \E j \in 1..Len(b) : i = Len(a) + j /\ c[i] = b[j]
  <2> SUFFICES ASSUME NEW i \in 1..Len(c)
               PROVE  (i \in 1..Len(a) /\ c[i] = a[i]) \/ \E j \in 1..Len(b) : i = Len(a) + j /\ c[i] = b[j]
    OBVIOUS
  <2>1. CASE i \in 1..Len(a)
    BY <2>1, <1>2, <1>1
  <2>2. CASE i \notin 1..Len(a)
    <3>1. i \in 1..Len(a) + Len(b)
      BY <1>1
    <3>2. PICK j \in 1..Len(b) : i = Len(a) + j
      BY <1>3, <2>2, <3>1
    <3>3. c[i] = b[j]
      BY <1>2, <3>2
    <3> QED BY <3>2, <3>3
  <2> QED BY <2>1, <2>2
<1>7. Names(c) = Names(a) \cup Names(b)
  <2>1. ASSUME NEW x \in Names(c) PROVE x \in Names(a) \cup Names(b)
    BY <2>1, <1>6 DEF Names
  <2>2. ASSUME NEW x \in Names(a) PROVE x \in Names(c)
    BY <2>2, <1>1, <1>4 DEF Names
  <2>3. ASSUME NEW x \in Names(b) PROVE x \in Names(c)
    <3>1. PICK i \in 1..Len(b) : x = b[i].s
      BY <2>3 DEF Names
    <3>2. Len(a) + i \in 1..Len(c) /\ c[Len(a) + i] = b[i]
      BY <1>2, <1>5
    <3> QED BY <3>1, <3>2 DEF Names
  <2> QED BY <2>1, <2>2, <2>3
<1>8. Touched(c) = Touched(a) \cup Touched(b)
  <2>1. ASSUME NEW x \in Touched(c) PROVE x \in Touched(a) \cup Touched(b)
    BY <2>1, <1>6 DEF Touched
  <2>2. ASSUME NEW x \in Touched(a) PROVE x \in Touched(c)
    BY <2>2, <1>1, <1>4 DEF Touched
  <2>3. ASSUME NEW x \in Touched(b) PROVE x \in Touched(c)
    <3>1. PICK i \in 1..Len(b) : b[i].s = "touch_row" /\ x = b[i].x
      BY <2>3 DEF Touched
    <3>2. Len(a) + i \in 1..Len(c) /\ c[Len(a) + i] = b[i]
      BY <1>2, <1>5
    <3> QED BY <3>1, <3>2 DEF Touched
  <2> QED BY <2>1, <2>2, <2>3
<1>9. Erased(c) = Erased(a) \cup Erased(b)
  <2>1. ASSUME NEW x \in Erased(c) PROVE x \in Erased(a) \cup Erased(b)
    BY <2>1, <1>6 DEF Erased
  <2>2. ASSUME NEW x \in Erased(a) PROVE x \in Erased(c)
    BY <2>2, <1>1, <1>4 DEF Erased
  <2>3. ASSUME NEW x \in Erased(b) PROVE x \in Erased(c)
    <3>1. PICK i \in 1..Len(b) : b[i].s \in EraseNames /\ x = b[i].x
      BY <2>3 DEF Erased
    <3>2. Len(a) + i \in 1..Len(c) /\ c[Len(a) + i] = b[i]
      BY <1>2, <1>5
    <3> QED BY <3>1, <3>2 DEF Erased
  <2> QED BY <2>1, <2>2, <2>3
<1> QED BY <1>1, <1>2, <1>3, <1>7, <1>8, <1>9 DEF c

\* One plan after another, when the second looks up no row the first erases.
LEMMA ConcatBlock ==
    ASSUME NEW a, Block(a), NEW b, Block(b),
           Erased(a) \cap Touched(b) = {},
           Names(b) \cap FlushNames = {} \/ Names(a) \subseteq {"flush_page"},
           Names(a) \cap {"close_files", "opened"} = {},
           Names(a) \cap ReplayNames = {} \/ Names(b) \subseteq ReplayNames
    PROVE  Block(a \o b)
<1> DEFINE c == a \o b
           n == Len(a)
<1>1. a \in Seq(StepType) /\ b \in Seq(StepType)
  BY DEF Block, StepsOK
<1>2. /\ c \in Seq(StepType) /\ Len(c) = n + Len(b) /\ n \in Nat /\ Len(b) \in Nat
      /\ \A i \in 1..n : c[i] = a[i]
      /\ \A i \in 1..Len(b) : c[n + i] = b[i]
      /\ \A i \in 1..n + Len(b) : i \in 1..n \/ \E j \in 1..Len(b) : i = n + j
  BY <1>1, ConcatNames
<1> HIDE DEF c, n
<1>3. \A i \in 1..Len(c) : (i \in 1..n /\ c[i] = a[i])
                           \/ \E j \in 1..Len(b) : i = n + j /\ c[i] = b[j]
  <2> SUFFICES ASSUME NEW i \in 1..Len(c)
               PROVE  (i \in 1..n /\ c[i] = a[i]) \/ \E j \in 1..Len(b) : i = n + j /\ c[i] = b[j]
    OBVIOUS
  <2>1. CASE i \in 1..n
    BY <2>1, <1>2
  <2>2. CASE i \notin 1..n
    <3>1. i \in 1..n + Len(b)
      BY <1>2
    <3>2. PICK j \in 1..Len(b) : i = n + j
      BY <1>2, <2>2, <3>1
    <3>3. c[i] = b[j]
      BY <1>2, <3>2
    <3> QED BY <3>2, <3>3
  <2> QED BY <2>1, <2>2
<1>4. \A i \in 1..Len(c) : /\ c[i].s \in RowNames => c[i].x \in Ids
                           /\ c[i].s \in ValueNames => c[i].v \in Vals
  BY <1>3 DEF Block, StepsOK, n
<1>5. AppendShape(c)
  <2> SUFFICES ASSUME NEW i \in 2..Len(c)
               PROVE  /\ c[i].s = "append_row" => c[i - 1].s = "touch_last"
                      /\ c[i].s = "log_insert" => c[i - 1].s = "append_row" /\ SameRow(c[i - 1], c[i])
                      /\ c[i].s = "index_row" =>
                           \/ c[i - 1].s \in {"append_row", "log_insert"} /\ SameRow(c[i - 1], c[i])
                           \/ /\ c[i - 1].s = "sync"
                              /\ i > 2 => c[i - 2].s = "log_insert" /\ SameRow(c[i - 2], c[i])
    BY DEF AppendShape
  <2>1. CASE i \in 2..n
    <3>1. c[i] = a[i] /\ c[i - 1] = a[i - 1] /\ (i > 2 => c[i - 2] = a[i - 2])
      BY <1>2, <2>1
    <3>2. AppendShape(a)
      BY DEF Block, StepsOK
    <3> QED BY <2>1, <3>1, <3>2 DEF AppendShape, n
  <2>2. CASE i \notin 2..n
    <3>1. PICK j \in 1..Len(b) : i = n + j
      BY <1>2, <2>2
    <3>2. CASE j = 1
      <4>1. c[i] = b[1] /\ Len(b) > 0
        BY <1>2, <3>1, <3>2
      <4> QED BY <4>1 DEF Block, FollowNames
    <3>3. CASE j > 1
      <4>1. j \in 2..Len(b) /\ c[i] = b[j] /\ c[i - 1] = b[j - 1] /\ (j > 2 => c[i - 2] = b[j - 2])
        <5>1. j - 1 \in 1..Len(b) /\ i - 1 = n + (j - 1)
          BY <1>2, <3>1, <3>3
        <5>2. c[i - 1] = b[j - 1]
          BY <1>2, <5>1
        <5>3. ASSUME j > 2 PROVE c[i - 2] = b[j - 2]
          <6>1. j - 2 \in 1..Len(b) /\ i - 2 = n + (j - 2)
            BY <1>2, <3>1, <5>3
          <6> QED BY <1>2, <6>1
        <5> QED BY <1>2, <3>1, <3>3, <5>2, <5>3
      <4>2. AppendShape(b)
        BY DEF Block, StepsOK
      <4>3. /\ b[j].s = "append_row" => b[j - 1].s = "touch_last"
            /\ b[j].s = "log_insert" => b[j - 1].s = "append_row" /\ SameRow(b[j - 1], b[j])
            /\ b[j].s = "index_row" =>
                 \/ b[j - 1].s \in {"append_row", "log_insert"} /\ SameRow(b[j - 1], b[j])
                 \/ /\ b[j - 1].s = "sync"
                    /\ j > 2 => b[j - 2].s = "log_insert" /\ SameRow(b[j - 2], b[j])
        BY <4>1, <4>2 DEF AppendShape
      <4>4. j = 2 => ~(b[j - 1].s = "sync" /\ b[j].s = "index_row")
        BY <4>1 DEF Block
      <4> QED BY <4>1, <4>3, <4>4
    <3> QED BY <1>2, <3>1, <3>2, <3>3
  <2> QED BY <2>1, <2>2
<1>6. EraseShape(c)
  <2>1. ASSUME NEW i \in 2..Len(c), c[i].s \in EraseNames
        PROVE  c[i - 1].s = "touch_row" /\ c[i - 1].x = c[i].x
    <3>1. CASE i \in 2..n
      <4>1. c[i] = a[i] /\ c[i - 1] = a[i - 1]
        BY <1>2, <3>1
      <4> QED BY <2>1, <3>1, <4>1 DEF Block, StepsOK, EraseShape, n
    <3>2. CASE i \notin 2..n
      <4>1. PICK j \in 1..Len(b) : i = n + j
        BY <1>2, <3>2
      <4>2. c[i] = b[j]
        BY <1>2, <4>1
      <4>3. CASE j = 1
        BY <2>1, <4>2, <4>3, <1>2 DEF Block, FollowNames, EraseNames
      <4>4. CASE j > 1
        <5>1. j - 1 \in 1..Len(b) /\ i - 1 = n + (j - 1) /\ j \in 2..Len(b)
          BY <1>2, <4>1, <4>4
        <5>2. c[i - 1] = b[j - 1]
          BY <1>2, <5>1
        <5> QED BY <2>1, <4>2, <5>1, <5>2 DEF Block, StepsOK, EraseShape
      <4> QED BY <1>2, <4>1, <4>3, <4>4
    <3> QED BY <3>1, <3>2
  <2>2. ASSUME NEW i \in 1..Len(c), NEW j \in 1..Len(c),
               c[i].s = "touch_row", j < i, c[j].s \in EraseNames
        PROVE  c[j].x # c[i].x
    <3>1. CASE i \in 1..n
      <4>1. j \in 1..n /\ c[i] = a[i] /\ c[j] = a[j]
        BY <1>2, <2>2, <3>1
      <4> QED BY <2>2, <3>1, <4>1 DEF Block, StepsOK, EraseShape, n
    <3>2. CASE i \notin 1..n
      <4>1. PICK k \in 1..Len(b) : i = n + k /\ c[i] = b[k]
        BY <1>3, <3>2
      <4>2. CASE j \in 1..n
        <5>1. c[j].x \in Erased(a)
          BY <2>2, <4>2, <1>2 DEF Erased, n
        <5>2. c[i].x \in Touched(b)
          BY <2>2, <4>1 DEF Touched
        <5> QED BY <5>1, <5>2
      <4>3. CASE j \notin 1..n
        <5>1. PICK m \in 1..Len(b) : j = n + m /\ c[j] = b[m]
          BY <1>3, <4>3
        <5>2. m < k
          BY <1>2, <2>2, <4>1, <5>1
        <5> QED BY <2>2, <4>1, <5>1, <5>2 DEF Block, StepsOK, EraseShape
      <4> QED BY <4>2, <4>3
    <3> QED BY <3>1, <3>2
  <2> QED BY <2>1, <2>2 DEF EraseShape
<1>7. FlushShape(c)
  <2> SUFFICES ASSUME NEW i \in 1..Len(c), NEW j \in 1..Len(c), c[i].s \in FlushNames, j < i
               PROVE  c[j].s = "flush_page"
    BY DEF FlushShape
  <2>1. CASE i \in 1..n
    <3>1. j \in 1..n /\ c[i] = a[i] /\ c[j] = a[j]
      BY <1>2, <2>1
    <3> QED BY <2>1, <3>1 DEF Block, StepsOK, FlushShape, n
  <2>2. CASE i \notin 1..n
    <3>1. PICK k \in 1..Len(b) : i = n + k /\ c[i] = b[k]
      BY <1>3, <2>2
    <3>2. Names(a) \subseteq {"flush_page"}
      BY <3>1 DEF Names
    <3>3. CASE j \in 1..n
      BY <3>2, <3>3, <1>2 DEF Names, n
    <3>4. CASE j \notin 1..n
      <4>1. PICK m \in 1..Len(b) : j = n + m /\ c[j] = b[m]
        BY <1>3, <3>4
      <4>2. m < k
        BY <1>2, <3>1, <4>1
      <4> QED BY <3>1, <4>1, <4>2 DEF Block, StepsOK, FlushShape
    <3> QED BY <3>3, <3>4
  <2> QED BY <2>1, <2>2
<1>8. OpenShape(c)
  <2>1. ASSUME NEW i \in 1..Len(c), c[i].s \in {"close_files", "opened"} PROVE i = Len(c)
    <3>1. i \notin 1..n
      <4> SUFFICES ASSUME i \in 1..n PROVE FALSE
        OBVIOUS
      <4>1. c[i].s \in Names(a)
        BY <1>2 DEF Names, n
      <4> QED BY <2>1, <4>1
    <3>2. PICK k \in 1..Len(b) : i = n + k /\ c[i] = b[k]
      BY <1>3, <3>1
    <3>3. k = Len(b)
      BY <2>1, <3>2 DEF Block, StepsOK, OpenShape
    <3> QED BY <1>2, <3>2, <3>3
  <2>2. ASSUME NEW i \in 1..Len(c), NEW j \in 1..Len(c), c[i].s \in ReplayNames, i < j
        PROVE  c[j].s \in ReplayNames
    <3>1. CASE i \notin 1..n
      <4>1. PICK k \in 1..Len(b) : i = n + k /\ c[i] = b[k]
        BY <1>3, <3>1
      <4>2. j \notin 1..n
        BY <1>2, <2>2, <3>1
      <4>3. PICK m \in 1..Len(b) : j = n + m /\ c[j] = b[m]
        BY <1>3, <4>2
      <4>4. k < m
        BY <1>2, <2>2, <4>1, <4>3
      <4> QED BY <2>2, <4>1, <4>3, <4>4 DEF Block, StepsOK, OpenShape
    <3>2. CASE i \in 1..n
      <4>1. c[i] = a[i]
        BY <3>2, <1>2
      <4>2. CASE j \in 1..n
        <5>1. c[j] = a[j]
          BY <4>2, <1>2
        <5> QED BY <2>2, <3>2, <4>1, <4>2, <5>1 DEF Block, StepsOK, OpenShape, n
      <4>3. CASE j \notin 1..n
        <5>1. c[i].s \in Names(a)
          BY <3>2, <4>1 DEF Names, n
        <5>2. Names(b) \subseteq ReplayNames
          BY <2>2, <5>1
        <5>3. PICK m \in 1..Len(b) : j = n + m /\ c[j] = b[m]
          BY <1>3, <4>3
        <5> QED BY <5>2, <5>3 DEF Names
      <4> QED BY <4>2, <4>3
    <3> QED BY <3>1, <3>2
  <2> QED BY <2>1, <2>2 DEF OpenShape
<1>9. Len(c) > 0 => c[1].s \notin FollowNames
  <2> SUFFICES ASSUME Len(c) > 0 PROVE c[1].s \notin FollowNames
    OBVIOUS
  <2>1. CASE n > 0
    <3>1. c[1] = a[1] /\ Len(a) > 0
      BY <1>2, <2>1 DEF n
    <3> QED BY <3>1 DEF Block
  <2>2. CASE n = 0
    <3>1. c[1] = b[1] /\ Len(b) > 0
      BY <1>2, <2>2
    <3> QED BY <3>1 DEF Block
  <2> QED BY <1>2, <2>1, <2>2
<1>10. Len(c) > 1 => ~(c[1].s = "sync" /\ c[2].s = "index_row")
  <2> SUFFICES ASSUME Len(c) > 1, c[1].s = "sync", c[2].s = "index_row" PROVE FALSE
    OBVIOUS
  <2>1. CASE n > 1
    <3>1. c[1] = a[1] /\ c[2] = a[2] /\ Len(a) > 1
      BY <1>2, <2>1 DEF n
    <3> QED BY <3>1 DEF Block
  <2>2. CASE n = 1
    <3>1. c[2] = b[1] /\ Len(b) > 0
      BY <1>2, <2>2
    <3> QED BY <3>1 DEF Block, FollowNames
  <2>3. CASE n = 0
    <3>1. c[1] = b[1] /\ c[2] = b[2] /\ Len(b) > 1
      BY <1>2, <2>3
    <3> QED BY <3>1 DEF Block
  <2> QED BY <1>2, <2>1, <2>2, <2>3
<1> QED BY <1>2, <1>4, <1>5, <1>6, <1>7, <1>8, <1>9, <1>10 DEF Block, StepsOK, c

\* A plan of one step.
LEMMA SingleBlock ==
    ASSUME NEW st \in StepType, st.s \notin FollowNames \cup RowNames
    PROVE  /\ Block(<<st>>) /\ Names(<<st>>) = {st.s}
           /\ Touched(<<st>>) = {} /\ Erased(<<st>>) = {}
<1> DEFINE t == <<st>>
<1>1. t \in Seq(StepType) /\ Len(t) = 1 /\ t[1] = st
  OBVIOUS
<1> HIDE DEF t
<1>2. st.s # "touch_row" /\ st.s \notin EraseNames /\ st.s \notin ValueNames
  BY DEF RowNames, EraseNames, ValueNames
<1>3. \A i \in 1..Len(t) : i = 1 /\ t[i] = st
  BY <1>1
<1>4. \A i \in 2..Len(t) : FALSE
  BY <1>1
<1>5. AppendShape(t) /\ EraseShape(t) /\ FlushShape(t) /\ OpenShape(t)
  BY <1>1, <1>2, <1>3, <1>4 DEF AppendShape, EraseShape, FlushShape, OpenShape
<1>6. Block(t)
  BY <1>1, <1>2, <1>3, <1>5 DEF Block, StepsOK
<1>7. Names(t) = {st.s} /\ Touched(t) = {} /\ Erased(t) = {}
  BY <1>1, <1>2, <1>3 DEF Names, Touched, Erased
<1> QED BY <1>6, <1>7 DEF t

\* A plan that does one thing to many pages.
LEMMA PagesBlock ==
    ASSUME NEW t \in Seq(StepType), NEW s \in {"flush_page", "visit_page"},
           \A i \in 1..Len(t) : t[i].s = s
    PROVE  Block(t) /\ Names(t) \subseteq {s} /\ Touched(t) = {} /\ Erased(t) = {}
<1>1. Len(t) \in Nat /\ \A i \in 2..Len(t) : i \in 1..Len(t)
  OBVIOUS
<1>2. \A i \in 1..Len(t) : t[i].s \notin RowNames \cup ValueNames \cup EraseNames \cup ReplayNames
                           /\ t[i].s \notin {"close_files", "opened", "touch_row", "sync"}
                           /\ t[i].s \notin FollowNames
  BY DEF RowNames, ValueNames, EraseNames, ReplayNames, FollowNames
<1>3. AppendShape(t) /\ EraseShape(t) /\ OpenShape(t)
  <2>1. AppendShape(t)
    BY <1>1, <1>2 DEF AppendShape, FollowNames
  <2>2. EraseShape(t)
    BY <1>1, <1>2 DEF EraseShape
  <2>3. OpenShape(t)
    BY <1>2 DEF OpenShape
  <2> QED BY <2>1, <2>2, <2>3
<1>4. FlushShape(t)
  BY DEF FlushShape, FlushNames
<1>5. Block(t)
  BY <1>1, <1>2, <1>3, <1>4 DEF Block, StepsOK
<1>6. Names(t) \subseteq {s} /\ Touched(t) = {} /\ Erased(t) = {}
  BY <1>2 DEF Names, Touched, Erased
<1> QED BY <1>5, <1>6

\* The steps of insert_unlocked.
LEMMA InsertElems ==
    ASSUME NEW row \in Row, NEW sync_now \in BOOLEAN
    PROVE  LET t == InsertSteps(row, sync_now)
               x == row.id
               v == row.val
           IN  /\ x \in Ids /\ v \in Vals
               /\ sync_now =>
                    /\ t \in Seq(StepType) /\ Len(t) = 5
                    /\ t[1].s = "touch_last"
                    /\ t[2] = Step("append_row", x, v) /\ t[3] = Step("log_insert", x, v)
                    /\ t[4].s = "sync" /\ t[5] = Step("index_row", x, v)
               /\ ~sync_now =>
                    /\ t \in Seq(StepType) /\ Len(t) = 4
                    /\ t[1].s = "touch_last"
                    /\ t[2] = Step("append_row", x, v) /\ t[3] = Step("log_insert", x, v)
                    /\ t[4] = Step("index_row", x, v)
<1> DEFINE x == row.id
           v == row.val
           t == InsertSteps(row, sync_now)
<1>1. x \in Ids /\ v \in Vals
  BY DEF Row
<1>2. CASE sync_now
  <2> DEFINE a == Do("touch_last")
             b == Step("append_row", x, v)
             c == Step("log_insert", x, v)
             d == Do("sync")
             e == Step("index_row", x, v)
             u == <<a, b, c>> \o <<d>>
  <2>1. a \in StepType /\ b \in StepType /\ c \in StepType /\ d \in StepType /\ e \in StepType
    BY <1>1 DEF StepType, StepNames, Do, Step
  <2>a. a.s = "touch_last" /\ d.s = "sync"
    BY DEF Do, Step
  <2>b. t = u \o <<e>>
    BY <1>2 DEF InsertSteps
  <2>c. u = <<a, b, c>> \o <<d>> /\ b = Step("append_row", x, v) /\ c = Step("log_insert", x, v)
        /\ e = Step("index_row", x, v)
    OBVIOUS
  <2> HIDE DEF a, b, c, d, e, u, t
  <2>d. u \in Seq(StepType) /\ Len(u) = 4 /\ u[1] = a /\ u[2] = b /\ u[3] = c /\ u[4] = d
    BY <2>1, <2>c
  <2>e. /\ t \in Seq(StepType) /\ Len(t) = 5
        /\ t[1] = a /\ t[2] = b /\ t[3] = c /\ t[4] = d /\ t[5] = e
    <3> DEFINE w == <<e>>
    <3>1. w \in Seq(StepType) /\ Len(w) = 1 /\ w[1] = e /\ t = u \o w
      BY <2>1, <2>b
    <3> HIDE DEF w
    <3>2. /\ t \in Seq(StepType) /\ Len(t) = Len(u) + Len(w)
          /\ \A i \in 1..Len(u) : t[i] = u[i]
          /\ \A i \in 1..Len(w) : t[Len(u) + i] = w[i]
      BY <2>d, <3>1, ConcatNames
    <3>3. t[5] = e
      BY <2>d, <3>1, <3>2
    <3> QED BY <2>d, <3>1, <3>2, <3>3
  <2>2. /\ t \in Seq(StepType) /\ Len(t) = 5
        /\ t[1].s = "touch_last"
        /\ t[2] = Step("append_row", x, v) /\ t[3] = Step("log_insert", x, v)
        /\ t[4].s = "sync" /\ t[5] = Step("index_row", x, v)
    BY <2>a, <2>c, <2>e
  <2> QED BY <1>1, <1>2, <2>2 DEF t
<1>3. CASE ~sync_now
  <2> DEFINE a == Do("touch_last")
             b == Step("append_row", x, v)
             c == Step("log_insert", x, v)
             e == Step("index_row", x, v)
             u == <<a, b, c>> \o <<>>
  <2>1. a \in StepType /\ b \in StepType /\ c \in StepType /\ e \in StepType
    BY <1>1 DEF StepType, StepNames, Do, Step
  <2>a. a.s = "touch_last"
    BY DEF Do, Step
  <2>b. t = u \o <<e>>
    BY <1>3 DEF InsertSteps
  <2>c. u = <<a, b, c>> \o <<>> /\ b = Step("append_row", x, v) /\ c = Step("log_insert", x, v)
        /\ e = Step("index_row", x, v)
    OBVIOUS
  <2> HIDE DEF a, b, c, e, u, t
  <2>d. u \in Seq(StepType) /\ Len(u) = 3 /\ u[1] = a /\ u[2] = b /\ u[3] = c
    BY <2>1, <2>c
  <2>e. /\ t \in Seq(StepType) /\ Len(t) = 4
        /\ t[1] = a /\ t[2] = b /\ t[3] = c /\ t[4] = e
    <3> DEFINE w == <<e>>
    <3>1. w \in Seq(StepType) /\ Len(w) = 1 /\ w[1] = e /\ t = u \o w
      BY <2>1, <2>b
    <3> HIDE DEF w
    <3>2. /\ t \in Seq(StepType) /\ Len(t) = Len(u) + Len(w)
          /\ \A i \in 1..Len(u) : t[i] = u[i]
          /\ \A i \in 1..Len(w) : t[Len(u) + i] = w[i]
      BY <2>d, <3>1, ConcatNames
    <3>3. t[4] = e
      BY <2>d, <3>1, <3>2
    <3> QED BY <2>d, <3>1, <3>2, <3>3
  <2>2. /\ t \in Seq(StepType) /\ Len(t) = 4
        /\ t[1].s = "touch_last"
        /\ t[2] = Step("append_row", x, v) /\ t[3] = Step("log_insert", x, v)
        /\ t[4] = Step("index_row", x, v)
    BY <2>a, <2>c, <2>e
  <2> QED BY <1>1, <1>3, <2>2 DEF t
<1> QED BY <1>2, <1>3

\* The plan of insert_unlocked.
LEMMA InsertBlock ==
    ASSUME NEW row \in Row, NEW sync_now \in BOOLEAN
    PROVE  LET t == InsertSteps(row, sync_now)
           IN  /\ Block(t) /\ Len(t) > 0
               /\ Names(t) \subseteq {"touch_last", "append_row", "log_insert", "sync", "index_row"}
               /\ Touched(t) = {} /\ Erased(t) = {}
<1> DEFINE x == row.id
           v == row.val
           t == InsertSteps(row, sync_now)
<1>1. x \in Ids /\ v \in Vals
  BY InsertElems
<1>2. CASE sync_now
  <2>2. /\ t \in Seq(StepType) /\ Len(t) = 5
        /\ t[1].s = "touch_last"
        /\ t[2] = Step("append_row", x, v) /\ t[3] = Step("log_insert", x, v)
        /\ t[4].s = "sync" /\ t[5] = Step("index_row", x, v)
    BY <1>2, InsertElems
  <2> HIDE DEF t, x, v
  <2>3. /\ t[2].s = "append_row" /\ t[2].x = x /\ t[2].v = v
        /\ t[3].s = "log_insert" /\ t[3].x = x /\ t[3].v = v
        /\ t[5].s = "index_row" /\ t[5].x = x /\ t[5].v = v
    BY <2>2 DEF Step
  <2>4. \A i \in 1..Len(t) : i = 1 \/ i = 2 \/ i = 3 \/ i = 4 \/ i = 5
    BY <2>2
  <2>5. \A i \in 1..Len(t) : /\ t[i].s \in RowNames => t[i].x \in Ids
                             /\ t[i].s \in ValueNames => t[i].v \in Vals
    BY <1>1, <2>2, <2>3, <2>4 DEF RowNames, ValueNames
  <2>6. AppendShape(t)
    BY <2>2, <2>3 DEF AppendShape, SameRow
  <2>7. \A i \in 1..Len(t) : t[i].s \in {"touch_last", "append_row", "log_insert", "sync", "index_row"}
    BY <2>2, <2>3, <2>4
  <2>8. EraseShape(t) /\ FlushShape(t) /\ OpenShape(t)
    <3>1. \A i \in 2..Len(t) : i \in 1..Len(t)
      BY <2>2
    <3> QED BY <2>7, <3>1 DEF EraseShape, FlushShape, OpenShape, EraseNames, FlushNames, ReplayNames
  <2>9. Block(t)
    BY <2>2, <2>3, <2>5, <2>6, <2>8 DEF Block, StepsOK, FollowNames
  <2>10. /\ Names(t) \subseteq {"touch_last", "append_row", "log_insert", "sync", "index_row"}
         /\ Touched(t) = {} /\ Erased(t) = {}
    BY <2>7 DEF Names, Touched, Erased, EraseNames
  <2> QED BY <2>2, <2>9, <2>10 DEF t
<1>3. CASE ~sync_now
  <2>2. /\ t \in Seq(StepType) /\ Len(t) = 4
        /\ t[1].s = "touch_last"
        /\ t[2] = Step("append_row", x, v) /\ t[3] = Step("log_insert", x, v)
        /\ t[4] = Step("index_row", x, v)
    BY <1>3, InsertElems
  <2> HIDE DEF t, x, v
  <2>3. /\ t[2].s = "append_row" /\ t[2].x = x /\ t[2].v = v
        /\ t[3].s = "log_insert" /\ t[3].x = x /\ t[3].v = v
        /\ t[4].s = "index_row" /\ t[4].x = x /\ t[4].v = v
    BY <2>2 DEF Step
  <2>4. \A i \in 1..Len(t) : i = 1 \/ i = 2 \/ i = 3 \/ i = 4
    BY <2>2
  <2>5. \A i \in 1..Len(t) : /\ t[i].s \in RowNames => t[i].x \in Ids
                             /\ t[i].s \in ValueNames => t[i].v \in Vals
    BY <1>1, <2>2, <2>3, <2>4 DEF RowNames, ValueNames
  <2>6. AppendShape(t)
    BY <2>2, <2>3 DEF AppendShape, SameRow
  <2>7. \A i \in 1..Len(t) : t[i].s \in {"touch_last", "append_row", "log_insert", "sync", "index_row"}
    BY <2>2, <2>3, <2>4
  <2>8. EraseShape(t) /\ FlushShape(t) /\ OpenShape(t)
    <3>1. \A i \in 2..Len(t) : i \in 1..Len(t)
      BY <2>2
    <3> QED BY <2>7, <3>1 DEF EraseShape, FlushShape, OpenShape, EraseNames, FlushNames, ReplayNames
  <2>9. Block(t)
    BY <2>2, <2>3, <2>5, <2>6, <2>8 DEF Block, StepsOK, FollowNames
  <2>10. /\ Names(t) \subseteq {"touch_last", "append_row", "log_insert", "sync", "index_row"}
         /\ Touched(t) = {} /\ Erased(t) = {}
    BY <2>7 DEF Names, Touched, Erased, EraseNames
  <2> QED BY <2>2, <2>9, <2>10 DEF t
<1> QED BY <1>2, <1>3

\* The plan of an INSERT record in replay_wal.
LEMMA ReplayInsertBlock ==
    ASSUME NEW x \in Ids, NEW v \in Vals
    PROVE  LET t == <<Do("touch_last"), Step("append_row", x, v), Step("index_row", x, v)>>
           IN  /\ Block(t)
               /\ Names(t) \subseteq {"touch_last", "append_row", "index_row"}
               /\ Touched(t) = {} /\ Erased(t) = {}
<1> DEFINE t == <<Do("touch_last"), Step("append_row", x, v), Step("index_row", x, v)>>
<1>1. /\ t \in Seq(StepType) /\ Len(t) = 3 /\ t[1].s = "touch_last"
      /\ t[2] = Step("append_row", x, v) /\ t[3] = Step("index_row", x, v)
  BY DEF StepType, StepNames, Do, Step
<1> HIDE DEF t
<1>2. /\ t[2].s = "append_row" /\ t[2].x = x /\ t[2].v = v
      /\ t[3].s = "index_row" /\ t[3].x = x /\ t[3].v = v
  BY <1>1 DEF Step
<1>3. \A i \in 1..Len(t) : i = 1 \/ i = 2 \/ i = 3
  BY <1>1
<1>4. \A i \in 1..Len(t) : /\ t[i].s \in RowNames => t[i].x \in Ids
                           /\ t[i].s \in ValueNames => t[i].v \in Vals
  BY <1>1, <1>2, <1>3 DEF RowNames, ValueNames
<1>5. AppendShape(t)
  BY <1>1, <1>2 DEF AppendShape, SameRow
<1>6. \A i \in 1..Len(t) : t[i].s \in {"touch_last", "append_row", "index_row"}
  BY <1>1, <1>2, <1>3
<1>7. EraseShape(t) /\ FlushShape(t) /\ OpenShape(t)
  <2>1. \A i \in 2..Len(t) : i \in 1..Len(t)
    BY <1>1
  <2> QED BY <1>6, <2>1 DEF EraseShape, FlushShape, OpenShape, EraseNames, FlushNames, ReplayNames
<1>8. Block(t)
  BY <1>1, <1>2, <1>4, <1>5, <1>7 DEF Block, StepsOK, FollowNames
<1>9. /\ Names(t) \subseteq {"touch_last", "append_row", "index_row"}
      /\ Touched(t) = {} /\ Erased(t) = {}
  BY <1>6 DEF Names, Touched, Erased, EraseNames
<1> QED BY <1>8, <1>9 DEF t

\* The plan of erase_unlocked, and of a DELETE record in replay_wal.
LEMMA EraseBlock ==
    ASSUME NEW x \in Ids, NEW s \in EraseNames
    PROVE  LET t == <<Step("touch_row", x, NoVal), Step(s, x, NoVal)>>
           IN  /\ Block(t) /\ Len(t) > 0 /\ Names(t) = {"touch_row", s}
               /\ Touched(t) = {x} /\ Erased(t) = {x}
<1> DEFINE t == <<Step("touch_row", x, NoVal), Step(s, x, NoVal)>>
<1>1. /\ t \in Seq(StepType) /\ Len(t) = 2
      /\ t[1].s = "touch_row" /\ t[1].x = x /\ t[2].s = s /\ t[2].x = x
  BY DEF StepType, StepNames, Step, EraseNames
<1> HIDE DEF t
<1>2. \A i \in 1..Len(t) : i = 1 \/ i = 2
  BY <1>1
<1>3. \A i \in 1..Len(t) : /\ t[i].s \in RowNames => t[i].x \in Ids
                           /\ t[i].s \in ValueNames => t[i].v \in Vals
  BY <1>1, <1>2 DEF RowNames, ValueNames, EraseNames
<1>4. AppendShape(t) /\ EraseShape(t) /\ FlushShape(t) /\ OpenShape(t)
  BY <1>1, <1>2
     DEF AppendShape, EraseShape, FlushShape, OpenShape, EraseNames, FlushNames, ReplayNames
<1>5. Block(t)
  BY <1>1, <1>3, <1>4 DEF Block, StepsOK, FollowNames, EraseNames
<1>6. Names(t) = {"touch_row", s} /\ Touched(t) = {x} /\ Erased(t) = {x}
  BY <1>1, <1>2 DEF Names, Touched, Erased, EraseNames
<1> QED BY <1>1, <1>5, <1>6 DEF t

\* FlattenSeq of one and of two sequences.
LEMMA FlattenFacts ==
    ASSUME NEW s, NEW n \in {1, 2}, Len(s) = n
    PROVE  FlattenSeq(s) = IF n = 1 THEN s[1] ELSE s[1] \o s[2]
<1> DEFINE g == [i \in 1..Len(s) |-> IF i = 1 THEN s[1] ELSE s[1] \o s[2]]
<1>1. g = [i \in 1..Len(s) |-> IF i = 1 THEN s[i] ELSE g[i - 1] \o s[i]]
  <2>1. g[1] = s[1]
    OBVIOUS
  <2>2. \A i \in 1..Len(s) : i = 1 \/ (i = 2 /\ i - 1 = 1)
    OBVIOUS
  <2>3. \A i \in 1..Len(s) : g[i] = IF i = 1 THEN s[i] ELSE g[i - 1] \o s[i]
    BY <2>1, <2>2
  <2> QED BY <2>3
<1> HIDE DEF g
<1>2. PICK f : /\ f = [i \in 1..Len(s) |-> IF i = 1 THEN s[i] ELSE f[i - 1] \o s[i]]
               /\ FlattenSeq(s) = f[Len(s)]
  <2>1. Len(s) # 0
    OBVIOUS
  <2> QED BY <1>1, <2>1, FlattenStep, Zenon
<1>3. \A i \in 1..Len(s) : f[i] = IF i = 1 THEN s[i] ELSE f[i - 1] \o s[i]
  BY <1>2
<1>4. f[1] = s[1]
  BY <1>3
<1>5. n = 2 => f[2] = s[1] \o s[2]
  <2>1. n = 2 => f[2] = f[2 - 1] \o s[2]
    BY <1>3
  <2>2. 2 - 1 = 1
    OBVIOUS
  <2> QED BY <1>4, <2>1, <2>2, Zenon
<1> QED BY <1>2, <1>4, <1>5

CallNames ==
    {"touch_last", "append_row", "log_insert", "sync", "index_row", "touch_row", "erase_row"}

\* The plans of the rows of a call, which are distinct, and the sync behind them.
LEMMA FlattenBlock ==
    ASSUME NEW n \in {1, 2}, NEW s, Len(s) = n, NEW ids, n = 2 => ids[1] # ids[2],
           \A i \in 1..n : /\ Block(s[i]) /\ Names(s[i]) \subseteq CallNames
                           /\ Touched(s[i]) \subseteq {ids[i]} /\ Erased(s[i]) \subseteq {ids[i]}
    PROVE  LET t == FlattenSeq(s) \o <<Do("sync")>>
           IN  /\ Block(t) /\ Names(t) \subseteq CallNames
               /\ \A x \in Touched(t) : \E i \in 1..n : x = ids[i] /\ ids[i] \in Touched(s[i])
<1> DEFINE u == FlattenSeq(s)
           w == <<Do("sync")>>
<1>1. u = IF n = 1 THEN s[1] ELSE s[1] \o s[2]
  BY FlattenFacts
<1>2. \A i \in 1..n : s[i] \in Seq(StepType)
  BY DEF Block, StepsOK
<1>3. /\ Block(w) /\ Names(w) = {"sync"} /\ Touched(w) = {} /\ Erased(w) = {}
  <2> DEFINE st == Do("sync")
  <2>1. st \in StepType /\ st.s = "sync" /\ st.s \notin FollowNames \cup RowNames
    BY DEF Do, Step, StepType, StepNames, FollowNames, RowNames
  <2> HIDE DEF st
  <2>2. Block(<<st>>) /\ Names(<<st>>) = {st.s} /\ Touched(<<st>>) = {} /\ Erased(<<st>>) = {}
    BY <2>1, SingleBlock
  <2> QED BY <2>1, <2>2 DEF st
<1> HIDE DEF u, w
<1>4. CallNames \cap (FlushNames \cup {"close_files", "opened"} \cup ReplayNames) = {}
  BY DEF CallNames, FlushNames, ReplayNames
<1>5. /\ Block(u) /\ Names(u) \subseteq CallNames
      /\ \A x \in Touched(u) : \E i \in 1..n : x = ids[i] /\ ids[i] \in Touched(s[i])
  <2>1. CASE n = 1
    <3>1. u = s[1] /\ 1 \in 1..n
      BY <1>1, <2>1
    <3> QED BY <3>1
  <2>2. CASE n = 2
    <3> DEFINE a == s[1]
               b == s[2]
    <3>1. u = a \o b /\ 1 \in 1..n /\ 2 \in 1..n
      BY <1>1, <2>2
    <3>2. /\ Block(a) /\ Block(b) /\ Names(a) \subseteq CallNames /\ Names(b) \subseteq CallNames
          /\ Touched(a) \subseteq {ids[1]} /\ Touched(b) \subseteq {ids[2]}
          /\ Erased(a) \subseteq {ids[1]} /\ a \in Seq(StepType) /\ b \in Seq(StepType)
      BY <1>2, <3>1
    <3> HIDE DEF a, b
    <3>3. Erased(a) \cap Touched(b) = {}
      BY <2>2, <3>2
    <3>4. Names(b) \cap FlushNames = {} /\ Names(a) \cap {"close_files", "opened"} = {}
          /\ Names(a) \cap ReplayNames = {}
      BY <1>4, <3>2
    <3>5. Block(a \o b)
      BY <3>2, <3>3, <3>4, ConcatBlock
    <3>6. Names(u) = Names(a) \cup Names(b) /\ Touched(u) = Touched(a) \cup Touched(b)
      BY <3>1, <3>2, ConcatNames
    <3> QED BY <3>1, <3>2, <3>5, <3>6 DEF a, b
  <2> QED BY <2>1, <2>2
<1>6. u \in Seq(StepType) /\ w \in Seq(StepType)
  BY <1>3, <1>5 DEF Block, StepsOK
<1>7. Block(u \o w)
  <2>1. Names(w) \cap FlushNames = {}
    BY <1>3 DEF FlushNames
  <2>2. Erased(u) \cap Touched(w) = {}
    BY <1>3
  <2>3. Names(u) \cap {"close_files", "opened"} = {} /\ Names(u) \cap ReplayNames = {}
    BY <1>4, <1>5
  <2> QED BY <1>3, <1>5, <2>1, <2>2, <2>3, ConcatBlock
<1>8. Names(u \o w) = Names(u) \cup Names(w) /\ Touched(u \o w) = Touched(u) \cup Touched(w)
  BY <1>6, ConcatNames
<1>9. /\ Names(u \o w) \subseteq CallNames
      /\ \A x \in Touched(u \o w) : \E i \in 1..n : x = ids[i] /\ ids[i] \in Touched(s[i])
  BY <1>3, <1>5, <1>8 DEF CallNames
<1> QED BY <1>7, <1>9 DEF u, w

\* What a call is.
LEMMA CallFacts ==
    ASSUME NEW c \in Calls
    PROVE  /\ c.k \in Kinds
           /\ \E n \in {1, 2} :
                /\ DOMAIN c.rows = 1..n
                /\ c.k \in {"insert", "erase", "update"} => n = 1
                /\ \A i \in 1..n :
                     /\ c.rows[i].id \in Ids
                     /\ c.k \notin {"erase", "erase_batch"} => c.rows[i] \in Row
<1> DEFINE vals(k) == IF k \in {"erase", "erase_batch"} THEN {NoVal} ELSE Vals
           len(k) == IF k \in {"insert", "erase", "update"} THEN 1 ELSE 2
<1>1. PICK k \in mode.calls \cap Kinds :
           \E rows \in [1..len(k) -> Rows(vals(k))] : c = [k |-> k, rows |-> rows]
  BY DEF Calls
<1>2. PICK rows \in [1..len(k) -> Rows(vals(k))] : c = [k |-> k, rows |-> rows]
  BY <1>1
<1>3. c.k = k /\ c.rows = rows /\ DOMAIN rows = 1..len(k) /\ len(k) \in {1, 2}
  BY <1>2
<1>4. \A i \in 1..len(k) : rows[i] \in [id : Ids, val : vals(k)]
  BY <1>2 DEF Rows
<1>5. \A i \in 1..len(k) : rows[i].id \in Ids /\ (k \notin {"erase", "erase_batch"} => rows[i] \in Row)
  BY <1>4 DEF Row
<1> QED BY <1>1, <1>3, <1>5

\* The plan of a call: it looks up rows that are indexed.
LEMMA CallBlock ==
    ASSUME NEW c \in Calls, CallOK(c)
    PROVE  /\ Block(StepsOf(c)) /\ Names(StepsOf(c)) \subseteq CallNames
           /\ \A x \in Touched(StepsOf(c)) : index[x] # NoEntry
<1>1. PICK n \in {1, 2} :
        /\ DOMAIN c.rows = 1..n
        /\ c.k \in {"insert", "erase", "update"} => n = 1
        /\ \A i \in 1..n : /\ c.rows[i].id \in Ids
                           /\ c.k \notin {"erase", "erase_batch"} => c.rows[i] \in Row
  BY CallFacts
<1> DEFINE ids == [i \in 1..n |-> c.rows[i].id]
<1>2. /\ n = 2 => ids[1] # ids[2]
      /\ c.k \notin {"insert", "insert_batch"} => \A i \in 1..n : index[ids[i]] # NoEntry
  BY <1>1 DEF CallOK
<1>3. \A i \in 1..n : ids[i] = c.rows[i].id /\ ids[i] \in Ids
  BY <1>1
<1> HIDE DEF ids
<1>4. CASE c.k = "insert"
  <2>1. StepsOf(c) = InsertSteps(c.rows[1], TRUE)
    BY <1>4 DEF StepsOf
  <2>2. c.rows[1] \in Row
    BY <1>1, <1>4
  <2> QED BY <2>1, <2>2, InsertBlock DEF CallNames
<1>5. CASE c.k = "insert_batch"
  <2> DEFINE s == [i \in 1..n |-> InsertSteps(c.rows[i], FALSE)]
  <2>1. StepsOf(c) = FlattenSeq(s) \o <<Do("sync")>>
    BY <1>1, <1>5 DEF StepsOf
  <2>2. Len(s) = n
    OBVIOUS
  <2>3. \A i \in 1..n : /\ Block(s[i]) /\ Names(s[i]) \subseteq CallNames
                        /\ Touched(s[i]) = {} /\ Erased(s[i]) = {}
    <3> SUFFICES ASSUME NEW i \in 1..n
                 PROVE  /\ Block(s[i]) /\ Names(s[i]) \subseteq CallNames
                        /\ Touched(s[i]) = {} /\ Erased(s[i]) = {}
      OBVIOUS
    <3>1. s[i] = InsertSteps(c.rows[i], FALSE) /\ c.rows[i] \in Row
      BY <1>1, <1>5
    <3> HIDE DEF s
    <3> QED BY <3>1, InsertBlock DEF CallNames
  <2> HIDE DEF s
  <2>4. /\ Block(FlattenSeq(s) \o <<Do("sync")>>)
        /\ Names(FlattenSeq(s) \o <<Do("sync")>>) \subseteq CallNames
        /\ \A x \in Touched(FlattenSeq(s) \o <<Do("sync")>>) :
              \E i \in 1..n : x = ids[i] /\ ids[i] \in Touched(s[i])
    BY <1>2, <2>2, <2>3, FlattenBlock
  <2> QED BY <2>1, <2>3, <2>4
<1>6. CASE c.k \in {"erase", "erase_batch"}
  <2> DEFINE s == [i \in 1..n |-> EraseSteps(c.rows[i])]
  <2>1. StepsOf(c) = FlattenSeq(s) \o <<Do("sync")>>
    BY <1>1, <1>6 DEF StepsOf
  <2>2. Len(s) = n
    OBVIOUS
  <2>3. \A i \in 1..n : /\ Block(s[i]) /\ Names(s[i]) \subseteq CallNames
                        /\ Touched(s[i]) \subseteq {ids[i]} /\ Erased(s[i]) \subseteq {ids[i]}
    <3> SUFFICES ASSUME NEW i \in 1..n
                 PROVE  /\ Block(s[i]) /\ Names(s[i]) \subseteq CallNames
                        /\ Touched(s[i]) = {ids[i]} /\ Erased(s[i]) = {ids[i]}
      OBVIOUS
    <3>1. s[i] = <<Step("touch_row", ids[i], NoVal), Step("erase_row", ids[i], NoVal)>>
      BY <1>3 DEF EraseSteps
    <3> HIDE DEF s
    <3>2. ids[i] \in Ids /\ "erase_row" \in EraseNames
      BY <1>3 DEF EraseNames
    <3> QED BY <3>1, <3>2, EraseBlock DEF CallNames
  <2> HIDE DEF s
  <2>4. /\ Block(FlattenSeq(s) \o <<Do("sync")>>)
        /\ Names(FlattenSeq(s) \o <<Do("sync")>>) \subseteq CallNames
        /\ \A x \in Touched(FlattenSeq(s) \o <<Do("sync")>>) :
              \E i \in 1..n : x = ids[i] /\ ids[i] \in Touched(s[i])
    BY <1>2, <2>2, <2>3, FlattenBlock
  <2>5. \A i \in 1..n : index[ids[i]] # NoEntry
    BY <1>2, <1>6
  <2> QED BY <2>1, <2>4, <2>5
<1>7. CASE c.k \in {"update", "update_batch"}
  <2> DEFINE s == [i \in 1..n |-> EraseSteps(c.rows[i]) \o InsertSteps(c.rows[i], FALSE)]
  <2>1. StepsOf(c) = FlattenSeq(s) \o <<Do("sync")>>
    BY <1>1, <1>7 DEF StepsOf
  <2>2. Len(s) = n
    OBVIOUS
  <2>3. \A i \in 1..n : /\ Block(s[i]) /\ Names(s[i]) \subseteq CallNames
                        /\ Touched(s[i]) \subseteq {ids[i]} /\ Erased(s[i]) \subseteq {ids[i]}
    <3> SUFFICES ASSUME NEW i \in 1..n
                 PROVE  /\ Block(s[i]) /\ Names(s[i]) \subseteq CallNames
                        /\ Touched(s[i]) = {ids[i]} /\ Erased(s[i]) = {ids[i]}
      OBVIOUS
    <3> DEFINE a == EraseSteps(c.rows[i])
               b == InsertSteps(c.rows[i], FALSE)
    <3>1. s[i] = a \o b /\ c.rows[i] \in Row
      BY <1>1, <1>7
    <3> HIDE DEF s
    <3>2. a = <<Step("touch_row", ids[i], NoVal), Step("erase_row", ids[i], NoVal)>>
      BY <1>3 DEF EraseSteps
    <3>3. ids[i] \in Ids /\ "erase_row" \in EraseNames
      BY <1>3 DEF EraseNames
    <3>4. /\ Block(b) /\ Touched(b) = {} /\ Erased(b) = {}
          /\ Names(b) \subseteq {"touch_last", "append_row", "log_insert", "sync", "index_row"}
      BY <3>1, InsertBlock
    <3> HIDE DEF a, b
    <3>5. /\ Block(a) /\ Names(a) = {"touch_row", "erase_row"}
          /\ Touched(a) = {ids[i]} /\ Erased(a) = {ids[i]}
      BY <3>2, <3>3, EraseBlock
    <3>6. a \in Seq(StepType) /\ b \in Seq(StepType)
      BY <3>4, <3>5 DEF Block, StepsOK
    <3>7. Block(a \o b)
      <4>1. Erased(a) \cap Touched(b) = {} /\ Names(b) \cap FlushNames = {}
            /\ Names(a) \cap {"close_files", "opened"} = {} /\ Names(a) \cap ReplayNames = {}
        BY <3>4, <3>5 DEF FlushNames, ReplayNames
      <4> QED BY <3>4, <3>5, <4>1, ConcatBlock
    <3>8. /\ Names(a \o b) = Names(a) \cup Names(b) /\ Touched(a \o b) = Touched(a) \cup Touched(b)
          /\ Erased(a \o b) = Erased(a) \cup Erased(b)
      BY <3>6, ConcatNames
    <3> QED BY <3>1, <3>4, <3>5, <3>7, <3>8 DEF CallNames
  <2> HIDE DEF s
  <2>4. /\ Block(FlattenSeq(s) \o <<Do("sync")>>)
        /\ Names(FlattenSeq(s) \o <<Do("sync")>>) \subseteq CallNames
        /\ \A x \in Touched(FlattenSeq(s) \o <<Do("sync")>>) :
              \E i \in 1..n : x = ids[i] /\ ids[i] \in Touched(s[i])
    BY <1>2, <2>2, <2>3, FlattenBlock
  <2>5. \A i \in 1..n : index[ids[i]] # NoEntry
    BY <1>2, <1>7
  <2> QED BY <2>1, <2>4, <2>5
<1> QED BY <1>4, <1>5, <1>6, <1>7, CallFacts DEF Kinds
----------------------------------------------------------------------------
(* Steps that make a plan, and the end of calls *)

\* A new plan that starts on its own, while nothing else changes.
LEMMA PlanKeeps ==
    ASSUME EngineInv, Block(todo'), FlushReady', OpenReady',
           \A x \in Touched(todo') : index[x] # NoEntry,
           UNCHANGED <<count, disk, walFile, walBuf, offs, lru, cached, next, index, sec, open, mode>>
    PROVE  EngineInv'
<1>1. Pager' = Pager
  BY DEF Pager
<1>2. Types' /\ StepsOK(todo)' /\ PagerOK(Pager, next)' /\ CountOK' /\ Entries'
  BY <1>1 DEF EngineInv, Types, CountOK, Entries, Block
<1> DEFINE u == todo'
<1>3. Block(u) /\ u \in Seq(StepType)
  BY DEF Block, StepsOK
<1>4. u # <<>> => Len(u) > 0 /\ u[1].s \notin FollowNames
  <2> HIDE DEF u
  <2>1. u # <<>> => Len(u) > 0
    BY <1>3
  <2> QED BY <1>3, <2>1 DEF Block
<1>5. Len(u) > 1 => ~(u[1].s = "sync" /\ u[2].s = "index_row")
  BY <1>3 DEF Block
<1>6. AppendReady'
  BY <1>4, <1>5 DEF AppendReady, FollowNames
<1>7. EraseReady'
  <2>1. ASSUME NEW i \in 1..Len(u), u[i].s = "touch_row" PROVE index'[u[i].x] # NoEntry
    <3>1. u[i].x \in Touched(u)
      BY <2>1 DEF Touched
    <3> QED BY <3>1
  <2>2. u # <<>> => u[1].s \notin EraseNames
    BY <1>4 DEF FollowNames, EraseNames
  <2> QED BY <2>1, <2>2 DEF EraseReady
<1> QED BY <1>2, <1>6, <1>7 DEF EngineInv

LEMMA BeginKeeps ==
    ASSUME NEW c \in Calls PROVE EngineInv /\ Begin(c) => EngineInv'
<1> SUFFICES ASSUME EngineInv, Begin(c) PROVE EngineInv'
  OBVIOUS
<1>1. /\ CallOK(c) /\ todo' = StepsOf(c) /\ open
      /\ UNCHANGED <<count, disk, walFile, walBuf, offs, lru, cached, next, index, sec, open, mode>>
  BY DEF Begin, Idle, files
<1>2. /\ Block(todo') /\ Names(todo') \subseteq CallNames
      /\ \A x \in Touched(todo') : index[x] # NoEntry
  BY <1>1, CallBlock
<1>3. \A i \in 1..Len(todo') : todo'[i].s \notin {"visit_page", "flush_page", "write_header"}
  BY <1>2 DEF Names, CallNames
<1>4. FlushReady' /\ OpenReady'
  BY <1>1, <1>3 DEF FlushReady, OpenReady
<1> QED BY <1>1, <1>2, <1>4, PlanKeeps

\* The end of a call that could not write the log.
LEMMA LogFailsKeeps == EngineInv /\ LogFails => EngineInv'
<1> SUFFICES ASSUME EngineInv, LogFails PROVE EngineInv'
  OBVIOUS
<1>1. /\ todo' = <<>> /\ call # NoCall
      /\ UNCHANGED <<count, disk, walFile, walBuf, offs, lru, cached, next, index, sec, open, mode>>
  BY DEF LogFails, files
<1>2. open
  BY <1>1 DEF EngineInv, OpenReady
<1>3. Block(<<>>) /\ Touched(<<>>) = {}
  <2>1. <<>> \in Seq(StepType) /\ Len(<<>>) = 0
    OBVIOUS
  <2> QED BY <2>1 DEF Block, StepsOK, AppendShape, EraseShape, FlushShape, OpenShape, Touched
<1>4. FlushReady' /\ OpenReady'
  BY <1>1, <1>2 DEF FlushReady, OpenReady
<1> QED BY <1>1, <1>3, <1>4, PlanKeeps

\* Plans that end with one more step.
LEMMA ThenBlock ==
    ASSUME NEW t, Block(t), NEW s \in {"write_header", "clear_wal", "close_files", "set_index"},
           Names(t) \cap ({"close_files", "opened"} \cup ReplayNames) = {},
           s = "write_header" => Names(t) \subseteq {"flush_page"},
           Touched(t) = {}, Erased(t) = {}
    PROVE  LET u == t \o <<Do(s)>>
           IN  /\ Block(u) /\ Names(u) = Names(t) \cup {s} /\ Touched(u) = {} /\ Erased(u) = {}
               /\ Len(u) = Len(t) + 1 /\ Len(t) \in Nat /\ t \in Seq(StepType)
               /\ \A i \in 1..Len(t) : u[i] = t[i]
               /\ u[Len(t) + 1] = Do(s)
<1> DEFINE st == Do(s)
           w == <<st>>
<1>1. st \in StepType /\ st.s = s /\ st.s \notin FollowNames \cup RowNames
  BY DEF Do, Step, StepType, StepNames, FollowNames, RowNames
<1>2. Len(w) = 1 /\ w[1] = st
  OBVIOUS
<1> HIDE DEF st
<1>3. Block(w) /\ Names(w) = {s} /\ Touched(w) = {} /\ Erased(w) = {}
  BY <1>1, SingleBlock
<1> HIDE DEF w
<1>4. t \in Seq(StepType) /\ w \in Seq(StepType)
  BY <1>3 DEF Block, StepsOK
<1>5. Names(w) \cap FlushNames = {} \/ Names(t) \subseteq {"flush_page"}
  BY <1>3 DEF FlushNames
<1>6. Block(t \o w)
  BY <1>3, <1>5, ConcatBlock
<1>7. /\ Len(t \o w) = Len(t) + Len(w) /\ Len(t) \in Nat
      /\ \A i \in 1..Len(t) : (t \o w)[i] = t[i]
      /\ \A i \in 1..Len(w) : (t \o w)[Len(t) + i] = w[i]
      /\ Names(t \o w) = Names(t) \cup Names(w)
      /\ Touched(t \o w) = Touched(t) \cup Touched(w)
      /\ Erased(t \o w) = Erased(t) \cup Erased(w)
  BY <1>4, ConcatNames
<1>8. (t \o w)[Len(t) + 1] = st
  BY <1>2, <1>7
<1> QED BY <1>2, <1>3, <1>4, <1>6, <1>7, <1>8 DEF w, st

LEMMA CreateIndexKeeps == EngineInv /\ CreateIndex => EngineInv'
<1> SUFFICES ASSUME EngineInv, CreateIndex PROVE EngineInv'
  OBVIOUS
<1> DEFINE t == [i \in 1..next |-> Step("visit_page", i - 1, NoVal)]
<1>1. /\ todo' = t \o <<Do("set_index")>> /\ open
      /\ UNCHANGED <<count, disk, walFile, walBuf, offs, lru, cached, next, index, sec, open, mode>>
  BY DEF CreateIndex, Idle, files
<1>2. next \in Nat
  BY StepFacts
<1>3. /\ t \in Seq(StepType) /\ Len(t) = next
      /\ \A i \in 1..Len(t) : t[i].s = "visit_page" /\ t[i].x = i - 1
  BY <1>2 DEF Step, StepType, StepNames
<1> HIDE DEF t
<1>4. Block(t) /\ Names(t) \subseteq {"visit_page"} /\ Touched(t) = {} /\ Erased(t) = {}
  BY <1>3, PagesBlock
<1>5. Names(t) \cap ({"close_files", "opened"} \cup ReplayNames) = {}
  BY <1>4 DEF ReplayNames
<1>6. /\ Block(todo') /\ Touched(todo') = {} /\ Len(todo') = next + 1
      /\ \A i \in 1..next : todo'[i] = t[i]
      /\ todo'[next + 1] = Do("set_index")
  BY <1>1, <1>3, <1>4, <1>5, ThenBlock
<1>7. \A i \in 1..Len(todo') : \/ todo'[i].s = "visit_page" /\ todo'[i].x \in 0..next - 1
                               \/ todo'[i].s = "set_index"
  <2> SUFFICES ASSUME NEW i \in 1..Len(todo')
               PROVE  \/ todo'[i].s = "visit_page" /\ todo'[i].x \in 0..next - 1
                      \/ todo'[i].s = "set_index"
    OBVIOUS
  <2>1. CASE i \in 1..next
    BY <1>2, <1>3, <1>6, <2>1
  <2>2. CASE i = next + 1
    BY <1>6, <2>2 DEF Do, Step
  <2> QED BY <1>2, <1>6, <2>1, <2>2
<1>8. FlushReady' /\ OpenReady'
  BY <1>1, <1>7 DEF FlushReady, OpenReady
<1> QED BY <1>1, <1>6, <1>8, PlanKeeps

\* The plan of flush_all holds the dirty pages, and the header comes after them.
LEMMA FlushBlock ==
    ASSUME EngineInv, NEW order \in FlushOrders
    PROVE  LET t == CheckpointSteps(order)
           IN  /\ Block(t) /\ Touched(t) = {} /\ Erased(t) = {}
               /\ Names(t) \subseteq {"flush_page", "write_header", "clear_wal"}
               /\ Len(t) \in Nat /\ Len(t) > 1
               /\ \A i \in 1..Len(t) - 2 : t[i].s = "flush_page"
               /\ t[Len(t) - 1].s = "write_header" /\ t[Len(t)].s = "clear_wal"
               /\ \A i \in 1..Len(t) :
                    /\ t[i].s = "flush_page" => t[i].x \in DOMAIN cached
                    /\ t[i].s = "write_header" =>
                         \A pid \in Dirty : \E j \in 1..Len(t) : j < i /\ t[j].x = pid
<1> DEFINE n == Cardinality(Dirty)
           f == [i \in DOMAIN order |-> Step("flush_page", order[i], NoVal)]
           h == f \o <<Do("write_header")>>
           t == CheckpointSteps(order)
<1>1. order \in [1..n -> Dirty] /\ ToSet(order) = Dirty
  BY DEF FlushOrders
<1>2. t = h \o <<Do("clear_wal")>>
  BY DEF CheckpointSteps, FlushAll
<1>3. Dirty \subseteq DOMAIN cached /\ Dirty \subseteq Nat
  <2>1. DOMAIN cached \subseteq Nat
    BY StepFacts, ToSetFacts DEF PagerOK, PagerShape
  <2> QED BY <2>1 DEF Dirty
<1>4. n \in Nat
  <2>1. IsFiniteSet(ToSet(lru))
    <3>1. lru \in Seq(Nat) /\ Once(lru)
      BY StepFacts DEF PagerOK, PagerShape
    <3> QED BY <3>1, OnceCardinality
  <2>2. Dirty \subseteq ToSet(lru)
    BY <1>3, StepFacts DEF PagerOK, PagerShape
  <2>3. IsFiniteSet(Dirty)
    BY <2>1, <2>2, FS_Subset
  <2> QED BY <2>3, FS_CardinalityType
<1> HIDE DEF n
<1>5. /\ f \in Seq(StepType) /\ Len(f) = n
      /\ \A i \in 1..n : f[i].s = "flush_page" /\ f[i].x = order[i]
  <2>1. f = [i \in 1..n |-> Step("flush_page", order[i], NoVal)]
    BY <1>1
  <2>2. \A i \in 1..n : order[i] \in Nat
    BY <1>1, <1>3
  <2>3. \A i \in 1..n : Step("flush_page", order[i], NoVal) \in StepType
    BY <2>2 DEF Step, StepType, StepNames
  <2> QED BY <1>4, <2>1, <2>3 DEF Step
<1> HIDE DEF f
<1>6. Block(f) /\ Names(f) \subseteq {"flush_page"} /\ Touched(f) = {} /\ Erased(f) = {}
  BY <1>5, PagesBlock
<1>7. /\ Block(h) /\ Names(h) = Names(f) \cup {"write_header"} /\ Touched(h) = {} /\ Erased(h) = {}
      /\ Len(h) = n + 1
      /\ \A i \in 1..n : h[i] = f[i]
      /\ h[n + 1] = Do("write_header")
  <2>1. Names(f) \cap ({"close_files", "opened"} \cup ReplayNames) = {}
    BY <1>6 DEF ReplayNames
  <2> QED BY <1>5, <1>6, <2>1, ThenBlock
<1> HIDE DEF h
<1>8. /\ Block(t) /\ Names(t) = Names(h) \cup {"clear_wal"} /\ Touched(t) = {} /\ Erased(t) = {}
      /\ Len(t) = (n + 1) + 1
      /\ \A i \in 1..n + 1 : t[i] = h[i]
      /\ t[(n + 1) + 1] = Do("clear_wal")
  <2>1. Names(h) \cap ({"close_files", "opened"} \cup ReplayNames) = {}
    BY <1>6, <1>7 DEF ReplayNames
  <2>2. "clear_wal" \in {"write_header", "clear_wal", "close_files", "set_index"}
    OBVIOUS
  <2> HIDE DEF t
  <2>3. /\ Block(h \o <<Do("clear_wal")>>) /\ Names(h \o <<Do("clear_wal")>>) = Names(h) \cup {"clear_wal"}
        /\ Touched(h \o <<Do("clear_wal")>>) = {} /\ Erased(h \o <<Do("clear_wal")>>) = {}
        /\ Len(h \o <<Do("clear_wal")>>) = Len(h) + 1
        /\ \A i \in 1..Len(h) : (h \o <<Do("clear_wal")>>)[i] = h[i]
        /\ (h \o <<Do("clear_wal")>>)[Len(h) + 1] = Do("clear_wal")
    BY <1>7, <2>1, <2>2, ThenBlock
  <2> QED BY <1>2, <1>7, <2>3
<1> HIDE DEF t
<1>9. Names(t) \subseteq {"flush_page", "write_header", "clear_wal"} /\ Len(t) \in Nat
  BY <1>4, <1>6, <1>7, <1>8
<1>10. /\ \A i \in 1..n : t[i].s = "flush_page" /\ t[i].x = order[i]
       /\ t[n + 1].s = "write_header" /\ t[n + 2].s = "clear_wal"
       /\ Len(t) = n + 2
  <2>1. \A i \in 1..n : i \in 1..n + 1 /\ t[i] = f[i]
    BY <1>4, <1>7, <1>8
  <2>2. t[n + 1] = Do("write_header") /\ n + 2 = (n + 1) + 1
    BY <1>4, <1>7, <1>8
  <2> QED BY <1>4, <1>5, <1>8, <2>1, <2>2 DEF Do, Step
<1>11. ASSUME NEW i \in 1..Len(t)
       PROVE  /\ t[i].s = "flush_page" => t[i].x \in DOMAIN cached
              /\ t[i].s = "write_header" =>
                   \A pid \in Dirty : \E j \in 1..Len(t) : j < i /\ t[j].x = pid
  <2>1. CASE i \in 1..n
    BY <1>1, <1>3, <1>10, <2>1
  <2>2. CASE i = n + 1
    <3> SUFFICES ASSUME NEW pid \in Dirty PROVE \E j \in 1..Len(t) : j < i /\ t[j].x = pid
      BY <1>10, <2>2
    <3>1. PICK j \in 1..n : order[j] = pid
      BY <1>1 DEF ToSet
    <3>2. j \in 1..Len(t) /\ j < i
      BY <1>4, <1>10, <2>2
    <3> QED BY <1>10, <3>1, <3>2
  <2>3. CASE i = n + 2
    BY <1>10, <2>3
  <2> QED BY <1>4, <1>10, <2>1, <2>2, <2>3
<1>12. /\ Len(t) > 1 /\ \A i \in 1..Len(t) - 2 : t[i].s = "flush_page"
       /\ t[Len(t) - 1].s = "write_header" /\ t[Len(t)].s = "clear_wal"
  <2>1. Len(t) - 2 = n /\ Len(t) - 1 = n + 1 /\ Len(t) > 1
    BY <1>4, <1>10
  <2> QED BY <1>10, <2>1
<1> QED BY <1>8, <1>9, <1>11, <1>12 DEF t

LEMMA CheckpointKeeps == EngineInv /\ Checkpoint => EngineInv'
<1> SUFFICES ASSUME EngineInv, Checkpoint PROVE EngineInv'
  OBVIOUS
<1>1. PICK order \in FlushOrders : todo' = CheckpointSteps(order)
  BY DEF Checkpoint
<1>2. /\ open
      /\ UNCHANGED <<count, disk, walFile, walBuf, offs, lru, cached, next, index, sec, open, mode>>
  BY DEF Checkpoint, Idle, files
<1>3. /\ Block(todo') /\ Touched(todo') = {}
      /\ Names(todo') \subseteq {"flush_page", "write_header", "clear_wal"}
      /\ \A i \in 1..Len(todo') :
           /\ todo'[i].s = "flush_page" => todo'[i].x \in DOMAIN cached
           /\ todo'[i].s = "write_header" =>
                \A pid \in Dirty : \E j \in 1..Len(todo') : j < i /\ todo'[j].x = pid
  BY <1>1, FlushBlock
<1>4. \A i \in 1..Len(todo') : todo'[i].s # "visit_page"
  BY <1>3 DEF Names
<1>5. Dirty' = Dirty
  BY <1>2 DEF Dirty
<1>6. FlushReady' /\ OpenReady'
  BY <1>2, <1>3, <1>4, <1>5 DEF FlushReady, OpenReady
<1> QED BY <1>2, <1>3, <1>6, PlanKeeps

LEMMA CloseKeeps == EngineInv /\ Close => EngineInv'
<1> SUFFICES ASSUME EngineInv, Close PROVE EngineInv'
  OBVIOUS
<1>1. PICK order \in FlushOrders : todo' = CheckpointSteps(order) \o <<Do("close_files")>>
  BY DEF Close
<1>2. /\ open
      /\ UNCHANGED <<count, disk, walFile, walBuf, offs, lru, cached, next, index, sec, open, mode>>
  BY DEF Close, Idle, files
<1> DEFINE t == CheckpointSteps(order)
<1>3. /\ Block(t) /\ Touched(t) = {} /\ Erased(t) = {} /\ Len(t) \in Nat
      /\ Names(t) \subseteq {"flush_page", "write_header", "clear_wal"}
      /\ \A i \in 1..Len(t) :
           /\ t[i].s = "flush_page" => t[i].x \in DOMAIN cached
           /\ t[i].s = "write_header" =>
                \A pid \in Dirty : \E j \in 1..Len(t) : j < i /\ t[j].x = pid
  BY FlushBlock
<1> HIDE DEF t
<1>4. todo' = t \o <<Do("close_files")>>
  BY <1>1 DEF t
<1>5. Names(t) \cap ({"close_files", "opened"} \cup ReplayNames) = {}
  BY <1>3 DEF ReplayNames
<1>6. /\ Block(todo') /\ Touched(todo') = {} /\ Len(todo') = Len(t) + 1
      /\ \A i \in 1..Len(t) : todo'[i] = t[i]
      /\ todo'[Len(t) + 1] = Do("close_files")
  BY <1>3, <1>4, <1>5, ThenBlock
<1>7. ASSUME NEW i \in 1..Len(todo')
      PROVE  /\ todo'[i].s # "visit_page"
             /\ todo'[i].s = "flush_page" => todo'[i].x \in DOMAIN cached
             /\ todo'[i].s = "write_header" =>
                  \A pid \in Dirty : \E j \in 1..Len(todo') : j < i /\ todo'[j].x = pid
  <2>1. CASE i \in 1..Len(t)
    <3>1. todo'[i] = t[i] /\ t[i].s \in Names(t)
      BY <1>6, <2>1 DEF Names
    <3>2. ASSUME t[i].s = "write_header", NEW pid \in Dirty
          PROVE  \E j \in 1..Len(todo') : j < i /\ todo'[j].x = pid
      <4>1. PICK j \in 1..Len(t) : j < i /\ t[j].x = pid
        BY <1>3, <2>1, <3>2
      <4>2. j \in 1..Len(todo') /\ todo'[j] = t[j]
        BY <1>3, <1>6
      <4> QED BY <4>1, <4>2
    <3> QED BY <1>3, <2>1, <3>1, <3>2
  <2>2. CASE i = Len(t) + 1
    BY <1>6, <2>2 DEF Do, Step
  <2> QED BY <1>3, <1>6, <2>1, <2>2
<1>8. Dirty' = Dirty
  BY <1>2 DEF Dirty
<1>9. FlushReady' /\ OpenReady'
  BY <1>2, <1>7, <1>8 DEF FlushReady, OpenReady
<1> QED BY <1>2, <1>6, <1>9, PlanKeeps
----------------------------------------------------------------------------
(* open() and close() *)

\* The plan without steps.
LEMMA EmptyBlock ==
    Block(<<>>) /\ Names(<<>>) = {} /\ Touched(<<>>) = {} /\ Erased(<<>>) = {} /\ StepsOK(<<>>)
<1>1. <<>> \in Seq(StepType) /\ Len(<<>>) = 0
  OBVIOUS
<1>2. StepsOK(<<>>)
  BY <1>1 DEF StepsOK, AppendShape, EraseShape, FlushShape, OpenShape
<1> QED BY <1>1, <1>2 DEF Block, Names, Touched, Erased

\* Nothing is pending after a step that leaves no steps.
LEMMA NothingPending ==
    ASSUME todo' = <<>>
    PROVE  StepsOK(todo)' /\ AppendReady' /\ EraseReady' /\ FlushReady'
<1>1. Len(todo') = 0 /\ 1..Len(todo') = {}
  OBVIOUS
<1> QED BY <1>1, EmptyBlock DEF AppendReady, EraseReady, FlushReady

\* An empty cache: the pages are those with an offset.
LEMMA EmptyPager ==
    ASSUME NEW p, NEW n \in Nat,
           p = [disk |-> p.disk, offs |-> p.offs, lru |-> p.lru, cached |-> p.cached, cap |-> p.cap],
           p.disk \in [DOMAIN p.disk -> Seq(Row)], DOMAIN p.disk \in SUBSET Nat,
           p.lru = <<>>, p.cached = <<>>, p.cap \in Nat \ {0},
           p.offs \in SUBSET DOMAIN p.disk, p.offs = 0..n - 1
    PROVE  PagerOK(p, n)
<1>1. p.lru \in Seq(Nat) /\ Len(p.lru) = 0
  OBVIOUS
<1>2. ToSet(p.lru) = {} /\ Once(p.lru)
  <2>1. DOMAIN p.lru = 1..0 /\ 1..0 = {}
    BY <1>1
  <2> QED BY <1>1, <2>1 DEF ToSet, Once
<1>3. DOMAIN p.cached = {} /\ p.cached \in [{} -> PageT]
  <2>1. p.cached \in Seq(PageT) /\ Len(p.cached) = 0
    OBVIOUS
  <2>2. DOMAIN p.cached = 1..0 /\ 1..0 = {}
    BY <2>1
  <2>3. p.cached = [i \in {} |-> p.cached[i]]
    BY <2>1, <2>2
  <2> QED BY <2>2, <2>3
<1>4. PagerShape(p)
  BY <1>1, <1>2, <1>3 DEF PagerShape
<1> QED BY <1>3, <1>4 DEF PagerOK

LEMMA ForgetKeeps ==
    ASSUME EngineInv, Forget, todo' = <<>>, call' = NoCall PROVE EngineInv'
<1>1. /\ walBuf' = <<>> /\ offs' = {} /\ lru' = <<>> /\ cached' = <<>> /\ next' = 0
      /\ index' = [id \in Ids |-> NoEntry] /\ sec' = NoIndex /\ open' = FALSE
      /\ UNCHANGED <<count, disk, walFile, mode>>
  BY DEF Forget, files
<1>2. Types'
  <2>1. <<>> \in Seq(LogRecord) /\ 0 \in Nat
    OBVIOUS
  <2> QED BY <1>1, <2>1 DEF EngineInv, Types
<1>3. PagerOK(Pager', 0)
  <2> DEFINE p == Pager'
  <2>1. /\ p = [disk |-> p.disk, offs |-> p.offs, lru |-> p.lru, cached |-> p.cached, cap |-> p.cap]
        /\ p.disk = disk /\ p.offs = {} /\ p.lru = <<>> /\ p.cached = <<>> /\ p.cap = mode.cap
    BY <1>1 DEF Pager
  <2>2. disk \in [DOMAIN disk -> Seq(Row)] /\ DOMAIN disk \in SUBSET Nat /\ mode.cap \in Nat \ {0}
    BY StepFacts DEF PagerOK, PagerShape
  <2>3. {} = 0..0 - 1 /\ {} \in SUBSET DOMAIN disk
    OBVIOUS
  <2> HIDE DEF p
  <2>4. PagerOK(p, 0)
    BY <2>1, <2>2, <2>3, EmptyPager
  <2> QED BY <2>4 DEF p
<1>4. CountOK' /\ Entries' /\ OpenReady'
  BY <1>1 DEF EngineInv, CountOK, Entries, OpenReady
<1>5. StepsOK(todo)' /\ AppendReady' /\ EraseReady' /\ FlushReady'
  BY NothingPending
<1> QED BY <1>1, <1>2, <1>3, <1>4, <1>5 DEF EngineInv

LEMMA CrashKeeps == EngineInv /\ Crash => EngineInv'
BY ForgetKeeps DEF Crash

\* The steps that open or close the database are the last ones.
LEMMA LastStep ==
    ASSUME EngineInv, todo # <<>>, todo[1].s \in {"close_files", "opened"}, Done
    PROVE  todo' = <<>> /\ call' = NoCall
<1>1. StepsOK(todo) /\ Len(todo) \in Nat \ {0}
  BY StepFacts DEF EngineInv
<1>2. Len(todo) = 1
  <2>1. 1 \in 1..Len(todo)
    BY <1>1
  <2> QED BY <1>1, <2>1 DEF StepsOK, OpenShape
<1>3. Len(Tail(todo)) = 0 /\ Tail(todo) \in Seq(StepType)
  BY <1>1, <1>2, TailFacts DEF StepsOK
<1>4. Tail(todo) = <<>>
  <2> DEFINE u == Tail(todo)
  <2> HIDE DEF u
  <2>1. u \in Seq(StepType) /\ Len(u) = 0
    BY <1>3 DEF u
  <2>2. u = <<>>
    BY <2>1
  <2> QED BY <2>2 DEF u
<1> QED BY <1>2, <1>4 DEF Done

LEMMA CloseFilesKeeps == EngineInv /\ CloseFiles => EngineInv'
<1> SUFFICES ASSUME EngineInv, CloseFiles PROVE EngineInv'
  OBVIOUS
<1>1. todo # <<>> /\ todo[1].s = "close_files" /\ Done /\ Forget
  BY StepFacts DEF CloseFiles, IsNext
<1> QED BY <1>1, LastStep, ForgetKeeps

LEMMA OpenedKeeps == EngineInv /\ Opened => EngineInv'
<1> SUFFICES ASSUME EngineInv, Opened PROVE EngineInv'
  OBVIOUS
<1>1. /\ todo # <<>> /\ todo[1].s = "opened" /\ Done /\ open' = TRUE
      /\ UNCHANGED <<count, disk, walFile, walBuf, offs, lru, cached, next, index, sec, mode>>
  BY StepFacts DEF Opened, IsNext, files
<1>2. todo' = <<>> /\ call' = NoCall
  BY <1>1, LastStep
<1>3. Pager' = Pager
  BY <1>1 DEF Pager
<1>4. Types' /\ PagerOK(Pager, next)' /\ CountOK' /\ Entries' /\ OpenReady'
  BY <1>1, <1>2, <1>3 DEF EngineInv, Types, CountOK, Entries, OpenReady
<1>5. StepsOK(todo)' /\ AppendReady' /\ EraseReady' /\ FlushReady'
  BY <1>2, NothingPending
<1> QED BY <1>4, <1>5 DEF EngineInv
RedoNames == {"touch_last", "append_row", "index_row", "touch_row", "unindex"}

\* A record of the log is replaced by the steps that redo it.
LEMMA RedoKeeps ==
    ASSUME EngineInv, todo # <<>>, todo[1].s \in {"replay_insert", "replay_delete"},
           NEW a, Block(a), Names(a) \subseteq RedoNames,
           \A x \in Touched(a) : index[x] # NoEntry,
           todo' = a \o Tail(todo),
           UNCHANGED <<count, disk, walFile, walBuf, offs, lru, cached, next, index, sec, open, call, mode>>
    PROVE  EngineInv'
<1> DEFINE t == todo
           b == Tail(todo)
<1>1. StepsOK(t) /\ t # <<>> /\ t[1].s \in {"replay_insert", "replay_delete"}
  BY DEF EngineInv
<1>2. /\ StepsOK(b) /\ Len(b) = Len(t) - 1 /\ Len(t) \in Nat \ {0}
      /\ \A i \in 1..Len(t) - 1 : b[i] = t[i + 1]
  BY <1>1, TailFacts
<1>3. todo' = a \o b
  OBVIOUS
<1> HIDE DEF b
<1>4. \A i \in 1..Len(b) : b[i].s \in ReplayNames
  <2> SUFFICES ASSUME NEW i \in 1..Len(b) PROVE b[i].s \in ReplayNames
    OBVIOUS
  <2>1. b[i] = t[i + 1] /\ i + 1 \in 1..Len(t) /\ 1 \in 1..Len(t) /\ 1 < i + 1
    BY <1>2
  <2>2. t[1].s \in ReplayNames
    BY <1>1 DEF ReplayNames
  <2>3. \A j \in 1..Len(t) : 1 < j => t[j].s \in ReplayNames
    BY <1>1, <2>1, <2>2 DEF StepsOK, OpenShape
  <2> QED BY <2>1, <2>3
<1>5. Names(b) \subseteq ReplayNames /\ Touched(b) = {} /\ Erased(b) = {}
  BY <1>4 DEF Names, Touched, Erased, ReplayNames, EraseNames
<1>6. Block(b)
  <2>1. Len(b) > 0 => b[1].s \in ReplayNames
    BY <1>2, <1>4
  <2> QED BY <1>2, <2>1 DEF Block, ReplayNames, FollowNames
<1>7. Block(todo')
  <2>1. /\ Erased(a) \cap Touched(b) = {} /\ Names(b) \cap FlushNames = {}
        /\ Names(a) \cap {"close_files", "opened"} = {}
    BY <1>5 DEF FlushNames, ReplayNames, RedoNames
  <2> QED BY <1>3, <1>5, <1>6, <2>1, ConcatBlock
<1>8. a \in Seq(StepType) /\ b \in Seq(StepType)
  BY <1>6 DEF Block, StepsOK
<1>9. /\ Names(todo') = Names(a) \cup Names(b) /\ Touched(todo') = Touched(a) \cup Touched(b)
      /\ Len(todo') = Len(a) + Len(b) /\ Len(a) \in Nat /\ Len(b) \in Nat
      /\ \A i \in 1..Len(b) : todo'[Len(a) + i] = b[i]
  <2> DEFINE c == a \o b
  <2>1. /\ Names(c) = Names(a) \cup Names(b) /\ Touched(c) = Touched(a) \cup Touched(b)
        /\ Len(c) = Len(a) + Len(b) /\ Len(a) \in Nat /\ Len(b) \in Nat
        /\ \A i \in 1..Len(b) : c[Len(a) + i] = b[i]
    BY <1>8, ConcatNames
  <2>2. todo' = c
    BY <1>3
  <2> HIDE DEF c
  <2> QED BY <2>1, <2>2
<1>10. FlushReady'
  <2>1. \A i \in 1..Len(todo') : todo'[i].s \in RedoNames \cup ReplayNames
    BY <1>5, <1>9 DEF Names
  <2> QED BY <2>1 DEF FlushReady, RedoNames, ReplayNames
<1>11. OpenReady'
  <2>1. CASE open
    BY <2>1 DEF OpenReady
  <2>2. CASE ~open
    <3>1. t[Len(t)].s = "opened"
      BY <1>1, <2>2 DEF EngineInv, OpenReady
    <3>2. Len(t) > 1
      BY <1>1, <1>2, <3>1
    <3>3. Len(b) \in 1..Len(b) /\ Len(b) + 1 = Len(t) /\ Len(b) \in 1..Len(t) - 1
      BY <1>2, <3>2
    <3>4. todo'[Len(todo')].s = "opened" /\ Len(todo') > 0
      BY <1>2, <1>9, <3>1, <3>3
    <3>5. call = NoCall
      BY <2>2 DEF EngineInv, OpenReady
    <3>6. todo' # <<>>
      BY <3>4
    <3> QED BY <2>2, <3>4, <3>5, <3>6 DEF OpenReady
  <2> QED BY <2>1, <2>2
<1>12. \A x \in Touched(todo') : index[x] # NoEntry
  BY <1>5, <1>9
<1> QED BY <1>7, <1>10, <1>11, <1>12, PlanKeeps

LEMMA ReplayInsertKeeps == EngineInv /\ ReplayInsert => EngineInv'
<1> SUFFICES ASSUME EngineInv, ReplayInsert PROVE EngineInv'
  OBVIOUS
<1> DEFINE x == todo[1].x
           v == todo[1].v
           a == ReplayInsertSteps(x, v)
<1>1. /\ todo # <<>> /\ todo[1].s = "replay_insert" /\ x \in Ids /\ v \in Vals
      /\ todo' = a \o Tail(todo)
      /\ UNCHANGED <<count, disk, walFile, walBuf, offs, lru, cached, next, index, sec, open, call, mode>>
  BY StepFacts DEF ReplayInsert, IsNext, RowNames, ValueNames, files
<1>2. Block(a) /\ Names(a) \subseteq RedoNames /\ \A y \in Touched(a) : index[y] # NoEntry
  <2>1. CASE index[x] # NoEntry
    <3>1. a = <<>>
      BY <2>1 DEF ReplayInsertSteps
    <3> HIDE DEF a
    <3> QED BY <3>1, EmptyBlock
  <2>2. CASE index[x] = NoEntry
    <3>1. a = <<Do("touch_last"), Step("append_row", x, v), Step("index_row", x, v)>>
      BY <2>2 DEF ReplayInsertSteps
    <3> HIDE DEF a, x, v
    <3>2. Block(a) /\ Names(a) \subseteq {"touch_last", "append_row", "index_row"} /\ Touched(a) = {}
      BY <1>1, <3>1, ReplayInsertBlock
    <3> QED BY <3>2 DEF RedoNames
  <2> QED BY <2>1, <2>2
<1> HIDE DEF a
<1> QED BY <1>1, <1>2, RedoKeeps

LEMMA ReplayDeleteKeeps == EngineInv /\ ReplayDelete => EngineInv'
<1> SUFFICES ASSUME EngineInv, ReplayDelete PROVE EngineInv'
  OBVIOUS
<1> DEFINE x == todo[1].x
           a == IF index[x] = NoEntry THEN <<>>
                ELSE <<Step("touch_row", x, NoVal), Step("unindex", x, NoVal)>>
<1>1. /\ todo # <<>> /\ todo[1].s = "replay_delete" /\ x \in Ids
      /\ todo' = a \o Tail(todo)
      /\ UNCHANGED <<count, disk, walFile, walBuf, offs, lru, cached, next, index, sec, open, call, mode>>
  BY StepFacts DEF ReplayDelete, IsNext, RowNames, files
<1>2. Block(a) /\ Names(a) \subseteq RedoNames /\ \A y \in Touched(a) : index[y] # NoEntry
  <2>1. CASE index[x] = NoEntry
    <3>1. a = <<>>
      BY <2>1
    <3> HIDE DEF a
    <3> QED BY <3>1, EmptyBlock
  <2>2. CASE index[x] # NoEntry
    <3>1. a = <<Step("touch_row", x, NoVal), Step("unindex", x, NoVal)>>
      BY <2>2
    <3>2. "unindex" \in EraseNames
      BY DEF EraseNames
    <3> HIDE DEF a, x
    <3>3. Block(a) /\ Names(a) = {"touch_row", "unindex"} /\ Touched(a) = {x}
      BY <1>1, <3>1, <3>2, EraseBlock
    <3> QED BY <2>2, <3>3 DEF RedoNames
  <2> QED BY <2>1, <2>2
<1> HIDE DEF a
<1> QED BY <1>1, <1>2, RedoKeeps

\* The plan of replay_wal: one step for each record.
LEMMA ReplayBlock ==
    ASSUME EngineInv
    PROVE  LET t == ReplaySteps \o <<Do("opened")>>
           IN  /\ Block(t) /\ Names(t) \subseteq ReplayNames /\ Touched(t) = {}
               /\ Len(t) \in Nat \ {0} /\ t[Len(t)].s = "opened"
<1> DEFINE r == ReplaySteps
           n == Len(walFile)
           w == <<Do("opened")>>
<1>1. walFile \in Seq(LogRecord) /\ n \in Nat /\ DOMAIN walFile = 1..n
  BY DEF EngineInv, Types
<1>2. r = [i \in 1..n |-> IF walFile[i].t = "INSERT"
                          THEN Step("replay_insert", walFile[i].id, walFile[i].val)
                          ELSE Step("replay_delete", walFile[i].id, NoVal)]
  BY <1>1 DEF ReplaySteps
<1>3. ASSUME NEW i \in 1..n
      PROVE  /\ r[i] \in StepType /\ r[i].s \in {"replay_insert", "replay_delete"} /\ r[i].x \in Ids
             /\ r[i].s = "replay_insert" => r[i].v \in Vals
  <2>1. walFile[i] \in LogRecord
    BY <1>1
  <2>2. /\ walFile[i].id \in Ids /\ walFile[i].val \in Vals \cup {NoVal}
        /\ walFile[i].t = "INSERT" => walFile[i].val \in Vals
    BY <2>1 DEF LogRecord, Record
  <2>3. r[i] = IF walFile[i].t = "INSERT"
               THEN Step("replay_insert", walFile[i].id, walFile[i].val)
               ELSE Step("replay_delete", walFile[i].id, NoVal)
    BY <1>2
  <2> HIDE DEF r
  <2>4. CASE walFile[i].t = "INSERT"
    BY <2>2, <2>3, <2>4 DEF Step, StepType, StepNames
  <2>5. CASE walFile[i].t # "INSERT"
    BY <2>2, <2>3, <2>5 DEF Step, StepType, StepNames
  <2> QED BY <2>4, <2>5
<1>4. r \in Seq(StepType) /\ Len(r) = n
  <2>1. r = [i \in 1..n |-> r[i]]
    BY <1>2
  <2> HIDE DEF r
  <2> QED BY <1>1, <1>3, <2>1
<1> HIDE DEF r
<1>5. StepsOK(r)
  <2>1. \A i \in 1..Len(r) : r[i].s \in {"replay_insert", "replay_delete"} /\ r[i].x \in Ids
                             /\ (r[i].s = "replay_insert" => r[i].v \in Vals)
    BY <1>3, <1>4
  <2>2. \A i \in 2..Len(r) : i \in 1..Len(r)
    BY <1>1, <1>4
  <2>3. AppendShape(r)
    BY <2>1, <2>2 DEF AppendShape
  <2>4. EraseShape(r) /\ FlushShape(r) /\ OpenShape(r)
    BY <2>1, <2>2 DEF EraseShape, FlushShape, OpenShape, EraseNames, FlushNames, ReplayNames
  <2> QED BY <1>4, <2>1, <2>3, <2>4 DEF StepsOK, RowNames, ValueNames
<1>6. Block(r)
  <2>1. Len(r) > 0 => r[1].s \in {"replay_insert", "replay_delete"}
    BY <1>1, <1>3, <1>4
  <2> QED BY <1>5, <2>1 DEF Block, FollowNames
<1>7. Names(r) \subseteq {"replay_insert", "replay_delete"} /\ Touched(r) = {} /\ Erased(r) = {}
  BY <1>3, <1>4 DEF Names, Touched, Erased, EraseNames
<1>8. Len(w) = 1 /\ w[1].s = "opened" /\ Block(w) /\ Names(w) = {"opened"} /\ Touched(w) = {}
  <2> DEFINE st == Do("opened")
  <2>1. st \in StepType /\ st.s = "opened" /\ st.s \notin FollowNames \cup RowNames
    BY DEF Do, Step, StepType, StepNames, FollowNames, RowNames
  <2>2. Len(w) = 1 /\ w[1] = st
    OBVIOUS
  <2> HIDE DEF st
  <2>3. Block(w) /\ Names(w) = {st.s} /\ Touched(w) = {}
    BY <2>1, SingleBlock DEF st
  <2> QED BY <2>1, <2>2, <2>3
<1> HIDE DEF w
<1>9. Block(r \o w)
  <2>1. /\ Erased(r) \cap Touched(w) = {} /\ Names(w) \cap FlushNames = {}
        /\ Names(r) \cap {"close_files", "opened"} = {} /\ Names(w) \subseteq ReplayNames
    BY <1>7, <1>8 DEF FlushNames, ReplayNames
  <2> QED BY <1>6, <1>8, <2>1, ConcatBlock
<1>10. w \in Seq(StepType)
  BY <1>8 DEF Block, StepsOK
<1>11. /\ Names(r \o w) = Names(r) \cup Names(w) /\ Touched(r \o w) = Touched(r) \cup Touched(w)
       /\ Len(r \o w) = Len(r) + Len(w)
       /\ \A i \in 1..Len(w) : (r \o w)[Len(r) + i] = w[i]
  BY <1>4, <1>10, ConcatNames
<1>12. Len(r \o w) \in Nat \ {0} /\ (r \o w)[Len(r \o w)].s = "opened"
  BY <1>1, <1>4, <1>8, <1>11
<1>13. Names(r \o w) \subseteq ReplayNames /\ Touched(r \o w) = {}
  BY <1>7, <1>8, <1>11 DEF ReplayNames
<1> QED BY <1>9, <1>12, <1>13 DEF r, w

\* recover() finds the pages the header counts, all of them, and indexes a row of them.
LEMMA RecoverFacts ==
    ASSUME EngineInv
    PROVE  /\ ValidPages = 0..count - 1 /\ count \in Nat
           /\ (IF ValidPages = {} THEN 0 ELSE Max(ValidPages) + 1) = count
           /\ \A id \in Ids : RecoveredEntry(id) # NoEntry =>
                 /\ RecoveredEntry(id) \in Entry /\ RecoveredEntry(id).page \in 0..count - 1
                 /\ RecoveredEntry(id).slot \in 1..Len(disk[RecoveredEntry(id).page])
                 /\ disk[RecoveredEntry(id).page][RecoveredEntry(id).slot].id = id
<1>1. /\ count \in Nat /\ 0..count - 1 \subseteq DOMAIN disk
      /\ DOMAIN disk \subseteq Nat /\ \A pid \in DOMAIN disk : disk[pid] \in Seq(Row)
  BY StepFacts DEF EngineInv, CountOK, PagerOK, PagerShape
<1>2. ValidPages = 0..count - 1
  BY <1>1 DEF ValidPages
<1>3. (IF ValidPages = {} THEN 0 ELSE Max(ValidPages) + 1) = count
  <2>1. CASE count = 0
    <3>1. ValidPages = {}
      BY <1>2, <2>1
    <3> QED BY <2>1, <3>1
  <2>2. CASE count > 0
    <3>1. Max(0..count - 1) = count - 1 /\ 0 \in 0..count - 1
      BY <1>1, <2>2, MaxFacts
    <3>2. ValidPages # {} /\ Max(ValidPages) = count - 1
      BY <1>2, <3>1
    <3> QED BY <1>1, <3>2
  <2> QED BY <1>1, <2>1, <2>2
<1>4. ASSUME NEW id \in Ids, RecoveredEntry(id) # NoEntry
      PROVE  /\ RecoveredEntry(id) \in Entry /\ RecoveredEntry(id).page \in 0..count - 1
             /\ RecoveredEntry(id).slot \in 1..Len(disk[RecoveredEntry(id).page])
             /\ disk[RecoveredEntry(id).page][RecoveredEntry(id).slot].id = id
  <2> DEFINE P == {pid \in ValidPages : find_row(disk[pid], id) # 0}
             m == Min(P)
             e == RecoveredEntry(id)
  <2>1. e = IF P = {} THEN NoEntry ELSE [page |-> m, slot |-> find_row(disk[m], id), off |-> TRUE]
    BY DEF RecoveredEntry
  <2>2. P # {} /\ P \in SUBSET Nat
    BY <1>1, <1>2, <1>4, <2>1
  <2>3. m \in P
    BY <2>2, MinFacts
  <2> HIDE DEF m
  <2>4. m \in 0..count - 1 /\ m \in Nat /\ disk[m] \in Seq(Row) /\ find_row(disk[m], id) # 0
    BY <1>1, <1>2, <2>3
  <2>5. /\ find_row(disk[m], id) \in 1..Len(disk[m]) /\ find_row(disk[m], id) \in Nat \ {0}
        /\ disk[m][find_row(disk[m], id)].id = id
    <3>1. /\ find_row(disk[m], id) \in 0..Len(disk[m])
          /\ disk[m][find_row(disk[m], id)].id = id
      BY <2>4, FindFacts
    <3>2. Len(disk[m]) \in Nat
      BY <2>4
    <3> QED BY <2>4, <3>1, <3>2
  <2>6. e = [page |-> m, slot |-> find_row(disk[m], id), off |-> TRUE]
    BY <2>1, <2>2
  <2> HIDE DEF e, P
  <2>7. e \in Entry /\ e.page = m /\ e.slot = find_row(disk[m], id)
    BY <2>4, <2>5, <2>6 DEF Entry
  <2>8. /\ e \in Entry /\ e.page \in 0..count - 1 /\ e.slot \in 1..Len(disk[e.page])
        /\ disk[e.page][e.slot].id = id
    BY <2>4, <2>5, <2>7
  <2> QED BY <2>8 DEF e
<1> QED BY <1>1, <1>2, <1>3, <1>4

LEMMA RecoverKeeps == EngineInv /\ Recover => EngineInv'
<1> SUFFICES ASSUME EngineInv, Recover PROVE EngineInv'
  OBVIOUS
<1>1. /\ ~open /\ todo = <<>> /\ offs' = ValidPages
      /\ next' = IF ValidPages = {} THEN 0 ELSE Max(ValidPages) + 1
      /\ index' = [id \in Ids |-> RecoveredEntry(id)]
      /\ todo' = ReplaySteps \o <<Do("opened")>>
      /\ UNCHANGED <<count, disk, walFile, walBuf, lru, cached, sec, open, call, mode>>
  BY DEF Recover, files
<1>2. cached = <<>> /\ lru = <<>> /\ call = NoCall
  BY <1>1 DEF EngineInv, OpenReady
<1>3. next' = count /\ offs' = 0..count - 1 /\ count \in Nat
  BY <1>1, RecoverFacts
<1>4. PagerOK(Pager', count)
  <2> DEFINE p == Pager'
  <2>1. /\ p = [disk |-> p.disk, offs |-> p.offs, lru |-> p.lru, cached |-> p.cached, cap |-> p.cap]
        /\ p.disk = disk /\ p.offs = 0..count - 1 /\ p.lru = <<>> /\ p.cached = <<>>
        /\ p.cap = mode.cap
    BY <1>1, <1>2, <1>3 DEF Pager
  <2>2. disk \in [DOMAIN disk -> Seq(Row)] /\ DOMAIN disk \in SUBSET Nat /\ mode.cap \in Nat \ {0}
    BY StepFacts DEF PagerOK, PagerShape
  <2>3. 0..count - 1 \in SUBSET DOMAIN disk
    BY DEF EngineInv, CountOK
  <2> HIDE DEF p
  <2>4. PagerOK(p, count)
    BY <1>3, <2>1, <2>2, <2>3, EmptyPager
  <2> QED BY <2>4 DEF p
<1>5. index' \in [Ids -> Entry \cup {NoEntry}]
  <2>1. \A id \in Ids : RecoveredEntry(id) \in Entry \cup {NoEntry}
    BY RecoverFacts
  <2> QED BY <1>1, <2>1
<1>6. Types'
  BY <1>1, <1>3, <1>5 DEF EngineInv, Types
<1>7. Entries'
  <2> SUFFICES ASSUME NEW id \in Ids, index'[id] # NoEntry
               PROVE  index'[id].page \in 0..count - 1 /\ Holds(Pager', index'[id].page, id)
    BY <1>3 DEF Entries
  <2> DEFINE e == RecoveredEntry(id)
  <2>1. index'[id] = e
    BY <1>1
  <2>2. /\ e.page \in 0..count - 1 /\ e.slot \in 1..Len(disk[e.page]) /\ disk[e.page][e.slot].id = id
    BY <2>1, RecoverFacts
  <2> HIDE DEF e
  <2>3. RowsOf(Pager', e.page) = disk[e.page]
    <3>1. Pager'.cached = <<>> /\ Pager'.disk = disk
      BY <1>1, <1>2 DEF Pager
    <3>2. DOMAIN Pager'.cached = {}
      BY <3>1
    <3> QED BY <3>1, <3>2 DEF RowsOf
  <2> QED BY <2>1, <2>2, <2>3 DEF Holds
<1>8. CountOK'
  BY <1>1 DEF EngineInv, CountOK
<1>9. /\ Block(todo') /\ Names(todo') \subseteq ReplayNames /\ Touched(todo') = {}
      /\ Len(todo') \in Nat \ {0} /\ todo'[Len(todo')].s = "opened"
  BY <1>1, ReplayBlock
<1>10. \A i \in 1..Len(todo') : todo'[i].s \in ReplayNames
  BY <1>9 DEF Names
<1>11. todo'[1].s \in ReplayNames /\ todo' # <<>>
  BY <1>9, <1>10
<1>12. StepsOK(todo)' /\ AppendReady' /\ EraseReady' /\ FlushReady' /\ OpenReady'
  <2>1. StepsOK(todo)'
    BY <1>9 DEF Block
  <2>2. AppendReady'
    BY <1>11 DEF AppendReady, ReplayNames
  <2>3. EraseReady'
    BY <1>10, <1>11 DEF EraseReady, ReplayNames, EraseNames
  <2>4. FlushReady'
    BY <1>10 DEF FlushReady, ReplayNames
  <2>5. OpenReady'
    BY <1>1, <1>2, <1>9, <1>11 DEF OpenReady
  <2> QED BY <2>1, <2>2, <2>3, <2>4, <2>5
<1> QED BY <1>3, <1>4, <1>6, <1>7, <1>8, <1>12 DEF EngineInv
----------------------------------------------------------------------------
(* The theorems *)

LEMMA InitInv == Init => EngineInv
<1> SUFFICES ASSUME Init PROVE EngineInv
  OBVIOUS
<1>1. /\ count = 0 /\ disk = <<>> /\ walFile = <<>> /\ walBuf = <<>> /\ offs = {}
      /\ lru = <<>> /\ cached = <<>> /\ next = 0 /\ index = [id \in Ids |-> NoEntry]
      /\ sec = NoIndex /\ open = FALSE /\ todo = <<>> /\ call = NoCall /\ mode \in Modes
  BY DEF Init
<1>2. Types
  <2>1. <<>> \in Seq(LogRecord) /\ 0 \in Nat
    OBVIOUS
  <2> QED BY <1>1, <2>1 DEF Types
<1>3. PagerOK(Pager, 0)
  <2>1. /\ Pager = [disk |-> Pager.disk, offs |-> Pager.offs, lru |-> Pager.lru,
                    cached |-> Pager.cached, cap |-> Pager.cap]
        /\ Pager.disk = <<>> /\ Pager.offs = {} /\ Pager.lru = <<>> /\ Pager.cached = <<>>
        /\ Pager.cap = mode.cap
    BY <1>1 DEF Pager
  <2>2. DOMAIN <<>> = {} /\ {} \in SUBSET Nat /\ <<>> \in [DOMAIN <<>> -> Seq(Row)]
    <3>1. <<>> \in Seq(Seq(Row)) /\ Len(<<>>) = 0
      OBVIOUS
    <3>2. DOMAIN <<>> = 1..0 /\ 1..0 = {}
      BY <3>1
    <3> QED BY <3>1, <3>2
  <2>3. mode.cap \in Nat \ {0}
    BY <1>1, CapacityAssumption
  <2>4. {} = 0..0 - 1 /\ 0 \in Nat
    OBVIOUS
  <2> QED BY <2>1, <2>2, <2>3, <2>4, EmptyPager
<1>4. CountOK /\ Entries /\ OpenReady
  BY <1>1 DEF CountOK, Entries, OpenReady
<1>5. StepsOK(todo) /\ AppendReady /\ EraseReady /\ FlushReady
  <2>1. Len(todo) = 0 /\ 1..Len(todo) = {}
    BY <1>1
  <2> QED BY <1>1, <2>1, EmptyBlock DEF AppendReady, EraseReady, FlushReady
<1> QED BY <1>1, <1>2, <1>3, <1>4, <1>5 DEF EngineInv

LEMMA StutterKeeps == EngineInv /\ UNCHANGED vars => EngineInv'
<1> SUFFICES ASSUME EngineInv, UNCHANGED vars PROVE EngineInv'
  OBVIOUS
<1>1. UNCHANGED <<count, disk, walFile, walBuf, offs, lru, cached, next, index, sec,
                  open, todo, call, mode>>
  BY DEF vars
<1>2. Pager' = Pager /\ Dirty' = Dirty
  BY <1>1 DEF Pager, Dirty
<1>3. Types' /\ StepsOK(todo)' /\ PagerOK(Pager, next)' /\ CountOK' /\ Entries'
  BY <1>1, <1>2 DEF EngineInv, Types, CountOK, Entries
<1>4. AppendReady' /\ EraseReady' /\ FlushReady' /\ OpenReady'
  BY <1>1, <1>2 DEF EngineInv, AppendReady, EraseReady, FlushReady, OpenReady
<1> QED BY <1>3, <1>4 DEF EngineInv

LEMMA NextInv == EngineInv /\ [Next]_vars => EngineInv'
<1> SUFFICES ASSUME EngineInv, [Next]_vars PROVE EngineInv'
  OBVIOUS
<1>1. ASSUME NEW c \in Calls, Begin(c) PROVE EngineInv'
  BY <1>1, BeginKeeps
<1>2. ASSUME NEW pid \in 0..MaxPages, Read(pid) PROVE EngineInv'
  <2>1. pid \in Nat
    OBVIOUS
  <2> QED BY <1>2, <2>1, ReadKeeps
<1>3. CASE CallStep
  BY <1>3, TouchLastKeeps, AppendRowKeeps, LogInsertKeeps, IndexRowKeeps, TouchRowKeeps,
     EraseRowKeeps, SyncKeeps DEF CallStep
<1>4. CASE MaintenanceStep
  BY <1>4, VisitPageKeeps, SetIndexKeeps, FlushPageKeeps, WriteHeaderKeeps, ClearWalKeeps,
     CloseFilesKeeps DEF MaintenanceStep
<1>5. CASE RecoveryStep
  BY <1>5, ReplayInsertKeeps, ReplayDeleteKeeps, ReplayEraseKeeps, OpenedKeeps DEF RecoveryStep
<1>6. CASE LogFails \/ CreateIndex \/ DropIndex \/ Checkpoint \/ Close \/ Crash \/ Recover
  BY <1>6, LogFailsKeeps, CreateIndexKeeps, DropIndexKeeps, CheckpointKeeps, CloseKeeps,
     CrashKeeps, RecoverKeeps
<1>7. CASE UNCHANGED vars
  BY <1>7, StutterKeeps
<1> QED BY <1>1, <1>2, <1>3, <1>4, <1>5, <1>6, <1>7 DEF Next

\* The engine keeps its invariant through every interleaving of the steps of a call with
\* evictions, crashes and failing log writes: the cache, the file and the indexes fit
\* together, and what a step of a call relies on was left so by the steps before it.
THEOREM EngineInvariant == Spec => []EngineInv
<1>1. Init => EngineInv
  BY InitInv
<1>2. EngineInv /\ [Next]_vars => EngineInv'
  BY NextInv
<1> QED BY <1>1, <1>2, PTL DEF Spec

\* The state is well formed: the map and the LRU list of PageCache hold the same pages,
\* no page is in the list twice, and every known page offset is one of the file.
THEOREM EngineTypeOK == Spec => []TypeOK
<1>1. EngineInv => TypeOK
  <2> SUFFICES ASSUME EngineInv PROVE TypeOK
    OBVIOUS
  <2>1. PagerShape(Pager) /\ Pager.disk = disk /\ Pager.offs = offs /\ Pager.lru = lru /\ Pager.cached = cached
    BY StepFacts DEF PagerOK
  <2>2. /\ disk \in [DOMAIN disk -> Seq(Row)] /\ offs \in SUBSET DOMAIN disk
        /\ lru \in Seq(Nat) /\ Once(lru) /\ cached \in [ToSet(lru) -> PageT]
    BY <2>1 DEF PagerShape
  <2>3. Cardinality(ToSet(lru)) = Len(lru)
    BY <2>2, OnceCardinality
  <2>4. walFile \in Seq(Record) /\ walBuf \in Seq(Record)
    <3>1. walFile \in Seq(LogRecord) /\ walBuf \in Seq(LogRecord) /\ \A r \in LogRecord : r \in Record
      BY DEF EngineInv, Types, LogRecord
    <3> QED BY <3>1
  <2> QED BY <2>2, <2>3, <2>4 DEF EngineInv, Types, CountOK, TypeOK, PageT
<1> QED BY <1>1, EngineInvariant, PTL

\* Every page the engine has handed out can be fetched, and dropping a clean page from
\* the cache loses nothing: its slot in the file has the same rows.
THEOREM EnginePagesReachable == Spec => []PagesReachable
<1>1. EngineInv => PagesReachable
  <2> SUFFICES ASSUME EngineInv PROVE PagesReachable
    OBVIOUS
  <2>1. /\ \A q \in 0..next - 1 : q \in DOMAIN cached \/ q \in offs
        /\ \A q \in DOMAIN cached : ~cached[q].dirty => q \in offs /\ disk[q] = cached[q].rows
    BY StepFacts DEF PagerOK
  <2> QED BY <2>1 DEF PagesReachable
<1> QED BY <1>1, EngineInvariant, PTL

\* At every step of every call and of the recovery an index entry leads to a page that
\* can be fetched and holds the row: erase_unlocked and the DELETE branch of replay_wal
\* never return early because the row is not where the index says.
THEOREM EngineEntriesLeadToRows == Spec => []EntriesLeadToRows
<1>1. EngineInv => EntriesLeadToRows
  <2> SUFFICES ASSUME EngineInv, NEW id \in Ids, index[id] # NoEntry
               PROVE  index[id].page \in DOMAIN cached \cup offs /\ SlotOf(id) # 0
    BY DEF EntriesLeadToRows
  <2>1. \A q \in 0..next - 1 : q \in DOMAIN cached \/ q \in offs
    BY StepFacts DEF PagerOK
  <2>2. index[id].page \in 0..next - 1 /\ SlotOf(id) \in 1..Len(RowsOf(Pager, index[id].page))
    BY SlotFacts
  <2> QED BY <2>1, <2>2
<1> QED BY <1>1, EngineInvariant, PTL
=============================================================================
