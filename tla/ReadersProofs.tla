--------------------------- MODULE ReadersProofs ---------------------------
(***************************************************************************)
(* Proofs about Readers, for any number of threads, pages and calls, any   *)
(* cache capacity, both lock policies, and writes that may fail.           *)
(***************************************************************************)
EXTENDS Readers, ListLemmas

Steps == {"idle", "lock", "fetch", "find", "pread", "put", "pwrite", "record"}
Loading == {"find", "pread", "put", "pwrite", "record"}
Writing == {"pwrite", "record"}
Kinds == ReadCalls \cup WriteCalls \cup {"none", "append", "done"}
JobType == [k : Kinds, need : SUBSET Pages, page : Pages, tmp : Page]
SeenType == SUBSET [page : Pages, ver : Vers]

Resident == ToSet(lru)
InCall(t) == pc[t] \in Loading \cup {"fetch"}

\* The types of the variables; the map and the list of the cache hold the same pages.
Shape ==
    /\ mode \in Modes /\ open \in BOOLEAN
    /\ next \in FilePages..MaxPages /\ offs \in SUBSET (0..next - 1)
    /\ slot \in [Pages -> Vers]
    /\ lru \in Seq(0..next - 1) /\ cached \in [Resident -> Page]
    /\ pc \in [Threads -> Steps] /\ job \in [Threads -> JobType]
    /\ seen \in [Threads -> SeenType]

\* A page is in the list once, and the list keeps the capacity.
ListOK == Once(lru) /\ Len(lru) <= mode.cap

\* Who holds which lock at which step.
Locks ==
    /\ writer \in Threads \cup {NoThread} /\ readers \in SUBSET Threads
    /\ mtx \in Threads \cup {NoThread}
    /\ writer # NoThread => readers = {}
    /\ \A t \in Threads :
         /\ InCall(t) => IF job[t].k \in ReadCalls THEN t \in readers ELSE writer = t
         /\ ~InCall(t) => t \notin readers /\ writer # t /\ seen[t] = {}
         /\ pc[t] \in Writing <=> mtx = t

\* What is in the cache, in the slots and in page_offsets_.
Versions ==
    /\ \A p \in Resident :
         /\ cached[p].ver = "current"
         /\ ~cached[p].dirty => slot[p] = "current" /\ p \in offs
    /\ \A p \in 0..next - 1 :
         p \notin Resident => slot[p] = "none" \/ (slot[p] = "current" /\ p \in offs)
    /\ \A p \in Pages : p >= next => slot[p] = "none"
    /\ \A p \in offs : slot[p] # "none"

\* An eviction in progress: the victim is dirty until it is gone.
Evicting ==
    \A t \in Threads : pc[t] \in Writing =>
        /\ Len(lru) >= mode.cap
        /\ job[t].page \notin Resident
        /\ cached[Victim].dirty
        /\ pc[t] = "record" => slot[Victim] = "current"

\* A page being loaded, or created: nobody has a dirty copy of it, and what the thread
\* has in hand is the page.
LoadOK(t) ==
    /\ job[t].page \in 0..next - 1
    /\ job[t].page \in Resident => ~cached[job[t].page].dirty
    /\ job[t].k = "append" =>
         /\ pc[t] \notin {"find", "pread"}
         /\ job[t].page = next - 1
         /\ job[t].tmp = [ver |-> "current", dirty |-> TRUE]
    /\ job[t].k # "append" =>
         /\ job[t].page \in job[t].need
         /\ pc[t] # "find" => job[t].page \in offs /\ slot[job[t].page] = "current"
         /\ pc[t] \notin {"find", "pread"} => job[t].tmp = [ver |-> "current", dirty |-> FALSE]

\* What each kind of call still needs, and what it has found.
JobOK(t) ==
    /\ job[t].k # "none"
    /\ job[t].need \subseteq 0..next - 1
    /\ job[t].k \in {"erase", "update"} =>
         /\ job[t].need # {} => seen[t] = {} /\ \E q \in Pages : job[t].need = {q}
         /\ job[t].need = {} => seen[t] # {} /\ \A x \in seen[t] : x.page \in Resident
    /\ job[t].k = "insert" =>
         /\ job[t].need \subseteq {next - 1}
         /\ job[t].need = {} => next - 1 \in Resident
    /\ job[t].k = "append" =>
         /\ job[t].need = {}
         /\ pc[t] = "fetch" => next - 1 \in Resident
    /\ job[t].k \in {"checkpoint", "close", "done"} => job[t].need = {}

Jobs ==
    \A t \in Threads :
        /\ pc[t] = "lock" => job[t].k \in ReadCalls \cup WriteCalls
        /\ pc[t] \in Loading => LoadOK(t)
        /\ InCall(t) => JobOK(t)

\* After close() nothing is dirty, and only the calls that do not look at open_ run.
Closed ==
    ~open => /\ \A p \in Resident : ~cached[p].dirty
             /\ \A t \in Threads : InCall(t) => job[t].k \in Unchecked

ReadersInv ==
    Shape /\ ListOK /\ Locks /\ Versions /\ Evicting /\ Jobs /\ Closed /\ ReadsCurrent
----------------------------------------------------------------------------
(* The list of the cache. *)

\* The page becomes the most recently used one; the cache holds the same pages.
LEMMA ToFrontFacts ==
    ASSUME NEW S, lru \in Seq(S), Once(lru), NEW p, ToFront(p)
    PROVE  /\ lru' \in Seq(S)
           /\ Len(lru') = Len(lru)
           /\ ToSet(lru') = ToSet(lru)
           /\ Once(lru')
           /\ p \in ToSet(lru)
<1>1. PICK i \in 1..Len(lru) : lru[i] = p /\ lru' = <<p>> \o RemoveAt(lru, i)
  BY DEF ToFront
<1>2. p \in S /\ p \in ToSet(lru) /\ Len(lru) \in Nat
  BY <1>1, ToSetFacts
<1>3. /\ RemoveAt(lru, i) \in Seq(S) /\ Len(RemoveAt(lru, i)) = Len(lru) - 1
      /\ ToSet(RemoveAt(lru, i)) = ToSet(lru) \ {p} /\ Once(RemoveAt(lru, i))
  BY <1>1, RemoveFacts
<1> DEFINE rest == RemoveAt(lru, i)
<1>4. rest \in Seq(S) /\ Once(rest) /\ p \notin ToSet(rest)
  BY <1>3
<1>5. lru' = <<p>> \o rest
  BY <1>1
<1> HIDE DEF rest
<1> DEFINE new == <<p>> \o rest
<1>6. /\ new \in Seq(S) /\ Len(new) = Len(rest) + 1
      /\ ToSet(new) = ToSet(rest) \cup {p} /\ Once(new)
  BY <1>2, <1>4, PushFacts
<1>7. lru' = new
  BY <1>5
<1> HIDE DEF new
<1>8. Len(rest) = Len(lru) - 1 /\ ToSet(rest) = ToSet(lru) \ {p}
  BY <1>3 DEF rest
<1>9. Len(new) = Len(lru) /\ ToSet(new) = ToSet(lru)
  BY <1>2, <1>6, <1>8
<1> QED BY <1>2, <1>6, <1>7, <1>9

----------------------------------------------------------------------------
(* Who else runs. *)

\* A call that is in progress next to another one is a reader.
LEMMA Sharing ==
    ASSUME ReadersInv, NEW t \in Threads, NEW u \in Threads, u # t, InCall(t), InCall(u)
    PROVE  job[t].k \in ReadCalls /\ job[u].k \in ReadCalls
BY ThreadAssumption DEF ReadersInv, Locks

\* The thread with the write lock is alone.
LEMMA Alone ==
    ASSUME ReadersInv, NEW t \in Threads, NEW u \in Threads, u # t, InCall(t), job[t].k \notin ReadCalls
    PROVE  ~InCall(u) /\ seen[u] = {} /\ pc[u] \in {"idle", "lock"}
<1>1. ~InCall(u)
  BY Sharing
<1> QED BY <1>1 DEF ReadersInv, Locks, Shape, Steps, InCall, Loading

\* At most one thread evicts, and none while the mutex is free.
LEMMA OneEviction ==
    ASSUME ReadersInv, NEW t \in Threads, pc[t] \in Writing \/ mtx = NoThread,
           NEW u \in Threads, u # t
    PROVE  pc[u] \notin Writing
BY ThreadAssumption DEF ReadersInv, Locks
----------------------------------------------------------------------------
(* The inductive invariant. *)

LEMMA InitInv == Init => ReadersInv
<1> SUFFICES ASSUME Init PROVE ReadersInv
  OBVIOUS
<1>1. lru = <<>> /\ Resident = {} /\ cached = <<>> /\ Len(lru) = 0
  BY DEF Init, Resident, ToSet
<1>2. cached \in [Resident -> Page]
  BY <1>1
<1>3. Shape
  <2>1. lru \in Seq(0..next - 1)
    BY <1>1
  <2>2. job \in [Threads -> JobType]
    BY PagesAssumption DEF Init, Job, JobType, Kinds, Page, Vers, Pages
  <2>3. pc \in [Threads -> Steps] /\ seen \in [Threads -> SeenType]
    BY DEF Init, Steps, SeenType
  <2>4. next \in FilePages..MaxPages /\ offs \in SUBSET (0..next - 1) /\ slot \in [Pages -> Vers]
    BY PagesAssumption DEF Init, Pages, Vers
  <2> QED BY <1>2, <2>1, <2>2, <2>3, <2>4 DEF Shape, Init
<1>4. ListOK
  BY <1>1, CapacityAssumption DEF ListOK, Once, Init
<1>5. Locks
  BY ThreadAssumption DEF Locks, Init, InCall, Loading, Writing
<1>6. Versions
  BY <1>1, PagesAssumption DEF Versions, Init, Pages
<1>7. Evicting /\ Jobs /\ Closed /\ ReadsCurrent
  BY <1>1 DEF Evicting, Jobs, Closed, ReadsCurrent, Init, InCall, Loading, Writing
<1> QED BY <1>3, <1>4, <1>5, <1>6, <1>7 DEF ReadersInv

\* A step that leaves the cache, the slots and the file alone keeps what is said about them.
LEMMA StoreKept ==
    ASSUME ReadersInv, UNCHANGED <<lru, cached, fileVars, mode>>
    PROVE  ListOK' /\ Versions'
BY DEF ReadersInv, ListOK, Versions, fileVars, Resident, Once

LEMMA CallKeeps ==
    ASSUME ReadersInv, NEW t \in Threads, NEW k \in Calls[t], Call(t, k)
    PROVE  ReadersInv'
<1> USE DEF Call, Goto, JobBecomes, lockVars, cacheVars, fileVars
<1>1. k \in ReadCalls \cup WriteCalls
  BY CallsAssumption
<1>2. Job(k, {}) \in JobType /\ Job(k, {}).k = k
  BY <1>1, PagesAssumption DEF Job, JobType, Kinds, Page, Vers, Pages
<1>3. /\ pc[t] = "idle" /\ pc' = [pc EXCEPT ![t] = "lock"]
      /\ job' = [job EXCEPT ![t] = Job(k, {})]
      /\ UNCHANGED <<writer, readers, open, mtx, lru, cached, next, offs, slot, seen, mode>>
  OBVIOUS
<1> USE DEF ReadersInv
<1>4. Shape'
  BY <1>2, <1>3 DEF Shape, Steps, Resident
<1>5. Locks'
  BY <1>3 DEF Shape, Locks, InCall, Loading, Writing
<1>6. Evicting'
  BY <1>3 DEF Shape, Evicting, Resident, Writing, Victim, Last
<1>7. Jobs'
  BY <1>1, <1>2, <1>3 DEF Shape, Jobs, InCall, Loading, LoadOK, JobOK, Resident
<1>8. Closed' /\ ReadsCurrent'
  BY <1>3 DEF Shape, Closed, ReadsCurrent, Resident, InCall, Loading
<1> QED BY <1>3, <1>4, <1>5, <1>6, <1>7, <1>8, StoreKept

\* What a call needs, by its kind.
LEMMA NeedsFacts ==
    ASSUME Shape, NEW k \in ReadCalls \cup WriteCalls, NEW need \in Needs(k)
    PROVE  /\ need \in SUBSET (0..next - 1)
           /\ k \in {"erase", "update"} => \E q \in 0..next - 1 : need = {q}
           /\ k = "insert" => need = {next - 1}
           /\ k \in {"checkpoint", "close"} => need = {}
           /\ need \in SUBSET Pages
<1>1. next \in Nat /\ next >= 1 /\ next <= MaxPages /\ MaxPages \in Nat
  BY PagesAssumption DEF Shape
<1>2. next - 1 \in 0..next - 1
  BY <1>1
<1>3. CASE k \in {"get", "erase", "update"}
  BY <1>1, <1>3 DEF Needs, Pages
<1>4. CASE k \in {"scan", "create_index"}
  BY <1>1, <1>4 DEF Needs, Pages
<1>5. CASE k = "range_scan"
  BY <1>1, <1>5 DEF Needs, Pages
<1>6. CASE k = "insert"
  BY <1>1, <1>2, <1>6 DEF Needs, Pages
<1>7. CASE k \in {"checkpoint", "close"}
  BY <1>7 DEF Needs
<1> QED BY <1>3, <1>4, <1>5, <1>6, <1>7 DEF ReadCalls, WriteCalls

LEMMA AcquireKeeps ==
    ASSUME ReadersInv, NEW t \in Threads, Acquire(t)
    PROVE  ReadersInv'
<1> DEFINE k == job[t].k
<1> USE DEF ReadersInv
<1>1. PICK need \in Needs(k) : job' = [job EXCEPT ![t] = Job(k, need)]
  BY DEF Acquire, JobBecomes
<1>2. /\ pc[t] = "lock" /\ pc' = [pc EXCEPT ![t] = "fetch"]
      /\ UNCHANGED <<open, mtx, lru, cached, next, offs, slot, seen, mode>>
      /\ open \/ k \in Unchecked
      /\ writer = NoThread
      /\ IF k \in ReadCalls
         THEN readers' = readers \cup {t} /\ writer' = writer
         ELSE readers = {} /\ writer' = t /\ readers' = readers
  BY DEF Acquire, Goto, cacheVars, fileVars, CanShare
<1>3. k \in ReadCalls \cup WriteCalls /\ seen[t] = {} /\ ~InCall(t)
  BY <1>2 DEF Jobs, Locks, InCall, Loading
<1>4. /\ need \in SUBSET (0..next - 1)
      /\ k \in {"erase", "update"} => \E q \in 0..next - 1 : need = {q}
      /\ k = "insert" => need = {next - 1}
      /\ k \in {"checkpoint", "close"} => need = {}
      /\ need \in SUBSET Pages
  BY <1>3, NeedsFacts
<1>5. Job(k, need) \in JobType /\ Job(k, need).k = k /\ Job(k, need).need = need
  BY <1>3, <1>4, PagesAssumption DEF Job, JobType, Kinds, Page, Vers, Pages
<1>6. /\ pc'[t] = "fetch" /\ job'[t].k = k /\ job'[t].need = need
      /\ \A u \in Threads \ {t} : pc'[u] = pc[u] /\ job'[u] = job[u]
  BY <1>1, <1>2, <1>5 DEF Shape
<1> HIDE DEF k
<1>7. Shape'
  BY <1>1, <1>2, <1>5 DEF Shape, Steps, Resident
<1>8. Locks'
  BY <1>2, <1>3, <1>6, ThreadAssumption DEF Shape, Locks, InCall, Loading, Writing, k
<1>9. Evicting'
  BY <1>2, <1>6 DEF Shape, Evicting, Resident, Writing, Victim, Last
<1>10. Jobs'
  <2>1. JobOK(t)'
    BY <1>2, <1>3, <1>4, <1>6 DEF JobOK, ReadCalls, WriteCalls, Shape, Pages
  <2>2. ASSUME NEW u \in Threads \ {t}
        PROVE  /\ JobOK(u) => JobOK(u)'
               /\ LoadOK(u) => LoadOK(u)'
               /\ InCall(u)' = InCall(u)
    BY <1>2, <1>6 DEF JobOK, LoadOK, InCall, Resident
  <2> QED BY <1>6, <2>1, <2>2 DEF Jobs, Loading
<1>11. Closed' /\ ReadsCurrent'
  BY <1>2, <1>6 DEF Shape, Closed, ReadsCurrent, Resident, InCall, Loading, k
<1> QED BY <1>2, <1>7, <1>8, <1>9, <1>10, <1>11, StoreKept DEF fileVars

\* A call that ends lets its locks go and leaves the others as they are.  What is in the
\* cache and in the slots is left to the caller of this lemma.
LEMMA EndsKeeps ==
    ASSUME ReadersInv, NEW t \in Threads, NEW o, Ends(t, o),
           mtx' = (IF mtx = t THEN NoThread ELSE mtx)
    PROVE  /\ pc' \in [Threads -> Steps] /\ job' \in [Threads -> JobType]
           /\ seen' \in [Threads -> SeenType]
           /\ Locks' /\ ReadsCurrent'
           /\ pc'[t] = "idle" /\ seen'[t] = {}
           /\ \A u \in Threads \ {t} : pc'[u] = pc[u] /\ job'[u] = job[u] /\ seen'[u] = seen[u]
<1> USE DEF ReadersInv
<1>1. /\ pc' = [pc EXCEPT ![t] = "idle"] /\ seen' = [seen EXCEPT ![t] = {}]
      /\ job' = [job EXCEPT ![t] = Job("none", {})]
      /\ writer' = (IF writer = t THEN NoThread ELSE writer) /\ readers' = readers \ {t}
  BY DEF Ends, Goto, JobBecomes
<1>2. Job("none", {}) \in JobType
  BY PagesAssumption DEF Job, JobType, Kinds, Page, Vers, Pages
<1>3. /\ pc' \in [Threads -> Steps] /\ job' \in [Threads -> JobType]
      /\ seen' \in [Threads -> SeenType]
      /\ pc'[t] = "idle" /\ seen'[t] = {}
      /\ \A u \in Threads \ {t} : pc'[u] = pc[u] /\ job'[u] = job[u] /\ seen'[u] = seen[u]
  BY <1>1, <1>2 DEF Shape, Steps, SeenType
<1>4. ReadsCurrent'
  BY <1>3 DEF ReadsCurrent
<1>5. Locks'
  <2>1. /\ writer' \in Threads \cup {NoThread} /\ readers' \in SUBSET Threads
        /\ mtx' \in Threads \cup {NoThread}
        /\ writer' # NoThread => readers' = {}
    BY <1>1 DEF Locks
  <2>2. ASSUME NEW u \in Threads
        PROVE  /\ InCall(u)' => IF job'[u].k \in ReadCalls THEN u \in readers' ELSE writer' = u
               /\ ~InCall(u)' => u \notin readers' /\ writer' # u /\ seen'[u] = {}
               /\ pc'[u] \in Writing <=> mtx' = u
    <3>1. CASE u = t
      BY <1>1, <1>3, <3>1, ThreadAssumption DEF Locks, InCall, Loading, Writing
    <3>2. CASE u # t
      BY <1>1, <1>3, <3>2, ThreadAssumption DEF Locks, InCall
    <3> QED BY <3>1, <3>2
  <2> QED BY <2>1, <2>2 DEF Locks
<1> QED BY <1>3, <1>4, <1>5

\* A call that ends and touches nothing else.
LEMMA EndsOnly ==
    ASSUME ReadersInv, NEW t \in Threads, NEW o, Ends(t, o), mtx # t,
           UNCHANGED <<cacheVars, fileVars, mode>>,
           open' \in BOOLEAN, ~open => ~open',
           ~open' => open = FALSE \/ (Dirty = {} /\ \A u \in Threads \ {t} : ~InCall(u))
    PROVE  ReadersInv'
<1> USE DEF ReadersInv
<1>1. UNCHANGED <<mtx, lru, cached, next, offs, slot, mode>>
  BY DEF cacheVars, fileVars
<1>2. mtx' = (IF mtx = t THEN NoThread ELSE mtx)
  BY <1>1
<1>3. /\ pc' \in [Threads -> Steps] /\ job' \in [Threads -> JobType]
      /\ seen' \in [Threads -> SeenType]
      /\ Locks' /\ ReadsCurrent'
      /\ pc'[t] = "idle" /\ seen'[t] = {}
      /\ \A u \in Threads \ {t} : pc'[u] = pc[u] /\ job'[u] = job[u] /\ seen'[u] = seen[u]
  BY <1>2, EndsKeeps
<1>4. Shape'
  BY <1>1, <1>3 DEF Shape, Resident
<1>5. Evicting'
  BY <1>1, <1>3 DEF Evicting, Resident, Writing, Victim, Last
<1>6. Jobs'
  <2>1. ASSUME NEW u \in Threads \ {t}
        PROVE  /\ JobOK(u) => JobOK(u)'
               /\ LoadOK(u) => LoadOK(u)'
               /\ InCall(u)' = InCall(u)
    BY <1>1, <1>3 DEF JobOK, LoadOK, InCall, Resident
  <2> QED BY <1>3, <2>1 DEF Jobs, Loading, InCall
<1>7. Closed'
  <2>1. CASE ~open
    BY <1>1, <1>3, <2>1 DEF Closed, Resident, InCall, Loading
  <2>2. CASE open
    <3>1. DOMAIN cached = Resident
      BY DEF Shape
    <3> QED BY <1>1, <1>3, <2>2, <3>1 DEF Closed, Resident, InCall, Loading, Dirty
  <2> QED BY <2>1, <2>2
<1> QED BY <1>1, <1>3, <1>4, <1>5, <1>6, <1>7, StoreKept

LEMMA RefuseKeeps ==
    ASSUME ReadersInv, NEW t \in Threads, Refuse(t)
    PROVE  ReadersInv'
<1>1. mtx # t
  BY DEF Refuse, ReadersInv, Locks, Writing
<1>2. PICK o \in {"ok", "not open"} : Ends(t, o)
  BY DEF Refuse
<1>3. open' = open /\ open = FALSE /\ UNCHANGED <<cacheVars, fileVars, mode>>
  BY DEF Refuse, ReadersInv, Shape
<1> QED BY <1>1, <1>2, <1>3, EndsOnly

LEMMA ReturnKeeps ==
    ASSUME ReadersInv, NEW t \in Threads, Return(t)
    PROVE  ReadersInv'
<1>1. mtx # t
  BY DEF Return, Fetched, ReadersInv, Locks, Writing
<1>2. Ends(t, "ok") /\ open' = open /\ open \in BOOLEAN /\ UNCHANGED <<cacheVars, fileVars, mode>>
  BY DEF Return, ReadersInv, Shape
<1> QED BY <1>1, <1>2, EndsOnly

LEMMA FlushedKeeps ==
    ASSUME ReadersInv, NEW t \in Threads, Flushed(t)
    PROVE  ReadersInv'
<1>1. mtx # t
  BY DEF Flushed, Flushes, Fetched, ReadersInv, Locks, Writing
<1>2. /\ Ends(t, "ok") /\ Dirty = {} /\ open' = (open /\ job[t].k = "checkpoint")
      /\ UNCHANGED <<cacheVars, fileVars, mode>>
  BY DEF Flushed
<1>3. InCall(t) /\ job[t].k \notin ReadCalls
  BY DEF Flushed, Flushes, Fetched, InCall, ReadCalls
<1>4. \A u \in Threads \ {t} : ~InCall(u)
  BY <1>3, Alone
<1>5. open \in BOOLEAN /\ open' \in BOOLEAN /\ (~open => ~open')
  BY <1>2 DEF ReadersInv, Shape
<1> QED BY <1>1, <1>2, <1>4, <1>5, EndsOnly

\* A thread goes from one step of a load to the next one.
LEMMA MoveKeeps ==
    ASSUME ReadersInv, NEW t \in Threads, InCall(t), mtx # t,
           NEW step \in {"fetch", "find", "pread", "put"}, NEW j \in JobType,
           pc' = [pc EXCEPT ![t] = step], job' = [job EXCEPT ![t] = j], j.k = job[t].k,
           UNCHANGED <<lockVars, open, cacheVars, fileVars, seen, mode>>,
           JobOK(t)', step # "fetch" => LoadOK(t)'
    PROVE  ReadersInv'
<1> USE DEF ReadersInv
<1>1. UNCHANGED <<writer, readers, open, mtx, lru, cached, next, offs, slot, seen, mode>>
  BY DEF lockVars, cacheVars, fileVars
<1>2. /\ pc'[t] = step /\ job'[t] = j
      /\ \A u \in Threads \ {t} : pc'[u] = pc[u] /\ job'[u] = job[u]
  BY DEF Shape
<1>3. Shape'
  BY <1>1 DEF Shape, Steps, Resident
<1>4. Locks'
  BY <1>1, <1>2 DEF Locks, InCall, Loading, Writing
<1>5. Evicting'
  BY <1>1, <1>2 DEF Evicting, Resident, Writing, Victim, Last
<1>6. Jobs'
  <2>1. ASSUME NEW u \in Threads \ {t}
        PROVE  /\ JobOK(u) => JobOK(u)'
               /\ LoadOK(u) => LoadOK(u)'
               /\ InCall(u)' = InCall(u)
    BY <1>1, <1>2 DEF JobOK, LoadOK, InCall, Resident
  <2> QED BY <1>2, <2>1 DEF Jobs, Loading
<1>7. Closed' /\ ReadsCurrent'
  BY <1>1, <1>2 DEF Closed, ReadsCurrent, Resident, InCall, Loading
<1> QED BY <1>1, <1>3, <1>4, <1>5, <1>6, <1>7, StoreKept DEF fileVars

LEMMA FindOffsetKeeps ==
    ASSUME ReadersInv, NEW t \in Threads, FindOffset(t)
    PROVE  ReadersInv'
<1> USE DEF ReadersInv
<1>1. pc[t] = "find" /\ InCall(t) /\ mtx # t /\ LoadOK(t) /\ JobOK(t)
  BY DEF FindOffset, InCall, Loading, Locks, Writing, Jobs
<1>2. open' = open /\ open \in BOOLEAN /\ UNCHANGED <<cacheVars, fileVars, mode>>
  BY DEF FindOffset, Shape
<1>3. CASE Ends(t, "NotFoundError")
  BY <1>1, <1>2, <1>3, EndsOnly
<1>4. CASE job[t].page \in offs /\ Goto(t, "pread") /\ UNCHANGED <<lockVars, job, seen>>
  <2>1. pc' = [pc EXCEPT ![t] = "pread"] /\ job' = [job EXCEPT ![t] = job[t]] /\ job[t] \in JobType
        /\ job'[t] = job[t] /\ pc'[t] = "pread"
    BY <1>4 DEF Goto, Shape
  <2>2. UNCHANGED <<seen, next, lru, cached, offs, slot>>
    BY <1>2, <1>4 DEF cacheVars, fileVars
  <2>3. JobOK(t)'
    BY <1>1, <2>1, <2>2 DEF JobOK, Resident
  <2>4. slot[job[t].page] = "current"
    BY <1>1, <1>4 DEF LoadOK, Versions
  <2>5. LoadOK(t)'
    BY <1>1, <1>4, <2>1, <2>2, <2>4 DEF LoadOK, Resident
  <2> QED BY <1>1, <1>2, <1>4, <2>1, <2>3, <2>5, MoveKeeps
<1> QED BY <1>3, <1>4 DEF FindOffset

LEMMA PreadKeeps ==
    ASSUME ReadersInv, NEW t \in Threads, Pread(t)
    PROVE  ReadersInv'
<1> USE DEF ReadersInv
<1>1. pc[t] = "pread" /\ InCall(t) /\ mtx # t /\ LoadOK(t) /\ JobOK(t)
  BY DEF Pread, InCall, Loading, Locks, Writing, Jobs
<1>2. open' = open /\ open \in BOOLEAN /\ UNCHANGED <<cacheVars, fileVars, mode>>
  BY DEF Pread, Shape
<1>3. CASE Ends(t, "IOError")
  BY <1>1, <1>2, <1>3, EndsOnly
<1>4. CASE /\ JobBecomes(t, [job[t] EXCEPT !.tmp = [ver |-> slot[job[t].page], dirty |-> FALSE]])
           /\ Goto(t, "put") /\ UNCHANGED <<lockVars, seen, outcome>>
  <2> DEFINE j == [job[t] EXCEPT !.tmp = [ver |-> slot[job[t].page], dirty |-> FALSE]]
  <2>1. job[t] \in JobType
    BY DEF Shape
  <2>2. slot[job[t].page] = "current" /\ job[t].page \in offs /\ job[t].page \in job[t].need
        /\ job[t].k # "append"
    BY <1>1 DEF LoadOK
  <2>3. /\ j \in JobType /\ j.k = job[t].k /\ j.need = job[t].need /\ j.page = job[t].page
        /\ j.tmp = [ver |-> "current", dirty |-> FALSE]
    BY <2>1, <2>2 DEF JobType, Page, Vers
  <2>4. pc' = [pc EXCEPT ![t] = "put"] /\ job' = [job EXCEPT ![t] = j]
    BY <1>4 DEF Goto, JobBecomes
  <2> HIDE DEF j
  <2>5. job'[t] = j /\ pc'[t] = "put"
    BY <2>4 DEF Shape
  <2>6. UNCHANGED <<seen, next, lru, cached, offs, slot>>
    BY <1>2, <1>4 DEF cacheVars, fileVars
  <2>7. JobOK(t)'
    BY <1>1, <2>2, <2>3, <2>5, <2>6 DEF JobOK, Resident
  <2>8. LoadOK(t)'
    BY <1>1, <2>2, <2>3, <2>5, <2>6 DEF LoadOK, Resident
  <2> QED BY <1>1, <1>2, <1>4, <2>3, <2>4, <2>7, <2>8, MoveKeeps
<1> QED BY <1>3, <1>4 DEF Pread

LEMMA NewPageKeeps ==
    ASSUME ReadersInv, NEW t \in Threads, NewPage(t)
    PROVE  ReadersInv'
<1> USE DEF ReadersInv
<1> DEFINE j == [k |-> "append", need |-> {}, page |-> next,
                 tmp |-> [ver |-> "current", dirty |-> TRUE]]
<1>1. /\ pc[t] = "fetch" /\ job[t].k = "insert" /\ next < MaxPages /\ next' = next + 1
      /\ pc' = [pc EXCEPT ![t] = "put"] /\ job' = [job EXCEPT ![t] = j]
      /\ UNCHANGED <<writer, readers, open, mtx, lru, cached, offs, slot, seen, mode>>
  BY DEF NewPage, Fetched, Goto, JobBecomes, lockVars, cacheVars
<1>2. next \in Nat /\ next \in FilePages..MaxPages /\ FilePages \in Nat \ {0} /\ MaxPages \in Nat
  BY PagesAssumption DEF Shape
<1>3. /\ j \in JobType /\ j.k = "append" /\ j.need = {} /\ j.page = next
      /\ j.tmp = [ver |-> "current", dirty |-> TRUE]
  BY <1>1, <1>2 DEF JobType, Kinds, Page, Vers, Pages
<1> HIDE DEF j
<1>4. InCall(t) /\ job[t].k \notin ReadCalls /\ mtx # t
  BY <1>1 DEF InCall, ReadCalls, Locks, Writing
<1>5. \A u \in Threads \ {t} : ~InCall(u) /\ pc[u] \in {"idle", "lock"}
  BY <1>4, Alone
<1>6. /\ pc'[t] = "put" /\ job'[t] = j
      /\ \A u \in Threads \ {t} : pc'[u] = pc[u] /\ job'[u] = job[u]
  BY <1>1 DEF Shape
<1>7. \A p \in Resident : p \in 0..next - 1
  BY ToSetFacts DEF Shape, Resident
<1>8. Shape'
  <2>1. 0..next - 1 \subseteq 0..next' - 1 /\ next' \in FilePages..MaxPages
    BY <1>1, <1>2
  <2>2. lru \in Seq(0..next' - 1)
    BY <2>1, SeqMonotonic DEF Shape
  <2> QED BY <1>1, <1>3, <2>1, <2>2 DEF Shape, Steps, Resident
<1>9. ListOK'
  BY <1>1 DEF ListOK, Once
<1>10. Locks'
  BY <1>1, <1>3, <1>4, <1>6 DEF Locks, InCall, Loading, Writing, ReadCalls
<1>11. Versions'
  BY <1>1, <1>2 DEF Versions, Resident, Pages
<1>12. Evicting'
  BY <1>1, <1>5, <1>6 DEF Evicting, Writing
<1>13. Jobs'
  <2>1. LoadOK(t)' /\ JobOK(t)'
    BY <1>1, <1>2, <1>3, <1>6, <1>7 DEF LoadOK, JobOK, Resident, Loading
  <2> QED BY <1>5, <1>6, <2>1 DEF Jobs, InCall, Loading
<1>14. Closed' /\ ReadsCurrent'
  BY <1>1, <1>4, <1>5, <1>6 DEF Closed, ReadsCurrent, Resident, InCall, Loading, Unchecked
<1> QED BY <1>8, <1>9, <1>10, <1>11, <1>12, <1>13, <1>14

\* What a call needs and has found after it has read one of its pages.
LEMMA FetchOK ==
    ASSUME NEW t \in Threads, JobOK(t), NEW p \in Pages, p \in Resident',
           p \in job[t].need \/ (job[t].k = "append" /\ p = next - 1),
           job'[t].k = job[t].k, job'[t].need = job[t].need \ {p},
           seen'[t] = seen[t] \cup {[page |-> p, ver |-> "current"]}, next' = next
    PROVE  JobOK(t)'
<1>1. CASE job[t].k \in {"erase", "update"}
  <2>1. seen[t] = {} /\ job[t].need = {p}
    <3>1. p \in job[t].need
      BY <1>1
    <3>2. seen[t] = {} /\ \E q \in Pages : job[t].need = {q}
      BY <1>1, <3>1 DEF JobOK
    <3> QED BY <3>1, <3>2
  <2>2. job'[t].need = {} /\ seen'[t] = {[page |-> p, ver |-> "current"]}
    BY <2>1
  <2>3. seen'[t] # {} /\ \A x \in seen'[t] : x = [page |-> p, ver |-> "current"]
    BY <2>2
  <2>4. \A x \in seen'[t] : x.page \in Resident'
    BY <2>3
  <2> QED BY <1>1, <2>2, <2>3, <2>4 DEF JobOK
<1>2. CASE job[t].k \notin {"erase", "update"}
  BY <1>2 DEF JobOK
<1> QED BY <1>1, <1>2

\* The thread finds its page in the cache, and reads it.
LEMMA TouchKeeps ==
    ASSUME ReadersInv, NEW t \in Threads, pc[t] \in {"fetch", "put"}, mtx = NoThread,
           NEW p, ToFront(p), Has(t, p, cached[p].ver),
           p \in job[t].need \/ (job[t].k = "append" /\ p = next - 1),
           job' = [job EXCEPT ![t] = [job[t] EXCEPT !.need = @ \ {p}]],
           pc' = [pc EXCEPT ![t] = "fetch"],
           UNCHANGED <<lockVars, open, mtx, cached, fileVars, mode>>
    PROVE  ReadersInv'
<1> USE DEF ReadersInv
<1>1. /\ lru' \in Seq(0..next - 1) /\ Len(lru') = Len(lru) /\ Resident' = Resident
      /\ Once(lru') /\ p \in Resident
  BY ToFrontFacts DEF Shape, ListOK, Resident
<1>2. UNCHANGED <<writer, readers, open, mtx, cached, next, offs, slot, mode>>
  BY DEF lockVars, fileVars
<1>3. p \in 0..next - 1 /\ p \in Pages /\ cached[p].ver = "current"
  <2>1. p \in 0..next - 1
    BY <1>1, ToSetFacts DEF Shape, Resident
  <2> QED BY <1>1, <2>1, PagesAssumption DEF Shape, Pages, Versions
<1> DEFINE j == [job[t] EXCEPT !.need = @ \ {p}]
<1>4. j \in JobType /\ j.k = job[t].k /\ j.need = job[t].need \ {p}
  BY DEF Shape, JobType
<1>5. /\ job' \in [Threads -> JobType] /\ job'[t] = j /\ pc'[t] = "fetch"
      /\ pc' \in [Threads -> Steps]
      /\ \A u \in Threads \ {t} : pc'[u] = pc[u] /\ job'[u] = job[u]
  BY <1>4 DEF Shape, Steps
<1> HIDE DEF j
<1>6. /\ seen' \in [Threads -> SeenType]
      /\ seen'[t] = seen[t] \cup {[page |-> p, ver |-> "current"]}
      /\ \A u \in Threads \ {t} : seen'[u] = seen[u]
  BY <1>3 DEF Has, Shape, SeenType, Vers
<1>7. InCall(t) /\ JobOK(t)
  BY DEF InCall, Loading, Jobs
<1>8. Shape'
  BY <1>1, <1>2, <1>5, <1>6 DEF Shape
<1>9. ListOK' /\ Versions'
  BY <1>1, <1>2 DEF ListOK, Versions
<1>10. \A u \in Threads : pc'[u] \notin Writing
  BY <1>2, <1>5, OneEviction DEF Writing
<1>11. Locks'
  BY <1>2, <1>4, <1>5, <1>6, <1>7, <1>10, ThreadAssumption DEF Locks, InCall, Loading
<1>12. Evicting'
  BY <1>10 DEF Evicting
<1>13. Jobs'
  <2>1. JobOK(t)'
    BY <1>1, <1>2, <1>3, <1>4, <1>5, <1>6, <1>7, FetchOK
  <2>2. ASSUME NEW u \in Threads \ {t}
        PROVE  /\ JobOK(u) => JobOK(u)'
               /\ LoadOK(u) => LoadOK(u)'
               /\ InCall(u)' = InCall(u)
    BY <1>1, <1>2, <1>5, <1>6 DEF JobOK, LoadOK, InCall
  <2> QED BY <1>5, <2>1, <2>2 DEF Jobs, Loading
<1>14. Closed' /\ ReadsCurrent'
  BY <1>1, <1>2, <1>4, <1>5, <1>6, <1>7 DEF Closed, ReadsCurrent, InCall, Loading
<1> QED BY <1>8, <1>9, <1>11, <1>12, <1>13, <1>14

LEMMA LookupKeeps ==
    ASSUME ReadersInv, NEW t \in Threads, Lookup(t)
    PROVE  ReadersInv'
<1> USE DEF ReadersInv
<1>1. PICK p \in Wanted(t) :
         IF p \in DOMAIN cached
         THEN /\ ToFront(p) /\ Has(t, p, cached[p].ver)
              /\ JobBecomes(t, [job[t] EXCEPT !.need = @ \ {p}]) /\ UNCHANGED pc
         ELSE /\ JobBecomes(t, [job[t] EXCEPT !.page = p]) /\ Goto(t, "find")
              /\ UNCHANGED <<lru, seen>>
  BY DEF Lookup
<1>2. /\ pc[t] = "fetch" /\ mtx = NoThread /\ job[t].need # {}
      /\ UNCHANGED <<lockVars, open, mtx, cached, fileVars, mode>>
  BY DEF Lookup
<1>3. InCall(t) /\ mtx # t /\ JobOK(t)
  BY <1>2, ThreadAssumption DEF InCall, Jobs
<1>4. p \in job[t].need
  <2>1. job[t].need \in SUBSET Nat
    BY DEF Shape, JobType, Pages
  <2>2. Min(job[t].need) \in job[t].need
    BY <1>2, <2>1, MinFacts
  <2> QED BY <2>2 DEF Wanted
<1>5. CASE p \in DOMAIN cached
  <2>1. pc' = [pc EXCEPT ![t] = "fetch"]
    BY <1>1, <1>2, <1>5 DEF Shape
  <2> QED BY <1>1, <1>2, <1>4, <1>5, <2>1, TouchKeeps DEF JobBecomes
<1>6. CASE p \notin DOMAIN cached
  <2> DEFINE j == [job[t] EXCEPT !.page = p]
  <2>1. p \in 0..next - 1 /\ p \in Pages
    BY <1>3, <1>4, PagesAssumption DEF JobOK, Pages, Shape
  <2>2. j \in JobType /\ j.k = job[t].k /\ j.need = job[t].need /\ j.page = p
    BY <2>1 DEF Shape, JobType
  <2>3. pc' = [pc EXCEPT ![t] = "find"] /\ job' = [job EXCEPT ![t] = j]
    BY <1>1, <1>6 DEF Goto, JobBecomes
  <2> HIDE DEF j
  <2>4. pc'[t] = "find" /\ job'[t] = j
    BY <2>3 DEF Shape
  <2>5. UNCHANGED <<seen, next, lru, cached, offs, slot, mtx>>
    BY <1>1, <1>2, <1>6 DEF fileVars
  <2>6. JobOK(t)'
    BY <1>2, <1>3, <2>2, <2>4, <2>5 DEF JobOK, Resident
  <2>7. p \notin Resident
    BY <1>6 DEF Shape
  <2>8. LoadOK(t)'
    BY <1>3, <1>4, <2>1, <2>2, <2>4, <2>5, <2>7 DEF LoadOK, JobOK, Resident
  <2> QED BY <1>2, <1>3, <2>2, <2>3, <2>5, <2>6, <2>8, MoveKeeps DEF cacheVars
<1> QED BY <1>5, <1>6

\* The page in hand becomes resident, in the place of a page whose slot is current when
\* the cache is full.
LEMMA ResidesKeeps ==
    ASSUME ReadersInv, NEW t \in Threads, pc[t] \in {"put", "record"}, mtx \in {t, NoThread},
           job[t].page \notin Resident,
           NEW list, Resides(t, job[t].page, list),
           \/ ~Full /\ list = lru /\ offs' = offs
           \/ /\ Full /\ list = Front(lru)
              /\ offs' \in {offs, offs \cup {Victim}} /\ Victim \in offs'
              /\ slot[Victim] = "current",
           mtx' = NoThread, UNCHANGED <<lockVars, open, next, slot, mode>>
    PROVE  ReadersInv'
<1> USE DEF ReadersInv
<1> DEFINE p == job[t].page
<1>1. InCall(t) /\ LoadOK(t) /\ JobOK(t)
  BY DEF InCall, Loading, Jobs
<1>2. /\ p \in 0..next - 1 /\ p \in Pages /\ p \notin Resident
      /\ job[t].tmp.ver = "current" /\ job[t].tmp \in Page
      /\ job[t].tmp.dirty => job[t].k = "append"
      /\ ~job[t].tmp.dirty => p \in offs /\ slot[p] = "current"
  <2>1. job[t] \in JobType
    BY DEF Shape
  <2> QED BY <1>1, <2>1 DEF LoadOK, JobType
<1>3. mode.cap \in Nat \ {0} /\ Len(lru) \in Nat /\ Len(lru) <= mode.cap
  BY CapacityAssumption DEF Shape, ListOK
<1>4. /\ list \in Seq(0..next - 1) /\ Once(list) /\ Len(list) < mode.cap
      /\ ToSet(list) \in SUBSET Resident
      /\ \A q \in Resident : q \notin ToSet(list) =>
            q = Victim /\ Victim \in offs' /\ slot[Victim] = "current"
      /\ offs' \in SUBSET (0..next - 1) /\ offs \subseteq offs'
      /\ \A q \in offs' : q \in offs \/ slot[q] = "current"
  <2>1. CASE ~Full /\ list = lru /\ offs' = offs
    BY <1>3, <2>1 DEF Full, Shape, ListOK, Resident
  <2>2. CASE /\ Full /\ list = Front(lru)
             /\ offs' \in {offs, offs \cup {Victim}} /\ Victim \in offs'
             /\ slot[Victim] = "current"
    <3>1. /\ Front(lru) \in Seq(0..next - 1) /\ Len(Front(lru)) = Len(lru) - 1
          /\ ToSet(Front(lru)) = Resident \ {Victim} /\ Once(Front(lru)) /\ Victim \in Resident
      BY <1>3, <2>2, FrontFacts DEF Full, Shape, ListOK, Resident, Victim
    <3>2. Victim \in 0..next - 1
      BY <3>1, ToSetFacts DEF Shape, Resident
    <3> QED BY <1>3, <2>2, <3>1, <3>2 DEF Shape
  <2> QED BY <2>1, <2>2
<1> DEFINE new == <<p>> \o list
<1>5. /\ lru' = new
      /\ cached' = [x \in ToSet(list) \cup {p} |-> IF x = p THEN job[t].tmp ELSE cached[x]]
      /\ seen' = [seen EXCEPT ![t] = @ \cup {[page |-> p, ver |-> job[t].tmp.ver]}]
      /\ job' = [job EXCEPT ![t] = [job[t] EXCEPT !.need = @ \ {p}]]
      /\ pc' = [pc EXCEPT ![t] = "fetch"]
      /\ UNCHANGED <<writer, readers, open, next, slot, mode>>
  BY DEF Resides, Has, JobBecomes, Goto, lockVars
<1> HIDE DEF p
<1>6. p \notin ToSet(list)
  BY <1>2, <1>4
<1>7. /\ new \in Seq(0..next - 1) /\ Len(new) = Len(list) + 1
      /\ ToSet(new) = ToSet(list) \cup {p} /\ Once(new)
  <2> DEFINE S == 0..next - 1
  <2>1. list \in Seq(S) /\ p \in S /\ Once(list)
    BY <1>2, <1>4
  <2> HIDE DEF S
  <2>2. /\ new \in Seq(S) /\ Len(new) = Len(list) + 1
        /\ ToSet(new) = ToSet(list) \cup {p} /\ Once(new)
    BY <1>6, <2>1, PushFacts
  <2> QED BY <2>2 DEF S
<1> HIDE DEF new
<1>8. /\ lru' \in Seq(0..next - 1) /\ Len(lru') <= mode.cap /\ Once(lru')
      /\ Resident' = ToSet(list) \cup {p}
  <2>1. Len(list) \in Nat
    BY <1>4
  <2> QED BY <1>3, <1>4, <1>5, <1>7, <2>1 DEF Resident
<1> DEFINE j == [job[t] EXCEPT !.need = @ \ {p}]
<1>9. j \in JobType /\ j.k = job[t].k /\ j.need = job[t].need \ {p}
  BY DEF Shape, JobType
<1>10. /\ job' \in [Threads -> JobType] /\ job'[t] = j /\ pc'[t] = "fetch"
       /\ pc' \in [Threads -> Steps]
       /\ \A u \in Threads \ {t} : pc'[u] = pc[u] /\ job'[u] = job[u]
  BY <1>5, <1>9 DEF Shape, Steps
<1> HIDE DEF j
<1>11. /\ seen' \in [Threads -> SeenType]
       /\ seen'[t] = seen[t] \cup {[page |-> p, ver |-> "current"]}
       /\ \A u \in Threads \ {t} : seen'[u] = seen[u]
  BY <1>2, <1>5 DEF Shape, SeenType, Vers
<1>12. /\ cached' \in [Resident' -> Page] /\ cached'[p] = job[t].tmp /\ p \in Resident'
       /\ \A q \in Resident' : q # p => q \in Resident /\ cached'[q] = cached[q]
  <2>1. \A q \in ToSet(list) : q \in Resident /\ cached[q] \in Page
    BY <1>4 DEF Shape
  <2> QED BY <1>2, <1>5, <1>6, <1>8, <2>1
<1>13. Shape'
  BY <1>4, <1>5, <1>8, <1>10, <1>11, <1>12 DEF Shape
<1>14. ListOK'
  BY <1>5, <1>8 DEF ListOK
<1>15. Versions'
  <2>1. ASSUME NEW q \in Resident'
        PROVE  cached'[q].ver = "current" /\ (~cached'[q].dirty => slot'[q] = "current" /\ q \in offs')
    <3>1. CASE q = p
      BY <1>2, <1>4, <1>5, <1>12, <3>1
    <3>2. CASE q # p
      BY <1>4, <1>5, <1>12, <3>2 DEF Versions
    <3> QED BY <3>1, <3>2
  <2>2. ASSUME NEW q \in 0..next' - 1, q \notin Resident'
        PROVE  slot'[q] = "none" \/ (slot'[q] = "current" /\ q \in offs')
    <3>1. q \notin ToSet(list)
      BY <1>8, <2>2
    <3>2. CASE q \in Resident
      BY <1>4, <1>5, <3>1, <3>2
    <3>3. CASE q \notin Resident
      BY <1>4, <1>5, <3>3 DEF Versions
    <3> QED BY <3>2, <3>3
  <2>3. \A q \in offs' : slot'[q] # "none"
    BY <1>4, <1>5 DEF Versions
  <2>4. \A q \in Pages : q >= next' => slot'[q] = "none"
    BY <1>5 DEF Versions
  <2> QED BY <2>1, <2>2, <2>3, <2>4 DEF Versions
<1>16. \A u \in Threads : pc'[u] \notin Writing
  <2>1. pc[t] \in Writing \/ mtx = NoThread
    BY ThreadAssumption DEF Locks
  <2> QED BY <1>10, <2>1, OneEviction DEF Writing
<1>17. Locks'
  BY <1>1, <1>5, <1>9, <1>10, <1>11, <1>16, ThreadAssumption DEF Locks, InCall, Loading
<1>18. Evicting'
  BY <1>16 DEF Evicting
<1>19. Jobs'
  <2>1. JobOK(t)'
    <3>1. p \in job[t].need \/ (job[t].k = "append" /\ p = next - 1)
      BY <1>1 DEF LoadOK, p
    <3> QED BY <1>1, <1>2, <1>5, <1>9, <1>10, <1>11, <1>12, <3>1, FetchOK
  <2>2. ASSUME NEW u \in Threads \ {t}, InCall(u)
        PROVE  /\ JobOK(u)'
               /\ pc[u] \in Loading => LoadOK(u)'
    <3>1. job[u].k \in ReadCalls /\ job[t].k \in ReadCalls
      BY <1>1, <2>2, Sharing
    <3>2. JobOK(u)'
      BY <1>5, <1>10, <2>2, <3>1 DEF JobOK, Jobs, ReadCalls
    <3>3. ASSUME pc[u] \in Loading PROVE LoadOK(u)'
      <4>1. LoadOK(u)
        BY <3>3 DEF Jobs
      <4>2. job[u].page \in Resident' => ~cached'[job[u].page].dirty
        <5>1. ~job[t].tmp.dirty
          BY <1>2, <3>1 DEF ReadCalls
        <5> QED BY <1>12, <4>1, <5>1 DEF LoadOK
      <4> QED BY <1>4, <1>5, <1>10, <3>1, <4>1, <4>2 DEF LoadOK, ReadCalls
    <3> QED BY <3>2, <3>3
  <2>3. \A u \in Threads \ {t} : InCall(u)' = InCall(u)
    BY <1>10 DEF InCall
  <2> QED BY <1>10, <2>1, <2>2, <2>3 DEF Jobs, Loading, InCall
<1>20. Closed'
  <2> SUFFICES ASSUME ~open'
               PROVE  /\ \A q \in Resident' : ~cached'[q].dirty
                      /\ \A u \in Threads : InCall(u)' => job'[u].k \in Unchecked
    BY DEF Closed
  <2>0. ~open
    BY <1>5
  <2>1. job[t].k \in Unchecked /\ ~job[t].tmp.dirty
    BY <1>1, <1>2, <2>0 DEF Closed, Unchecked
  <2>2. \A q \in Resident' : ~cached'[q].dirty
    BY <1>12, <2>0, <2>1 DEF Closed
  <2>3. \A u \in Threads : InCall(u)' => job'[u].k \in Unchecked
    BY <1>9, <1>10, <2>0, <2>1 DEF Closed, InCall
  <2> QED BY <2>2, <2>3
<1>21. ReadsCurrent'
  BY <1>10, <1>11 DEF ReadsCurrent
<1> QED BY <1>13, <1>14, <1>15, <1>17, <1>18, <1>19, <1>20, <1>21

\* The page at the end of a full list is resident.
LEMMA VictimFacts ==
    ASSUME ReadersInv, Full
    PROVE  Victim \in Resident /\ Victim \in 0..next - 1 /\ Victim \in Pages
<1> USE DEF ReadersInv
<1>1. mode.cap \in Nat \ {0} /\ Len(lru) \in Nat /\ Len(lru) > 0
  BY CapacityAssumption DEF Shape, Full
<1>2. Victim \in Resident
  BY <1>1, FrontFacts DEF Shape, ListOK, Resident, Victim
<1>3. Victim \in 0..next - 1
  BY <1>2, ToSetFacts DEF Shape, Resident
<1> QED BY <1>2, <1>3, PagesAssumption DEF Shape, Pages

LEMMA PutSharedKeeps ==
    ASSUME ReadersInv, NEW t \in Threads, PutShared(t)
    PROVE  ReadersInv'
<1> USE DEF ReadersInv
<1> DEFINE p == job[t].page
<1>1. pc[t] = "put" /\ mtx = NoThread /\ UNCHANGED <<lockVars, open, fileVars, mode>>
  BY DEF PutShared
<1>2. InCall(t) /\ LoadOK(t) /\ JobOK(t) /\ DOMAIN cached = Resident
  BY <1>1 DEF InCall, Loading, Jobs, Shape
<1>3. CASE /\ p \in Resident /\ ToFront(p) /\ Has(t, p, cached[p].ver)
           /\ JobBecomes(t, [job[t] EXCEPT !.need = @ \ {p}])
           /\ Goto(t, "fetch") /\ UNCHANGED <<mtx, cached>>
  <2>1. p \in job[t].need \/ (job[t].k = "append" /\ p = next - 1)
    BY <1>2 DEF LoadOK
  <2> QED BY <1>1, <1>3, <2>1, TouchKeeps DEF JobBecomes, Goto
<1>4. CASE p \notin Resident /\ ~Full /\ Resides(t, p, lru) /\ UNCHANGED mtx
  BY <1>1, <1>4, ResidesKeeps DEF fileVars
<1>5. CASE p \notin Resident /\ Full /\ ~cached[Victim].dirty /\ Resides(t, p, Front(lru)) /\ UNCHANGED mtx
  <2>1. Victim \in offs /\ slot[Victim] = "current"
    BY <1>5, VictimFacts DEF Versions
  <2> QED BY <1>1, <1>5, <2>1, ResidesKeeps DEF fileVars
<1>6. CASE /\ p \notin Resident /\ Full /\ cached[Victim].dirty
           /\ mtx' = t /\ Goto(t, "pwrite") /\ UNCHANGED <<lru, cached, seen, job>>
  <2>1. /\ pc' = [pc EXCEPT ![t] = "pwrite"] /\ mtx' = t
        /\ UNCHANGED <<writer, readers, open, lru, cached, next, offs, slot, job, seen, mode>>
    BY <1>1, <1>6 DEF Goto, lockVars, fileVars
  <2>2. pc'[t] = "pwrite" /\ \A u \in Threads \ {t} : pc'[u] = pc[u] /\ pc'[u] \notin Writing
    BY <1>1, <2>1, OneEviction DEF Shape
  <2>3. Shape'
    BY <2>1 DEF Shape, Steps, Resident
  <2>4. Locks'
    BY <1>2, <2>1, <2>2 DEF Locks, InCall, Loading, Writing
  <2>5. Evicting'
    BY <1>6, <2>1, <2>2 DEF Evicting, Resident, Victim, Full, Last
  <2>6. Jobs'
    <3>1. \A u \in Threads : JobOK(u) => JobOK(u)'
      BY <2>1, <1>1, <2>2 DEF JobOK, Resident
    <3>2. \A u \in Threads : LoadOK(u) => LoadOK(u)'
      BY <2>1, <1>1, <2>2 DEF LoadOK, Resident
    <3> QED BY <1>2, <2>1, <2>2, <3>1, <3>2 DEF Jobs, InCall, Loading
  <2>7. Closed' /\ ReadsCurrent'
    BY <1>2, <2>1, <2>2 DEF Closed, ReadsCurrent, Resident, InCall, Loading
  <2> QED BY <2>1, <2>3, <2>4, <2>5, <2>6, <2>7, StoreKept DEF fileVars
<1> QED BY <1>2, <1>3, <1>4, <1>5, <1>6 DEF PutShared

\* While t evicts, the slot of the victim is nobody else's business.
LEMMA VictimAlone ==
    ASSUME ReadersInv, NEW t \in Threads, pc[t] \in Writing
    PROVE  /\ Victim \in Resident /\ Victim \in 0..next - 1 /\ Victim \in Pages
           /\ cached[Victim].dirty /\ cached[Victim].ver = "current" /\ open
           /\ InCall(t) /\ mtx = t
           /\ \A u \in Threads : pc[u] \in Loading => job[u].page # Victim
<1> USE DEF ReadersInv
<1>1. Full /\ cached[Victim].dirty
  BY DEF Evicting, Full
<1>2. Victim \in Resident /\ Victim \in 0..next - 1 /\ Victim \in Pages
  BY <1>1, VictimFacts
<1>3. cached[Victim].ver = "current" /\ open
  BY <1>1, <1>2 DEF Versions, Closed
<1>4. \A u \in Threads : pc[u] \in Loading => job[u].page # Victim
  BY <1>1, <1>2 DEF Jobs, LoadOK
<1>5. InCall(t) /\ mtx = t
  BY DEF Locks, InCall, Loading, Writing
<1> QED BY <1>1, <1>2, <1>3, <1>4, <1>5

LEMMA PwriteKeeps ==
    ASSUME ReadersInv, NEW t \in Threads, Pwrite(t)
    PROVE  ReadersInv'
<1> USE DEF ReadersInv
<1>1. /\ pc[t] = "pwrite" /\ pc' = [pc EXCEPT ![t] = "record"]
      /\ slot' = [slot EXCEPT ![Victim] = cached[Victim].ver]
      /\ UNCHANGED <<writer, readers, open, mtx, lru, cached, next, offs, job, seen, mode>>
  BY DEF Pwrite, Goto, lockVars, cacheVars
<1>2. /\ Victim \in Resident /\ Victim \in 0..next - 1 /\ Victim \in Pages
      /\ cached[Victim].dirty /\ cached[Victim].ver = "current" /\ open
      /\ InCall(t) /\ mtx = t
      /\ \A u \in Threads : pc[u] \in Loading => job[u].page # Victim
  BY <1>1, VictimAlone DEF Writing
<1>3. /\ slot' \in [Pages -> Vers] /\ slot'[Victim] = "current"
      /\ \A p \in Pages : p # Victim => slot'[p] = slot[p]
  BY <1>1, <1>2 DEF Shape, Vers
<1>4. pc'[t] = "record" /\ \A u \in Threads \ {t} : pc'[u] = pc[u] /\ pc'[u] \notin Writing
  BY <1>1, OneEviction DEF Shape, Writing
<1>5. Shape'
  BY <1>1, <1>3 DEF Shape, Steps, Resident
<1>6. ListOK'
  BY <1>1 DEF ListOK, Once
<1>7. Locks'
  BY <1>1, <1>2, <1>4 DEF Locks, InCall, Loading, Writing
<1>8. Versions'
  <2>1. \A p \in 0..next - 1 : p \in Pages
    BY PagesAssumption DEF Shape, Pages
  <2>2. \A p \in Resident : p \in Pages
    BY <2>1, ToSetFacts DEF Shape, Resident
  <2>3. next \in Nat /\ ~(Victim >= next)
    BY <1>2, PagesAssumption DEF Shape
  <2> QED BY <1>1, <1>2, <1>3, <2>1, <2>2, <2>3 DEF Versions, Resident, Shape
<1>9. Evicting'
  BY <1>1, <1>2, <1>3, <1>4 DEF Evicting, Resident, Writing, Victim, Last
<1>10. Jobs'
  <2>1. \A u \in Threads : JobOK(u) => JobOK(u)'
    BY <1>1, <1>4 DEF JobOK, Resident
  <2>2. \A u \in Threads : pc[u] \in Loading /\ LoadOK(u) => LoadOK(u)'
    <3> SUFFICES ASSUME NEW u \in Threads, pc[u] \in Loading, LoadOK(u) PROVE LoadOK(u)'
      OBVIOUS
    <3>1. job[u].page \in Pages /\ slot'[job[u].page] = slot[job[u].page]
      BY <1>2, <1>3 DEF Shape, JobType
    <3> QED BY <1>1, <1>4, <3>1 DEF LoadOK, Resident
  <2> QED BY <1>1, <1>2, <1>4, <2>1, <2>2 DEF Jobs, InCall, Loading
<1>11. Closed' /\ ReadsCurrent'
  BY <1>1, <1>2, <1>4 DEF Closed, ReadsCurrent
<1> QED BY <1>5, <1>6, <1>7, <1>8, <1>9, <1>10, <1>11

LEMMA RecordKeeps ==
    ASSUME ReadersInv, NEW t \in Threads, Record(t)
    PROVE  ReadersInv'
<1> USE DEF ReadersInv
<1>1. /\ pc[t] = "record" /\ offs' = offs \cup {Victim} /\ mtx' = NoThread
      /\ Resides(t, job[t].page, Front(lru))
      /\ UNCHANGED <<lockVars, open, next, slot, mode>>
  BY DEF Record
<1>2. mtx = t /\ job[t].page \notin Resident /\ Full /\ slot[Victim] = "current"
  BY <1>1 DEF Locks, Evicting, Writing, Full
<1> QED BY <1>1, <1>2, ResidesKeeps

LEMMA PwriteFailsKeeps ==
    ASSUME ReadersInv, NEW t \in Threads, PwriteFails(t)
    PROVE  ReadersInv'
<1> USE DEF ReadersInv
<1>1. /\ pc[t] = "pwrite" /\ slot' = [slot EXCEPT ![Victim] = "torn"]
      /\ Ends(t, "IOError") /\ mtx' = NoThread
      /\ UNCHANGED <<open, lru, cached, next, offs, mode>>
  BY DEF PwriteFails
<1>2. /\ Victim \in Resident /\ Victim \in 0..next - 1 /\ Victim \in Pages
      /\ cached[Victim].dirty /\ cached[Victim].ver = "current" /\ open
      /\ InCall(t) /\ mtx = t
      /\ \A u \in Threads : pc[u] \in Loading => job[u].page # Victim
  BY <1>1, VictimAlone DEF Writing
<1>3. mtx' = (IF mtx = t THEN NoThread ELSE mtx)
  BY <1>1, <1>2
<1>4. /\ pc' \in [Threads -> Steps] /\ job' \in [Threads -> JobType]
      /\ seen' \in [Threads -> SeenType]
      /\ Locks' /\ ReadsCurrent'
      /\ pc'[t] = "idle" /\ seen'[t] = {}
      /\ \A u \in Threads \ {t} : pc'[u] = pc[u] /\ job'[u] = job[u] /\ seen'[u] = seen[u]
  BY <1>1, <1>3, EndsKeeps
<1>5. /\ slot' \in [Pages -> Vers] /\ slot'[Victim] = "torn"
      /\ \A p \in Pages : p # Victim => slot'[p] = slot[p]
  BY <1>1, <1>2 DEF Shape, Vers
<1>6. Shape'
  BY <1>1, <1>4, <1>5 DEF Shape, Resident
<1>7. ListOK'
  BY <1>1 DEF ListOK, Once
<1>8. Versions'
  <2>1. \A p \in 0..next - 1 : p \in Pages
    BY PagesAssumption DEF Shape, Pages
  <2>2. \A p \in Resident : p \in Pages
    BY <2>1, ToSetFacts DEF Shape, Resident
  <2>3. next \in Nat /\ ~(Victim >= next)
    BY <1>2, PagesAssumption DEF Shape
  <2> QED BY <1>1, <1>2, <1>5, <2>1, <2>2, <2>3 DEF Versions, Resident, Shape
<1>9. \A u \in Threads : pc'[u] \notin Writing
  BY <1>1, <1>4, OneEviction DEF Writing
<1>10. Evicting'
  BY <1>9 DEF Evicting
<1>11. Jobs'
  <2>1. \A u \in Threads \ {t} : JobOK(u) => JobOK(u)'
    BY <1>1, <1>4 DEF JobOK, Resident
  <2>2. \A u \in Threads \ {t} : pc[u] \in Loading /\ LoadOK(u) => LoadOK(u)'
    <3> SUFFICES ASSUME NEW u \in Threads \ {t}, pc[u] \in Loading, LoadOK(u) PROVE LoadOK(u)'
      OBVIOUS
    <3>1. job[u].page \in Pages /\ slot'[job[u].page] = slot[job[u].page]
      BY <1>2, <1>5 DEF Shape, JobType
    <3> QED BY <1>1, <1>4, <3>1 DEF LoadOK, Resident
  <2> QED BY <1>4, <2>1, <2>2 DEF Jobs, InCall, Loading
<1>12. Closed'
  BY <1>1, <1>2 DEF Closed
<1> QED BY <1>4, <1>6, <1>7, <1>8, <1>10, <1>11, <1>12

\* A writer changes a resident page: the page is dirty from now on.
LEMMA ModifyKeeps ==
    ASSUME ReadersInv, NEW t \in Threads, pc[t] = "fetch", job[t].k \notin ReadCalls,
           job[t].k \notin Unchecked,
           NEW p \in Resident, Modify(t, p), NEW j \in JobType, job' = [job EXCEPT ![t] = j],
           \/ j.k = "done" /\ j.need = {}
           \/ j.k = "insert" /\ j.need = {next - 1},
           UNCHANGED <<lockVars, open, mtx, lru, next, offs, pc, mode>>
    PROVE  ReadersInv'
<1> USE DEF ReadersInv
<1>1. InCall(t) /\ JobOK(t) /\ open
  BY DEF InCall, Jobs, Closed
<1>2. \A u \in Threads \ {t} : ~InCall(u) /\ seen[u] = {} /\ pc[u] \in {"idle", "lock"}
  BY <1>1, Alone
<1>3. UNCHANGED <<writer, readers, open, mtx, lru, next, offs, pc, mode>>
  BY DEF lockVars
<1>4. /\ job' \in [Threads -> JobType] /\ job'[t] = j
      /\ \A u \in Threads \ {t} : job'[u] = job[u]
  BY DEF Shape
<1>5. p \in 0..next - 1 /\ p \in Pages
  <2>1. p \in 0..next - 1
    BY ToSetFacts DEF Shape, Resident
  <2> QED BY <2>1, PagesAssumption DEF Shape, Pages
<1>6. /\ cached' \in [Resident -> Page] /\ cached'[p].dirty /\ cached'[p].ver = cached[p].ver
      /\ \A q \in Resident : q # p => cached'[q] = cached[q]
  <2>1. cached' = [cached EXCEPT ![p].dirty = TRUE] /\ cached[p] \in Page
    BY DEF Modify, Shape
  <2> QED BY <2>1 DEF Shape, Page
<1>7. /\ slot' \in [Pages -> Vers]
      /\ slot[p] # "none" => slot'[p] # "none"
      /\ \A q \in Pages : q # p => slot'[q] = slot[q]
  <2>1. slot' = [slot EXCEPT ![p] = IF @ = "current" THEN "stale" ELSE @]
    BY DEF Modify
  <2> QED BY <1>5, <2>1 DEF Shape, Vers
<1>8. seen' \in [Threads -> SeenType] /\ \A u \in Threads : seen'[u] = seen[u]
  <2>1. seen' = [u \in Threads |-> IF u = t THEN seen[u]
            ELSE {IF x.page = p THEN [x EXCEPT !.ver = "stale"] ELSE x : x \in seen[u]}]
    BY DEF Modify
  <2>2. ASSUME NEW u \in Threads PROVE seen'[u] = seen[u]
    <3>1. CASE u = t
      BY <2>1, <3>1
    <3>2. CASE u # t
      BY <1>2, <2>1, <3>2
    <3> QED BY <3>1, <3>2
  <2>3. \A u \in Threads : seen[u] \in SeenType
    BY DEF Shape
  <2>4. seen' = [u \in Threads |-> seen'[u]]
    BY <2>1
  <2>5. seen' \in [Threads -> SeenType]
    BY <2>2, <2>3, <2>4
  <2> QED BY <2>2, <2>5
<1>9. Resident' = Resident
  BY <1>3 DEF Resident
<1>10. Shape'
  BY <1>3, <1>4, <1>6, <1>7, <1>8, <1>9 DEF Shape
<1>11. ListOK'
  BY <1>3 DEF ListOK, Once
<1>12. Locks'
  BY <1>1, <1>3, <1>4, <1>8 DEF Locks, InCall, ReadCalls
<1>13. Versions'
  <2>1. \A q \in 0..next - 1 : q \in Pages
    BY PagesAssumption DEF Shape, Pages
  <2>2. \A q \in Resident : q \in Pages
    BY <2>1, ToSetFacts DEF Shape, Resident
  <2>3. next \in Nat /\ ~(p >= next)
    BY <1>5, PagesAssumption DEF Shape
  <2> QED BY <1>3, <1>6, <1>7, <1>9, <2>1, <2>2, <2>3 DEF Versions, Shape
<1>14. Evicting'
  BY <1>2, <1>3 DEF Evicting, Writing
<1>15. Jobs'
  <2>1. JobOK(t)'
    <3>1. next - 1 \in 0..next - 1
      BY PagesAssumption DEF Shape
    <3>2. CASE j.k = "done" /\ j.need = {}
      BY <1>3, <1>4, <3>2 DEF JobOK
    <3>3. CASE j.k = "insert" /\ j.need = {next - 1}
      BY <1>3, <1>4, <3>1, <3>3 DEF JobOK
    <3> QED BY <3>2, <3>3
  <2> QED BY <1>2, <1>3, <1>4, <2>1 DEF Jobs, InCall, Loading
<1>16. Closed' /\ ReadsCurrent'
  BY <1>1, <1>3, <1>8 DEF Closed, ReadsCurrent
<1> QED BY <1>10, <1>11, <1>12, <1>13, <1>14, <1>15, <1>16

\* The jobs a writer goes on with.
LEMMA WriterJobs ==
    ASSUME Shape
    PROVE  /\ Job("done", {}) \in JobType /\ Job("done", {}).k = "done" /\ Job("done", {}).need = {}
           /\ Job("insert", {next - 1}) \in JobType /\ Job("insert", {next - 1}).k = "insert"
           /\ Job("insert", {next - 1}).need = {next - 1}
<1>1. next - 1 \in Pages /\ 0 \in Pages
  BY PagesAssumption DEF Shape, Pages
<1> QED BY <1>1 DEF Job, JobType, Kinds, WriteCalls, Page, Vers

LEMMA EraseRowKeeps ==
    ASSUME ReadersInv, NEW t \in Threads, EraseRow(t)
    PROVE  ReadersInv'
<1> USE DEF ReadersInv
<1> DEFINE x == CHOOSE x \in seen[t] : TRUE
           j == IF job[t].k = "erase" THEN Job("done", {}) ELSE Job("insert", {next - 1})
<1>1. /\ pc[t] = "fetch" /\ job[t].need = {} /\ job[t].k \in {"erase", "update"}
      /\ Modify(t, x.page) /\ job' = [job EXCEPT ![t] = j]
      /\ UNCHANGED <<lockVars, open, mtx, lru, next, offs, pc, mode>>
  BY DEF EraseRow, Fetched, JobBecomes
<1>2. JobOK(t)
  BY <1>1 DEF Jobs, InCall
<1>3. seen[t] # {} /\ \A y \in seen[t] : y.page \in Resident
  BY <1>1, <1>2 DEF JobOK
<1>4. x.page \in Resident
  BY <1>3
<1>5. /\ j \in JobType
      /\ \/ j.k = "done" /\ j.need = {}
         \/ j.k = "insert" /\ j.need = {next - 1}
  BY WriterJobs
<1> HIDE DEF x, j
<1>6. job[t].k \notin ReadCalls /\ job[t].k \notin Unchecked
  BY <1>1 DEF ReadCalls, Unchecked
<1> QED BY <1>1, <1>4, <1>5, <1>6, ModifyKeeps

LEMMA AppendRowKeeps ==
    ASSUME ReadersInv, NEW t \in Threads, AppendRow(t)
    PROVE  ReadersInv'
<1> USE DEF ReadersInv
<1>1. /\ pc[t] = "fetch" /\ job[t].need = {} /\ job[t].k \in {"insert", "append"}
      /\ Modify(t, next - 1) /\ job' = [job EXCEPT ![t] = Job("done", {})]
      /\ UNCHANGED <<lockVars, open, mtx, lru, next, offs, pc, mode>>
  BY DEF AppendRow, Fetched, JobBecomes
<1>2. JobOK(t)
  BY <1>1 DEF Jobs, InCall
<1>3. next - 1 \in Resident
  BY <1>1, <1>2 DEF JobOK
<1>4. job[t].k \notin ReadCalls /\ job[t].k \notin Unchecked
  BY <1>1 DEF ReadCalls, Unchecked
<1> QED BY <1>1, <1>3, <1>4, WriterJobs, ModifyKeeps

\* What flush_all looks at: the dirty pages of the cache, while no other call runs.
LEMMA FlushFacts ==
    ASSUME ReadersInv, NEW t \in Threads, Flushes(t), Dirty # {}
    PROVE  /\ Min(Dirty) \in Resident /\ Min(Dirty) \in 0..next - 1 /\ Min(Dirty) \in Pages
           /\ cached[Min(Dirty)].dirty /\ cached[Min(Dirty)].ver = "current"
           /\ InCall(t) /\ mtx # t /\ open /\ job[t].k \notin ReadCalls /\ pc[t] = "fetch"
           /\ \A u \in Threads \ {t} : ~InCall(u) /\ pc[u] \in {"idle", "lock"}
<1> USE DEF ReadersInv
<1>1. Dirty \in SUBSET Resident /\ \A p \in Resident : p \in 0..next - 1 /\ p \in Pages
  <2>1. \A p \in Resident : p \in 0..next - 1
    BY ToSetFacts DEF Shape, Resident
  <2> QED BY <2>1, PagesAssumption DEF Shape, Dirty, Pages
<1>2. Min(Dirty) \in Dirty
  <2>1. Dirty \in SUBSET Nat
    BY <1>1
  <2> QED BY <2>1, MinFacts
<1>3. /\ InCall(t) /\ pc[t] = "fetch" /\ mtx # t
      /\ job[t].k \notin ReadCalls /\ job[t].k \notin Unchecked
  BY DEF Flushes, Fetched, InCall, ReadCalls, Unchecked, Locks, Writing
<1>4. open
  BY <1>3 DEF Closed
<1>5. \A u \in Threads \ {t} : ~InCall(u) /\ pc[u] \in {"idle", "lock"}
  BY <1>3, Alone
<1>6. cached[Min(Dirty)].dirty /\ cached[Min(Dirty)].ver = "current"
  BY <1>1, <1>2 DEF Dirty, Versions
<1> QED BY <1>1, <1>2, <1>3, <1>4, <1>5, <1>6

LEMMA FlushPageKeeps ==
    ASSUME ReadersInv, NEW t \in Threads, FlushPage(t)
    PROVE  ReadersInv'
<1> USE DEF ReadersInv
<1> DEFINE p == Min(Dirty)
<1>1. /\ ToFront(p) /\ cached' = [cached EXCEPT ![p].dirty = FALSE]
      /\ slot' = [slot EXCEPT ![p] = cached[p].ver] /\ offs' = offs \cup {p}
      /\ UNCHANGED <<writer, readers, open, mtx, next, pc, job, seen, mode>>
  BY DEF FlushPage, lockVars
<1>2. /\ p \in Resident /\ p \in 0..next - 1 /\ p \in Pages
      /\ cached[p].dirty /\ cached[p].ver = "current"
      /\ InCall(t) /\ mtx # t /\ open /\ job[t].k \notin ReadCalls /\ pc[t] = "fetch"
      /\ \A u \in Threads \ {t} : ~InCall(u) /\ pc[u] \in {"idle", "lock"}
  BY FlushFacts DEF FlushPage
<1> HIDE DEF p
<1>3. /\ lru' \in Seq(0..next - 1) /\ Len(lru') = Len(lru) /\ Resident' = Resident /\ Once(lru')
  BY <1>1, ToFrontFacts DEF Shape, ListOK, Resident
<1>4. /\ cached' \in [Resident -> Page] /\ cached'[p].ver = "current" /\ ~cached'[p].dirty
      /\ \A q \in Resident : q # p => cached'[q] = cached[q]
  <2>1. cached[p] \in Page
    BY <1>2 DEF Shape
  <2> QED BY <1>1, <1>2, <2>1 DEF Shape, Page
<1>5. /\ slot' \in [Pages -> Vers] /\ slot'[p] = "current"
      /\ \A q \in Pages : q # p => slot'[q] = slot[q]
  BY <1>1, <1>2 DEF Shape, Vers
<1>6. Shape'
  BY <1>1, <1>2, <1>3, <1>4, <1>5 DEF Shape
<1>7. ListOK'
  BY <1>1, <1>3 DEF ListOK
<1>8. Locks'
  BY <1>1 DEF Locks, InCall
<1>9. Versions'
  <2>1. \A q \in 0..next - 1 : q \in Pages
    BY PagesAssumption DEF Shape, Pages
  <2>2. \A q \in Resident : q \in Pages
    BY <2>1, ToSetFacts DEF Shape, Resident
  <2>3. next \in Nat /\ ~(p >= next)
    BY <1>2, PagesAssumption DEF Shape
  <2> QED BY <1>1, <1>3, <1>4, <1>5, <2>1, <2>2, <2>3 DEF Versions, Shape
<1>10. Evicting'
  BY <1>1, <1>2 DEF Evicting, Writing
<1>11. Jobs'
  <2>1. JobOK(t)'
    BY <1>1, <1>2, <1>3 DEF JobOK, Jobs
  <2> QED BY <1>1, <1>2, <2>1 DEF Jobs, InCall, Loading
<1>12. Closed' /\ ReadsCurrent'
  BY <1>1, <1>2 DEF Closed, ReadsCurrent
<1> QED BY <1>6, <1>7, <1>8, <1>9, <1>10, <1>11, <1>12

LEMMA FlushFailsKeeps ==
    ASSUME ReadersInv, NEW t \in Threads, FlushFails(t)
    PROVE  ReadersInv'
<1> USE DEF ReadersInv
<1> DEFINE p == Min(Dirty)
<1>1. /\ ToFront(p) /\ slot' = [slot EXCEPT ![p] = "torn"] /\ Ends(t, "IOError")
      /\ UNCHANGED <<open, mtx, cached, next, offs, mode>>
  BY DEF FlushFails
<1>2. /\ p \in Resident /\ p \in 0..next - 1 /\ p \in Pages
      /\ cached[p].dirty /\ cached[p].ver = "current"
      /\ InCall(t) /\ mtx # t /\ open /\ job[t].k \notin ReadCalls /\ pc[t] = "fetch"
      /\ \A u \in Threads \ {t} : ~InCall(u) /\ pc[u] \in {"idle", "lock"}
  BY FlushFacts DEF FlushFails
<1> HIDE DEF p
<1>3. mtx' = (IF mtx = t THEN NoThread ELSE mtx)
  BY <1>1, <1>2
<1>4. /\ pc' \in [Threads -> Steps] /\ job' \in [Threads -> JobType]
      /\ seen' \in [Threads -> SeenType]
      /\ Locks' /\ ReadsCurrent'
      /\ pc'[t] = "idle" /\ seen'[t] = {}
      /\ \A u \in Threads \ {t} : pc'[u] = pc[u] /\ job'[u] = job[u] /\ seen'[u] = seen[u]
  BY <1>1, <1>3, EndsKeeps
<1>5. /\ lru' \in Seq(0..next - 1) /\ Len(lru') = Len(lru) /\ Resident' = Resident /\ Once(lru')
  BY <1>1, ToFrontFacts DEF Shape, ListOK, Resident
<1>6. /\ slot' \in [Pages -> Vers] /\ slot'[p] = "torn"
      /\ \A q \in Pages : q # p => slot'[q] = slot[q]
  BY <1>1, <1>2 DEF Shape, Vers
<1>7. Shape'
  BY <1>1, <1>4, <1>5, <1>6 DEF Shape
<1>8. ListOK'
  BY <1>1, <1>5 DEF ListOK
<1>9. Versions'
  <2>1. \A q \in 0..next - 1 : q \in Pages
    BY PagesAssumption DEF Shape, Pages
  <2>2. \A q \in Resident : q \in Pages
    BY <2>1, ToSetFacts DEF Shape, Resident
  <2>3. next \in Nat /\ ~(p >= next)
    BY <1>2, PagesAssumption DEF Shape
  <2> QED BY <1>1, <1>2, <1>5, <1>6, <2>1, <2>2, <2>3 DEF Versions, Shape
<1>10. Evicting' /\ Jobs'
  BY <1>2, <1>4 DEF Evicting, Writing, Jobs, InCall, Loading
<1>11. Closed'
  BY <1>1, <1>2 DEF Closed
<1> QED BY <1>4, <1>7, <1>8, <1>9, <1>10, <1>11

\* Every step keeps the invariant.
LEMMA NextInv == ReadersInv /\ [Next]_vars => ReadersInv'
<1>1. ASSUME ReadersInv, Next PROVE ReadersInv'
  <2>1. PICK t \in Threads :
           (\E k \in Calls[t] : Call(t, k)) \/ Step(t) \/ PwriteFails(t) \/ FlushFails(t)
    BY <1>1 DEF Next
  <2>2. CASE \E k \in Calls[t] : Call(t, k)
    BY <1>1, <2>2, CallKeeps
  <2>3. CASE Acquire(t) \/ Refuse(t) \/ Return(t) \/ Flushed(t)
    BY <1>1, <2>3, AcquireKeeps, RefuseKeeps, ReturnKeeps, FlushedKeeps
  <2>4. CASE Lookup(t) \/ FindOffset(t) \/ Pread(t) \/ PutShared(t)
    BY <1>1, <2>4, LookupKeeps, FindOffsetKeeps, PreadKeeps, PutSharedKeeps
  <2>5. CASE Pwrite(t) \/ Record(t) \/ PwriteFails(t)
    BY <1>1, <2>5, PwriteKeeps, RecordKeeps, PwriteFailsKeeps
  <2>6. CASE EraseRow(t) \/ AppendRow(t) \/ NewPage(t)
    BY <1>1, <2>6, EraseRowKeeps, AppendRowKeeps, NewPageKeeps
  <2>7. CASE FlushPage(t) \/ FlushFails(t)
    BY <1>1, <2>7, FlushPageKeeps, FlushFailsKeeps
  <2> QED BY <2>1, <2>2, <2>3, <2>4, <2>5, <2>6, <2>7 DEF Step
<1>2. ASSUME ReadersInv, UNCHANGED vars PROVE ReadersInv'
  <2>1. UNCHANGED <<writer, readers, open, mtx, lru, cached, next, offs, slot, pc, job, seen, mode>>
    BY <1>2 DEF vars
  <2>2. Shape' /\ ListOK' /\ Locks'
    BY <1>2, <2>1 DEF ReadersInv, Shape, ListOK, Locks, Resident, Once, InCall
  <2>3. Versions' /\ Evicting' /\ Closed' /\ ReadsCurrent'
    BY <1>2, <2>1 DEF ReadersInv, Versions, Evicting, Closed, ReadsCurrent, Resident, InCall, Victim, Last
  <2>4. Jobs'
    BY <1>2, <2>1 DEF ReadersInv, Jobs, LoadOK, JobOK, Resident, InCall
  <2> QED BY <2>2, <2>3, <2>4 DEF ReadersInv
<1> QED BY <1>1, <1>2
----------------------------------------------------------------------------
(* The properties of the runs. *)

\* What the invariant says of a state.
LEMMA InvImplies ==
    ASSUME ReadersInv
    PROVE  TypeOK /\ ReadsCurrent /\ LatestKept /\ NoSlotRace /\ NoWriteAfterClose
<1> USE DEF ReadersInv
<1>1. DOMAIN cached = Resident /\ \A p \in 0..next - 1 : p \in Pages
  BY PagesAssumption DEF Shape, Pages
<1>2. \A p \in Resident : p \in 0..next - 1 /\ cached[p] \in Page
  BY ToSetFacts DEF Shape, Resident
<1>3. TypeOK
  <2>1. Len(lru) = Cardinality(ToSet(lru))
    BY OnceCardinality DEF Shape, ListOK
  <2>2. next \in 0..MaxPages /\ offs \subseteq Pages
    BY <1>1, PagesAssumption DEF Shape
  <2>3. \A t \in Threads : job[t].need \subseteq Pages /\ job[t].tmp \in Page
    BY DEF Shape, JobType
  <2> QED BY <1>1, <1>2, <2>1, <2>2, <2>3 DEF TypeOK, Shape, ListOK, Locks, Resident
<1>4. LatestKept
  BY <1>1 DEF LatestKept, Versions
<1>5. NoSlotRace
  BY VictimAlone DEF NoSlotRace, Writing, Loading
<1>6. NoWriteAfterClose
  BY <1>1, VictimAlone DEF NoWriteAfterClose, Closed, Dirty, Writing
<1> QED BY <1>3, <1>4, <1>5, <1>6

\* ReadersInv is an invariant of every behaviour.
THEOREM ReadersInvariant == Spec => []ReadersInv
BY InitInv, NextInv, PTL DEF Spec

\* The list and the map of PageCache hold the same pages, each once and never more than
\* the capacity, whatever the threads do.
THEOREM ReadersTypeOK == Spec => []TypeOK
BY ReadersInvariant, InvImplies, PTL

\* A call sees one state of the table: no page it has read changes before it returns.
THEOREM ReadersSeeOneState == Spec => []ReadsCurrent
BY ReadersInvariant, InvImplies, PTL

\* No eviction, failed write or close() drops the only current copy of a page.
THEOREM ReadersKeepLatest == Spec => []LatestKept
BY ReadersInvariant, InvImplies, PTL

\* load_from_disk reads no slot that an eviction of another thread is writing.
THEOREM ReadersNoSlotRace == Spec => []NoSlotRace
BY ReadersInvariant, InvImplies, PTL

\* Calls that never look at open_ write nothing after close().
THEOREM ReadersNoWriteAfterClose == Spec => []NoWriteAfterClose
BY ReadersInvariant, InvImplies, PTL
=============================================================================
