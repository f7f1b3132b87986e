------------------------- MODULE IndexManagerProofs -------------------------
(***************************************************************************)
(* Proofs about IndexManager, for every set of ids, pages, offsets and     *)
(* slots and every merge threshold: the representation invariant, and that *)
(* every call behaves as the abstract map of PrimaryIndex.                 *)
(***************************************************************************)
EXTENDS IndexManager, TLAPS

\* The pairs that remain well formed when an offset or a slot is overwritten.
LEMMA PairUpdate ==
    ASSUME NEW p \in Pair
    PROVE  /\ \A off \in Offsets :
                 /\ [p EXCEPT !.entry.off = off] \in Pair
                 /\ [p EXCEPT !.entry.off = off].id = p.id
                 /\ [p EXCEPT !.entry.off = off].entry = [p.entry EXCEPT !.off = off]
                 /\ [p EXCEPT !.entry.off = off].entry.page = p.entry.page
           /\ \A s \in Slots :
                 /\ [p EXCEPT !.entry.slot = s] \in Pair
                 /\ [p EXCEPT !.entry.slot = s].id = p.id
                 /\ [p EXCEPT !.entry.slot = s].entry = [p.entry EXCEPT !.slot = s]
                 /\ [p EXCEPT !.entry.slot = s].entry.page = p.entry.page
BY DEF Pair, Entry

\* The pair an iterator points at is the pair with that key.
LEMMA TheAt ==
    ASSUME NEW S, NEW id, At(S, id) # {}
    PROVE  The(S, id) \in S /\ The(S, id).id = id
BY DEF The, At

\* The initial index satisfies the representation invariant.
LEMMA InitInv == Init => IndexInv
<1> SUFFICES ASSUME Init PROVE IndexInv
  OBVIOUS
<1> USE DEF Init
<1>1. TypeOK
  BY DEF TypeOK, Result
<1>2. UniqueIds /\ NothingHidden
  BY DEF UniqueIds, NothingHidden
<1>3. BufIdsExact
  BY DEF BufIdsExact, IdsIn
<1>4. ReverseMapExact
  BY DEF ReverseMapExact, IdsOn
<1> QED BY <1>1, <1>2, <1>3, <1>4 DEF IndexInv

\* merge() keeps the pairs of the index and leaves an empty buffer.
LEMMA MergeFacts ==
    ASSUME IndexInv
    PROVE  /\ merge.e = entries \cup buf /\ merge.b = {} /\ merge.ids = {}
BY DEF merge, IndexInv, BufIdsExact, IdsIn

\* insert() preserves the representation invariant.
LEMMA InsertInv ==
    ASSUME IndexInv, NEW id \in Ids, NEW e \in Entry, insert(id, e)
    PROVE  IndexInv'
<1> DEFINE m == IF NeedsMerge THEN merge ELSE [e |-> entries, b |-> buf, ids |-> bufIds]
           dup == (prepared /\ At(m.e, id) # {}) \/ id \in m.ids
           new == [id |-> id, entry |-> e]
<1>1. /\ m.e \cup m.b = entries \cup buf
      /\ m.e \cap m.b = {}
      /\ m.e \in SUBSET Pair /\ m.b \in SUBSET Pair
      /\ m.ids = IdsIn(m.b) /\ m.ids \in SUBSET Ids
      /\ ~prepared => m.e = {}
  BY MergeFacts DEF IndexInv, TypeOK, UniqueIds, BufIdsExact, NothingHidden, IdsIn, NeedsMerge
<1>2. /\ entries' = m.e
      /\ buf' = IF dup THEN m.b ELSE m.b \cup {new}
      /\ bufIds' = IF dup THEN m.ids ELSE m.ids \cup {id}
      /\ pageToIds' = IF dup THEN pageToIds ELSE [pageToIds EXCEPT ![e.page] = @ \cup {id}]
      /\ ret' = Result(~dup, NoEntry)
      /\ prepared' = prepared
  BY DEF insert
<1>3. new \in Pair /\ new.id = id /\ new.entry = e /\ e.page \in Pages
  BY DEF Pair, Entry
<1>4. ~dup => \A p \in entries \cup buf : p.id # id
  BY <1>1 DEF At, IdsIn
<1> HIDE DEF m, dup, new
<1>5. TypeOK'
  BY <1>1, <1>2, <1>3, NoEntryAssumption DEF IndexInv, TypeOK, Result
<1>6. UniqueIds'
  BY <1>1, <1>2, <1>3, <1>4 DEF IndexInv, UniqueIds
<1>7. BufIdsExact'
  BY <1>1, <1>2, <1>3 DEF BufIdsExact, IdsIn
<1>8. ReverseMapExact'
  <2>1. CASE dup
    BY <1>1, <1>2, <2>1 DEF IndexInv, ReverseMapExact, IdsOn
  <2>2. CASE ~dup
    <3> SUFFICES ASSUME NEW pg \in Pages
                 PROVE  pageToIds'[pg] = IdsOn(entries' \cup buf', pg)
      BY DEF ReverseMapExact
    <3>1. entries' \cup buf' = (entries \cup buf) \cup {new}
      BY <1>1, <1>2, <2>2
    <3>2. pageToIds'[pg] = IF pg = e.page THEN pageToIds[pg] \cup {id} ELSE pageToIds[pg]
      BY <1>2, <1>3, <2>2 DEF IndexInv, TypeOK
    <3>3. pageToIds[pg] = IdsOn(entries \cup buf, pg)
      BY DEF IndexInv, ReverseMapExact
    <3> QED
      BY <1>3, <3>1, <3>2, <3>3 DEF IdsOn
  <2> QED BY <2>1, <2>2
<1>9. NothingHidden'
  BY <1>1, <1>2 DEF NothingHidden
<1> QED BY <1>5, <1>6, <1>7, <1>8, <1>9 DEF IndexInv

\* remove() preserves the representation invariant.
LEMMA RemoveInv ==
    ASSUME IndexInv, NEW id \in Ids, remove(id)
    PROVE  IndexInv'
<1> USE DEF IndexInv
<1>1. CASE InSorted(id) # {}
  <2> DEFINE p == The(entries, id)
  <2>1. p \in entries /\ p.id = id /\ prepared
    BY <1>1, TheAt DEF InSorted
  <2>2. /\ entries' = entries \ {p} /\ buf' = buf /\ bufIds' = bufIds
        /\ prepared' = prepared /\ ret' = Result(TRUE, NoEntry)
        /\ pageToIds' = [pageToIds EXCEPT ![p.entry.page] = @ \ {id}]
    BY <1>1 DEF remove, repr
  <2>3. p \in Pair /\ p.entry.page \in Pages
    BY <2>1 DEF TypeOK, Pair, Entry
  <2> HIDE DEF p
  <2>4. TypeOK'
    BY <2>2, <2>3, NoEntryAssumption DEF TypeOK, Result
  <2>5. UniqueIds' /\ BufIdsExact' /\ NothingHidden'
    BY <2>1, <2>2 DEF UniqueIds, BufIdsExact, NothingHidden, IdsIn
  <2>6. entries' \cup buf' = (entries \cup buf) \ {p}
    BY <2>1, <2>2 DEF UniqueIds
  <2>7. ReverseMapExact'
    BY <2>1, <2>2, <2>3, <2>6 DEF ReverseMapExact, IdsOn, UniqueIds, TypeOK
  <2> QED BY <2>4, <2>5, <2>7
<1>2. CASE InSorted(id) = {} /\ At(buf, id) # {}
  <2> DEFINE p == The(buf, id)
  <2>1. p \in buf /\ p.id = id
    BY <1>2, TheAt
  <2>2. /\ entries' = entries /\ buf' = buf \ {p} /\ bufIds' = bufIds \ {id}
        /\ prepared' = prepared /\ ret' = Result(TRUE, NoEntry)
        /\ pageToIds' = [pageToIds EXCEPT ![p.entry.page] = @ \ {id}]
    BY <1>2 DEF remove, repr
  <2>3. p \in Pair /\ p.entry.page \in Pages
    BY <2>1 DEF TypeOK, Pair, Entry
  <2> HIDE DEF p
  <2>4. TypeOK'
    BY <2>2, <2>3, NoEntryAssumption DEF TypeOK, Result
  <2>5. UniqueIds' /\ NothingHidden'
    BY <2>1, <2>2 DEF UniqueIds, NothingHidden
  <2>6. BufIdsExact'
    BY <2>1, <2>2 DEF UniqueIds, BufIdsExact, IdsIn
  <2>7. entries' \cup buf' = (entries \cup buf) \ {p}
    BY <2>1, <2>2 DEF UniqueIds
  <2>8. ReverseMapExact'
    BY <2>1, <2>2, <2>3, <2>7 DEF ReverseMapExact, IdsOn, UniqueIds, TypeOK
  <2> QED BY <2>4, <2>5, <2>6, <2>8
<1>3. CASE InSorted(id) = {} /\ At(buf, id) = {}
  <2>1. repr' = repr /\ ret' = Result(FALSE, NoEntry)
    BY <1>3 DEF remove
  <2> QED
    BY <2>1 DEF repr, TypeOK, Result, UniqueIds, BufIdsExact, ReverseMapExact, NothingHidden
<1> QED BY <1>1, <1>2, <1>3 DEF remove

\* Overwriting a field that is neither the id nor the page keeps the invariant.
\* Both update_offsets_for_page() and update_slot() are of this form.
LEMMA RewriteInv ==
    ASSUME IndexInv,
           NEW f \in [Pair -> Pair],
           \A p \in Pair : f[p].id = p.id /\ f[p].entry.page = p.entry.page,
           NEW g \in [Pair -> Pair],
           \A p \in Pair : g[p].id = p.id /\ g[p].entry.page = p.entry.page,
           \A p \in entries : f[p] \in entries',
           \A q \in entries' : \E p \in entries : q = f[p],
           \A p \in buf : g[p] \in buf',
           \A q \in buf' : \E p \in buf : q = g[p],
           ret' = Result(TRUE, NoEntry),
           UNCHANGED <<bufIds, prepared, pageToIds>>
    PROVE  IndexInv'
<1>1. TypeOK'
  BY DEF IndexInv, TypeOK, Result
<1>2. UniqueIds'
  <2>1. \A p \in entries, q \in buf : p.id # q.id
    BY DEF IndexInv, TypeOK, UniqueIds
  <2>2. \A p, q \in entries' : p.id = q.id => p = q
    BY DEF IndexInv, TypeOK, UniqueIds
  <2>3. \A p, q \in buf' : p.id = q.id => p = q
    BY DEF IndexInv, TypeOK, UniqueIds
  <2>4. \A p \in entries', q \in buf' : p.id # q.id
    BY <2>1 DEF IndexInv, TypeOK
  <2> QED BY ONLY <2>2, <2>3, <2>4 DEF UniqueIds
<1>3. BufIdsExact'
  <2>1. \A q \in buf' : \E p \in buf : q.id = p.id
    BY DEF IndexInv, TypeOK
  <2>2. \A p \in buf : \E q \in buf' : q.id = p.id
    BY DEF IndexInv, TypeOK
  <2>3. IdsIn(buf) = IdsIn(buf')
    BY ONLY <2>1, <2>2 DEF IdsIn
  <2> QED BY <2>3 DEF IndexInv, BufIdsExact, IdsIn
<1>4. ReverseMapExact'
  <2> SUFFICES ASSUME NEW pg \in Pages
               PROVE  pageToIds[pg] = IdsOn(entries' \cup buf', pg)
    BY DEF ReverseMapExact
  <2>1. ASSUME NEW id \in Ids, NEW p \in entries' \cup buf', p.id = id /\ p.entry.page = pg
        PROVE  \E q \in entries \cup buf : q.id = id /\ q.entry.page = pg
    <3>1. CASE p \in entries'
      <4>1. PICK q \in entries : p = f[q]
        BY <3>1
      <4>2. q \in Pair
        BY DEF IndexInv, TypeOK
      <4> QED BY <2>1, <4>1, <4>2
    <3>2. CASE p \in buf'
      <4>1. PICK q \in buf : p = g[q]
        BY <3>2
      <4>2. q \in Pair
        BY DEF IndexInv, TypeOK
      <4> QED BY <2>1, <4>1, <4>2
    <3> QED BY <3>1, <3>2
  <2>2. ASSUME NEW id \in Ids, NEW p \in entries \cup buf, p.id = id /\ p.entry.page = pg
        PROVE  \E q \in entries' \cup buf' : q.id = id /\ q.entry.page = pg
    BY <2>2 DEF IndexInv, TypeOK
  <2> QED BY <2>1, <2>2 DEF IndexInv, ReverseMapExact, IdsOn
<1>5. NothingHidden'
  BY DEF IndexInv, NothingHidden
<1> QED BY <1>1, <1>2, <1>3, <1>4, <1>5 DEF IndexInv

\* update_offsets_for_page() preserves the representation invariant.
LEMMA OffsetsInv ==
    ASSUME IndexInv, NEW pg \in Pages, NEW off \in Offsets, update_offsets_for_page(pg, off)
    PROVE  IndexInv'
<1> DEFINE hit(p) == p.id \in pageToIds[pg]
           f == [p \in Pair |-> IF hit(p) /\ HitsSorted(p.id)
                                THEN [p EXCEPT !.entry.off = off] ELSE p]
           g == [p \in Pair |-> IF hit(p) /\ ~HitsSorted(p.id)
                                THEN [p EXCEPT !.entry.off = off] ELSE p]
<1>1. f \in [Pair -> Pair] /\ g \in [Pair -> Pair]
  BY PairUpdate
<1>2. \A p \in Pair : f[p].id = p.id /\ f[p].entry.page = p.entry.page
  BY PairUpdate
<1>3. \A p \in Pair : g[p].id = p.id /\ g[p].entry.page = p.entry.page
  BY PairUpdate
<1>4. /\ \A p \in entries : f[p] \in entries'
      /\ \A q \in entries' : \E p \in entries : q = f[p]
      /\ \A p \in buf : g[p] \in buf'
      /\ \A q \in buf' : \E p \in buf : q = g[p]
  BY DEF update_offsets_for_page, IndexInv, TypeOK
<1>5. ret' = Result(TRUE, NoEntry) /\ UNCHANGED <<bufIds, prepared, pageToIds>>
  BY DEF update_offsets_for_page
<1> HIDE DEF f, g
<1> QED BY <1>1, <1>2, <1>3, <1>4, <1>5, RewriteInv

\* update_slot() preserves the representation invariant.
LEMMA SlotInv ==
    ASSUME IndexInv, NEW id \in Ids, NEW s \in Slots, update_slot(id, s)
    PROVE  IndexInv'
<1> DEFINE f == [p \in Pair |-> IF p.id = id /\ HitsSorted(id)
                                THEN [p EXCEPT !.entry.slot = s] ELSE p]
           g == [p \in Pair |-> IF p.id = id /\ ~HitsSorted(id)
                                THEN [p EXCEPT !.entry.slot = s] ELSE p]
<1>1. f \in [Pair -> Pair] /\ g \in [Pair -> Pair]
  BY PairUpdate
<1>2. \A p \in Pair : f[p].id = p.id /\ f[p].entry.page = p.entry.page
  BY PairUpdate
<1>3. \A p \in Pair : g[p].id = p.id /\ g[p].entry.page = p.entry.page
  BY PairUpdate
<1>4. /\ \A p \in entries : f[p] \in entries'
      /\ \A q \in entries' : \E p \in entries : q = f[p]
      /\ \A p \in buf : g[p] \in buf'
      /\ \A q \in buf' : \E p \in buf : q = g[p]
  BY DEF update_slot, IndexInv, TypeOK
<1>5. ret' = Result(TRUE, NoEntry) /\ UNCHANGED <<bufIds, prepared, pageToIds>>
  BY DEF update_slot
<1> HIDE DEF f, g
<1> QED BY <1>1, <1>2, <1>3, <1>4, <1>5, RewriteInv

\* prepare() preserves the representation invariant.
LEMMA PrepareInv ==
    ASSUME IndexInv, prepare
    PROVE  IndexInv'
<1>1. /\ entries' = entries \cup buf /\ buf' = {} /\ bufIds' = {}
      /\ prepared' = TRUE /\ pageToIds' = pageToIds /\ ret' = Result(TRUE, NoEntry)
  BY MergeFacts DEF prepare
<1>2. TypeOK'
  BY <1>1 DEF IndexInv, TypeOK, Result
<1>3. UniqueIds' /\ NothingHidden'
  BY <1>1 DEF IndexInv, UniqueIds, NothingHidden
<1>4. BufIdsExact'
  BY <1>1 DEF BufIdsExact, IdsIn
<1>5. ReverseMapExact'
  BY <1>1 DEF IndexInv, ReverseMapExact, IdsOn
<1> QED BY <1>2, <1>3, <1>4, <1>5 DEF IndexInv

\* find() returns an entry or NoEntry.
LEMMA FindType ==
    ASSUME IndexInv, NEW id \in Ids
    PROVE  find(id) \in Entry \cup {NoEntry}
<1>1. ASSUME NEW S \in SUBSET Pair, At(S, id) # {}
      PROVE  The(S, id).entry \in Entry
  BY <1>1, TheAt DEF Pair
<1> QED BY <1>1 DEF find, InSorted, IndexInv, TypeOK

\* Every step preserves the representation invariant.
LEMMA NextInv == IndexInv /\ [Next]_vars => IndexInv'
<1> SUFFICES ASSUME IndexInv, [Next]_vars PROVE IndexInv'
  OBVIOUS
<1>1. ASSUME NEW id \in Ids, NEW e \in Entry, insert(id, e) PROVE IndexInv'
  BY <1>1, InsertInv
<1>2. ASSUME NEW id \in Ids, lookup(id) PROVE IndexInv'
  BY <1>2, FindType
     DEF lookup, repr, IndexInv, TypeOK, Result, UniqueIds, BufIdsExact,
         ReverseMapExact, NothingHidden
<1>3. ASSUME NEW id \in Ids, remove(id) PROVE IndexInv'
  BY <1>3, RemoveInv
<1>4. ASSUME NEW id \in Ids, NEW s \in Slots, update_slot(id, s) PROVE IndexInv'
  BY <1>4, SlotInv
<1>5. ASSUME NEW pg \in Pages, NEW off \in Offsets, update_offsets_for_page(pg, off)
      PROVE  IndexInv'
  BY <1>5, OffsetsInv
<1>6. CASE prepare
  BY <1>6, PrepareInv
<1>7. CASE UNCHANGED vars
  BY <1>7 DEF vars, IndexInv, TypeOK, UniqueIds, BufIdsExact, ReverseMapExact, NothingHidden
<1> QED BY <1>1, <1>2, <1>3, <1>4, <1>5, <1>6, <1>7 DEF Next

\* The representation invariant of the index holds in every state: no id is
\* indexed twice, buf_ids_ and page_to_ids_ are exact, and nothing sits in the
\* sorted portion before prepare() makes it visible.
THEOREM IndexCorrect == Spec => []IndexInv
BY InitInv, NextInv, PTL DEF Spec

----------------------------------------------------------------------------
\* The abstract map at an id that is indexed, and at one that is not.
LEMMA TableFacts ==
    ASSUME NEW E \in SUBSET Pair, NEW B \in SUBSET Pair,
           \A p, q \in E \cup B : p.id = q.id => p = q,
           NEW id \in Ids
    PROVE  /\ \A p \in E \cup B :
                 p.id = id => At(E \cup B, id) # {} /\ The(E \cup B, id) = p
           /\ (\A p \in E \cup B : p.id # id) => At(E \cup B, id) = {}
<1>1. ASSUME NEW p \in E \cup B, p.id = id
      PROVE  At(E \cup B, id) # {} /\ The(E \cup B, id) = p
  <2>1. At(E \cup B, id) = {p}
    BY <1>1 DEF At
  <2> QED BY <2>1 DEF The
<1> QED BY <1>1 DEF At

\* The same for the Table of a state that satisfies the invariant, entry by entry.
LEMMA TableAt ==
    ASSUME IndexInv, NEW id \in Ids
    PROVE  /\ \A p \in entries \cup buf : p.id = id => Table[id] = p.entry
           /\ (\A p \in entries \cup buf : p.id # id) => Table[id] = NoEntry
<1>1. /\ entries \in SUBSET Pair /\ buf \in SUBSET Pair
      /\ \A p, q \in entries \cup buf : p.id = q.id => p = q
  BY DEF IndexInv, TypeOK, UniqueIds
<1>2. Table[id] = IF At(entries \cup buf, id) # {}
                  THEN The(entries \cup buf, id).entry ELSE NoEntry
  BY DEF Table, At, The
<1>3. /\ \A p \in entries \cup buf :
            p.id = id => At(entries \cup buf, id) # {} /\ The(entries \cup buf, id) = p
      /\ (\A p \in entries \cup buf : p.id # id) => At(entries \cup buf, id) = {}
  BY <1>1, TableFacts
<1> QED BY <1>2, <1>3

\* The same in the state after a step.
LEMMA TableAtPrime ==
    ASSUME IndexInv', NEW id \in Ids
    PROVE  /\ \A p \in entries' \cup buf' : p.id = id => Table'[id] = p.entry
           /\ (\A p \in entries' \cup buf' : p.id # id) => Table'[id] = NoEntry
<1>1. /\ entries' \in SUBSET Pair /\ buf' \in SUBSET Pair
      /\ \A p, q \in entries' \cup buf' : p.id = q.id => p = q
  BY DEF IndexInv, TypeOK, UniqueIds
<1>2. Table'[id] = IF At(entries' \cup buf', id) # {}
                  THEN The(entries' \cup buf', id).entry ELSE NoEntry
  BY DEF Table, At, The
<1>3. /\ \A p \in entries' \cup buf' :
            p.id = id => At(entries' \cup buf', id) # {} /\ The(entries' \cup buf', id) = p
      /\ (\A p \in entries' \cup buf' : p.id # id) => At(entries' \cup buf', id) = {}
  BY <1>1, TableFacts
<1> QED BY <1>2, <1>3

\* The map answers NoEntry exactly for the ids that are not indexed.
LEMMA TableHas ==
    ASSUME IndexInv, NEW id \in Ids
    PROVE  Table[id] # NoEntry <=> \E p \in entries \cup buf : p.id = id
BY TableAt, NoEntryAssumption DEF IndexInv, TypeOK, Pair

\* find() looks the map up.
LEMMA FindTable ==
    ASSUME IndexInv, NEW id \in Ids
    PROVE  find(id) = Table[id]
<1>1. CASE InSorted(id) # {}
  <2>1. The(entries, id) \in entries /\ The(entries, id).id = id
    BY <1>1, TheAt DEF InSorted
  <2> QED BY <1>1, <2>1, TableAt DEF find
<1>2. CASE InSorted(id) = {} /\ At(buf, id) # {}
  <2>1. The(buf, id) \in buf /\ The(buf, id).id = id
    BY <1>2, TheAt
  <2>2. id \in bufIds
    BY <2>1 DEF IndexInv, BufIdsExact, IdsIn
  <2> QED BY <1>2, <2>1, <2>2, TableAt DEF find
<1>3. CASE InSorted(id) = {} /\ At(buf, id) = {}
  <2>1. \A p \in entries \cup buf : p.id # id
    BY <1>3 DEF InSorted, At, IndexInv, NothingHidden
  <2> QED BY <1>3, <2>1, TableAt DEF find
<1> QED BY <1>1, <1>2, <1>3

\* A step that keeps the pairs keeps the map.
LEMMA SamePairs ==
    ASSUME entries' \cup buf' = entries \cup buf
    PROVE  Table' = Table
<1> DEFINE TableOf(S) == [id \in Ids |-> IF At(S, id) # {} THEN The(S, id).entry ELSE NoEntry]
<1>1. Table = TableOf(entries \cup buf)
  BY DEF Table
<1>2. Table' = TableOf(entries' \cup buf')
  BY DEF Table, At, The
<1> HIDE DEF TableOf
<1> QED BY <1>1, <1>2

\* insert() is an insert into the map, refused exactly for the ids the map has.
LEMMA InsertMaps ==
    ASSUME IndexInv, IndexInv', NEW id \in Ids, NEW e \in Entry, insert(id, e)
    PROVE  Map!Insert(id, e)
<1> DEFINE m == IF NeedsMerge THEN merge ELSE [e |-> entries, b |-> buf, ids |-> bufIds]
           dup == (prepared /\ At(m.e, id) # {}) \/ id \in m.ids
           new == [id |-> id, entry |-> e]
<1>1. /\ m.e \cup m.b = entries \cup buf
      /\ m.ids = IdsIn(m.b)
      /\ ~prepared => m.e = {}
  BY MergeFacts DEF IndexInv, BufIdsExact, NothingHidden, IdsIn, NeedsMerge
<1>2. /\ entries' = m.e
      /\ buf' = IF dup THEN m.b ELSE m.b \cup {new}
      /\ ret' = Result(~dup, NoEntry)
  BY DEF insert
<1>3. dup <=> Table[id] # NoEntry
  <2>1. dup <=> \E p \in entries \cup buf : p.id = id
    BY <1>1 DEF At, IdsIn
  <2> QED BY <2>1, TableHas
<1> HIDE DEF m, dup
<1>4. CASE dup
  <2>1. Table' = Table
    BY <1>1, <1>2, <1>4, SamePairs
  <2> QED BY <1>2, <1>3, <1>4, <2>1 DEF Map!Insert, Map!Result, Result
<1>5. CASE ~dup
  <2>1. entries' \cup buf' = (entries \cup buf) \cup {new}
    BY <1>1, <1>2, <1>5
  <2>2. new.id = id /\ new.entry = e
    OBVIOUS
  <2> HIDE DEF new
  <2>3. Table'[id] = e
    BY <2>1, <2>2, TableAtPrime
  <2>4. ASSUME NEW i \in Ids, i # id PROVE Table'[i] = Table[i]
    <3>1. CASE \E p \in entries \cup buf : p.id = i
      BY <2>1, <3>1, TableAt, TableAtPrime
    <3>2. CASE \A p \in entries \cup buf : p.id # i
      BY <2>1, <2>2, <2>4, <3>2, TableAt, TableAtPrime
    <3> QED BY <3>1, <3>2
  <2>5. Table' = [Table EXCEPT ![id] = e]
    BY <2>3, <2>4 DEF Table
  <2> QED BY <1>2, <1>3, <1>5, <2>5 DEF Map!Insert, Map!Result, Result
<1> QED BY <1>4, <1>5

\* remove() removes from the map, and reports whether the id was there.
LEMMA RemoveMaps ==
    ASSUME IndexInv, IndexInv', NEW id \in Ids, remove(id)
    PROVE  Map!Remove(id)
<1>1. ASSUME NEW p \in entries \cup buf, p.id = id,
             entries' \cup buf' = (entries \cup buf) \ {p},
             ret' = Result(TRUE, NoEntry)
      PROVE  Map!Remove(id)
  <2>1. Table'[id] = NoEntry
    BY <1>1, TableAtPrime DEF IndexInv, UniqueIds
  <2>2. ASSUME NEW i \in Ids, i # id PROVE Table'[i] = Table[i]
    <3>1. CASE \E q \in entries \cup buf : q.id = i
      BY <1>1, <2>2, <3>1, TableAt, TableAtPrime
    <3>2. CASE \A q \in entries \cup buf : q.id # i
      BY <1>1, <3>2, TableAt, TableAtPrime
    <3> QED BY <3>1, <3>2
  <2>3. Table' = [Table EXCEPT ![id] = NoEntry]
    BY <2>1, <2>2 DEF Table
  <2>4. Table[id] # NoEntry
    BY <1>1, TableHas
  <2> QED BY <1>1, <2>3, <2>4 DEF Map!Remove, Map!Result, Result
<1>2. CASE InSorted(id) # {}
  <2>1. The(entries, id) \in entries /\ The(entries, id).id = id
    BY <1>2, TheAt DEF InSorted
  <2>2. entries' \cup buf' = (entries \cup buf) \ {The(entries, id)} /\ ret' = Result(TRUE, NoEntry)
    BY <1>2, <2>1 DEF remove, IndexInv, UniqueIds
  <2> QED BY <1>1, <2>1, <2>2
<1>3. CASE InSorted(id) = {} /\ At(buf, id) # {}
  <2>1. The(buf, id) \in buf /\ The(buf, id).id = id
    BY <1>3, TheAt
  <2>2. entries' = entries /\ buf' = buf \ {The(buf, id)} /\ ret' = Result(TRUE, NoEntry)
    BY <1>3 DEF remove
  <2>3. entries' \cup buf' = (entries \cup buf) \ {The(buf, id)}
    BY <2>1, <2>2 DEF IndexInv, UniqueIds
  <2> QED BY <1>1, <2>1, <2>2, <2>3
<1>4. CASE InSorted(id) = {} /\ At(buf, id) = {}
  <2>1. entries' = entries /\ buf' = buf /\ ret' = Result(FALSE, NoEntry)
    BY <1>4 DEF remove, repr
  <2>2. Table' = Table
    BY <2>1, SamePairs
  <2>3. Table[id] = NoEntry
    BY <1>4, TableAt DEF InSorted, At, IndexInv, NothingHidden
  <2>4. Table = [Table EXCEPT ![id] = NoEntry]
    BY <2>3 DEF Table
  <2> QED BY <2>1, <2>2, <2>3, <2>4 DEF Map!Remove, Map!Result, Result
<1> QED BY <1>2, <1>3, <1>4

\* update_offsets_for_page() reaches every row of the page and no other: this is
\* where the reverse map has to be exact.
LEMMA OffsetsMaps ==
    ASSUME IndexInv, IndexInv', NEW pg \in Pages, NEW off \in Offsets,
           update_offsets_for_page(pg, off)
    PROVE  Map!SetOffsets(pg, off)
<1> DEFINE set(p) == [p EXCEPT !.entry.off = off]
<1>1. \A p \in entries \cup buf : p.id \in pageToIds[pg] <=> p.entry.page = pg
  BY DEF IndexInv, TypeOK, UniqueIds, ReverseMapExact, IdsOn, Pair
<1>2. /\ \A p \in entries : HitsSorted(p.id)
      /\ \A p \in buf : ~HitsSorted(p.id)
  BY DEF HitsSorted, InSorted, At, IndexInv, UniqueIds, NothingHidden
<1>3. \A p \in entries \cup buf :
         (IF p.entry.page = pg THEN set(p) ELSE p) \in entries' \cup buf'
  BY <1>1, <1>2 DEF update_offsets_for_page
<1>4. \A q \in entries' \cup buf' : \E p \in entries \cup buf :
         q = IF p.entry.page = pg THEN set(p) ELSE p
  BY <1>1, <1>2 DEF update_offsets_for_page
<1>5. \A p \in entries \cup buf : set(p).id = p.id /\ set(p).entry = [p.entry EXCEPT !.off = off]
  BY PairUpdate DEF IndexInv, TypeOK
<1> HIDE DEF set
<1>6. ASSUME NEW i \in Ids
      PROVE  Table'[i] = IF Table[i] # NoEntry /\ Table[i].page = pg
                         THEN [Table[i] EXCEPT !.off = off] ELSE Table[i]
  <2>1. ASSUME NEW p \in entries \cup buf, p.id = i
        PROVE  Table'[i] = IF Table[i] # NoEntry /\ Table[i].page = pg
                           THEN [Table[i] EXCEPT !.off = off] ELSE Table[i]
    <3>1. Table[i] = p.entry /\ Table[i] # NoEntry
      BY <2>1, TableAt, TableHas
    <3>2. CASE p.entry.page = pg
      <4>1. set(p) \in entries' \cup buf' /\ set(p).id = i
        BY <1>3, <1>5, <2>1, <3>2
      <4>2. Table'[i] = set(p).entry
        BY <4>1, TableAtPrime
      <4> QED BY <1>5, <3>1, <3>2, <4>2
    <3>3. CASE p.entry.page # pg
      <4>1. Table'[i] = p.entry
        BY <1>3, <2>1, <3>3, TableAtPrime
      <4> QED BY <3>1, <3>3, <4>1
    <3> QED BY <3>2, <3>3
  <2>2. ASSUME \A p \in entries \cup buf : p.id # i
        PROVE  Table[i] = NoEntry /\ Table'[i] = NoEntry
    <3>1. \A q \in entries' \cup buf' : q.id # i
      BY <1>4, <1>5, <2>2
    <3> QED BY <2>2, <3>1, TableAt, TableAtPrime
  <2> QED BY <2>1, <2>2
<1>7. Table' = [i \in Ids |-> IF Table[i] # NoEntry /\ Table[i].page = pg
                              THEN [Table[i] EXCEPT !.off = off] ELSE Table[i]]
  BY <1>6 DEF Table
<1>8. ret' = Result(TRUE, NoEntry)
  BY DEF update_offsets_for_page
<1> QED BY <1>7, <1>8 DEF Map!SetOffsets, Map!Result, Result

\* update_slot() changes the slot of the id in the map, if it is there.
LEMMA SlotMaps ==
    ASSUME IndexInv, IndexInv', NEW id \in Ids, NEW s \in Slots, update_slot(id, s)
    PROVE  Map!SetSlot(id, s)
<1> DEFINE set(p) == [p EXCEPT !.entry.slot = s]
<1>1. /\ \A p \in entries : HitsSorted(p.id)
      /\ \A p \in buf : ~HitsSorted(p.id)
  BY DEF HitsSorted, InSorted, At, IndexInv, UniqueIds, NothingHidden
<1>2. \A p \in entries \cup buf :
         (IF p.id = id THEN set(p) ELSE p) \in entries' \cup buf'
  BY <1>1 DEF update_slot
<1>3. \A q \in entries' \cup buf' : \E p \in entries \cup buf :
         q = IF p.id = id THEN set(p) ELSE p
  BY <1>1 DEF update_slot
<1>4. \A p \in entries \cup buf : set(p).id = p.id /\ set(p).entry = [p.entry EXCEPT !.slot = s]
  BY PairUpdate DEF IndexInv, TypeOK
<1> HIDE DEF set
<1>5. ASSUME NEW i \in Ids, NEW p \in entries \cup buf, p.id = i
      PROVE  /\ Table[i] # NoEntry
             /\ Table'[i] = IF i = id THEN [Table[i] EXCEPT !.slot = s] ELSE Table[i]
  <2>1. Table[i] = p.entry /\ Table[i] # NoEntry
    BY <1>5, TableAt, TableHas
  <2>2. CASE i = id
    <3>1. set(p) \in entries' \cup buf' /\ set(p).id = i
      BY <1>2, <1>4, <1>5, <2>2
    <3>2. Table'[i] = set(p).entry
      BY <3>1, TableAtPrime
    <3> QED BY <1>4, <2>1, <2>2, <3>2
  <2>3. CASE i # id
    <3>1. Table'[i] = p.entry
      BY <1>2, <1>5, <2>3, TableAtPrime
    <3> QED BY <2>1, <2>3, <3>1
  <2> QED BY <2>2, <2>3
<1>6. ASSUME NEW i \in Ids, \A p \in entries \cup buf : p.id # i
      PROVE  Table[i] = NoEntry /\ Table'[i] = NoEntry
  <2>1. ASSUME NEW q \in entries' \cup buf' PROVE q.id # i
    <3>1. PICK p \in entries \cup buf : q = IF p.id = id THEN set(p) ELSE p
      BY <1>3
    <3> QED BY <1>4, <1>6, <3>1
  <2> QED BY <1>6, <2>1, TableAt, TableAtPrime
<1>7. Table' = IF Table[id] # NoEntry
               THEN [Table EXCEPT ![id] = [@ EXCEPT !.slot = s]] ELSE Table
  <2>1. CASE Table[id] # NoEntry
    <3>1. Table'[id] = [Table[id] EXCEPT !.slot = s]
      BY <1>5, <1>6, <2>1
    <3>2. \A i \in Ids \ {id} : Table'[i] = Table[i]
      BY <1>5, <1>6
    <3> QED BY <2>1, <3>1, <3>2 DEF Table
  <2>2. CASE Table[id] = NoEntry
    <3>1. \A i \in Ids : Table'[i] = Table[i]
      BY <1>5, <1>6, <2>2
    <3> QED BY <2>2, <3>1 DEF Table
  <2> QED BY <2>1, <2>2
<1>8. ret' = Result(TRUE, NoEntry)
  BY DEF update_slot
<1> QED BY <1>7, <1>8 DEF Map!SetSlot, Map!Result, Result

\* Every call of the class is, through Table, the call of the abstract map with
\* the same result.
LEMMA StepMaps == IndexInv /\ IndexInv' /\ [Next]_vars => [Map!Next]_<<Table, ret>>
<1> SUFFICES ASSUME IndexInv, IndexInv', [Next]_vars PROVE [Map!Next]_<<Table, ret>>
  OBVIOUS
<1> USE DEF Map!Entry, Entry
<1>1. ASSUME NEW id \in Ids, NEW e \in Entry, insert(id, e) PROVE Map!Next
  BY <1>1, InsertMaps DEF Map!Next
<1>2. ASSUME NEW id \in Ids, lookup(id) PROVE Map!Next
  <2>1. entries' = entries /\ buf' = buf /\ ret' = Result(find(id) # NoEntry, find(id))
    BY <1>2 DEF lookup, repr
  <2>2. Table' = Table
    BY <2>1, SamePairs
  <2> QED BY <2>1, <2>2, FindTable DEF Map!Next, Map!Find, Map!Result, Result
<1>3. ASSUME NEW id \in Ids, remove(id) PROVE Map!Next
  BY <1>3, RemoveMaps DEF Map!Next
<1>4. ASSUME NEW id \in Ids, NEW s \in Slots, update_slot(id, s) PROVE Map!Next
  BY <1>4, SlotMaps DEF Map!Next
<1>5. ASSUME NEW pg \in Pages, NEW off \in Offsets, update_offsets_for_page(pg, off)
      PROVE  Map!Next
  BY <1>5, OffsetsMaps DEF Map!Next
<1>6. CASE prepare
  <2>1. entries' \cup buf' = entries \cup buf /\ ret' = Result(TRUE, NoEntry)
    BY <1>6, MergeFacts DEF prepare
  <2>2. Table' = Table
    BY <2>1, SamePairs
  <2> QED BY <2>1, <2>2 DEF Map!Next, Map!Prepare, Map!Result, Result
<1>7. CASE UNCHANGED vars
  <2>1. entries' \cup buf' = entries \cup buf /\ ret' = ret
    BY <1>7 DEF vars
  <2> QED BY <2>1, SamePairs
<1> QED BY <1>1, <1>2, <1>3, <1>4, <1>5, <1>6, <1>7 DEF Next

\* The empty index is the empty map.
LEMMA InitMaps == Init => Map!Init
BY DEF Init, Map!Init, Table, At, Result, Map!Result

\* IndexManager implements the abstract primary index: buffering, merging and the
\* reverse map are invisible to its callers.
THEOREM IndexImplementsMap == Spec => ImplementsMap
<1>1. IndexInv /\ IndexInv' /\ [Next]_vars => [Map!Next]_<<Table, ret>>
  BY StepMaps
<1>2. Init => Map!Init
  BY InitMaps
<1> QED BY <1>1, <1>2, IndexCorrect, PTL DEF Spec, ImplementsMap, Map!Spec

\* Whatever the merge threshold and the calls: no id is indexed twice, buf_ids_ is
\* exactly the set of buffered ids and page_to_ids_ is exactly the inverse map.
THEOREM IndexConsistent == Spec => [](UniqueIds /\ BufIdsExact /\ ReverseMapExact)
<1>1. IndexInv => UniqueIds /\ BufIdsExact /\ ReverseMapExact
  BY DEF IndexInv
<1> QED BY <1>1, IndexCorrect, PTL

\* insert() never lets an id in twice, in the sorted portion, in the write buffer or
\* across the two, whatever merge() and remove() moved between them.
THEOREM IndexUniqueIds == Spec => []UniqueIds
BY IndexConsistent, PTL

\* buf_ids_ is exactly the set of buffered ids after every call: insert() neither
\* refuses a removed id nor accepts a buffered one.
THEOREM IndexBufIdsExact == Spec => []BufIdsExact
BY IndexConsistent, PTL
=============================================================================
