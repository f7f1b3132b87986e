-------------------------------- MODULE Rows --------------------------------
(***************************************************************************)
(* Rows on a page as bytes, with a secondary index on one of their fields: *)
(* what insert, erase and create_index of DB do to the bytes and to the    *)
(* tree, and what the readers make of both.                                *)
(***************************************************************************)
EXTENDS BPTree

CONSTANTS
    Ids,
    Vals,           \* field type -> the values used
    Schemas,        \* the schemas of the behaviours
    Migrations,     \* [fields, ops]: new schemas and the operations that lead there
    NoTree          \* no index

VARIABLES
    schema,     \* [ver, fields]
    page,       \* Page
    tree,       \* [fi, entries]: the indexed field and BPTree::entries_, or NoTree
    rows        \* the rows that should be on the page, in order

vars == <<schema, page, tree, rows>>

ASSUME SchemaAssumption == \A s \in Schemas : validate(s.fields)

Values(t) == {[t |-> t, v |-> v] : v \in Vals[t]}

\* Every row the schema admits.
AllRows ==
    {[id |-> id, fields |-> fields] :
        id \in Ids,
        fields \in {f \in [DOMAIN schema.fields -> UNION {Values(t) : t \in ToSet(FieldTypes)}] :
                      \A i \in DOMAIN f : f[i].t = schema.fields[i].type}}

Init ==
    /\ schema \in Schemas
    /\ page = EmptyPage /\ rows = <<>>
    /\ tree = NoTree

\* insert_unlocked, on a page with room.
Insert(row) ==
    /\ RowOK(row, schema.fields)
    /\ find_row(page, row.id) = 0
    /\ HasRoom(page, row)
    /\ page' = append_row(page, row)
    /\ tree' = IF tree = NoTree THEN tree
               ELSE [tree EXCEPT !.entries = insert(@, row.fields[tree.fi], row.id)]
    /\ rows' = Append(rows, row)
    /\ UNCHANGED schema

\* erase_unlocked: the old row is decoded before its bytes go, for its key.
Erase(id) ==
    /\ find_row(page, id) # 0
    /\ LET slot == find_row(page, id)
           old == get_row(page, slot, schema.fields)
       IN  /\ page' = erase_row(page, slot)
           /\ tree' = IF tree = NoTree THEN tree
                      ELSE [tree EXCEPT !.entries = erase(@, old.fields[tree.fi], id)]
    /\ rows' = SelectSeq(rows, LAMBDA r : r.id # id)
    /\ UNCHANGED schema

\* create_index: every row of the page is inserted, in page order.
CreateIndex(fi) ==
    /\ tree = NoTree
    /\ LET built[i \in 0..Len(page.row_offsets)] ==
             IF i = 0 THEN <<>>
             ELSE LET r == get_row(page, i, schema.fields)
                  IN  insert(built[i - 1], r.fields[fi], r.id)
       IN  tree' = [fi |-> fi, entries |-> built[Len(page.row_offsets)]]
    /\ UNCHANGED <<schema, page, rows>>

DropIndex ==
    /\ tree # NoTree
    /\ tree' = NoTree
    /\ UNCHANGED <<schema, page, rows>>

Next ==
    \/ \E row \in AllRows : Insert(row)
    \/ \E id \in Ids : Erase(id)
    \/ \E fi \in DOMAIN schema.fields : CreateIndex(fi)
    \/ DropIndex

Spec == Init /\ [][Next]_vars

----------------------------------------------------------------------------
\* The state is well formed: bytes are bytes, and the keys of the index are sorted,
\* without duplicates, each with at least one id.
TypeOK ==
    /\ page.data \in Seq(0..BYTE - 1) /\ Len(page.data) <= PAGE_SIZE
    /\ Len(page.row_offsets) <= MAX_ROWS_PER_PAGE
    /\ tree # NoTree =>
         \A i \in DOMAIN tree.entries :
            /\ tree.entries[i].ids # <<>>
            /\ i > 1 => bptree_key_compare(tree.entries[i - 1].key, tree.entries[i].key) < 0

\* The bytes say what was put in: after any inserts and erases of rows of different
\* lengths, each slot decodes to its row, also from the copy the log keeps.
RowsRoundTrip ==
    /\ Len(page.row_offsets) = Len(rows)
    /\ \A i \in DOMAIN rows :
         /\ get_row(page, i, schema.fields) = rows[i]
         /\ ReplayedRow(row_data_copy(page, i), schema.fields) = rows[i]

\* A page that is loaded again gets the offsets it had: nothing but the length words
\* is needed to find the rows.  Data that ends in or before the last length word is noticed.
OffsetsRebuilt ==
    /\ rebuild_row_offsets(page.data, Len(rows)) = page.row_offsets
    /\ \A n \in 0..Len(page.data) :
         rows # <<>> /\ n < Last(page.row_offsets) + U32 =>
             rebuild_row_offsets(SubSeq(page.data, 1, n), Len(rows)) = CorruptionError

\* Filters of one or two options, as the command line builds them.
Filters ==
    LET fields == {f.name : f \in ToSet(schema.fields)}
        options == {[op |-> op, field |-> f, val |-> v] :
                      op \in {"eq", "min", "max", "prefix"}, f \in fields,
                      v \in UNION {Values(t) : t \in {f.type : f \in ToSet(schema.fields)}}}
        with(filter, o) == ScanOption(filter, schema.fields, o.op, o.field, o.val)
        single == {with({}, o) : o \in options}
    IN  single \cup {with(f, o) : f \in single, o \in {x \in options : x.op = "eq"}}

\* The filter that scan applies to the bytes of a row accepts the rows the filter on
\* the decoded row accepts, for every filter.
FilterAgrees ==
    \A f \in Filters : \A i \in DOMAIN rows :
        matches_raw(f, page.data, page.row_offsets[i], schema.fields)
        <=> matches(f, rows[i], schema.fields)

\* The order of the values: numbers, FALSE before TRUE, strings as dictionaries have
\* them; -0.0 comes before +0.0, and a NaN is not in the order.
Before(a, b) ==
    CASE a.t \in {"UINT32", "INT64"} -> a.v < b.v
      [] a.t = "BOOL" -> ~a.v /\ b.v
      [] a.t = "FLOAT32" -> \/ FloatNum(a.v) < FloatNum(b.v)
                            \/ FloatNum(a.v) = FloatNum(b.v) /\ a.v > b.v
      [] a.t = "STRING" -> \/ IsStrictPrefix(a.v, b.v)
                           \/ \E n \in DOMAIN a.v \cap DOMAIN b.v :
                                a.v[n] < b.v[n] /\ SubSeq(a.v, 1, n - 1) = SubSeq(b.v, 1, n - 1)

Bounds(t) ==
    [set : {TRUE}, val : {x \in Values(t) : t = "FLOAT32" => ~FloatNaN(x.v)}, incl : BOOLEAN]
    \cup {[set |-> FALSE, val |-> CHOOSE x \in Values(t) : TRUE, incl |-> TRUE]}

\* index_range_scan, through the index and without it, finds exactly the rows whose
\* value lies between the bounds, each once; through the index in the order of the
\* values.
RangeScanExact ==
    tree # NoTree =>
        LET t == schema.fields[tree.fi].type
            value(id) == rows[CHOOSE i \in DOMAIN rows : rows[i].id = id].fields[tree.fi]
            nan(x) == t = "FLOAT32" /\ FloatNaN(x.v)
            above(x, lo) == lo.set => Before(lo.val, x) \/ (lo.incl /\ x = lo.val)
            below(x, hi) == hi.set => Before(x, hi.val) \/ (hi.incl /\ x = hi.val)
        IN  \A lo, hi \in Bounds(t) :
              LET got == range_scan(tree.entries, lo, hi)
              IN  /\ Len(got) = Cardinality(ToSet(got))
                  /\ ToSet(got) = {r.id : r \in {x \in ToSet(rows) : InRange(x.fields[tree.fi], lo, hi)}}
                  /\ \A r \in ToSet(rows) : ~nan(r.fields[tree.fi]) =>
                        (Contains(got, r.id) <=> above(r.fields[tree.fi], lo) /\ below(r.fields[tree.fi], hi))
                  /\ \A i, j \in DOMAIN got :
                        i < j /\ ~nan(value(got[i])) /\ ~nan(value(got[j])) =>
                            ~Before(value(got[j]), value(got[i]))

\* find() of the tree gives the rows with that value.
FindExact ==
    tree # NoTree =>
        \A x \in Values(schema.fields[tree.fi].type) :
            ToSet(find(tree.entries, x)) = {r.id : r \in {y \in ToSet(rows) : y.fields[tree.fi] = x}}

\* A migration that is_compatible accepts turns every row into a row of the new
\* schema, provided that it changes no type.  Of the operations that set a field, the
\* last one decides: the default of an ADD, or what the field of a RENAME had in the old
\* row, whatever became of that field since; a field that none sets keeps its value.
MigrationFits ==
    \A m \in Migrations :
        LET old == schema.fields
            kept(i) == field_index(old, m.fields[i].name)
            source(k) == field_index(old, m.ops[k].field_name)
            sets(k, i) == \/ m.ops[k].op = "ADD" /\ m.ops[k].field_name = m.fields[i].name
                          \/ m.ops[k].op = "RENAME" /\ m.ops[k].new_name = m.fields[i].name /\ source(k) # 0
            typed == \A i \in DOMAIN m.fields :
                /\ kept(i) # 0 => old[kept(i)].type = m.fields[i].type
                /\ \A k \in DOMAIN m.ops : sets(k, i) =>
                      m.fields[i].type = IF m.ops[k].op = "ADD" THEN m.ops[k].default_value.t
                                         ELSE old[source(k)].type
        IN  is_compatible(old, m.fields, m.ops) /\ typed =>
              \A r \in ToSet(rows) :
                 LET new == apply_to_row(r, old, m.fields, m.ops)
                     value(k) == IF m.ops[k].op = "ADD" THEN m.ops[k].default_value ELSE r.fields[source(k)]
                 IN  /\ new.id = r.id
                     /\ \A i \in DOMAIN m.fields :
                          LET setters == {k \in DOMAIN m.ops : sets(k, i)}
                          IN  /\ FieldOK(new.fields[i], m.fields[i].type)
                              /\ new.fields[i] = IF setters = {} THEN r.fields[kept(i)] ELSE value(Max(setters))

\* A schema with no more fields than deserialise_schema accepts, and names whose length
\* can be written, reads back as it was; no other one does, and one with more fields is
\* refused.  No shorter piece of the bytes of a schema is taken for one: a write that was
\* cut short is noticed.
SchemaRoundTrip ==
    LET bytes == serialise_schema(schema)
        few == Len(schema.fields) <= MAX_FIELDS
        short == \A i \in DOMAIN schema.fields : Len(schema.fields[i].name) <= MaxName
    IN  /\ deserialise_schema(bytes) = schema <=> few /\ short
        /\ ~few => deserialise_schema(bytes) = CorruptionError
        /\ \A n \in 0..Len(bytes) - 1 : deserialise_schema(SubSeq(bytes, 1, n)) = CorruptionError
=============================================================================
