----------------------------- MODULE RowFormat -----------------------------
(***************************************************************************)
(* Schemas, rows, their serialised form on a page, the scan filter that    *)
(* works on either form, and schema migration.                             *)
(*                                                                         *)
(* A byte is a number below BYTE and the widths of the integers are        *)
(* constants, so that every bit pattern of a small machine can be tried.   *)
(* A field value is [t, v]: the alternative the variant holds and its      *)
(* value, which is a number, a Boolean, a sequence of bytes (STRING) or    *)
(* the bit pattern of a float (FLOAT32).  Slots and offsets count from 0   *)
(* in the code; here slots count from 1, and 0 stands for "not found".     *)
(***************************************************************************)
EXTENDS Integers, Sequences, SequencesExt, FiniteSets, FiniteSetsExt

CONSTANTS
    BYTE,               \* values of a byte
    Width,              \* field type -> bytes, for the fixed-width types
    U16, U32,           \* bytes of a string length; of a row length, row id or count
    PAGE_SIZE,          \* bytes a page may hold
    MAX_ROWS_PER_PAGE,
    MAX_FIELDS          \* fields deserialise_schema accepts (1024)

\* enum FieldType, in the order of its tags 0, 1, ...
FieldTypes == <<"UINT32", "STRING", "FLOAT32", "BOOL", "INT64">>

ASSUME WidthAssumption ==
    /\ BYTE \in Nat /\ BYTE >= Len(FieldTypes) /\ BYTE % 2 = 0 /\ U16 \in Nat \ {0} /\ U32 \in Nat \ {0}
    /\ Width \in [{"UINT32", "FLOAT32", "BOOL", "INT64"} -> Nat \ {0}]
    /\ PAGE_SIZE < BYTE ^ U32 /\ MAX_FIELDS \in Nat

Patterns(t) == BYTE ^ Width[t]      \* bit patterns of a fixed-width type
Half(t) == Patterns(t) \div 2       \* its sign bit

----------------------------------------------------------------------------
(* namespace serialise: little-endian integers *)

write_uint(n, w) == [i \in 1..w |-> (n \div BYTE ^ (i - 1)) % BYTE]

\* The integer in the w bytes behind position pos.
read_uint(data, pos, w) ==
    LET sum[i \in 0..w] == IF i = 0 THEN 0 ELSE sum[i - 1] + data[pos + i] * BYTE ^ (i - 1)
    IN  sum[w]

\* The bits of a signed value and back.
to_unsigned(n, t) == n % Patterns(t)

\* Mutant: the sign is lost.
to_signed_Raw(u, t) == u

to_signed(u, t) == IF u >= Half(t) THEN u - Patterns(t) ELSE u

----------------------------------------------------------------------------
(* Schema *)

\* The position of the field, or 0.
field_index(schema, name) == SelectInSeq(schema, LAMBDA f : f.name = name)

validate(schema) ==
    schema # <<>> /\ \A i, j \in DOMAIN schema : schema[i].name = schema[j].name => i = j

\* field_byte_size() does not throw.
FieldOK(val, type) ==
    /\ val.t = type
    /\ type = "STRING" => Len(val.v) < BYTE ^ U16

field_byte_size(val) == IF val.t = "STRING" THEN U16 + Len(val.v) ELSE Width[val.t]

row_byte_size(row) ==
    LET sum[i \in 0..Len(row.fields)] ==
          IF i = 0 THEN 2 * U32 ELSE sum[i - 1] + field_byte_size(row.fields[i])
    IN  sum[Len(row.fields)]

\* The checks an insert makes before it takes the row.
RowOK(row, schema) ==
    /\ Len(row.fields) = Len(schema)
    /\ \A i \in DOMAIN schema : FieldOK(row.fields[i], schema[i].type)
    /\ row_byte_size(row) <= PAGE_SIZE

----------------------------------------------------------------------------
(* Page: [data, row_offsets] *)

write_field(val) ==
    CASE val.t = "UINT32"  -> write_uint(val.v, Width[val.t])
      [] val.t = "FLOAT32" -> write_uint(val.v, Width[val.t])
      [] val.t = "INT64"   -> write_uint(to_unsigned(val.v, "INT64"), Width[val.t])
      [] val.t = "BOOL"    -> write_uint(IF val.v THEN 1 ELSE 0, Width[val.t])
      [] val.t = "STRING"  -> write_uint(Len(val.v), U16) \o val.v

read_field(data, pos, type) ==
    [t |-> type,
     v |-> CASE type \in {"UINT32", "FLOAT32"} -> read_uint(data, pos, Width[type])
             [] type = "INT64" -> to_signed(read_uint(data, pos, Width[type]), type)
             [] type = "BOOL" -> read_uint(data, pos, Width[type]) # 0
             [] type = "STRING" ->
                  SubSeq(data, pos + U16 + 1, pos + U16 + read_uint(data, pos, U16))]

\* Mutant: the length bytes of a string are not skipped.
skip_field_Short(data, pos, type) ==
    IF type = "STRING" THEN pos + read_uint(data, pos, U16) ELSE pos + Width[type]

\* The position behind the field at pos.
skip_field(data, pos, type) ==
    IF type = "STRING" THEN pos + U16 + read_uint(data, pos, U16) ELSE pos + Width[type]

\* Where matches_raw looks for field i of the row at offset off.
FieldPos(data, off, schema, i) ==
    LET pos[k \in 1..Len(schema)] ==
          IF k = 1 THEN off + 2 * U32 ELSE skip_field(data, pos[k - 1], schema[k - 1].type)
    IN  pos[i]

EmptyPage == [data |-> <<>>, row_offsets |-> <<>>]

append_row(page, row) ==
    [data |-> page.data \o write_uint(row_byte_size(row), U32) \o write_uint(row.id, U32)
              \o FlattenSeq([i \in DOMAIN row.fields |-> write_field(row.fields[i])]),
     row_offsets |-> Append(page.row_offsets, Len(page.data))]

HasRoom(page, row) ==
    /\ Len(page.row_offsets) < MAX_ROWS_PER_PAGE
    /\ Len(page.data) + row_byte_size(row) <= PAGE_SIZE

row_data_len(page, idx) == read_uint(page.data, page.row_offsets[idx], U32)

\* The bytes are compacted and the offsets behind the row move down.
erase_row(page, idx) ==
    LET start == page.row_offsets[idx]
        total == row_data_len(page, idx)
        rest == RemoveAt(page.row_offsets, idx)
    IN  [data |-> SubSeq(page.data, 1, start) \o SubSeq(page.data, start + total + 1, Len(page.data)),
         row_offsets |-> [i \in DOMAIN rest |-> IF i < idx THEN rest[i] ELSE rest[i] - total]]

row_id_at(page, idx) == read_uint(page.data, page.row_offsets[idx] + U32, U32)

find_row(page, id) ==
    LET at == {i \in DOMAIN page.row_offsets : row_id_at(page, i) = id}
    IN  IF at = {} THEN 0 ELSE Min(at)

\* Each field starts behind the one just decoded.
get_row(page, idx, schema) ==
    LET field(pos, i) == read_field(page.data, pos, schema[i].type)
        src[i \in DOMAIN schema] ==
            IF i = 1 THEN page.row_offsets[idx] + 2 * U32
            ELSE src[i - 1] + field_byte_size(field(src[i - 1], i - 1))
    IN  [id |-> row_id_at(page, idx), fields |-> [i \in DOMAIN schema |-> field(src[i], i)]]

\* The bytes of a row, as the log keeps them, and the row replay_wal reads from them.
row_data_copy(page, idx) ==
    SubSeq(page.data, page.row_offsets[idx] + 1, page.row_offsets[idx] + row_data_len(page, idx))
ReplayedRow(bytes, schema) == get_row([data |-> bytes, row_offsets |-> <<0>>], 1, schema)

CorruptionError == [error |-> "CorruptionError"]

\* Mutant: the length word is taken not to count itself.
rebuild_row_offsets_Header(data, n) ==
    LET whole(p) == p + U32 <= Len(data)
        pos[i \in 1..n] ==
            IF i = 1 THEN 0
            ELSE pos[i - 1] + U32 + (IF whole(pos[i - 1]) THEN read_uint(data, pos[i - 1], U32) ELSE 0)
    IN  IF \A i \in 1..n : whole(pos[i]) THEN [i \in 1..n |-> pos[i]] ELSE CorruptionError

\* Pager::rebuild_row_offsets: walk the length words of n rows, each of which must be there.
rebuild_row_offsets(data, n) ==
    LET whole(p) == p + U32 <= Len(data)
        pos[i \in 1..n] ==
            IF i = 1 THEN 0
            ELSE pos[i - 1] + (IF whole(pos[i - 1]) THEN read_uint(data, pos[i - 1], U32) ELSE 0)
    IN  IF \A i \in 1..n : whole(pos[i]) THEN [i \in 1..n |-> pos[i]] ELSE CorruptionError

----------------------------------------------------------------------------
(* ScanFilter: a set of constraints [field, op, t, v], at most one for each field,
   op and t (a setter overwrites).  IEEE floats: the largest magnitude is NaN. *)

Constrain(filter, c) ==
    {d \in filter : <<d.field, d.op, d.t>> # <<c.field, c.op, c.t>>} \cup {c}

FloatMag(bits) == bits % Half("FLOAT32")
FloatNaN(bits) == FloatMag(bits) = Half("FLOAT32") - 1
FloatNum(bits) == IF bits >= Half("FLOAT32") THEN -FloatMag(bits) ELSE bits

\* v < w and v = w in C++, for the type.
Less(v, w, t) ==
    IF t = "FLOAT32" THEN ~FloatNaN(v) /\ ~FloatNaN(w) /\ FloatNum(v) < FloatNum(w) ELSE v < w
Equal(v, w, t) ==
    IF t = "FLOAT32" THEN ~FloatNaN(v) /\ ~FloatNaN(w) /\ FloatNum(v) = FloatNum(w) ELSE v = w

\* The value passes the constraint, which is one for its type.
Passes(v, c) ==
    CASE c.op = "eq" -> Equal(v, c.v, c.t)
      [] c.op = "min" -> ~Less(v, c.v, c.t)
      [] c.op = "max" -> ~Less(c.v, v, c.t)
      [] c.op = "prefix" -> IsPrefix(c.v, v)

\* On a decoded row: look up each constrained field; unknown fields are ignored, and
\* so are constraints of another type than the field's.
matches(filter, row, schema) ==
    \A c \in filter :
        LET i == field_index(schema, c.field)
        IN  i # 0 /\ schema[i].type = c.t => Passes(row.fields[i].v, c)

\* On the bytes of the row at offset off: walk the fields in order.
matches_raw(filter, data, off, schema) ==
    \A i \in DOMAIN schema : \A c \in filter :
        c.field = schema[i].name /\ c.t = schema[i].type =>
            Passes(read_field(data, FieldPos(data, off, schema, i), schema[i].type).v, c)

\* handle_scan of the command line: one option --field, --min-field, --max-field or
\* --prefix-field with its value (already parsed for the type of the field).
ScanOption(filter, schema, op, field, val) ==
    LET i == field_index(schema, field)
        c == [field |-> field, op |-> op, t |-> val.t, v |-> val.v]
        known == i # 0 /\ schema[i].type = val.t
        numeric == val.t \in {"UINT32", "INT64", "FLOAT32"}
    IN  IF \/ op = "prefix" /\ val.t = "STRING"
           \/ op \in {"min", "max"} /\ known /\ numeric
           \/ op = "eq" /\ known
        THEN Constrain(filter, c) ELSE filter

----------------------------------------------------------------------------
(* Schema on disk *)

MaxName == BYTE ^ U16 - 1      \* bytes of a field name whose length can be written (0xFFFF)

\* A field: the length of its name, the name, cut to what the length can say, and the type tag.
serialise_field(f) ==
    LET name == SubSeq(f.name, 1, Min({Len(f.name), MaxName}))
    IN  write_uint(Len(name), U16) \o name
        \o <<SelectInSeq(FieldTypes, LAMBDA t : t = f.type) - 1>>

\* Mutant: the number of fields goes before the version.
serialise_schema_Swapped(s) ==
    write_uint(Len(s.fields), U32) \o write_uint(s.ver, U32)
    \o FlattenSeq([i \in DOMAIN s.fields |-> serialise_field(s.fields[i])])

\* Version, number of fields, fields.
serialise_schema(s) ==
    write_uint(s.ver, U32) \o write_uint(Len(s.fields), U32)
    \o FlattenSeq([i \in DOMAIN s.fields |-> serialise_field(s.fields[i])])

\* deserialise_schema: the schema, or CorruptionError when the bytes end too soon or there
\* is no field or too many.  The type tag is not checked.
deserialise_schema(data) ==
    LET count == read_uint(data, U32, U32)
        pos[i \in 1..count + 1] ==
            IF i = 1 THEN 2 * U32
            ELSE LET p == pos[i - 1]
                 IN  IF p = -1 \/ p + U16 > Len(data) THEN -1
                     ELSE IF p + U16 + read_uint(data, p, U16) + 1 > Len(data) THEN -1
                     ELSE p + U16 + read_uint(data, p, U16) + 1
    IN  IF Len(data) < 2 * U32 \/ count = 0 \/ count > MAX_FIELDS \/ pos[count + 1] = -1
        THEN CorruptionError
        ELSE [ver |-> read_uint(data, 0, U32),
              fields |-> [i \in 1..count |->
                 [name |-> SubSeq(data, pos[i] + U16 + 1, pos[i + 1] - 1),
                  type |-> IF data[pos[i + 1]] < Len(FieldTypes)
                           THEN FieldTypes[data[pos[i + 1]] + 1] ELSE "unknown"]]]

----------------------------------------------------------------------------
(* SchemaMigrator; an operation is [op, field_name, new_name, default_value] *)

\* A field that nothing sets keeps the first alternative of the variant: uint32 0.
Unset == [t |-> "UINT32", v |-> 0]

\* The fields that exist in both schemas, copied by name.
CopiedFields(row, old, new) ==
    [i \in DOMAIN new |->
        IF field_index(old, new[i].name) = 0 THEN Unset ELSE row.fields[field_index(old, new[i].name)]]

\* RENAME copies the old row's data, ADD sets the default; DROP does nothing.
ApplyOp(fields, op, row, old, new) ==
    LET ni == field_index(new, IF op.op = "RENAME" THEN op.new_name ELSE op.field_name)
        oi == field_index(old, op.field_name)
    IN  CASE op.op = "RENAME" /\ ni # 0 /\ oi # 0 -> [fields EXCEPT ![ni] = row.fields[oi]]
          [] op.op = "ADD" /\ ni # 0 -> [fields EXCEPT ![ni] = op.default_value]
          [] OTHER -> fields

\* Mutant: first the additions, then the renames.
apply_to_row_RenamesLast(row, old, new, ops) ==
    LET renames == SelectSeq(ops, LAMBDA op : op.op = "RENAME")
        others == SelectSeq(ops, LAMBDA op : op.op # "RENAME")
        step(fields, op) == ApplyOp(fields, op, row, old, new)
    IN  [id |-> row.id, fields |-> FoldLeft(step, CopiedFields(row, old, new), others \o renames)]

\* The operations run in their order, each on what the ones before have made.
apply_to_row(row, old, new, ops) ==
    LET step(fields, op) == ApplyOp(fields, op, row, old, new)
    IN  [id |-> row.id, fields |-> FoldLeft(step, CopiedFields(row, old, new), ops)]

is_compatible(old, new, ops) ==
    \A i \in DOMAIN new :
        \/ field_index(old, new[i].name) # 0
        \/ \E k \in DOMAIN ops : ops[k].op = "ADD" /\ ops[k].field_name = new[i].name
=============================================================================
