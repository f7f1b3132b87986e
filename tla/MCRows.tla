------------------------------ MODULE MCRows ------------------------------
(* Instance of Rows for TLC: bytes of three bits; 5 and -5 need two bytes. *)
EXTENDS Rows

MCWidth == [UINT32 |-> 2, FLOAT32 |-> 1, BOOL |-> 1, INT64 |-> 2]

\* Values at the edges of each type.  Floats of three bits: 0, 1, 2 are +0, 1, +inf;
\* 4, 5, 6 the same with the sign bit; 3 and 7 are NaN.
MCVals ==
    [UINT32  |-> {5, 63},
     INT64   |-> {-32, -1, 8},
     FLOAT32 |-> {0, 4, 6, 7},
     BOOL    |-> BOOLEAN,
     STRING  |-> {<<>>, <<1>>, <<1, 0>>}]

\* Field names are strings of bytes too.
a == <<1>>
b == <<2, 1>>
c == <<1, 1>>

Field(n, t) == [name |-> n, type |-> t]

\* Names of eight bytes, of which the length can say seven.
long(n) == [i \in 1..8 |-> IF i = 8 THEN n ELSE 1]

\* The last two cannot be stored and read back: too many fields, and names too long.
MCSchemas ==
    {[ver |-> 1, fields |-> <<Field(a, "STRING"), Field(b, "UINT32")>>],
     [ver |-> 1, fields |-> <<Field(b, "INT64"), Field(c, "STRING")>>],
     [ver |-> 2, fields |-> <<Field(a, "FLOAT32"), Field(c, "BOOL")>>],
     [ver |-> 1, fields |-> <<Field(a, "UINT32"), Field(b, "UINT32"), Field(c, "UINT32")>>],
     [ver |-> 1, fields |-> <<Field(long(2), "BOOL"), Field(long(3), "BOOL")>>]}

Op(op, f, n, d) == [op |-> op, field_name |-> f, new_name |-> n, default_value |-> d]

\* Defaults that no row has.
Default ==
    [UINT32 |-> [t |-> "UINT32", v |-> 7], STRING |-> [t |-> "STRING", v |-> <<2>>],
     FLOAT32 |-> [t |-> "FLOAT32", v |-> 1]]

\* A new field, with or without the data of an old one of its type, beside a field that stays.
Renames(from, to, type, other) ==
    LET add == Op("ADD", to, <<>>, Default[type])
        rename == Op("RENAME", from, to, Default[type])
        drop == Op("DROP", from, <<>>, Default[type])
    IN  [fields : {<<Field(to, type), other>>, <<other, Field(to, type)>>},
         ops : {<<>>, <<add>>, <<rename>>, <<drop, add>>, <<add, rename>>, <<rename, add>>,
                <<add, rename, drop>>}]

\* Renames to names that are in use, one after the other and in a circle.
Swaps ==
    LET rename(from, to) == Op("RENAME", from, to, Default["UINT32"])
    IN  [fields : {<<Field(b, "UINT32"), Field(a, "UINT32")>>},
         ops : {<<>>, <<rename(a, b)>>, <<rename(a, b), rename(b, a)>>, <<rename(a, b), rename(c, b)>>}]

\* One or more typed migrations of each of the first four schemas.
MCMigrations ==
    Renames(a, c, "STRING", Field(b, "UINT32")) \cup Renames(c, a, "STRING", Field(b, "INT64"))
    \cup Renames(a, b, "FLOAT32", Field(c, "BOOL")) \cup Renames(a, c, "UINT32", Field(b, "UINT32"))
    \cup Swaps
=============================================================================
