------------------------------ MODULE BPTree ------------------------------
(***************************************************************************)
(* The secondary index of XDL: keys encoded so that the order of the bytes *)
(* is the order of the values, in a sorted vector `entries_` of            *)
(* [key, ids].  (The class is called BPTree; it has no nodes.)             *)
(***************************************************************************)
EXTENDS RowFormat

(* Key encoding *)

\* Most significant byte first.
encode_int_be(n, w) == Reverse(write_uint(n, w))

\* Mutant: the sign bit is not flipped.
encode_signed_be_Raw(n, t) == encode_int_be(to_unsigned(n, t), Width[t])

\* The sign bit is flipped, so that negative numbers come first.
encode_signed_be(n, t) == encode_int_be((to_unsigned(n, t) + Half(t)) % Patterns(t), Width[t])

\* Negative floats have all their bits flipped, the others the sign bit.
encode_float_ordered(bits) ==
    encode_int_be(IF bits >= Half("FLOAT32") THEN Patterns("FLOAT32") - 1 - bits
                  ELSE bits + Half("FLOAT32"), Width["FLOAT32"])

bptree_key_encode_vec(val) ==
    CASE val.t = "UINT32"  -> encode_int_be(val.v, Width[val.t])
      [] val.t = "INT64"   -> encode_signed_be(val.v, val.t)
      [] val.t = "FLOAT32" -> encode_float_ordered(val.v)
      [] val.t = "BOOL"    -> <<IF val.v THEN 1 ELSE 0>>
      [] val.t = "STRING"  -> val.v

\* memcmp of the common part, then the shorter key first.
bptree_key_compare(a, b) ==
    LET diff == {i \in DOMAIN a \cap DOMAIN b : a[i] # b[i]}
    IN  IF diff # {} THEN a[Min(diff)] - b[Min(diff)]
        ELSE Len(a) - Len(b)

----------------------------------------------------------------------------
(* The sorted vector *)

\* Position of the first entry whose key is not below the given one.
lower_bound(entries, key) ==
    LET at == {i \in DOMAIN entries : bptree_key_compare(entries[i].key, key) >= 0}
    IN  IF at = {} THEN Len(entries) + 1 ELSE Min(at)

HasKey(entries, i, key) == i \in DOMAIN entries /\ bptree_key_compare(entries[i].key, key) = 0

\* Mutant: a new key is put behind its successor.
insert_After(entries, val, id) ==
    LET key == bptree_key_encode_vec(val)
        i == lower_bound(entries, key)
    IN  IF HasKey(entries, i, key)
        THEN [entries EXCEPT ![i].ids = IF Contains(@, id) THEN @ ELSE Append(@, id)]
        ELSE InsertAt(entries, IF i > Len(entries) THEN i ELSE i + 1, [key |-> key, ids |-> <<id>>])

insert(entries, val, id) ==
    LET key == bptree_key_encode_vec(val)
        i == lower_bound(entries, key)
    IN  IF HasKey(entries, i, key)
        THEN [entries EXCEPT ![i].ids = IF Contains(@, id) THEN @ ELSE Append(@, id)]
        ELSE InsertAt(entries, i, [key |-> key, ids |-> <<id>>])

\* Mutant: the whole entry goes, with the other rows of the same value.
erase_Entry(entries, val, id) ==
    LET key == bptree_key_encode_vec(val)
        i == lower_bound(entries, key)
    IN  IF HasKey(entries, i, key) THEN RemoveAt(entries, i) ELSE entries

erase(entries, val, id) ==
    LET key == bptree_key_encode_vec(val)
        i == lower_bound(entries, key)
        left == SelectSeq(entries[i].ids, LAMBDA x : x # id)
    IN  IF ~HasKey(entries, i, key) THEN entries
        ELSE IF left = <<>> THEN RemoveAt(entries, i)
        ELSE [entries EXCEPT ![i].ids = left]

\* The ids of the value, <<>> for nullptr.
find(entries, val) ==
    LET key == bptree_key_encode_vec(val)
        i == lower_bound(entries, key)
    IN  IF HasKey(entries, i, key) THEN entries[i].ids ELSE <<>>

\* A bound of a range is [set, val, incl]; set is FALSE for an open end.
\* The ids range_scan hands to its visitor, in order: from the lower bound to the
\* first key past the upper one.
range_scan(entries, lo, hi) ==
    LET at == lower_bound(entries, bptree_key_encode_vec(lo.val))
        first == IF ~lo.set THEN 1
                 ELSE IF ~lo.incl /\ HasKey(entries, at, bptree_key_encode_vec(lo.val)) THEN at + 1
                 ELSE at
        cmp(i) == bptree_key_compare(entries[i].key, bptree_key_encode_vec(hi.val))
        past == {i \in first..Len(entries) :
                    hi.set /\ (cmp(i) > 0 \/ (cmp(i) = 0 /\ ~hi.incl))}
        last == IF past = {} THEN Len(entries) ELSE Min(past) - 1
    IN  FlattenSeq([i \in 1..last - first + 1 |-> entries[first + i - 1].ids])

----------------------------------------------------------------------------
(* index_range_scan without an index: the comparison its full scan makes *)

compare_field_values(a, b) == bptree_key_compare(bptree_key_encode_vec(a), bptree_key_encode_vec(b))

InRange(val, lo, hi) ==
    /\ lo.set => LET c == compare_field_values(val, lo.val) IN c > 0 \/ (c = 0 /\ lo.incl)
    /\ hi.set => LET c == compare_field_values(val, hi.val) IN c < 0 \/ (c = 0 /\ hi.incl)
=============================================================================
