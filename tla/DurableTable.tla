---------------------------- MODULE DurableTable ----------------------------
(***************************************************************************)
(* What XDL promises about the contents a restart will find: a table that  *)
(* changes only by whole calls, once for each call, at the moment the call *)
(* makes its log records durable.  Page writes, checkpoints, reads,        *)
(* crashes and recoveries do not change it.                                *)
(***************************************************************************)
EXTENDS Naturals, Sequences

CONSTANTS
    Ids, Vals,
    NoVal,      \* the value of an id that has no row
    NoCall      \* no call is waiting to take effect

VARIABLES
    table,      \* table[id]: the value of the row, or NoVal
    call        \* the call in progress that has not taken effect, or NoCall

\* The effect of a call on a table: rows of an insert or an update are set, rows
\* of an erase disappear.
Effect(c, t) ==
    [id \in Ids |->
        IF \E i \in DOMAIN c.rows : c.rows[i].id = id
        THEN LET i == CHOOSE i \in DOMAIN c.rows : c.rows[i].id = id
             IN  IF c.k \in {"erase", "erase_batch"} THEN NoVal ELSE c.rows[i].val
        ELSE t[id]]

Kinds == {"insert", "insert_batch", "erase", "erase_batch", "update", "update_batch"}

IsCall(c) ==
    /\ c.k \in Kinds
    /\ \A i \in DOMAIN c.rows : c.rows[i].id \in Ids /\ c.rows[i].val \in Vals \cup {NoVal}

Init ==
    /\ table = [id \in Ids |-> NoVal]
    /\ call = NoCall

\* A call enters; inserted rows must be new, the others must exist.
Begin ==
    /\ call = NoCall
    /\ call' # NoCall
    /\ IsCall(call')
    /\ \A i \in DOMAIN call'.rows :
          (table[call'.rows[i].id] = NoVal) <=> (call'.k \in {"insert", "insert_batch"})
    /\ UNCHANGED table

\* The call takes effect, all of it at once.
Commit ==
    /\ call # NoCall
    /\ table' = Effect(call, table)
    /\ call' = NoCall

\* A crash before that: the call never happened.
Abort ==
    /\ call # NoCall
    /\ call' = NoCall
    /\ UNCHANGED table

Next == Begin \/ Commit \/ Abort

Spec == Init /\ [][Next]_<<table, call>>
=============================================================================
