----------------------------- MODULE WALProofs -----------------------------
(***************************************************************************)
(* Proofs about WAL, for every buffer size, every number of records and    *)
(* every fault the module allows.                                          *)
(***************************************************************************)
EXTENDS WAL, TLAPS

\* The inductive invariant, as a formula of a file f of which the first sy records
\* are on stable storage, a buffer b, the next record number m, the acknowledged
\* records a and the returned offsets ret.  The buffer continues the file: its
\* records are newer and their offsets follow on.
Good(f, sy, b, m, a, ret) ==
    /\ f \in Seq(Nat \cup {Torn}) /\ b \in Seq(Nat)
    /\ sy \in 0..Len(f)
    /\ m \in Nat \ {0} /\ a \in SUBSET Nat
    /\ ret \in Seq(Nat) /\ Len(ret) = m - 1
    /\ \A i \in 1..Len(f) : f[i] # Torn => f[i] \in 1..m - 1 /\ ret[f[i]] = i - 1
    /\ \A j \in 1..Len(b) : b[j] \in 1..m - 1 /\ ret[b[j]] = Len(f) + j - 1
    /\ \A i, j \in 1..Len(f) : i < j /\ f[i] # Torn /\ f[j] # Torn => f[i] < f[j]
    /\ \A i, j \in 1..Len(b) : i < j => b[i] < b[j]
    /\ \A i \in 1..Len(f), j \in 1..Len(b) : f[i] # Torn => f[i] < b[j]
    /\ \A r \in a : \E i \in 1..sy : f[i] = r

\* Every record from number s on is buffered or in the file, and on stable storage
\* if no write is waiting for an fsync (d).
Session(f, sy, b, d, s, m) ==
    \A r \in s..m - 1 :
        \/ \E j \in 1..Len(b) : b[j] = r
        \/ \E i \in 1..Len(f) : f[i] = r /\ (d \/ i <= sy)

LogState == [file : Seq(Nat \cup {Torn}), synced : Nat, buf : Seq(Nat),
             dirty : BOOLEAN, offset : Nat]

\* The invariant of an open log in state l.
OpenLog(l, s, m, a, ret) ==
    /\ l \in LogState
    /\ Good(l.file, l.synced, l.buf, m, a, ret)
    /\ l.offset = Len(l.file)
    /\ Len(l.buf) <= WAL_BUFFER_SIZE
    /\ s \in 1..m
    /\ Session(l.file, l.synced, l.buf, l.dirty, s, m)

LogInv ==
    /\ Good(file, synced, buf, n, acked, returned)
    /\ dirty \in BOOLEAN /\ open \in BOOLEAN /\ offset \in Nat /\ first \in 1..n
    /\ open => OpenLog(Log, first, n, acked, returned)
    /\ ~open => buf = <<>>

\* Elements of a concatenation.
LEMMA ConcatFacts ==
    ASSUME NEW S, NEW s \in Seq(S), NEW t \in Seq(S)
    PROVE  /\ s \o t \in Seq(S)
           /\ Len(s \o t) = Len(s) + Len(t)
           /\ \A i \in 1..Len(s) : (s \o t)[i] = s[i]
           /\ \A i \in 1..Len(t) : (s \o t)[Len(s) + i] = t[i]
           /\ \A i \in 1..Len(s) + Len(t) : i > Len(s) => (s \o t)[i] = t[i - Len(s)]
OBVIOUS

\* Elements of a prefix.
LEMMA PrefixFacts ==
    ASSUME NEW S, NEW s \in Seq(S), NEW k \in 0..Len(s)
    PROVE  /\ SubSeq(s, 1, k) \in Seq(S)
           /\ Len(SubSeq(s, 1, k)) = k
           /\ \A i \in 1..k : SubSeq(s, 1, k)[i] = s[i]
OBVIOUS

\* The parts of the invariant, to be cited one by one.
LEMMA GoodParts ==
    ASSUME NEW f, NEW sy, NEW b, NEW m, NEW a, NEW ret
    PROVE  Good(f, sy, b, m, a, ret) <=>
             /\ /\ f \in Seq(Nat \cup {Torn}) /\ b \in Seq(Nat)
                /\ m \in Nat \ {0} /\ a \in SUBSET Nat
                /\ ret \in Seq(Nat) /\ Len(ret) = m - 1
             /\ sy \in 0..Len(f) /\ \A r \in a : \E i \in 1..sy : f[i] = r
             /\ \A i \in 1..Len(f) : f[i] # Torn => f[i] \in 1..m - 1 /\ ret[f[i]] = i - 1
             /\ \A j \in 1..Len(b) : b[j] \in 1..m - 1 /\ ret[b[j]] = Len(f) + j - 1
             /\ \A i, j \in 1..Len(f) : i < j /\ f[i] # Torn /\ f[j] # Torn => f[i] < f[j]
             /\ \A i, j \in 1..Len(b) : i < j => b[i] < b[j]
             /\ \A i \in 1..Len(f), j \in 1..Len(b) : f[i] # Torn => f[i] < b[j]
BY Zenon DEF Good

\* The invariant of a file with an empty buffer.
LEMMA GoodEmpty ==
    ASSUME NEW f \in Seq(Nat \cup {Torn}), NEW sy, NEW m \in Nat \ {0}, NEW a \in SUBSET Nat,
           NEW ret \in Seq(Nat), Len(ret) = m - 1,
           sy \in 0..Len(f), \A r \in a : \E i \in 1..sy : f[i] = r,
           \A i \in 1..Len(f) : f[i] # Torn => f[i] \in 1..m - 1 /\ ret[f[i]] = i - 1,
           \A i, j \in 1..Len(f) : i < j /\ f[i] # Torn /\ f[j] # Torn => f[i] < f[j]
    PROVE  Good(f, sy, <<>>, m, a, ret)
<1>1. <<>> \in Seq(Nat) /\ \A j \in 1..Len(<<>>) : FALSE
  OBVIOUS
<1> QED BY Zenon, <1>1 DEF Good

\* A prefix of the buffer moves to the file and the rest is forgotten: a flush if
\* it is the whole buffer, a crash in the middle of write() if not.
LEMMA MovePrefix ==
    ASSUME NEW f, NEW sy, NEW b, NEW m, NEW a, NEW ret,
           Good(f, sy, b, m, a, ret),
           NEW k \in 0..Len(b)
    PROVE  Good(f \o SubSeq(b, 1, k), sy, <<>>, m, a, ret)
<1> DEFINE c == SubSeq(b, 1, k)
           g == f \o c
           N == Nat \cup {Torn}
<1>a. /\ f \in Seq(N) /\ b \in Seq(Nat) /\ m \in Nat \ {0} /\ a \in SUBSET Nat
      /\ ret \in Seq(Nat) /\ Len(ret) = m - 1
  BY GoodParts
<1>b. sy \in 0..Len(f) /\ \A r \in a : \E i \in 1..sy : f[i] = r
  BY GoodParts
<1>c. \A i \in 1..Len(f) : f[i] # Torn => f[i] \in 1..m - 1 /\ ret[f[i]] = i - 1
  BY GoodParts
<1>d. \A j \in 1..Len(b) : b[j] \in 1..m - 1 /\ ret[b[j]] = Len(f) + j - 1
  BY GoodParts
<1>e. \A i, j \in 1..Len(f) : i < j /\ f[i] # Torn /\ f[j] # Torn => f[i] < f[j]
  BY GoodParts
<1>f. \A i, j \in 1..Len(b) : i < j => b[i] < b[j]
  BY GoodParts
<1>g. \A i \in 1..Len(f), j \in 1..Len(b) : f[i] # Torn => f[i] < b[j]
  BY GoodParts
<1>1. Len(f) \in Nat /\ Len(b) \in Nat
  BY <1>a
<1>2. c \in Seq(Nat) /\ Len(c) = k /\ \A i \in 1..k : c[i] = b[i]
  BY <1>a, PrefixFacts
<1>3. c \in Seq(N)
  BY <1>2 DEF N
<1> HIDE DEF c, N
<1>3a. /\ g \in Seq(N) /\ Len(g) = Len(f) + Len(c)
       /\ \A i \in 1..Len(f) : g[i] = f[i]
       /\ \A i \in 1..Len(f) + Len(c) : i > Len(f) => g[i] = c[i - Len(f)]
  BY <1>a, <1>3, ConcatFacts
<1> HIDE DEF g
<1>4. /\ g \in Seq(N) /\ Len(g) = Len(f) + k
      /\ \A i \in 1..Len(f) : g[i] = f[i]
      /\ \A i \in 1..Len(f) + k : i > Len(f) => g[i] = b[i - Len(f)]
  BY <1>1, <1>2, <1>3a
<1>5. sy \in 0..Len(g) /\ \A r \in a : \E i \in 1..sy : g[i] = r
  BY <1>1, <1>4, <1>b
<1>6. \A i \in 1..Len(g) : g[i] # Torn => g[i] \in 1..m - 1 /\ ret[g[i]] = i - 1
  <2> SUFFICES ASSUME NEW i \in 1..Len(g), g[i] # Torn
               PROVE  g[i] \in 1..m - 1 /\ ret[g[i]] = i - 1
    OBVIOUS
  <2>1. CASE i <= Len(f)
    BY <1>1, <1>4, <1>c, <2>1
  <2>2. CASE i > Len(f)
    <3>1. i - Len(f) \in 1..Len(b) /\ g[i] = b[i - Len(f)]
      BY <1>1, <1>4, <2>2
    <3> QED BY <1>1, <1>d, <3>1
  <2> QED BY <1>1, <1>4, <2>1, <2>2
<1>7. \A i, j \in 1..Len(g) : i < j /\ g[i] # Torn /\ g[j] # Torn => g[i] < g[j]
  <2> SUFFICES ASSUME NEW i \in 1..Len(g), NEW j \in 1..Len(g), i < j, g[i] # Torn, g[j] # Torn
               PROVE  g[i] < g[j]
    OBVIOUS
  <2>1. CASE j <= Len(f)
    BY <1>1, <1>4, <1>e, <2>1
  <2>2. CASE i <= Len(f) /\ j > Len(f)
    <3>1. j - Len(f) \in 1..Len(b) /\ g[j] = b[j - Len(f)] /\ i \in 1..Len(f) /\ g[i] = f[i]
      BY <1>1, <1>4, <2>2
    <3> QED BY <1>g, <3>1
  <2>3. CASE i > Len(f) /\ j > Len(f)
    <3>1. /\ j - Len(f) \in 1..Len(b) /\ g[j] = b[j - Len(f)]
          /\ i - Len(f) \in 1..Len(b) /\ g[i] = b[i - Len(f)]
          /\ i - Len(f) < j - Len(f)
      BY <1>1, <1>4, <2>3
    <3> QED BY <1>f, <3>1
  <2> QED BY <1>1, <1>4, <2>1, <2>2, <2>3
<1>8. g \in Seq(Nat \cup {Torn})
  BY <1>4 DEF N
<1>9. Good(g, sy, <<>>, m, a, ret)
  BY <1>5, <1>6, <1>7, <1>8, <1>a, GoodEmpty
<1> QED BY <1>9 DEF g, c

\* Part of a record is left at the end of the file; nothing is buffered.
LEMMA TearTail ==
    ASSUME NEW f, NEW sy, NEW m, NEW a, NEW ret, Good(f, sy, <<>>, m, a, ret)
    PROVE  Good(f \o <<Torn>>, sy, <<>>, m, a, ret)
<1> DEFINE g == f \o <<Torn>>
           N == Nat \cup {Torn}
<1>a. /\ f \in Seq(N) /\ m \in Nat \ {0} /\ a \in SUBSET Nat
      /\ ret \in Seq(Nat) /\ Len(ret) = m - 1
  BY GoodParts
<1>b. sy \in 0..Len(f) /\ \A r \in a : \E i \in 1..sy : f[i] = r
  BY GoodParts
<1>c. \A i \in 1..Len(f) : f[i] # Torn => f[i] \in 1..m - 1 /\ ret[f[i]] = i - 1
  BY GoodParts
<1>e. \A i, j \in 1..Len(f) : i < j /\ f[i] # Torn /\ f[j] # Torn => f[i] < f[j]
  BY GoodParts
<1>1. <<Torn>> \in Seq(N) /\ Len(f) \in Nat /\ Len(<<Torn>>) = 1 /\ <<Torn>>[1] = Torn
  BY <1>a
<1>2. /\ g \in Seq(N) /\ Len(g) = Len(f) + 1
      /\ \A i \in 1..Len(f) : g[i] = f[i]
      /\ g[Len(f) + 1] = Torn
  BY <1>a, <1>1, ConcatFacts
<1> HIDE DEF g, N
<1>3. sy \in 0..Len(g) /\ \A r \in a : \E i \in 1..sy : g[i] = r
  BY <1>1, <1>2, <1>b
<1>4. \A i \in 1..Len(g) : g[i] # Torn => i \in 1..Len(f) /\ g[i] = f[i]
  BY <1>1, <1>2
<1>5. \A i \in 1..Len(g) : g[i] # Torn => g[i] \in 1..m - 1 /\ ret[g[i]] = i - 1
  BY <1>4, <1>c
<1>6. \A i, j \in 1..Len(g) : i < j /\ g[i] # Torn /\ g[j] # Torn => g[i] < g[j]
  BY <1>4, <1>e
<1>7. g \in Seq(Nat \cup {Torn})
  BY <1>2 DEF N
<1>8. Good(g, sy, <<>>, m, a, ret)
  BY <1>3, <1>5, <1>6, <1>7, <1>a, GoodEmpty
<1> QED BY <1>8 DEF g

\* A prefix of the file that holds the synced part survives; nothing is buffered.
LEMMA CutTail ==
    ASSUME NEW f, NEW sy, NEW b, NEW m, NEW a, NEW ret, Good(f, sy, b, m, a, ret),
           NEW k \in sy..Len(f)
    PROVE  Good(SubSeq(f, 1, k), k, <<>>, m, a, ret) /\ Len(SubSeq(f, 1, k)) = k
<1> DEFINE g == SubSeq(f, 1, k)
           N == Nat \cup {Torn}
<1>a. /\ f \in Seq(N) /\ m \in Nat \ {0} /\ a \in SUBSET Nat
      /\ ret \in Seq(Nat) /\ Len(ret) = m - 1
  BY GoodParts
<1>b. sy \in 0..Len(f) /\ \A r \in a : \E i \in 1..sy : f[i] = r
  BY GoodParts
<1>c. \A i \in 1..Len(f) : f[i] # Torn => f[i] \in 1..m - 1 /\ ret[f[i]] = i - 1
  BY GoodParts
<1>e. \A i, j \in 1..Len(f) : i < j /\ f[i] # Torn /\ f[j] # Torn => f[i] < f[j]
  BY GoodParts
<1>1. Len(f) \in Nat /\ k \in 0..Len(f) /\ sy \in 0..k
  BY <1>a, <1>b
<1>2. g \in Seq(N) /\ Len(g) = k /\ \A i \in 1..k : g[i] = f[i]
  BY <1>a, <1>1, PrefixFacts
<1> HIDE DEF g, N
<1>3. k \in 0..Len(g) /\ \A r \in a : \E i \in 1..k : g[i] = r
  BY <1>1, <1>2, <1>b
<1>5. \A i \in 1..Len(g) : g[i] # Torn => g[i] \in 1..m - 1 /\ ret[g[i]] = i - 1
  BY <1>1, <1>2, <1>c
<1>6. \A i, j \in 1..Len(g) : i < j /\ g[i] # Torn /\ g[j] # Torn => g[i] < g[j]
  BY <1>1, <1>2, <1>e
<1>7. g \in Seq(Nat \cup {Torn})
  BY <1>2 DEF N
<1>8. Good(g, k, <<>>, m, a, ret)
  BY <1>3, <1>5, <1>6, <1>7, <1>a, GoodEmpty
<1> QED BY <1>2, <1>8 DEF g

\* A new record goes to the end of the buffer.
LEMMA AppendRecord ==
    ASSUME NEW f, NEW sy, NEW b, NEW m, NEW a, NEW ret, Good(f, sy, b, m, a, ret)
    PROVE  Good(f, sy, Append(b, m), m + 1, a, Append(ret, Len(f) + Len(b)))
<1> DEFINE c == Append(b, m)
           q == Append(ret, Len(f) + Len(b))
           N == Nat \cup {Torn}
<1>a. /\ f \in Seq(N) /\ b \in Seq(Nat) /\ m \in Nat \ {0} /\ a \in SUBSET Nat
      /\ ret \in Seq(Nat) /\ Len(ret) = m - 1
  BY GoodParts
<1>b. sy \in 0..Len(f) /\ \A r \in a : \E i \in 1..sy : f[i] = r
  BY GoodParts
<1>c. \A i \in 1..Len(f) : f[i] # Torn => f[i] \in 1..m - 1 /\ ret[f[i]] = i - 1
  BY GoodParts
<1>d. \A j \in 1..Len(b) : b[j] \in 1..m - 1 /\ ret[b[j]] = Len(f) + j - 1
  BY GoodParts
<1>e. \A i, j \in 1..Len(f) : i < j /\ f[i] # Torn /\ f[j] # Torn => f[i] < f[j]
  BY GoodParts
<1>f. \A i, j \in 1..Len(b) : i < j => b[i] < b[j]
  BY GoodParts
<1>g. \A i \in 1..Len(f), j \in 1..Len(b) : f[i] # Torn => f[i] < b[j]
  BY GoodParts
<1>1. Len(f) \in Nat /\ Len(b) \in Nat /\ m \in Nat /\ m > 0
  BY <1>a
<1>2. /\ c \in Seq(Nat) /\ Len(c) = Len(b) + 1
      /\ \A j \in 1..Len(b) : c[j] = b[j]
      /\ c[Len(b) + 1] = m
  BY <1>a
<1>3. /\ q \in Seq(Nat) /\ Len(q) = m
      /\ \A r \in 1..m - 1 : q[r] = ret[r]
      /\ q[m] = Len(f) + Len(b)
  BY <1>a, <1>1
<1> HIDE DEF c, q, N
<1>4. \A i \in 1..Len(f) : f[i] # Torn => f[i] \in 1..m /\ q[f[i]] = i - 1
  <2> SUFFICES ASSUME NEW i \in 1..Len(f), f[i] # Torn
               PROVE  f[i] \in 1..m /\ q[f[i]] = i - 1
    OBVIOUS
  <2>1. f[i] \in 1..m - 1 /\ ret[f[i]] = i - 1
    BY <1>c
  <2>2. f[i] \in 1..m
    BY <1>1, <2>1
  <2>3. q[f[i]] = ret[f[i]]
    BY <1>3, <2>1
  <2> QED BY <2>1, <2>2, <2>3
<1>5. \A j \in 1..Len(c) : c[j] \in 1..m /\ q[c[j]] = Len(f) + j - 1
  <2> SUFFICES ASSUME NEW j \in 1..Len(c)
               PROVE  c[j] \in 1..m /\ q[c[j]] = Len(f) + j - 1
    OBVIOUS
  <2>1. CASE j \in 1..Len(b)
    <3>1. c[j] = b[j] /\ b[j] \in 1..m - 1 /\ ret[b[j]] = Len(f) + j - 1
      BY <1>2, <1>d, <2>1
    <3>2. q[b[j]] = ret[b[j]]
      BY <1>3, <3>1
    <3>3. b[j] \in 1..m
      BY <1>1, <3>1
    <3> QED BY <3>1, <3>2, <3>3
  <2>2. CASE j = Len(b) + 1
    BY <1>1, <1>2, <1>3, <2>2
  <2> QED BY <1>1, <1>2, <2>1, <2>2
<1>6. \A i, j \in 1..Len(c) : i < j => c[i] < c[j]
  <2> SUFFICES ASSUME NEW i \in 1..Len(c), NEW j \in 1..Len(c), i < j
               PROVE  c[i] < c[j]
    OBVIOUS
  <2>1. CASE j \in 1..Len(b)
    <3>1. i \in 1..Len(b)
      BY <1>1, <2>1
    <3>2. c[i] = b[i] /\ c[j] = b[j]
      BY <1>2, <2>1, <3>1
    <3>3. b[i] < b[j]
      BY <1>f, <2>1, <3>1
    <3> QED BY <3>2, <3>3
  <2>2. CASE j = Len(b) + 1
    <3>1. i \in 1..Len(b)
      BY <1>1, <2>2
    <3>2. c[i] = b[i] /\ c[j] = m
      BY <1>2, <2>2, <3>1
    <3>3. b[i] \in 1..m - 1
      BY <1>d, <3>1
    <3> QED BY <1>1, <3>2, <3>3
  <2> QED BY <1>1, <1>2, <2>1, <2>2
<1>7. \A i \in 1..Len(f), j \in 1..Len(c) : f[i] # Torn => f[i] < c[j]
  <2> SUFFICES ASSUME NEW i \in 1..Len(f), NEW j \in 1..Len(c), f[i] # Torn
               PROVE  f[i] < c[j]
    OBVIOUS
  <2>1. CASE j \in 1..Len(b)
    BY <1>1, <1>2, <1>g, <2>1
  <2>2. CASE j = Len(b) + 1
    BY <1>1, <1>2, <1>c, <2>2
  <2> QED BY <1>1, <1>2, <2>1, <2>2
<1>8. m + 1 \in Nat \ {0} /\ (m + 1) - 1 = m
  BY <1>a
<1>9. f \in Seq(Nat \cup {Torn})
  BY <1>a DEF N
<1>10. Good(f, sy, c, m + 1, a, q)
  BY Zenon, <1>2, <1>3, <1>4, <1>5, <1>6, <1>7, <1>8, <1>9, <1>a, <1>b, <1>e DEF Good
<1> QED BY <1>10 DEF c, q

\* flush_write_buffer keeps the invariant of an open log and empties the buffer.
LEMMA FlushOpen ==
    ASSUME NEW l, NEW s, NEW m, NEW a, NEW ret, OpenLog(l, s, m, a, ret)
    PROVE  OpenLog(flush_write_buffer(l), s, m, a, ret) /\ flush_write_buffer(l).buf = <<>>
<1>1. CASE l.buf = <<>>
  BY <1>1 DEF flush_write_buffer
<1>2. CASE l.buf # <<>>
  <2> DEFINE k == flush_write_buffer(l)
             f == l.file
             b == l.buf
  <2>1. l \in LogState /\ Good(f, l.synced, b, m, a, ret) /\ l.offset = Len(f) /\ s \in 1..m
    BY DEF OpenLog
  <2>2. f \in Seq(Nat \cup {Torn}) /\ b \in Seq(Nat) /\ Len(f) \in Nat /\ Len(b) \in Nat
    BY <2>1 DEF LogState
  <2>3. b \in Seq(Nat \cup {Torn})
    BY <2>2
  <2> HIDE DEF f, b, k
  <2>4. /\ f \o b \in Seq(Nat \cup {Torn}) /\ Len(f \o b) = Len(f) + Len(b)
        /\ \A i \in 1..Len(f) : (f \o b)[i] = f[i]
        /\ \A i \in 1..Len(b) : (f \o b)[Len(f) + i] = b[i]
    BY <2>2, <2>3, ConcatFacts
  <2>5. SubSeq(b, 1, Len(b)) = b
    BY <2>2
  <2>6. Good(f \o b, l.synced, <<>>, m, a, ret)
    <3>1. Len(b) \in 0..Len(b)
      BY <2>2
    <3>2. Good(f \o SubSeq(b, 1, Len(b)), l.synced, <<>>, m, a, ret)
      BY <2>1, <3>1, MovePrefix
    <3> QED BY <2>5, <3>2
  <2>7. /\ k \in LogState
        /\ k.file = f \o b /\ k.synced = l.synced /\ k.buf = <<>> /\ k.dirty = TRUE
        /\ k.offset = Len(f \o b)
    <3>1. k = [l EXCEPT !.file = f \o b, !.offset = Len(f) + Len(b), !.buf = <<>>, !.dirty = TRUE]
      BY <1>2, <2>1 DEF k, f, b, flush_write_buffer
    <3>2. <<>> \in Seq(Nat) /\ Len(f) + Len(b) \in Nat
      BY <2>2
    <3> QED BY <2>1, <2>4, <3>1, <3>2 DEF LogState
  <2>8. Len(<<>>) <= WAL_BUFFER_SIZE
    BY BufferAssumption
  <2>9. Session(f \o b, l.synced, <<>>, TRUE, s, m)
    <3> SUFFICES ASSUME NEW r \in s..m - 1
                 PROVE  \E i \in 1..Len(f \o b) : (f \o b)[i] = r
      BY DEF Session
    <3>1. \/ \E j \in 1..Len(b) : b[j] = r
          \/ \E i \in 1..Len(f) : f[i] = r
      BY DEF OpenLog, Session, f, b
    <3>2. ASSUME NEW j \in 1..Len(b), b[j] = r
          PROVE  Len(f) + j \in 1..Len(f \o b) /\ (f \o b)[Len(f) + j] = r
      BY <2>2, <2>4, <3>2
    <3>3. ASSUME NEW i \in 1..Len(f), f[i] = r
          PROVE  i \in 1..Len(f \o b) /\ (f \o b)[i] = r
      BY <2>2, <2>4, <3>3
    <3> QED BY Zenon, <3>1, <3>2, <3>3
  <2>10. OpenLog(k, s, m, a, ret)
    BY <2>1, <2>6, <2>7, <2>8, <2>9 DEF OpenLog
  <2> QED BY <2>7, <2>10 DEF k
<1> QED BY <1>1, <1>2

\* ensure_buffer_space keeps it and leaves room for one record.
LEMMA EnsureOpen ==
    ASSUME NEW l, NEW s, NEW m, NEW a, NEW ret, OpenLog(l, s, m, a, ret)
    PROVE  /\ OpenLog(ensure_buffer_space(l), s, m, a, ret)
           /\ Len(ensure_buffer_space(l).buf) + 1 <= WAL_BUFFER_SIZE
<1>1. l.buf \in Seq(Nat) /\ Len(l.buf) \in Nat /\ WAL_BUFFER_SIZE \in Nat \ {0}
  BY BufferAssumption DEF OpenLog, LogState
<1>2. CASE Len(l.buf) + 1 > WAL_BUFFER_SIZE
  <2>1. ensure_buffer_space(l) = flush_write_buffer(l)
    BY <1>2 DEF ensure_buffer_space
  <2>2. Len(<<>>) = 0
    OBVIOUS
  <2> QED BY <1>1, <2>1, <2>2, FlushOpen
<1>3. CASE ~(Len(l.buf) + 1 > WAL_BUFFER_SIZE)
  <2>1. ensure_buffer_space(l) = l
    BY <1>3 DEF ensure_buffer_space
  <2> QED BY <1>1, <1>3, <2>1
<1> QED BY <1>2, <1>3

\* write_record keeps it, for one record more.
LEMMA WriteOpen ==
    ASSUME NEW l, NEW s, NEW m, NEW a, NEW ret, OpenLog(l, s, m, a, ret),
           Len(l.buf) + 1 <= WAL_BUFFER_SIZE
    PROVE  OpenLog([l EXCEPT !.buf = Append(@, m)], s, m + 1, a,
                   Append(ret, l.offset + Len(l.buf)))
<1> DEFINE k == [l EXCEPT !.buf = Append(@, m)]
           b == l.buf
           c == Append(b, m)
<1>1. /\ l \in LogState /\ Good(l.file, l.synced, b, m, a, ret)
      /\ l.offset = Len(l.file) /\ s \in 1..m
  BY DEF OpenLog
<1>2. b \in Seq(Nat) /\ Len(b) \in Nat /\ m \in Nat \ {0}
  BY <1>1, GoodParts
<1>3. c \in Seq(Nat) /\ Len(c) = Len(b) + 1 /\ c[Len(b) + 1] = m
      /\ \A j \in 1..Len(b) : c[j] = b[j]
  BY <1>2
<1>4. /\ k \in LogState
      /\ k.file = l.file /\ k.synced = l.synced /\ k.buf = c /\ k.dirty = l.dirty
      /\ k.offset = l.offset
  BY <1>1, <1>3 DEF LogState
<1>5. Good(l.file, l.synced, c, m + 1, a, Append(ret, l.offset + Len(b)))
  BY <1>1, AppendRecord
<1>6. s \in 1..m + 1 /\ Len(c) <= WAL_BUFFER_SIZE
  BY <1>1, <1>2, <1>3
<1>7. Session(l.file, l.synced, c, l.dirty, s, m + 1)
  <2> SUFFICES ASSUME NEW r \in s..(m + 1) - 1
               PROVE  \/ \E j \in 1..Len(c) : c[j] = r
                      \/ \E i \in 1..Len(l.file) : l.file[i] = r /\ (l.dirty \/ i <= l.synced)
    BY DEF Session
  <2>1. CASE r = m
    <3>1. Len(b) + 1 \in 1..Len(c) /\ c[Len(b) + 1] = r
      BY <1>2, <1>3, <2>1
    <3> QED BY <3>1
  <2>2. CASE r \in s..m - 1
    <3>1. \/ \E j \in 1..Len(b) : b[j] = r
          \/ \E i \in 1..Len(l.file) : l.file[i] = r /\ (l.dirty \/ i <= l.synced)
      BY <2>2 DEF OpenLog, Session
    <3>2. ASSUME NEW j \in 1..Len(b), b[j] = r
          PROVE  j \in 1..Len(c) /\ c[j] = r
      BY <1>2, <1>3, <3>2
    <3> QED BY Zenon, <3>1, <3>2
  <2>3. r = m \/ r \in s..m - 1
    BY <1>1, <1>2
  <2> QED BY <2>1, <2>2, <2>3
<1> HIDE DEF k, c
<1>8. OpenLog(k, s, m + 1, a, Append(ret, l.offset + Len(b)))
  BY Zenon, <1>1, <1>4, <1>5, <1>6, <1>7 DEF OpenLog
<1> QED BY <1>8 DEF k

\* fsync_if_dirty after a flush puts every record of the session on stable storage.
LEMMA FsyncOpen ==
    ASSUME NEW l, NEW s, NEW m, NEW a, NEW ret, OpenLog(l, s, m, a, ret), l.buf = <<>>
    PROVE  OpenLog(fsync_if_dirty(l), s, m, a \cup s..m - 1, ret)
<1> DEFINE k == fsync_if_dirty(l)
           f == l.file
           a2 == a \cup s..m - 1
<1>1. /\ l \in LogState /\ Good(f, l.synced, <<>>, m, a, ret)
      /\ l.offset = Len(f) /\ s \in 1..m
  BY DEF OpenLog
<1>2. /\ f \in Seq(Nat \cup {Torn}) /\ m \in Nat \ {0} /\ a \in SUBSET Nat
      /\ ret \in Seq(Nat) /\ Len(ret) = m - 1
  BY <1>1, GoodParts
<1>3. l.synced \in 0..Len(f) /\ \A r \in a : \E i \in 1..l.synced : f[i] = r
  BY <1>1, GoodParts
<1>4. \A i \in 1..Len(f) : f[i] # Torn => f[i] \in 1..m - 1 /\ ret[f[i]] = i - 1
  BY <1>1, GoodParts
<1>5. \A i, j \in 1..Len(f) : i < j /\ f[i] # Torn /\ f[j] # Torn => f[i] < f[j]
  BY <1>1, GoodParts
<1>6. /\ k \in LogState
      /\ k.file = f /\ k.buf = <<>> /\ k.dirty = FALSE /\ k.offset = l.offset
      /\ k.synced = IF l.dirty THEN Len(f) ELSE l.synced
  BY <1>1, <1>2 DEF fsync_if_dirty, LogState
<1>7. Len(f) \in Nat /\ l.synced <= k.synced /\ k.synced \in 0..Len(f)
  BY <1>2, <1>3, <1>6
<1>8. \A r \in s..m - 1 : \E i \in 1..k.synced : f[i] = r
  <2> SUFFICES ASSUME NEW r \in s..m - 1
               PROVE  \E i \in 1..k.synced : f[i] = r
    OBVIOUS
  <2>1. \A j \in 1..Len(<<>>) : FALSE
    OBVIOUS
  <2>2. PICK i \in 1..Len(f) : f[i] = r /\ (l.dirty \/ i <= l.synced)
    BY Zenon, <2>1 DEF OpenLog, Session
  <2>3. i \in 1..k.synced
    BY <1>3, <1>6, <1>7, <2>2
  <2> QED BY <2>2, <2>3
<1> HIDE DEF k
<1>9. \A r \in a : \E i \in 1..k.synced : f[i] = r
  BY <1>3, <1>7
<1>10a. s..m - 1 \subseteq Nat
  BY <1>1, <1>2
<1>10. a2 \in SUBSET Nat /\ \A r \in a2 : \E i \in 1..k.synced : f[i] = r
  BY Zenon, <1>2, <1>8, <1>9, <1>10a
<1> HIDE DEF a2
<1>11. Good(f, k.synced, <<>>, m, a2, ret)
  BY <1>2, <1>4, <1>5, <1>7, <1>10, GoodEmpty
<1>12. Session(f, k.synced, <<>>, FALSE, s, m)
  <2> SUFFICES ASSUME NEW r \in s..m - 1
               PROVE  \E i \in 1..Len(f) : f[i] = r /\ i <= k.synced
    BY DEF Session
  <2>1. PICK i \in 1..k.synced : f[i] = r
    BY <1>8
  <2>2. i \in 1..Len(f) /\ i <= k.synced
    BY <1>7
  <2> QED BY <2>1, <2>2
<1>13. Len(<<>>) <= WAL_BUFFER_SIZE
  BY BufferAssumption
<1>14. OpenLog(k, s, m, a2, ret)
  BY Zenon, <1>1, <1>6, <1>11, <1>12, <1>13 DEF OpenLog
<1> QED BY <1>14 DEF k, a2

\* The invariant of an empty log.
LEMMA EmptyLog ==
    ASSUME NEW m \in Nat \ {0}, NEW ret \in Seq(Nat), Len(ret) = m - 1
    PROVE  Good(<<>>, 0, <<>>, m, {}, ret)
<1>1. /\ <<>> \in Seq(Nat \cup {Torn}) /\ <<>> \in Seq(Nat)
      /\ 0 \in 0..Len(<<>>) /\ \A i \in 1..Len(<<>>) : FALSE
  OBVIOUS
<1> QED BY Zenon, <1>1 DEF Good

\* The initial state satisfies the invariant.
LEMMA InitInv == Init => LogInv
<1> SUFFICES ASSUME Init PROVE LogInv
  OBVIOUS
<1>1. <<>> \in Seq(Nat) /\ Len(<<>>) = 1 - 1 /\ 1 \in Nat \ {0} /\ 1 \in 1..1 /\ 0 \in Nat
  OBVIOUS
<1>2. Good(<<>>, 0, <<>>, 1, {}, <<>>)
  BY Zenon, <1>1, EmptyLog
<1>3. Good(file, synced, buf, n, acked, returned)
  BY <1>2 DEF Init
<1> QED BY <1>1, <1>3 DEF Init, LogInv

\* A step that leaves the log closed and its buffer empty.
LEMMA ClosedInv ==
    ASSUME LogInv, Good(file', synced', <<>>, n, acked, returned),
           buf' = <<>>, dirty' \in BOOLEAN, open' = FALSE, offset' \in Nat,
           UNCHANGED <<n, first, acked, returned>>
    PROVE  LogInv'
BY DEF LogInv

\* Every step keeps the invariant.
LEMMA NextInv == LogInv /\ [Next]_vars => LogInv'
<1> SUFFICES ASSUME LogInv, [Next]_vars PROVE LogInv'
  OBVIOUS
<1>0. /\ Good(file, synced, buf, n, acked, returned)
      /\ dirty \in BOOLEAN /\ offset \in Nat /\ first \in 1..n
  BY DEF LogInv
<1>1. /\ file \in Seq(Nat \cup {Torn}) /\ buf \in Seq(Nat) /\ synced \in 0..Len(file)
      /\ n \in Nat \ {0} /\ Len(file) \in Nat /\ Len(buf) \in Nat
  BY <1>0, GoodParts
<1>2. /\ Log.file = file /\ Log.synced = synced /\ Log.buf = buf
      /\ Log.dirty = dirty /\ Log.offset = offset
  BY DEF Log
<1>3. Log \in LogState
  BY <1>0, <1>1 DEF Log, LogState
<1>4. ASSUME NEW l, NEW s, NEW m, NEW a, NEW ret, OpenLog(l, s, m, a, ret), LogBecomes(l),
             open', first' = s, n' = m, acked' = a, returned' = ret
      PROVE  LogInv'
  <2>1. /\ file' = l.file /\ synced' = l.synced /\ buf' = l.buf
        /\ dirty' = l.dirty /\ offset' = l.offset
    BY <1>4 DEF LogBecomes
  <2>2. l \in LogState /\ Good(l.file, l.synced, l.buf, m, a, ret) /\ s \in 1..m
    BY <1>4 DEF OpenLog
  <2>3. l.dirty \in BOOLEAN /\ l.offset \in Nat
    BY <2>2 DEF LogState
  <2>4. l = Log'
    BY <2>1, <2>2 DEF Log, LogState
  <2>5. OpenLog(Log, first, n, acked, returned)'
    BY <1>4, <2>4
  <2> QED BY <1>4, <2>1, <2>2, <2>3, <2>5 DEF LogInv
<1>5. CASE Open
  <2>1. buf = <<>> /\ ~open
    BY <1>5 DEF Open, LogInv
  <2>2. /\ open' = TRUE /\ offset' = Len(file) /\ first' = n
        /\ UNCHANGED <<file, synced, buf, dirty, n, acked, returned>>
    BY <1>5 DEF Open
  <2> DEFINE l == [Log EXCEPT !.offset = Len(file)]
  <2>3. /\ l \in LogState /\ l.file = file /\ l.synced = synced /\ l.buf = buf
        /\ l.dirty = dirty /\ l.offset = Len(file)
    BY <1>1, <1>2, <1>3 DEF LogState
  <2> HIDE DEF l
  <2>4. n \in 1..n /\ \A r \in n..n - 1 : FALSE
    BY <1>1
  <2>5. Session(l.file, l.synced, l.buf, l.dirty, n, n)
    BY <2>4 DEF Session
  <2>6. Len(buf) <= WAL_BUFFER_SIZE
    BY <2>1, BufferAssumption
  <2>7. OpenLog(l, n, n, acked, returned)
    BY <1>0, <2>3, <2>4, <2>5, <2>6 DEF OpenLog
  <2>8. LogBecomes(l)
    BY <2>2, <2>3 DEF LogBecomes
  <2> QED BY <1>4, <2>2, <2>7, <2>8
<1>6. CASE Close
  <2>1. OpenLog(Log, first, n, acked, returned)
    BY <1>6 DEF Close, LogInv
  <2> DEFINE l == flush_write_buffer(Log)
  <2>2. OpenLog(l, first, n, acked, returned) /\ l.buf = <<>>
    BY <2>1, FlushOpen
  <2>3. LogBecomes(l) /\ open' = FALSE /\ UNCHANGED <<n, first, acked, returned>>
    BY <1>6 DEF Close
  <2> HIDE DEF l
  <2>4. l \in LogState /\ Good(l.file, l.synced, l.buf, n, acked, returned)
    BY <2>2 DEF OpenLog
  <2>5. l.dirty \in BOOLEAN /\ l.offset \in Nat
    BY <2>4 DEF LogState
  <2> QED BY <2>2, <2>3, <2>4, <2>5, ClosedInv DEF LogBecomes
<1>7. CASE Clear
  <2>1. flush_write_buffer(Log).dirty \in BOOLEAN
    BY <1>0, <1>2, <1>3 DEF flush_write_buffer, LogState
  <2>2. /\ file' = <<>> /\ synced' = 0 /\ offset' = 0 /\ buf' = <<>>
        /\ dirty' \in BOOLEAN
        /\ open' = TRUE /\ acked' = {} /\ first' = n
        /\ UNCHANGED <<n, returned>>
    BY <1>7, <2>1 DEF Clear
  <2>3. <<>> \in Seq(Nat \cup {Torn}) /\ <<>> \in Seq(Nat) /\ Len(<<>>) = 0
    OBVIOUS
  <2>4. returned \in Seq(Nat) /\ Len(returned) = n - 1
    BY <1>0, GoodParts
  <2>5. Good(<<>>, 0, <<>>, n, {}, returned)
    BY <1>1, <2>4, EmptyLog
  <2> DEFINE l == [file |-> <<>>, synced |-> 0, buf |-> <<>>, dirty |-> dirty', offset |-> 0]
  <2>6. n \in 1..n /\ \A r \in n..n - 1 : FALSE
    BY <1>1
  <2>7. Session(<<>>, 0, <<>>, dirty', n, n)
    BY <2>6 DEF Session
  <2>8. Len(<<>>) <= WAL_BUFFER_SIZE
    BY BufferAssumption
  <2>9. l \in LogState
    BY <2>2, <2>3 DEF LogState
  <2>10. OpenLog(l, n, n, {}, returned)
    BY <2>3, <2>5, <2>6, <2>7, <2>8, <2>9 DEF OpenLog
  <2>11. LogBecomes(l)
    BY <2>2 DEF LogBecomes
  <2> HIDE DEF l
  <2> QED BY <1>4, <2>2, <2>10, <2>11
<1>8. ASSUME open
      PROVE  /\ OpenLog(Buffered(n), first, n + 1, acked, Append(returned, RecordOffset))
             /\ OpenLog(Log, first, n, acked, returned)
  <2>1. OpenLog(Log, first, n, acked, returned)
    BY <1>8 DEF LogInv
  <2> DEFINE l == ensure_buffer_space(Log)
  <2>2. OpenLog(l, first, n, acked, returned) /\ Len(l.buf) + 1 <= WAL_BUFFER_SIZE
    BY <2>1, EnsureOpen
  <2>3. Buffered(n) = [l EXCEPT !.buf = Append(@, n)] /\ RecordOffset = l.offset + Len(l.buf)
    BY DEF Buffered, RecordOffset
  <2> HIDE DEF l
  <2>4. OpenLog([l EXCEPT !.buf = Append(@, n)], first, n + 1, acked,
                Append(returned, l.offset + Len(l.buf)))
    BY <2>2, WriteOpen
  <2> QED BY <2>1, <2>3, <2>4
<1>9. CASE LogSynced
  <2>1. /\ open /\ LogBecomes(SyncedLog(Buffered(n)))
        /\ returned' = Append(returned, RecordOffset)
        /\ acked' = acked \cup first..n /\ n' = n + 1
        /\ open' = open /\ first' = first
    BY <1>9 DEF LogSynced
  <2>2. OpenLog(Buffered(n), first, n + 1, acked, Append(returned, RecordOffset))
    BY <1>8, <2>1
  <2> DEFINE l == flush_write_buffer(Buffered(n))
             ret == Append(returned, RecordOffset)
  <2>3. OpenLog(l, first, n + 1, acked, ret) /\ l.buf = <<>>
    BY <2>2, FlushOpen
  <2>4. SyncedLog(Buffered(n)) = fsync_if_dirty(l)
    BY DEF SyncedLog
  <2> HIDE DEF l, ret
  <2>5. OpenLog(fsync_if_dirty(l), first, n + 1, acked \cup first..(n + 1) - 1, ret)
    BY <2>3, FsyncOpen
  <2>6. (n + 1) - 1 = n
    BY <1>1
  <2> QED BY <1>4, <2>1, <2>4, <2>5, <2>6 DEF ret
<1>10. CASE LogBuffered
  BY <1>4, <1>8, <1>10 DEF LogBuffered
<1>11. CASE Sync
  <2>1. /\ open /\ LogBecomes(SyncedLog(Log)) /\ acked' = acked \cup first..n - 1
        /\ UNCHANGED <<open, n, first, returned>>
    BY <1>11 DEF Sync
  <2> DEFINE l == flush_write_buffer(Log)
  <2>2. OpenLog(l, first, n, acked, returned) /\ l.buf = <<>>
    BY <1>8, <2>1, FlushOpen
  <2>3. SyncedLog(Log) = fsync_if_dirty(l)
    BY DEF SyncedLog
  <2> HIDE DEF l
  <2>4. OpenLog(fsync_if_dirty(l), first, n, acked \cup first..n - 1, returned)
    BY <2>2, FsyncOpen
  <2> QED BY <1>4, <2>1, <2>3, <2>4
<1>12. CASE ProcessDies
  <2>1. PICK k \in 0..Len(buf) :
           \/ file' = file \o SubSeq(buf, 1, k)
           \/ file' = file \o SubSeq(buf, 1, k) \o <<Torn>>
    BY <1>12 DEF ProcessDies
  <2>2. Good(file \o SubSeq(buf, 1, k), synced, <<>>, n, acked, returned)
    BY <1>0, MovePrefix
  <2>3. Good(file \o SubSeq(buf, 1, k) \o <<Torn>>, synced, <<>>, n, acked, returned)
    BY <2>2, TearTail
  <2>4. synced' = synced /\ Restart
    BY <1>12 DEF ProcessDies
  <2> QED BY <1>0, <2>1, <2>2, <2>3, <2>4, ClosedInv DEF Restart
<1>13. CASE PowerFails
  <2>1. PICK k \in synced..Len(file) :
           /\ \/ file' = SubSeq(file, 1, k)
              \/ file' = SubSeq(file, 1, k) \o <<Torn>>
           /\ synced' = Len(file')
    BY <1>13 DEF PowerFails
  <2> DEFINE g == SubSeq(file, 1, k)
  <2>2. Good(g, k, <<>>, n, acked, returned) /\ Len(g) = k
    BY <1>0, CutTail
  <2> HIDE DEF g
  <2>3. g \in Seq(Nat \cup {Torn}) /\ k \in Nat
    BY <1>1, <2>2, GoodParts
  <2>4. Good(g \o <<Torn>>, k + 1, <<>>, n, acked, returned) /\ Len(g \o <<Torn>>) = k + 1
    <3>1. Good(g \o <<Torn>>, k, <<>>, n, acked, returned)
      BY <2>2, TearTail
    <3>2. Len(g \o <<Torn>>) = k + 1
      BY <2>2, <2>3
    <3>3. k + 1 \in 0..Len(g \o <<Torn>>) /\ \A i \in 1..k : i \in 1..k + 1
      BY <2>3, <3>2
    <3>4. \A r \in acked : \E i \in 1..k : (g \o <<Torn>>)[i] = r
      BY <3>1, GoodParts
    <3> QED BY Zenon, <3>1, <3>2, <3>3, <3>4 DEF Good
  <2>5. Restart
    BY <1>13 DEF PowerFails
  <2>6. CASE file' = g
    BY <1>0, <2>1, <2>2, <2>5, <2>6, ClosedInv DEF Restart
  <2>7. CASE file' = g \o <<Torn>>
    BY <1>0, <2>1, <2>4, <2>5, <2>7, ClosedInv DEF Restart
  <2> QED BY <2>1, <2>6, <2>7 DEF g
<1>14. CASE UNCHANGED vars
  BY <1>14 DEF vars, LogInv, Log
<1> QED BY <1>5, <1>6, <1>7, <1>9, <1>10, <1>11, <1>12, <1>13, <1>14 DEF Next

\* The properties of the log follow from the invariant.
LEMMA InvGives == LogInv => TypeOK /\ AckedKept /\ ReplayInOrder /\ OffsetsRight
<1> SUFFICES ASSUME LogInv PROVE TypeOK /\ AckedKept /\ ReplayInOrder /\ OffsetsRight
  OBVIOUS
<1>1. Good(file, synced, buf, n, acked, returned)
  BY DEF LogInv
<1>2. /\ file \in Seq(Nat \cup {Torn}) /\ buf \in Seq(Nat) /\ synced \in 0..Len(file)
      /\ n \in Nat \ {0} /\ acked \in SUBSET Nat /\ returned \in Seq(Nat)
  BY <1>1, GoodParts
<1>3. DOMAIN file = 1..Len(file) /\ Len(file) \in Nat
  BY <1>2
<1>4. Len(buf) <= WAL_BUFFER_SIZE
  <2>1. CASE open
    BY <2>1 DEF LogInv, OpenLog, Log
  <2>2. CASE ~open
    BY <2>2, BufferAssumption DEF LogInv
  <2> QED BY <2>1, <2>2
<1>5. TypeOK
  BY <1>2, <1>4 DEF TypeOK, LogInv
<1>6. AckedKept
  <2>1. \A r \in acked : \E i \in 1..synced : file[i] = r
    BY <1>1, GoodParts
  <2>2. \A i \in 1..synced : i \in DOMAIN file
    BY <1>2, <1>3
  <2>3. Torn \notin acked
    BY <1>2, TornAssumption
  <2> QED BY Zenon, <2>1, <2>2, <2>3 DEF AckedKept, Numbers
<1>7. \A i \in Readable(file) : i \in 1..Len(file) /\ file[i] # Torn
  BY <1>3 DEF Readable
<1>8. ReplayInOrder
  <2>1. \A i, j \in 1..Len(file) : i < j /\ file[i] # Torn /\ file[j] # Torn => file[i] < file[j]
    BY <1>1, GoodParts
  <2> QED BY Zenon, <1>7, <2>1 DEF ReplayInOrder
<1>9. OffsetsRight
  <2>1. \A i \in 1..Len(file) : file[i] # Torn => returned[file[i]] = i - 1
    BY <1>1, GoodParts
  <2> QED BY Zenon, <1>3, <2>1 DEF OffsetsRight
<1> QED BY <1>5, <1>6, <1>8, <1>9

\* Whatever the buffer size, the number of records and the interleaving of log
\* calls, restarts, process deaths and power losses: the log keeps its types,
\* every record a returned sync() vouches for stays in the file until clear(),
\* replay() yields records in the order of logging and none twice, and every
\* offset write_record() returned is where its record is.
THEOREM LogCorrect == Spec => [](TypeOK /\ AckedKept /\ ReplayInOrder /\ OffsetsRight)
<1>1. Init => LogInv
  BY InitInv
<1>2. LogInv /\ [Next]_vars => LogInv'
  BY NextInv
<1>3. LogInv => TypeOK /\ AckedKept /\ ReplayInOrder /\ OffsetsRight
  BY InvGives
<1> QED BY <1>1, <1>2, <1>3, PTL DEF Spec

\* The write buffer never outgrows its size, the synced part is part of the file, and
\* the log keeps its types.
THEOREM LogTypeOK == Spec => []TypeOK
BY LogCorrect, PTL

\* replay() returns records in the order they were logged and none twice: no flush,
\* restart or crash duplicates or reorders what write_record() buffered.
THEOREM LogReplayInOrder == Spec => []ReplayInOrder
BY LogCorrect, PTL

\* The offset that log_insert and log_delete return is where the record ends up,
\* though it is computed while the record is still buffered.
THEOREM LogOffsetsRight == Spec => []OffsetsRight
BY LogCorrect, PTL

\* The file holds whole records only.
WholeRecords == \A i \in 1..Len(file) : file[i] # Torn

\* Without torn writes the file never holds part of a record.
LEMMA WholeStep == ASSUME ~Tearing PROVE LogInv /\ WholeRecords /\ [Next]_vars => WholeRecords'
<1> SUFFICES ASSUME LogInv, WholeRecords, [Next]_vars PROVE WholeRecords'
  OBVIOUS
<1>1. Good(file, synced, buf, n, acked, returned)
  BY DEF LogInv
<1>2. /\ file \in Seq(Nat \cup {Torn}) /\ buf \in Seq(Nat) /\ Len(file) \in Nat
      /\ Len(buf) \in Nat /\ n \in Nat \ {0} /\ synced \in 0..Len(file)
  BY <1>1, GoodParts
<1>3. ASSUME NEW f \in Seq(Nat \cup {Torn}), \A i \in 1..Len(f) : f[i] # Torn, NEW b \in Seq(Nat)
      PROVE  /\ f \o b \in Seq(Nat \cup {Torn})
             /\ \A i \in 1..Len(f \o b) : (f \o b)[i] # Torn
  <2>1. b \in Seq(Nat \cup {Torn}) /\ Len(f) \in Nat /\ Len(b) \in Nat
    OBVIOUS
  <2>2. /\ f \o b \in Seq(Nat \cup {Torn}) /\ Len(f \o b) = Len(f) + Len(b)
        /\ \A i \in 1..Len(f) : (f \o b)[i] = f[i]
        /\ \A i \in 1..Len(f) + Len(b) : i > Len(f) => (f \o b)[i] = b[i - Len(f)]
    BY <2>1, ConcatFacts
  <2> SUFFICES ASSUME NEW i \in 1..Len(f \o b) PROVE (f \o b)[i] # Torn
    BY <2>2
  <2>3. i \in 1..Len(f) + Len(b)
    BY <2>2
  <2>4. CASE i <= Len(f)
    BY <1>3, <2>1, <2>2, <2>3, <2>4
  <2>5. CASE i > Len(f)
    <3>1. (f \o b)[i] = b[i - Len(f)]
      BY <2>2, <2>3, <2>5
    <3>2. i - Len(f) \in 1..Len(b)
      BY <2>1, <2>3, <2>5
    <3>3. b[i - Len(f)] \in Nat
      BY <3>2
    <3> QED BY <3>1, <3>3, TornAssumption
  <2> QED BY <2>1, <2>3, <2>4, <2>5
\* A log state with whole records only.
<1> DEFINE Whole(l) == l \in LogState /\ \A i \in 1..Len(l.file) : l.file[i] # Torn
<1>4. ASSUME NEW l, Whole(l) PROVE Whole(flush_write_buffer(l))
  <2>1. CASE l.buf = <<>>
    BY <1>4, <2>1 DEF flush_write_buffer
  <2>2. CASE l.buf # <<>>
    <3> DEFINE f == l.file
               b == l.buf
               k == flush_write_buffer(l)
    <3>1. f \in Seq(Nat \cup {Torn}) /\ b \in Seq(Nat) /\ l.offset + Len(b) \in Nat
      BY <1>4 DEF LogState
    <3>2. /\ f \o b \in Seq(Nat \cup {Torn})
          /\ \A i \in 1..Len(f \o b) : (f \o b)[i] # Torn
      BY <1>3, <1>4, <3>1
    <3>3. k = [l EXCEPT !.file = f \o b, !.offset = l.offset + Len(b), !.buf = <<>>, !.dirty = TRUE]
      BY <2>2, <1>4 DEF flush_write_buffer, LogState
    <3> HIDE DEF f, b, k
    <3>4. k \in LogState /\ k.file = f \o b
      <4>1. l \in LogState /\ <<>> \in Seq(Nat)
        BY <1>4
      <4> QED BY <3>1, <3>2, <3>3, <4>1 DEF LogState
    <3>5. Whole(k)
      BY <3>2, <3>4
    <3> QED BY <3>5 DEF k
  <2> QED BY <2>1, <2>2
<1>5. ASSUME NEW l, Whole(l) PROVE Whole(ensure_buffer_space(l)) /\ Whole(fsync_if_dirty(l))
  <2>1. Whole(ensure_buffer_space(l))
    BY <1>4, <1>5 DEF ensure_buffer_space
  <2>2. fsync_if_dirty(l) \in LogState /\ fsync_if_dirty(l).file = l.file
    <3>1. l \in LogState /\ Len(l.file) \in Nat
      BY <1>5 DEF LogState
    <3> QED BY <3>1 DEF fsync_if_dirty, LogState
  <2> QED BY <1>5, <2>1, <2>2
<1>6. Whole(Log)
  BY <1>2 DEF Log, LogInv, LogState, WholeRecords
<1>7. Whole(Buffered(n))
  <2> DEFINE l == ensure_buffer_space(Log)
  <2>1. Whole(l)
    BY <1>5, <1>6
  <2>2. Buffered(n) = [l EXCEPT !.buf = Append(@, n)]
    BY DEF Buffered
  <2> HIDE DEF l
  <2>3. [l EXCEPT !.buf = Append(@, n)] \in LogState /\ [l EXCEPT !.buf = Append(@, n)].file = l.file
    <3>1. l \in LogState /\ Append(l.buf, n) \in Seq(Nat)
      BY <1>2, <2>1 DEF LogState
    <3> QED BY <3>1 DEF LogState
  <2> QED BY <2>1, <2>2, <2>3
<1>8. Whole(SyncedLog(Log)) /\ Whole(SyncedLog(Buffered(n))) /\ Whole(flush_write_buffer(Log))
  BY <1>4, <1>5, <1>6, <1>7 DEF SyncedLog
<1>9. ASSUME NEW l, Whole(l), LogBecomes(l) PROVE WholeRecords'
  BY <1>9 DEF LogBecomes, WholeRecords
<1>10. CASE Open
  BY <1>10 DEF Open, WholeRecords
<1>11. CASE Clear
  BY <1>11 DEF Clear, WholeRecords
<1> HIDE DEF Whole
<1>12. CASE Close
  BY <1>8, <1>9, <1>12 DEF Close
<1>13. CASE LogSynced
  BY <1>8, <1>9, <1>13 DEF LogSynced
<1>14. CASE LogBuffered
  BY <1>7, <1>9, <1>14 DEF LogBuffered
<1>15. CASE Sync
  BY <1>8, <1>9, <1>15 DEF Sync
<1>16. CASE ProcessDies
  <2>1. PICK k \in 0..Len(buf) : file' = file \o SubSeq(buf, 1, k)
    BY <1>16 DEF ProcessDies
  <2>2. SubSeq(buf, 1, k) \in Seq(Nat)
    BY <1>2, PrefixFacts
  <2> QED BY <1>2, <1>3, <2>1, <2>2 DEF WholeRecords
<1>17. CASE PowerFails
  <2>1. PICK k \in synced..Len(file) : file' = SubSeq(file, 1, k)
    BY <1>17 DEF PowerFails
  <2>2. k \in 0..Len(file)
    BY <1>2
  <2>3. Len(file') = k /\ \A i \in 1..k : file'[i] = file[i]
    BY <1>2, <2>1, <2>2, PrefixFacts
  <2>4. \A i \in 1..k : i \in 1..Len(file)
    BY <1>2, <2>2
  <2> QED BY <2>3, <2>4 DEF WholeRecords
<1>18. CASE UNCHANGED vars
  BY <1>18 DEF vars, WholeRecords
<1> QED BY <1>10, <1>11, <1>12, <1>13, <1>14, <1>15, <1>16, <1>17, <1>18 DEF Next

\* Where write() and the device never leave part of a record, replay() returns
\* every record that a returned sync() vouches for, until clear().  A torn record is
\* the only way to lose one: the run that allows it finds the behaviour.
THEOREM WholeWritesReplayable == ~Tearing => (Spec => []AckedReplayable)
<1> SUFFICES ASSUME ~Tearing PROVE Spec => []AckedReplayable
  OBVIOUS
<1>1. Init => LogInv /\ WholeRecords
  BY InitInv DEF Init, WholeRecords
<1>2. LogInv /\ WholeRecords /\ [Next]_vars => (LogInv /\ WholeRecords)'
  BY NextInv, WholeStep
<1>3. LogInv /\ WholeRecords => AckedReplayable
  <2> SUFFICES ASSUME LogInv, WholeRecords PROVE AckedReplayable
    OBVIOUS
  <2>1. file \in Seq(Nat \cup {Torn}) /\ synced \in 0..Len(file) /\ Len(file) \in Nat
    BY GoodParts DEF LogInv
  <2>2. DOMAIN file = 1..Len(file)
    BY <2>1
  <2>3. \A i \in 1..Len(file) : i \in Readable(file)
    <3> SUFFICES ASSUME NEW i \in 1..Len(file), NEW j \in 1..i PROVE file[j] # Torn
      BY <2>2 DEF Readable
    <3>1. j \in 1..Len(file)
      BY <2>1
    <3> QED BY <3>1 DEF WholeRecords
  <2>4. \A r \in acked : \E i \in 1..synced : file[i] = r
    BY GoodParts DEF LogInv
  <2>5. \A i \in 1..synced : i \in 1..Len(file)
    BY <2>1
  <2> QED BY Zenon, <2>3, <2>4, <2>5 DEF AckedReplayable, Replayed
<1> QED BY <1>1, <1>2, <1>3, PTL DEF Spec
=============================================================================
