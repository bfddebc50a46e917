---------------------------- MODULE CompactProofs ----------------------------
(***************************************************************************)
(* Of a compact build, for every source, symbols, rows and batches: the    *)
(* running sequence number counts the rows; no file is written that the    *)
(* store would refuse; every accepted row is in one file once, corrected   *)
(* in time as little as can be, in an order that replays, and quoted at    *)
(* the best prices of its depth.                                           *)
(***************************************************************************)
EXTENDS CompactProps, OrderLemmas

LEMMA LeastOfTwo ==
  ASSUME NEW m \in Int, NEW n \in Int
  PROVE  Min({m, n}) \in Int /\ Min({m, n}) <= m /\ Min({m, n}) <= n
<1>1. \E x \in {m, n} : \A y \in {m, n} : x <= y
  OBVIOUS
<1> QED
  BY <1>1 DEF Min

LEMMA Appended ==
  ASSUME NEW S, NEW s \in Seq(S), NEW t \in Seq(S)
  PROVE  s \o t \in Seq(S) /\ Len(s \o t) = Len(s) + Len(t)
  OBVIOUS

LEMMA TypesInit == Init => TypeOK
<1> SUFFICES ASSUME Init PROVE TypeOK
  OBVIOUS
<1>1. Asked.most \in Nat
  BY SourcesAssumption DEF Init, Asked, CompactSource
<1>2. scanned \in Seq(Asked.rows) /\ Len(scanned) = 0 /\ offset = 0 /\ 1 \in 1 .. Paths
  BY BatchAssumption DEF Init
<1> QED
  BY <1>1, <1>2 DEF Init, TypeOK

LEMMA BatchAdded ==
  ASSUME TypeOK, ScanBatch
  PROVE  /\ scanned' \in Seq(Asked.rows) /\ Len(scanned') <= Asked.most
         /\ offset' = Len(scanned') /\ DOMAIN parts' = symbols
<1>1. /\ Asked.most \in Nat /\ BatchRows \in Nat /\ scanned \in Seq(Asked.rows)
      /\ Len(scanned) \in Nat /\ offset = Len(scanned)
  BY SourcesAssumption, BatchAssumption DEF TypeOK, Asked, CompactSource
<1> DEFINE room == Min({BatchRows, Asked.most - Len(scanned)})
<1>2. room \in Int /\ room <= Asked.most - Len(scanned)
  <2>1. BatchRows \in Int /\ Asked.most - Len(scanned) \in Int
    BY <1>1
  <2> QED
    BY <2>1, LeastOfTwo
<1>3. PICK n \in 1 .. room : \E batch \in [1 .. n -> Asked.rows] :
        /\ scanned' = scanned \o batch /\ offset' = Advanced(batch)
        /\ parts' = [s \in symbols |-> parts[s] \o NewParts(s, batch)]
  BY DEF ScanBatch
<1>4. PICK batch \in [1 .. n -> Asked.rows] :
        /\ scanned' = scanned \o batch /\ offset' = Advanced(batch)
        /\ parts' = [s \in symbols |-> parts[s] \o NewParts(s, batch)]
  BY <1>3
<1> HIDE DEF room
<1>5. n \in Nat /\ n <= Asked.most - Len(scanned)
  BY <1>1, <1>2
<1>6. batch \in Seq(Asked.rows) /\ Len(batch) = n
  BY <1>5
<1>7. scanned' \in Seq(Asked.rows) /\ Len(scanned') = Len(scanned) + n
  BY <1>1, <1>4, <1>6, Appended
<1> QED
  BY <1>1, <1>4, <1>5, <1>6, <1>7 DEF Advanced

LEMMA TypesNext == TypeOK /\ [Next]_vars => TypeOK'
<1> SUFFICES ASSUME TypeOK, [Next]_vars PROVE TypeOK'
  OBVIOUS
<1>1. /\ source \in DOMAIN Sources /\ path \in 1 .. Paths /\ Paths \in Nat
      /\ scanned \in Seq(Asked.rows) /\ Len(scanned) <= Asked.most
      /\ offset = Len(scanned)
      /\ DOMAIN parts = symbols /\ DOMAIN files = symbols
      /\ phase \in {"aliases", "scan", "consolidate", "done", "failed"}
  BY BatchAssumption DEF TypeOK
<1>2. CASE UNCHANGED vars
  BY <1>1, <1>2 DEF vars, TypeOK, Asked, symbols
<1>3. CASE ResolveAliases
  BY <1>1, <1>3 DEF ResolveAliases, TypeOK, Asked, symbols
<1>4. CASE ScanBatch
  <2>1. UNCHANGED <<source, path, files, phase>>
    BY <1>4 DEF ScanBatch
  <2> QED
    BY <1>1, <1>4, <2>1, BatchAdded DEF TypeOK, Asked, symbols
<1>5. CASE NextPath
  BY <1>1, <1>5 DEF NextPath, TypeOK, Asked, symbols
<1>6. CASE EndOfScan
  BY <1>1, <1>6 DEF EndOfScan, TypeOK, Asked, symbols
<1>7. ASSUME NEW s \in symbols, Consolidate(s) PROVE TypeOK'
  BY <1>1, <1>7 DEF Consolidate, TypeOK, Asked, symbols
<1>8. CASE Finish
  BY <1>1, <1>8 DEF Finish, TypeOK, Asked, symbols
<1> QED
  BY <1>2, <1>3, <1>4, <1>5, <1>6, <1>7, <1>8 DEF Next

\* However the source is cut into files and batches, the sequence number of the
\* next row is the number of rows before it.
THEOREM CompactTypes == Spec => []TypeOK
  BY TypesInit, TypesNext, PTL DEF Spec
-----------------------------------------------------------------------------
(* Parts put end to end.                                                   *)

\* F flattens the first n of the sequences s.
Flattens(F, s, n) == F = [i \in 1 .. n |-> IF i = 1 THEN s[i] ELSE F[i - 1] \o s[i]]

LEMMA FlattenSeqIs ==
  \A s : FlattenSeq(s) = IF Len(s) = 0 THEN s ELSE (CHOOSE F : Flattens(F, s, Len(s)))[Len(s)]
  BY Zenon DEF FlattenSeq, Flattens

Alike(s, t, m) == \A i \in 1 .. m : s[i] = t[i]

LEMMA FlattensAgree ==
  ASSUME NEW s, NEW t, NEW m \in Nat, NEW n \in Nat, m <= n, Alike(s, t, m),
         NEW F, Flattens(F, s, m), NEW G, Flattens(G, t, n)
  PROVE  \A i \in 1 .. m : F[i] = G[i]
<1> DEFINE Bad == {i \in 1 .. m : F[i] # G[i]}
<1>1. SUFFICES ASSUME Bad # {} PROVE FALSE
  OBVIOUS
<1>2. PICK i \in Bad : \A j \in Bad : i <= j
  <2>1. Bad \subseteq Nat
    OBVIOUS
  <2> HIDE DEF Bad
  <2> QED
    BY <1>1, <2>1, LeastOne
<1>3. i \in 1 .. m /\ i \in 1 .. n /\ F[i] # G[i]
  OBVIOUS
<1>4. /\ F[i] = IF i = 1 THEN s[i] ELSE F[i - 1] \o s[i]
      /\ G[i] = IF i = 1 THEN t[i] ELSE G[i - 1] \o t[i]
  BY <1>3 DEF Flattens
<1>5. i # 1 => F[i - 1] = G[i - 1]
  <2> SUFFICES ASSUME i # 1 PROVE F[i - 1] = G[i - 1]
    OBVIOUS
  <2>1. i - 1 \in 1 .. m /\ ~(i <= i - 1)
    BY <1>3
  <2> QED
    BY <1>2, <2>1
<1> QED
  BY <1>3, <1>4, <1>5 DEF Alike

LEMMA FlattensExists ==
  ASSUME NEW R, NEW s \in Seq(Seq(R))
  PROVE  \E F \in [1 .. Len(s) -> Seq(R)] : Flattens(F, s, Len(s))
<1> DEFINE n == Len(s)
           Bad == {m \in 0 .. n : ~\E F \in [1 .. m -> Seq(R)] : Flattens(F, s, m)}
<1>1. n \in Nat /\ \A i \in 1 .. n : s[i] \in Seq(R)
  BY LenProperties
<1> HIDE DEF n
<1>2. SUFFICES ASSUME Bad # {} PROVE FALSE
  <2>1. n \in 0 .. n
    BY <1>1
  <2> QED
    BY <1>2, <2>1 DEF n
<1>3. PICK m \in Bad : \A j \in Bad : m <= j
  <2>1. Bad \subseteq Nat
    OBVIOUS
  <2> HIDE DEF Bad
  <2> QED
    BY <1>2, <2>1, LeastOne
<1>4. m \in 0 .. n /\ ~\E F \in [1 .. m -> Seq(R)] : Flattens(F, s, m)
  OBVIOUS
<1>5. m # 0
  <2> SUFFICES ASSUME m = 0 PROVE FALSE
    OBVIOUS
  <2> DEFINE F == [i \in 1 .. m |-> s[i]]
  <2>1. 1 .. m = {}
    OBVIOUS
  <2>2. F \in [1 .. m -> Seq(R)] /\ Flattens(F, s, m)
    BY <2>1 DEF Flattens
  <2> QED
    BY <1>4, <2>2
<1>6. m - 1 \in 0 .. n /\ m \in 1 .. n /\ ~(m <= m - 1)
  BY <1>1, <1>4, <1>5
<1>7. PICK F \in [1 .. m - 1 -> Seq(R)] : Flattens(F, s, m - 1)
  BY <1>3, <1>6
<1> DEFINE G == [i \in 1 .. m |-> IF i = m THEN (IF m = 1 THEN s[m] ELSE F[m - 1] \o s[m]) ELSE F[i]]
<1>8. \A i \in 1 .. m : i # m => i \in 1 .. m - 1
  BY <1>1, <1>6
<1>9. s[m] \in Seq(R) /\ (m # 1 => F[m - 1] \in Seq(R))
  BY <1>1, <1>6
<1>10. m # 1 => F[m - 1] \o s[m] \in Seq(R)
  BY <1>9, ConcatProperties
<1>11. G \in [1 .. m -> Seq(R)]
  BY <1>8, <1>9, <1>10
<1>12. \A i \in 1 .. m : G[i] = IF i = 1 THEN s[i] ELSE G[i - 1] \o s[i]
  <2> SUFFICES ASSUME NEW i \in 1 .. m PROVE G[i] = IF i = 1 THEN s[i] ELSE G[i - 1] \o s[i]
    OBVIOUS
  <2>1. i # 1 => i - 1 \in 1 .. m /\ i - 1 # m /\ G[i - 1] = F[i - 1]
    BY <1>6
  <2>2. CASE i = m
    <3>1. G[i] = IF m = 1 THEN s[m] ELSE F[m - 1] \o s[m]
      BY <2>2
    <3> HIDE DEF G
    <3> QED
      BY <2>1, <2>2, <3>1
  <2>3. CASE i # m
    <3>1. G[i] = F[i]
      BY <2>3
    <3>2. F[i] = IF i = 1 THEN s[i] ELSE F[i - 1] \o s[i]
      BY <1>7, <1>8, <2>3 DEF Flattens
    <3> HIDE DEF G
    <3> QED
      BY <2>1, <3>1, <3>2
  <2> QED
    BY <2>2, <2>3
<1> HIDE DEF G
<1>13. Flattens(G, s, m)
  BY <1>11, <1>12 DEF Flattens
<1> QED
  BY <1>4, <1>11, <1>13

LEMMA FlattenSeqEmpty == FlattenSeq(<<>>) = <<>>
  BY FlattenSeqIs

LEMMA FlattenSeqLast ==
  ASSUME NEW R, NEW s \in Seq(Seq(R)), Len(s) # 0,
         NEW F, Flattens(F, s, Len(s))
  PROVE  FlattenSeq(s) = F[Len(s)]
<1> DEFINE G == CHOOSE H : Flattens(H, s, Len(s))
<1>1. Flattens(G, s, Len(s)) /\ FlattenSeq(s) = G[Len(s)]
  BY FlattenSeqIs
<1> HIDE DEF G
<1>2. Len(s) \in Nat /\ Len(s) \in 1 .. Len(s) /\ Len(s) <= Len(s)
  BY LenProperties
<1>3. Alike(s, s, Len(s))
  BY DEF Alike
<1>4. \A i \in 1 .. Len(s) : F[i] = G[i]
  BY <1>1, <1>2, <1>3, FlattensAgree
<1> QED
  BY <1>1, <1>2, <1>4

LEMMA FlattenSeqType ==
  ASSUME NEW R, NEW s \in Seq(Seq(R))
  PROVE  FlattenSeq(s) \in Seq(R)
<1>1. CASE Len(s) = 0
  <2>1. s = <<>>
    BY <1>1, EmptySeq
  <2> QED
    BY <2>1, FlattenSeqEmpty, EmptySeq
<1>2. CASE Len(s) # 0
  <2>1. PICK F \in [1 .. Len(s) -> Seq(R)] : Flattens(F, s, Len(s))
    BY FlattensExists
  <2>2. Len(s) \in 1 .. Len(s)
    BY <1>2, LenProperties
  <2>3. FlattenSeq(s) = F[Len(s)]
    BY <1>2, <2>1, FlattenSeqLast
  <2> QED
    BY <2>2, <2>3
<1> QED
  BY <1>1, <1>2

LEMMA FlattenSeqAppend ==
  ASSUME NEW R, NEW s \in Seq(Seq(R)), NEW q \in Seq(R)
  PROVE  FlattenSeq(Append(s, q)) = FlattenSeq(s) \o q
<1>t. PICK t : t = Append(s, q)
  OBVIOUS
<1>k. PICK k \in Nat : k = Len(s)
  BY LenProperties
<1>1. /\ t \in Seq(Seq(R)) /\ Len(t) = k + 1
      /\ (\A i \in 1 .. k : s[i] = t[i]) /\ t[k + 1] = q
  <2>1. s \in Seq(Seq(R)) /\ q \in Seq(R)
    OBVIOUS
  <2> QED
    BY <1>t, <1>k, <2>1, LenProperties, AppendProperties
<1>2. PICK l \in Nat : l = k + 1 /\ l \in 1 .. l /\ k = l - 1 /\ k <= l
  OBVIOUS
<1>3. PICK F : Flattens(F, t, l)
  BY <1>1, <1>2, FlattensExists
<1>4. FlattenSeq(t) = F[l]
  BY <1>1, <1>2, <1>3, FlattenSeqLast
<1>5. F[l] = IF l = 1 THEN q ELSE F[k] \o q
  BY <1>1, <1>2, <1>3 DEF Flattens
<1>6. CASE k = 0
  <2>1. s = <<>>
    BY <1>k, <1>6, EmptySeq
  <2> QED
    BY <1>t, <1>2, <1>4, <1>5, <1>6, <2>1, FlattenSeqEmpty, ConcatEmptySeq
<1>7. CASE k # 0
  <2>1. PICK G : Flattens(G, s, k)
    BY <1>k, FlattensExists
  <2>2. k \in 1 .. k /\ l # 1
    BY <1>2, <1>7
  <2>3. FlattenSeq(s) = G[k]
    BY <1>k, <1>7, <2>1, FlattenSeqLast
  <2>4. Alike(s, t, k)
    BY <1>1 DEF Alike
  <2>5. k <= l
    BY <1>2
  <2>7. G[k] = F[k]
    <3>1. \A i \in 1 .. k : G[i] = F[i]
      BY <1>3, <2>1, <2>4, <2>5, FlattensAgree
    <3> QED
      BY <2>2, <3>1
  <2> QED
    BY <1>t, <1>4, <1>5, <2>2, <2>3, <2>7
<1> QED
  BY <1>6, <1>7
-----------------------------------------------------------------------------
(* A file is a list of the raw rows of its symbol.                         *)

CompactRows == {CompactRow(k, row) : k \in Nat, row \in Asked.rows}

\* q lists the members of K once each.
Lists(q, K) ==
  /\ q \in Seq(K)
  /\ \A i, j \in 1 .. Len(q) : q[i] = q[j] => i = j
  /\ \A k \in K : \E i \in 1 .. Len(q) : q[i] = k
Rising(q) == \A i, j \in 1 .. Len(q) : i < j => q[i] < q[j]

\* The rows of a symbol among the raw rows rs, and their compact rows in the
\* order of q.
RowsIn(rs, s)    == {k \in DOMAIN rs : Denotes(rs[k].symbol, s) /\ Accepted(rs[k])}
Compacted(rs, q) == [i \in 1 .. Len(q) |-> CompactRow(q[i] - 1, rs[q[i]])]
OneName(rs, s)   == \A k, l \in RowsIn(rs, s) : rs[k].symbol = rs[l].symbol

\* rows are the compact rows of a symbol, and as long as it is spelled one way
\* they are in the order of the raw rows.
Gathered(rs, rows, s) ==
  \E q : /\ Lists(q, RowsIn(rs, s)) /\ rows = Compacted(rs, q)
         /\ OneName(rs, s) => Rising(q)

LEMMA TupleIsSeq ==
  ASSUME NEW S, NEW n \in Nat, NEW f \in [1 .. n -> S]
  PROVE  f \in Seq(S) /\ Len(f) = n
  OBVIOUS

LEMMA ListsConcat ==
  ASSUME NEW K \in SUBSET Nat, NEW L \in SUBSET Nat, K \cap L = {},
         NEW p, Lists(p, K), NEW q, Lists(q, L)
  PROVE  /\ Lists(p \o q, K \cup L)
         /\ Rising(p) /\ Rising(q) /\ (\A k \in K, l \in L : k < l) => Rising(p \o q)
<1>1. p \in Seq(K) /\ q \in Seq(L) /\ p \in Seq(K \cup L) /\ q \in Seq(K \cup L)
  <2>1. p \in Seq(K) /\ q \in Seq(L)
    BY DEF Lists
  <2> QED
    BY <2>1, SeqMonotonic
<1>2. PICK m \in Nat : m = Len(p)
  BY <1>1, LenProperties
<1>3. PICK n \in Nat : n = Len(q)
  BY <1>1, LenProperties
<1> DEFINE r == p \o q
<1>4. /\ r \in Seq(K \cup L) /\ Len(r) = m + n
      /\ \A i \in 1 .. m + n : r[i] = IF i <= m THEN p[i] ELSE q[i - m]
  BY <1>1, <1>2, <1>3, ConcatProperties
<1> HIDE DEF r
<1>5. /\ \A i \in 1 .. m : p[i] \in K
      /\ \A i \in 1 .. n : q[i] \in L
  BY <1>1, <1>2, <1>3, ElementOfSeq
<1>6. /\ \A i \in 1 .. m + n : i <= m => i \in 1 .. m /\ r[i] = p[i] /\ r[i] \in K
      /\ \A i \in 1 .. m + n : ~(i <= m) => i - m \in 1 .. n /\ r[i] = q[i - m] /\ r[i] \in L
  BY <1>4, <1>5
<1>7. \A i, j \in 1 .. m + n : r[i] = r[j] => i = j
  <2> SUFFICES ASSUME NEW i \in 1 .. m + n, NEW j \in 1 .. m + n, r[i] = r[j] PROVE i = j
    OBVIOUS
  <2>1. \A a, b \in 1 .. m : p[a] = p[b] => a = b
    BY <1>2 DEF Lists
  <2>2. \A a, b \in 1 .. n : q[a] = q[b] => a = b
    BY <1>3 DEF Lists
  <2>3. CASE i <= m /\ j <= m
    BY <1>6, <2>1, <2>3
  <2>4. CASE ~(i <= m) /\ ~(j <= m)
    <3>1. i - m = j - m
      BY <1>6, <2>2, <2>4
    <3> QED
      BY <3>1
  <2>5. CASE (i <= m /\ ~(j <= m)) \/ (~(i <= m) /\ j <= m)
    BY <1>6, <2>5
  <2> QED
    BY <2>3, <2>4, <2>5
<1>8. \A k \in K \cup L : \E i \in 1 .. m + n : r[i] = k
  <2> SUFFICES ASSUME NEW k \in K \cup L PROVE \E i \in 1 .. m + n : r[i] = k
    OBVIOUS
  <2>1. CASE k \in K
    <3>1. PICK i \in 1 .. m : p[i] = k
      BY <1>2, <2>1 DEF Lists
    <3> QED
      BY <1>4, <3>1
  <2>2. CASE k \in L
    <3>1. PICK i \in 1 .. n : q[i] = k
      BY <1>3, <2>2 DEF Lists
    <3>2. i + m \in 1 .. m + n /\ ~(i + m <= m) /\ (i + m) - m = i
      OBVIOUS
    <3>3. r[i + m] = q[(i + m) - m]
      BY <1>6, <3>2
    <3> QED
      BY <3>1, <3>2, <3>3
  <2> QED
    BY <2>1, <2>2
<1>9. ASSUME Rising(p), Rising(q), \A k \in K, l \in L : k < l PROVE Rising(r)
  <2> SUFFICES ASSUME NEW i \in 1 .. m + n, NEW j \in 1 .. m + n, i < j PROVE r[i] < r[j]
    BY <1>4 DEF Rising
  <2>1. \A a, b \in 1 .. m : a < b => p[a] < p[b]
    BY <1>2, <1>9 DEF Rising
  <2>2. \A a, b \in 1 .. n : a < b => q[a] < q[b]
    BY <1>3, <1>9 DEF Rising
  <2>3. CASE i <= m /\ j <= m
    BY <1>6, <2>1, <2>3
  <2>4. CASE ~(i <= m) /\ ~(j <= m)
    <3>1. i - m < j - m
      OBVIOUS
    <3> QED
      BY <1>6, <2>2, <2>4, <3>1
  <2>5. CASE i <= m /\ ~(j <= m)
    BY <1>6, <1>9, <2>5
  <2> QED
    BY <2>3, <2>4, <2>5
<1> QED
  BY <1>4, <1>7, <1>8, <1>9 DEF Lists, r

LEMMA CompactedConcat ==
  ASSUME NEW p \in Seq(Nat), NEW q \in Seq(Nat), NEW rs
  PROVE  Compacted(rs, p \o q) = Compacted(rs, p) \o Compacted(rs, q)
<1> DEFINE r == p \o q
           S == {CompactRow(k - 1, rs[k]) : k \in Nat}
<1>1. PICK m \in Nat : m = Len(p)
  BY LenProperties
<1>2. PICK n \in Nat : n = Len(q)
  BY LenProperties
<1>3. /\ Len(r) = m + n /\ r \in Seq(Nat)
      /\ \A i \in 1 .. m + n : r[i] = IF i <= m THEN p[i] ELSE q[i - m]
  BY <1>1, <1>2, ConcatProperties
<1> HIDE DEF r
<1>4. \A k \in Nat : CompactRow(k - 1, rs[k]) \in S
  OBVIOUS
<1> HIDE DEF S
<1>5. ASSUME NEW t \in Seq(Nat)
      PROVE  /\ Compacted(rs, t) \in Seq(S) /\ Len(Compacted(rs, t)) = Len(t)
             /\ \A i \in 1 .. Len(t) : Compacted(rs, t)[i] = CompactRow(t[i] - 1, rs[t[i]])
  <2>1. \A i \in 1 .. Len(t) : CompactRow(t[i] - 1, rs[t[i]]) \in S
    BY <1>4, ElementOfSeq
  <2>2. Len(t) \in Nat
    BY LenProperties
  <2>3. Compacted(rs, t) \in [1 .. Len(t) -> S]
    BY <2>1 DEF Compacted
  <2>4. \A i \in 1 .. Len(t) : Compacted(rs, t)[i] = CompactRow(t[i] - 1, rs[t[i]])
    BY DEF Compacted
  <2> QED
    BY <2>2, <2>3, <2>4, TupleIsSeq
<1> DEFINE a == Compacted(rs, p)
           b == Compacted(rs, q)
           c == Compacted(rs, r)
<1>6. /\ a \in Seq(S) /\ b \in Seq(S) /\ c \in Seq(S)
      /\ Len(a) = m /\ Len(b) = n /\ Len(c) = m + n
  BY <1>1, <1>2, <1>3, <1>5
<1>7. /\ \A i \in 1 .. m : a[i] = CompactRow(p[i] - 1, rs[p[i]])
      /\ \A i \in 1 .. n : b[i] = CompactRow(q[i] - 1, rs[q[i]])
      /\ \A i \in 1 .. m + n : c[i] = CompactRow(r[i] - 1, rs[r[i]])
  BY <1>1, <1>2, <1>3, <1>5
<1> HIDE DEF a, b, c
<1>8. /\ a \o b \in Seq(S) /\ Len(a \o b) = m + n
      /\ \A i \in 1 .. m + n : (a \o b)[i] = IF i <= m THEN a[i] ELSE b[i - m]
  BY <1>6, ConcatProperties
<1>9. \A i \in 1 .. m + n : c[i] = (a \o b)[i]
  <2> SUFFICES ASSUME NEW i \in 1 .. m + n PROVE c[i] = (a \o b)[i]
    OBVIOUS
  <2>1. CASE i <= m
    <3>1. i \in 1 .. m
      BY <2>1
    <3> QED
      BY <1>3, <1>7, <1>8, <2>1, <3>1
  <2>2. CASE ~(i <= m)
    <3>1. i - m \in 1 .. n
      BY <2>2
    <3> QED
      BY <1>3, <1>7, <1>8, <2>2, <3>1
  <2> QED
    BY <2>1, <2>2
<1>10. c = a \o b
  BY <1>6, <1>8, <1>9, SeqEqual
<1> QED
  BY <1>10 DEF a, b, c, r

LEMMA KeptIs ==
  ASSUME NEW S, NEW batch \in Seq(S), NEW spelling
  PROVE  /\ Lists(Kept(batch, spelling),
                  {i \in DOMAIN batch : batch[i].symbol = spelling /\ Accepted(batch[i])})
         /\ Rising(Kept(batch, spelling))
<1> DEFINE K == {i \in DOMAIN batch : batch[i].symbol = spelling /\ Accepted(batch[i])}
           Less == {e \in (DOMAIN batch) \X (DOMAIN batch) : e[1] < e[2]}
<1>1. PICK m \in Nat : DOMAIN batch = 1 .. m
  BY LenProperties
<1>2. K \in SUBSET (1 .. m) /\ K \in SUBSET Nat
  BY <1>1
<1>3. IsFiniteSet(1 .. m)
  BY FS_Interval
<1>4. IsFiniteSet(K)
  BY <1>2, <1>3, FS_Subset
<1>5. \A i, j \in K : <<i, j>> \in Less <=> i < j
  BY <1>1
<1>6. Kept(batch, spelling) = InOrder(K, Less)
  BY DEF Kept
<1> HIDE DEF K, Less
<1>7. Orders(Less, K) /\ Compares(Less, K)
  BY <1>2, <1>5 DEF Orders, Compares
<1>8. PICK s : s \in Enumerations(K, Less)
  BY <1>4, <1>7, EnumerationExists
<1>9. Kept(batch, spelling) = s
  BY <1>4, <1>6, <1>7, <1>8, InOrderIs
<1>10. PICK n \in Nat : n = Cardinality(K)
  BY <1>4, FS_CardinalityType
<1>11. /\ s \in [1 .. n -> K]
       /\ \A i, j \in 1 .. n : i < j => <<s[i], s[j]>> \in Less
       /\ \A i, j \in 1 .. n : s[i] = s[j] => i = j
       /\ \A x \in K : \E i \in 1 .. n : s[i] = x
  BY <1>4, <1>7, <1>8, <1>10, EnumerationFacts
<1>12. s \in Seq(K) /\ Len(s) = n
  BY <1>11, TupleIsSeq
<1>13. Rising(s)
  BY <1>5, <1>11, <1>12 DEF Rising
<1>14. Lists(s, K)
  BY <1>11, <1>12 DEF Lists
<1> QED
  BY <1>9, <1>13, <1>14 DEF K

\* The raw rows behind the first m that have a spelling and are accepted.
Added(rs, m, spelling) ==
  {k \in DOMAIN rs : k > m /\ rs[k].symbol = spelling /\ Accepted(rs[k])}

LEMMA CompactedType ==
  ASSUME NEW rs \in Seq(Asked.rows), NEW q \in Seq(DOMAIN rs)
  PROVE  Compacted(rs, q) \in Seq(CompactRows) /\ Len(Compacted(rs, q)) = Len(q)
<1>1. PICK m \in Nat : DOMAIN rs = 1 .. m /\ \A k \in 1 .. m : rs[k] \in Asked.rows
  BY LenProperties
<1>2. PICK n \in Nat : n = Len(q) /\ \A i \in 1 .. n : q[i] \in 1 .. m
  BY <1>1, LenProperties, ElementOfSeq
<1>3. \A i \in 1 .. n : q[i] - 1 \in Nat /\ rs[q[i]] \in Asked.rows
  BY <1>1, <1>2
<1>4. Compacted(rs, q) \in [1 .. n -> CompactRows]
  BY <1>2, <1>3 DEF Compacted, CompactRows
<1> QED
  BY <1>2, <1>4, TupleIsSeq

LEMMA BatchListed ==
  ASSUME NEW rs \in Seq(Asked.rows), NEW batch \in Seq(Asked.rows), offset = Len(rs),
         NEW spelling
  PROVE  \E q : /\ Lists(q, Added(rs \o batch, Len(rs), spelling)) /\ Rising(q)
                /\ CompactBatch(batch, spelling) = Compacted(rs \o batch, q)
<1> DEFINE kept == Kept(batch, spelling)
           K == {i \in DOMAIN batch : batch[i].symbol = spelling /\ Accepted(batch[i])}
           all == rs \o batch
           L == Added(all, Len(rs), spelling)
<1>1. PICK m \in Nat : m = Len(rs)
  BY LenProperties
<1>2. PICK n \in Nat : n = Len(batch) /\ DOMAIN batch = 1 .. n
  BY LenProperties
<1>3. /\ DOMAIN all = 1 .. m + n
      /\ \A i \in 1 .. m + n : all[i] = IF i <= m THEN rs[i] ELSE batch[i - m]
  BY <1>1, <1>2, ConcatProperties, LenProperties
<1>4. Lists(kept, K) /\ Rising(kept)
  BY KeptIs
<1>5. K \subseteq 1 .. n
  BY <1>2
<1>6. PICK c \in Nat : c = Len(kept) /\ \A i \in 1 .. c : kept[i] \in K
  BY <1>4, LenProperties, ElementOfSeq DEF Lists
<1>7. CompactBatch(batch, spelling) = [k \in 1 .. c |-> CompactRow(m + kept[k] - 1, batch[kept[k]])]
  <2>1. DOMAIN kept = 1 .. c
    BY <1>4, <1>6, LenProperties DEF Lists
  <2> HIDE DEF kept
  <2>2. CompactBatch(batch, spelling)
          = [k \in DOMAIN kept |-> CompactRow(offset + kept[k] - 1, batch[kept[k]])]
    BY DEF CompactBatch, kept
  <2> QED
    BY <1>1, <2>1, <2>2
<1>8. \A i \in K : /\ m + i \in 1 .. m + n /\ m + i > m /\ all[m + i] = batch[i]
                   /\ m + i \in L
  <2> SUFFICES ASSUME NEW i \in K
               PROVE  /\ m + i \in 1 .. m + n /\ m + i > m /\ all[m + i] = batch[i]
                      /\ m + i \in L
    OBVIOUS
  <2>1. i \in 1 .. n /\ batch[i].symbol = spelling /\ Accepted(batch[i])
    BY <1>2
  <2>2. m + i \in 1 .. m + n /\ m + i > m /\ ~(m + i <= m) /\ m + i - m = i
    BY <2>1
  <2> HIDE DEF all
  <2>3. all[m + i] = batch[i]
    BY <1>3, <2>2
  <2> QED
    BY <1>1, <1>3, <2>1, <2>2, <2>3 DEF Added
<1>9. \A k \in L : k - m \in K /\ k \in 1 .. m + n /\ m + (k - m) = k
  <2> SUFFICES ASSUME NEW k \in L PROVE k - m \in K /\ k \in 1 .. m + n /\ m + (k - m) = k
    OBVIOUS
  <2> HIDE DEF all
  <2>1. k \in 1 .. m + n /\ k > m /\ all[k].symbol = spelling /\ Accepted(all[k])
    BY <1>1, <1>3 DEF Added
  <2>2. k - m \in 1 .. n /\ all[k] = batch[k - m]
    BY <1>3, <2>1
  <2> QED
    BY <1>2, <2>1, <2>2
<1> HIDE DEF kept, K, all, L
<1> DEFINE q == [i \in 1 .. c |-> m + kept[i]]
<1>10. q \in Seq(L) /\ Len(q) = c
  <2>1. q \in [1 .. c -> L]
    BY <1>6, <1>8
  <2> HIDE DEF q
  <2> QED
    BY <2>1, TupleIsSeq
<1>11. \A i \in 1 .. c : kept[i] \in 1 .. n /\ q[i] = m + kept[i]
  BY <1>5, <1>6
<1> HIDE DEF q
<1>12. Lists(q, L)
  <2>1. \A i, j \in 1 .. c : q[i] = q[j] => i = j
    BY <1>4, <1>6, <1>11 DEF Lists
  <2>2. ASSUME NEW k \in L PROVE \E i \in 1 .. c : q[i] = k
    <3>1. PICK i \in 1 .. c : kept[i] = k - m
      BY <1>4, <1>6, <1>9 DEF Lists
    <3> QED
      BY <1>9, <1>11, <3>1
  <2> QED
    BY <1>10, <2>1, <2>2 DEF Lists
<1>13. Rising(q)
  BY <1>4, <1>6, <1>10, <1>11 DEF Rising
<1>14. CompactBatch(batch, spelling) = Compacted(all, q)
  <2>1. \A k \in 1 .. c : CompactRow(m + kept[k] - 1, batch[kept[k]]) = CompactRow(q[k] - 1, all[q[k]])
    BY <1>6, <1>8, <1>11
  <2> QED
    BY <1>7, <1>10, <2>1 DEF Compacted
<1> QED
  BY <1>1, <1>12, <1>13, <1>14 DEF L, all

LEMMA BatchType ==
  ASSUME NEW rs \in Seq(Asked.rows), NEW batch \in Seq(Asked.rows), offset = Len(rs),
         NEW name
  PROVE  CompactBatch(batch, name) \in Seq(CompactRows)
<1>1. PICK all : all = rs \o batch /\ all \in Seq(Asked.rows)
  BY ConcatProperties
<1>2. PICK q : Lists(q, Added(all, Len(rs), name)) /\ CompactBatch(batch, name) = Compacted(all, q)
  <2>1. PICK q : /\ Lists(q, Added(rs \o batch, Len(rs), name)) /\ Rising(q)
                 /\ CompactBatch(batch, name) = Compacted(rs \o batch, q)
    BY BatchListed
  <2> QED
    BY <1>1, <2>1
<1>3. q \in Seq(DOMAIN all)
  <2>1. Added(all, Len(rs), name) \subseteq DOMAIN all
    BY DEF Added
  <2> QED
    BY <1>2, <2>1, SeqMonotonic DEF Lists
<1> QED
  BY <1>1, <1>2, <1>3, CompactedType

PartOf(rows) == IF rows = <<>> THEN <<>> ELSE <<rows>>

LEMMA FlattenSeqFew ==
  ASSUME NEW R, NEW x \in Seq(R), NEW y \in Seq(R)
  PROVE  FlattenSeq(<<x>>) = x /\ FlattenSeq(<<x, y>>) = x \o y
<1>1. /\ <<>> \in Seq(Seq(R)) /\ <<x>> \in Seq(Seq(R))
      /\ <<x>> = Append(<<>>, x) /\ <<x, y>> = Append(<<x>>, y)
  OBVIOUS
<1>2. FlattenSeq(<<x>>) = <<>> \o x
  BY <1>1, FlattenSeqAppend, FlattenSeqEmpty
<1>3. FlattenSeq(<<x>>) = x
  BY <1>2, ConcatEmptySeq
<1> QED
  BY <1>1, <1>3, FlattenSeqAppend

LEMMA PartAdded ==
  ASSUME NEW R, NEW ps \in Seq(Seq(R)), NEW rows \in Seq(R)
  PROVE  /\ PartOf(rows) \in Seq(Seq(R))
         /\ ps \o PartOf(rows) \in Seq(Seq(R))
         /\ FlattenSeq(ps \o PartOf(rows)) = FlattenSeq(ps) \o rows
<1>1. PartOf(rows) \in Seq(Seq(R))
  BY DEF PartOf
<1>2. ps \o PartOf(rows) \in Seq(Seq(R))
  BY <1>1, ConcatProperties
<1>3. CASE rows = <<>>
  <2>1. ps \o PartOf(rows) = ps
    BY <1>3, ConcatEmptySeq DEF PartOf
  <2>2. FlattenSeq(ps) \o rows = FlattenSeq(ps)
    BY <1>3, FlattenSeqType, ConcatEmptySeq
  <2> QED
    BY <1>1, <1>2, <2>1, <2>2
<1>4. CASE rows # <<>>
  <2>1. ps \o PartOf(rows) = Append(ps, rows)
    BY <1>4, AppendIsConcat DEF PartOf
  <2> QED
    BY <1>1, <1>2, <2>1, FlattenSeqAppend
<1> QED
  BY <1>3, <1>4

OneSpelling(s) == Stripped(s) \in {s, NoName}

LEMMA NewPartsIs ==
  ASSUME NEW R, NEW s, NEW batch,
         \A name : CompactBatch(batch, name) \in Seq(R)
  PROVE  NewParts(s, batch) =
           IF OneSpelling(s) THEN PartOf(CompactBatch(batch, s))
           ELSE PartOf(CompactBatch(batch, s)) \o PartOf(CompactBatch(batch, Stripped(s)))
<1> DEFINE C(name) == CompactBatch(batch, name)
           P(name) == PartOf(C(name))
<1>1. \A name : P(name) \in Seq(Seq(R))
  <2>1. <<>> \in Seq(Seq(R))
    OBVIOUS
  <2> QED
    BY <2>1, PartAdded
<1>2. NewParts(s, batch) = FlattenSeq([k \in DOMAIN Spellings(s) |-> P(Spellings(s)[k])])
  BY DEF NewParts, PartOf
<1> HIDE DEF P
<1>3. CASE OneSpelling(s)
  <2>1. Spellings(s) = <<s>>
    BY <1>3 DEF Spellings, OneSpelling
  <2>2. [k \in DOMAIN Spellings(s) |-> P(Spellings(s)[k])] = <<P(s)>>
    BY <2>1
  <2>3. FlattenSeq(<<P(s)>>) = P(s)
    BY <1>1, FlattenSeqFew
  <2> QED
    BY <1>2, <1>3, <2>2, <2>3 DEF P
<1>4. CASE ~OneSpelling(s)
  <2>1. Spellings(s) = <<s, Stripped(s)>>
    BY <1>4 DEF Spellings, OneSpelling
  <2>2. [k \in DOMAIN Spellings(s) |-> P(Spellings(s)[k])] = <<P(s), P(Stripped(s))>>
    BY <2>1
  <2>3. FlattenSeq(<<P(s), P(Stripped(s))>>) = P(s) \o P(Stripped(s))
    BY <1>1, FlattenSeqFew
  <2> QED
    BY <1>2, <1>4, <2>2, <2>3 DEF P
<1> QED
  BY <1>3, <1>4

LEMMA DenotesIs ==
  \A s, name : Denotes(name, s) <=> name = s \/ (~OneSpelling(s) /\ name = Stripped(s))
  BY DEF Denotes, OneSpelling

\* The rows of a batch join those of the symbol.
LEMMA GatheredOn ==
  ASSUME NEW rs \in Seq(Asked.rows), NEW batch \in Seq(Asked.rows), offset = Len(rs),
         NEW s, NEW ps \in Seq(Seq(CompactRows)), Gathered(rs, FlattenSeq(ps), s)
  PROVE  /\ ps \o NewParts(s, batch) \in Seq(Seq(CompactRows))
         /\ Gathered(rs \o batch, FlattenSeq(ps \o NewParts(s, batch)), s)
<1>1. PICK m \in Nat : m = Len(rs)
  BY LenProperties
<1>2. PICK n \in Nat : n = Len(batch)
  BY LenProperties
<1>3. PICK all : all = rs \o batch
  OBVIOUS
<1>4. /\ all \in Seq(Asked.rows) /\ DOMAIN all = 1 .. m + n /\ DOMAIN rs = 1 .. m
      /\ \A i \in 1 .. m : i \in 1 .. m + n /\ all[i] = rs[i]
  BY <1>1, <1>2, <1>3, ConcatProperties, LenProperties
<1> DEFINE K == RowsIn(rs, s)
           A(name) == Added(all, m, name)
           C(name) == CompactBatch(batch, name)
<1>5. /\ K \subseteq 1 .. m
      /\ \A name : A(name) \subseteq 1 .. m + n /\ \A k \in A(name) : k > m
  BY <1>4 DEF RowsIn, Added
<1>6. RowsIn(all, s) = IF OneSpelling(s) THEN K \cup A(s) ELSE (K \cup A(s)) \cup A(Stripped(s))
  <2>1. RowsIn(all, s) = K \cup {k \in DOMAIN all : k > m /\ Denotes(all[k].symbol, s) /\ Accepted(all[k])}
    <3>1. \A k \in 1 .. m + n : k > m \/ k \in 1 .. m
      OBVIOUS
    <3>2. \A k \in 1 .. m : k \in DOMAIN all /\ all[k] = rs[k]
      BY <1>4
    <3> QED
      BY <1>4, <3>1, <3>2 DEF RowsIn
  <2> QED
    BY <2>1, DenotesIs DEF Added
<1>7. \A name : \E q : /\ Lists(q, A(name)) /\ Rising(q) /\ C(name) = Compacted(all, q)
  <2> SUFFICES ASSUME NEW name
               PROVE  \E q : /\ Lists(q, A(name)) /\ Rising(q) /\ C(name) = Compacted(all, q)
    OBVIOUS
  <2>1. PICK q : /\ Lists(q, Added(rs \o batch, Len(rs), name)) /\ Rising(q)
                 /\ CompactBatch(batch, name) = Compacted(rs \o batch, q)
    BY BatchListed
  <2> QED
    BY <1>1, <1>3, <2>1
<1>8. \A name : C(name) \in Seq(CompactRows)
  BY BatchType
<1>9. PICK q0 : /\ Lists(q0, K) /\ FlattenSeq(ps) = Compacted(rs, q0)
                /\ OneName(rs, s) => Rising(q0)
  BY DEF Gathered
<1>10. Compacted(rs, q0) = Compacted(all, q0)
  <2>1. \A i \in 1 .. Len(q0) : q0[i] \in 1 .. m
    BY <1>5, <1>9, ElementOfSeq DEF Lists
  <2> QED
    BY <1>4, <2>1 DEF Compacted
<1>11. PICK q1 : Lists(q1, A(s)) /\ Rising(q1) /\ C(s) = Compacted(all, q1)
  BY <1>7
<1>12. PICK q2 : Lists(q2, A(Stripped(s))) /\ Rising(q2) /\ C(Stripped(s)) = Compacted(all, q2)
  BY <1>7
<1>13. OneName(all, s) => OneName(rs, s)
  <2>1. \A k \in RowsIn(rs, s) : k \in RowsIn(all, s) /\ all[k] = rs[k]
    BY <1>4, <1>5, <1>6
  <2> QED
    BY <2>1 DEF OneName
<1>14. \A k \in K : \A name : \A l \in A(name) : k < l
  BY <1>5
<1>15. K \in SUBSET Nat /\ \A name : A(name) \in SUBSET Nat
  BY <1>5
<1>16. q0 \in Seq(Nat) /\ q1 \in Seq(Nat) /\ q2 \in Seq(Nat)
  BY <1>9, <1>11, <1>12, <1>15, SeqMonotonic DEF Lists
<1>17. /\ PartOf(C(s)) \in Seq(Seq(CompactRows)) /\ PartOf(C(Stripped(s))) \in Seq(Seq(CompactRows))
       /\ ps \o PartOf(C(s)) \in Seq(Seq(CompactRows))
       /\ FlattenSeq(ps \o PartOf(C(s))) = FlattenSeq(ps) \o C(s)
  BY <1>8, PartAdded
<1> HIDE DEF K, A, C
<1>18. FlattenSeq(ps \o PartOf(C(s))) = Compacted(all, q0 \o q1)
  <2>1. Compacted(all, q0 \o q1) = Compacted(all, q0) \o Compacted(all, q1)
    BY <1>16, CompactedConcat
  <2> QED
    BY <1>9, <1>10, <1>11, <1>17, <2>1
<1>19. /\ Lists(q0 \o q1, K \cup A(s))
       /\ OneName(all, s) => Rising(q0 \o q1)
  <2>1. K \cap A(s) = {} /\ \A k \in K, l \in A(s) : k < l
    BY <1>14, <1>15
  <2> QED
    BY <1>9, <1>11, <1>13, <1>15, <2>1, ListsConcat
<1>20. CASE OneSpelling(s)
  <2>1. NewParts(s, batch) = PartOf(C(s))
    BY <1>8, <1>20, NewPartsIs DEF C
  <2> QED
    BY <1>3, <1>6, <1>17, <1>18, <1>19, <1>20, <2>1 DEF Gathered
<1>21. CASE ~OneSpelling(s)
  <2> DEFINE qs == ps \o PartOf(C(s))
             L == A(Stripped(s))
  <2>1. NewParts(s, batch) = PartOf(C(s)) \o PartOf(C(Stripped(s)))
    BY <1>8, <1>21, NewPartsIs DEF C
  <2>2. ps \o NewParts(s, batch) = qs \o PartOf(C(Stripped(s)))
    <3>1. (ps \o PartOf(C(s))) \o PartOf(C(Stripped(s))) = ps \o (PartOf(C(s)) \o PartOf(C(Stripped(s))))
      BY <1>17, ConcatAssociative
    <3> QED
      BY <2>1, <3>1
  <2>3. qs \in Seq(Seq(CompactRows)) /\ FlattenSeq(qs) = Compacted(all, q0 \o q1)
    BY <1>17, <1>18
  <2> HIDE DEF qs
  <2>4. /\ qs \o PartOf(C(Stripped(s))) \in Seq(Seq(CompactRows))
        /\ FlattenSeq(qs \o PartOf(C(Stripped(s)))) = FlattenSeq(qs) \o C(Stripped(s))
    BY <1>8, <2>3, PartAdded
  <2>5. q0 \o q1 \in Seq(Nat)
    BY <1>16, ConcatProperties
  <2>6. FlattenSeq(ps \o NewParts(s, batch)) = Compacted(all, (q0 \o q1) \o q2)
    <3>1. Compacted(all, (q0 \o q1) \o q2) = Compacted(all, q0 \o q1) \o Compacted(all, q2)
      BY <1>16, <2>5, CompactedConcat
    <3> QED
      BY <1>12, <2>2, <2>3, <2>4, <3>1
  <2>7. K \cup A(s) \in SUBSET Nat /\ L \in SUBSET Nat /\ (K \cup A(s)) \cap L = {}
    <3>1. A(s) \cap L = {}
      <4>1. s # Stripped(s)
        BY <1>21 DEF OneSpelling
      <4> QED
        BY <4>1 DEF A, Added
    <3>2. K \cap L = {}
      BY <1>14, <1>15
    <3> QED
      BY <1>15, <3>1, <3>2
  <2>8. OneName(all, s) => \A k \in K \cup A(s), l \in L : k < l
    <3> SUFFICES ASSUME OneName(all, s), NEW k \in A(s), NEW l \in L PROVE FALSE
      BY <1>14
    <3>1. k \in RowsIn(all, s) /\ l \in RowsIn(all, s)
      BY <1>6, <1>21
    <3>2. all[k].symbol = s /\ all[l].symbol = Stripped(s)
      BY DEF A, Added
    <3> QED
      BY <1>21, <3>1, <3>2 DEF OneName, OneSpelling
  <2> HIDE DEF L
  <2>9. /\ Lists((q0 \o q1) \o q2, (K \cup A(s)) \cup L)
        /\ OneName(all, s) => Rising((q0 \o q1) \o q2)
    BY <1>12, <1>19, <2>7, <2>8, ListsConcat DEF L
  <2> QED
    BY <1>3, <1>6, <1>21, <2>2, <2>4, <2>6, <2>9 DEF Gathered, L
<1> QED
  BY <1>20, <1>21
-----------------------------------------------------------------------------
(* Every row once.                                                         *)

\* Until a source is done, the parts of a symbol hold its rows; what is written
\* holds them from then on, and no row stands for two symbols.
Placing ==
  /\ \A s \in symbols : parts[s] \in Seq(Seq(CompactRows))
  /\ phase \notin {"aliases", "failed"} => ~Ambiguous
  /\ phase \in {"aliases", "scan", "failed"} => Written = {}
  /\ phase # "done" => \A s \in symbols : Gathered(scanned, FlattenSeq(parts[s]), s)
  /\ \A s \in Written : Gathered(scanned, files[s].rows, s)

LEMMA PlacingInit == Init => Placing
<1> SUFFICES ASSUME Init PROVE Placing
  OBVIOUS
<1>1. /\ scanned = <<>> /\ phase = "aliases"
      /\ \A s \in symbols : parts[s] = <<>> /\ files[s] = NoFile
  BY DEF Init
<1>2. Written = {}
  BY <1>1 DEF Written
<1>3. <<>> \in Seq(Seq(CompactRows))
  OBVIOUS
<1>4. \A s : Gathered(<<>>, <<>>, s)
  <2> SUFFICES ASSUME NEW s PROVE Gathered(<<>>, <<>>, s)
    OBVIOUS
  <2>1. RowsIn(<<>>, s) = {}
    BY DEF RowsIn
  <2>2. <<>> \in Seq({}) /\ Len(<<>>) = 0 /\ 1 .. 0 = {}
    OBVIOUS
  <2>3. Lists(<<>>, {}) /\ Rising(<<>>) /\ Compacted(<<>>, <<>>) = <<>>
    BY <2>2 DEF Lists, Rising, Compacted
  <2> QED
    BY <2>1, <2>3 DEF Gathered
<1> QED
  BY <1>1, <1>2, <1>3, <1>4, FlattenSeqEmpty DEF Placing

\* What is said of raw rows stands as long as the source does.
LEMMA SameSource ==
  ASSUME UNCHANGED source
  PROVE  /\ symbols' = symbols /\ CompactRows' = CompactRows /\ Ambiguous' = Ambiguous
         /\ \A rows, s : Gathered(scanned, rows, s)' <=> Gathered(scanned', rows, s)
<1>1. Asked' = Asked /\ symbols' = symbols
  BY DEF Asked, symbols
<1>2. CompactRows' = CompactRows
  BY <1>1 DEF CompactRows, CompactRow
<1>3. Ambiguous' = Ambiguous
  BY <1>1 DEF Ambiguous
<1>4. \A s : RowsIn(scanned, s)' = RowsIn(scanned', s)
  BY <1>1 DEF RowsIn, Accepted
<1>5. \A q : Compacted(scanned, q)' = Compacted(scanned', q)
  BY <1>1 DEF Compacted, CompactRow
<1>6. \A s : OneName(scanned, s)' = OneName(scanned', s)
  BY <1>4 DEF OneName
<1> QED
  BY <1>1, <1>2, <1>3, <1>4, <1>5, <1>6 DEF Gathered

LEMMA PlacingScan == TypeOK /\ Placing /\ ScanBatch => Placing'
<1> SUFFICES ASSUME TypeOK, Placing, ScanBatch PROVE Placing'
  OBVIOUS
<1>1. phase = "scan" /\ UNCHANGED <<source, path, files, phase>>
  BY DEF ScanBatch
<1>a. PICK n \in 1 .. Min({BatchRows, Asked.most - Len(scanned)}) :
        \E batch \in [1 .. n -> Asked.rows] :
          /\ scanned' = scanned \o batch
          /\ parts' = [s \in symbols |-> parts[s] \o NewParts(s, batch)]
  BY DEF ScanBatch
<1>2. PICK batch \in [1 .. n -> Asked.rows] :
        /\ scanned' = scanned \o batch
        /\ parts' = [s \in symbols |-> parts[s] \o NewParts(s, batch)]
  BY <1>a
<1>3. n \in Nat
  <2>1. BatchRows \in Int /\ Asked.most - Len(scanned) \in Int
    BY SourcesAssumption, BatchAssumption, LenProperties DEF TypeOK, Asked, CompactSource
  <2>2. Min({BatchRows, Asked.most - Len(scanned)}) \in Int
    BY <2>1, LeastOfTwo
  <2> QED
    BY <2>2
<1>4. batch \in Seq(Asked.rows) /\ scanned \in Seq(Asked.rows) /\ offset = Len(scanned)
  BY <1>3, TupleIsSeq DEF TypeOK
<1>5. ASSUME NEW s \in symbols
      PROVE  /\ parts'[s] \in Seq(Seq(CompactRows))
             /\ Gathered(scanned', FlattenSeq(parts'[s]), s)
  <2>1. parts[s] \in Seq(Seq(CompactRows)) /\ Gathered(scanned, FlattenSeq(parts[s]), s)
    BY <1>1 DEF Placing
  <2>2. parts'[s] = parts[s] \o NewParts(s, batch)
    BY <1>2
  <2> QED
    BY <1>2, <1>4, <2>1, <2>2, GatheredOn
<1>6. Written = {} /\ ~Ambiguous
  BY <1>1 DEF Placing
<1>7. Written' = {}
  BY <1>1, <1>6, SameSource DEF Written
<1> QED
  BY <1>1, <1>5, <1>6, <1>7, SameSource DEF Placing

LEMMA FileRows == \A ps : FileOf(ps).rows = FlattenSeq(ps)
<1>1. WriteEmptySymbol.rows = FlattenSeq(<<>>)
  BY FlattenSeqEmpty DEF WriteEmptySymbol
<1>2. \A ps : ConsolidateSymbol(ps).rows = FlattenSeq(ps)
  BY DEF ConsolidateSymbol
<1> QED
  BY <1>1, <1>2 DEF FileOf

LEMMA PlacingConsolidate ==
  ASSUME TypeOK, Placing, NEW s \in symbols, Consolidate(s) PROVE Placing'
<1>1. /\ phase = "consolidate" /\ UNCHANGED <<source, path, scanned, offset, parts, phase>>
      /\ files' = [files EXCEPT ![s] = FileOf(parts[s])] /\ DOMAIN files = symbols
  BY DEF Consolidate, TypeOK
<1>2. files'[s].rows = FlattenSeq(parts[s])
  BY <1>1, FileRows
<1>3. \A t \in symbols : t # s => files'[t] = files[t]
  BY <1>1
<1>4. \A t \in Written' : t = s \/ t \in Written
  BY <1>1, <1>3, SameSource DEF Written
<1>5. \A t \in Written' : Gathered(scanned, files'[t].rows, t)
  BY <1>1, <1>2, <1>3, <1>4 DEF Placing, Written
<1>6. \A t \in symbols : Gathered(scanned, FlattenSeq(parts[t]), t)
  BY <1>1 DEF Placing
<1> QED
  BY <1>1, <1>5, <1>6, SameSource DEF Placing

LEMMA PlacingFinish == TypeOK /\ Placing /\ Finish => Placing'
<1> SUFFICES ASSUME TypeOK, Placing, Finish PROVE Placing'
  OBVIOUS
<1>1. /\ phase = "consolidate" /\ phase' = "done" /\ UNCHANGED <<source, path, scanned, offset, files>>
      /\ parts' = [s \in symbols |-> <<>>]
  BY DEF Finish
<1>2. Written' = Written
  BY <1>1, SameSource DEF Written
<1>3. <<>> \in Seq(Seq(CompactRows))
  OBVIOUS
<1> QED
  BY <1>1, <1>2, <1>3, SameSource DEF Placing

LEMMA PlacingNext == TypeOK /\ Placing /\ [Next]_vars => Placing'
<1> SUFFICES ASSUME TypeOK, Placing, [Next]_vars PROVE Placing'
  OBVIOUS
<1>1. ASSUME UNCHANGED <<source, scanned, parts, files>>,
             \/ phase' = phase
             \/ phase = "aliases" /\ phase' = IF Ambiguous THEN "failed" ELSE "scan"
             \/ phase = "scan" /\ phase' = "consolidate"
      PROVE  Placing'
  <2>1. Written' = Written
    BY <1>1, SameSource DEF Written
  <2>2. \A s \in symbols : parts'[s] \in Seq(Seq(CompactRows))
    BY <1>1 DEF Placing
  <2>3. phase' \notin {"aliases", "failed"} => ~Ambiguous
    BY <1>1 DEF Placing
  <2>4. phase' \in {"aliases", "scan", "failed"} => Written = {}
    BY <1>1 DEF Placing
  <2>5. phase' # "done" => \A s \in symbols : Gathered(scanned', FlattenSeq(parts'[s]), s)
    BY <1>1 DEF Placing
  <2>6. \A s \in Written : Gathered(scanned', files'[s].rows, s)
    BY <1>1 DEF Placing
  <2> QED
    BY <1>1, <2>1, <2>2, <2>3, <2>4, <2>5, <2>6, SameSource DEF Placing
<1>2. CASE UNCHANGED vars
  BY <1>1, <1>2 DEF vars
<1>3. CASE ResolveAliases
  BY <1>1, <1>3 DEF ResolveAliases
<1>4. CASE ScanBatch
  BY <1>4, PlacingScan
<1>5. CASE NextPath
  BY <1>1, <1>5 DEF NextPath
<1>6. CASE EndOfScan
  BY <1>1, <1>6 DEF EndOfScan
<1>7. ASSUME NEW s \in symbols, Consolidate(s) PROVE Placing'
  BY <1>7, PlacingConsolidate
<1>8. CASE Finish
  BY <1>8, PlacingFinish
<1> QED
  BY <1>2, <1>3, <1>4, <1>5, <1>6, <1>7, <1>8 DEF Next

LEMMA AlwaysPlaced == Spec => [](TypeOK /\ Placing)
  BY TypesInit, TypesNext, PlacingInit, PlacingNext, PTL DEF Spec

\* The rows of what is written.
LEMMA WrittenRows ==
  ASSUME TypeOK, Placing, NEW s \in Written
  PROVE  \E q : /\ Lists(q, RowsOf(s)) /\ Len(files[s].rows) = Len(q)
                /\ Len(q) = Cardinality(RowsOf(s)) /\ q \in Seq(DOMAIN scanned)
                /\ DOMAIN files[s].rows = 1 .. Len(q)
                /\ \A i \in 1 .. Len(q) :
                     /\ q[i] \in RowsOf(s) /\ q[i] \in Nat \ {0}
                     /\ files[s].rows[i] = CompactRow(q[i] - 1, scanned[q[i]])
                /\ OneName(scanned, s) => Rising(q)
<1>1. PICK m \in Nat : m = Len(scanned) /\ DOMAIN scanned = 1 .. m /\ scanned \in Seq(Asked.rows)
  BY LenProperties DEF TypeOK
<1>2. RowsIn(scanned, s) = RowsOf(s) /\ RowsOf(s) \subseteq 1 .. m
  BY <1>1 DEF RowsIn, RowsOf
<1>3. PICK q : /\ Lists(q, RowsOf(s)) /\ files[s].rows = Compacted(scanned, q)
               /\ OneName(scanned, s) => Rising(q)
  BY <1>2 DEF Placing, Gathered
<1>4. q \in Seq(DOMAIN scanned)
  BY <1>1, <1>2, <1>3, SeqMonotonic DEF Lists
<1>5. Compacted(scanned, q) \in Seq(CompactRows) /\ Len(Compacted(scanned, q)) = Len(q)
  BY <1>1, <1>4, CompactedType
<1>6. PICK n \in Nat : n = Len(q) /\ q \in [1 .. n -> RowsOf(s)]
  BY <1>3, LenProperties DEF Lists
<1>7. q \in Bijection(1 .. n, RowsOf(s))
  BY <1>3, <1>6 DEF Lists, Bijection, Injection, IsInjective, Surjection
<1>8. n = Cardinality(RowsOf(s))
  <2>1. \A k \in Nat : IsFiniteSet(1 .. k) /\ Cardinality(1 .. k) = k
    BY FS_Interval
  <2> QED
    BY <1>7, <2>1, FS_Bijection DEF ExistsBijection
<1>9. \A i \in 1 .. Len(q) : /\ q[i] \in RowsOf(s) /\ q[i] \in Nat \ {0}
                             /\ files[s].rows[i] = CompactRow(q[i] - 1, scanned[q[i]])
  BY <1>2, <1>3, <1>6 DEF Compacted
<1>10. DOMAIN files[s].rows = 1 .. Len(q)
  BY <1>3 DEF Compacted
<1> QED
  BY <1>3, <1>4, <1>5, <1>6, <1>8, <1>9, <1>10

LEMMA RowFields ==
  \A k, row : /\ CompactRow(k, row).source_seq = k
              /\ CompactRow(k, row).exch_ts = row.exchtime
              /\ CompactRow(k, row).local_ts_raw = LocalTime(row)
              /\ CompactRow(k, row).bid = Best(row.bids, Asked, TRUE)
              /\ CompactRow(k, row).ask = Best(row.asks, Asked, FALSE)
  BY DEF CompactRow

LEMMA PlacingMeansOnce == TypeOK /\ Placing => EveryRowOnce
<1> SUFFICES ASSUME TypeOK, Placing PROVE EveryRowOnce
  OBVIOUS
<1>1. ASSUME NEW s \in Written
      PROVE  LET rows == files[s].rows IN
             /\ {rows[i].source_seq : i \in DOMAIN rows} = {k - 1 : k \in RowsOf(s)}
             /\ Len(rows) = Cardinality(RowsOf(s))
             /\ \A i \in DOMAIN rows : rows[i].exch_ts = scanned[rows[i].source_seq + 1].exchtime
  <2> DEFINE rows == files[s].rows
  <2>1. PICK q : /\ Lists(q, RowsOf(s)) /\ Len(rows) = Len(q)
                 /\ Len(q) = Cardinality(RowsOf(s)) /\ DOMAIN rows = 1 .. Len(q)
                 /\ \A i \in 1 .. Len(q) :
                      /\ q[i] \in RowsOf(s) /\ q[i] \in Nat \ {0}
                      /\ rows[i] = CompactRow(q[i] - 1, scanned[q[i]])
    BY <1>1, WrittenRows
  <2> HIDE DEF rows
  <2>2. \A i \in DOMAIN rows : /\ rows[i].source_seq = q[i] - 1
                               /\ rows[i].exch_ts = scanned[q[i]].exchtime
                               /\ rows[i].source_seq + 1 = q[i] /\ q[i] \in RowsOf(s)
    <3> SUFFICES ASSUME NEW i \in 1 .. Len(q)
                 PROVE  /\ rows[i].source_seq = q[i] - 1
                        /\ rows[i].exch_ts = scanned[q[i]].exchtime
                        /\ rows[i].source_seq + 1 = q[i] /\ q[i] \in RowsOf(s)
      BY <2>1
    <3>1. q[i] \in RowsOf(s) /\ q[i] \in Nat \ {0} /\ rows[i] = CompactRow(q[i] - 1, scanned[q[i]])
      BY <2>1
    <3>2. rows[i].source_seq = q[i] - 1 /\ rows[i].exch_ts = scanned[q[i]].exchtime
      BY <3>1, RowFields
    <3>3. (q[i] - 1) + 1 = q[i]
      BY <3>1
    <3> QED
      BY <3>1, <3>2, <3>3
  <2>3. \A k \in RowsOf(s) : \E i \in DOMAIN rows : q[i] = k
    BY <2>1 DEF Lists
  <2>4. {rows[i].source_seq : i \in DOMAIN rows} = {k - 1 : k \in RowsOf(s)}
    BY <2>2, <2>3
  <2> QED
    BY <2>1, <2>2, <2>4 DEF rows
<1>2. ASSUME NEW s \in Written, NEW t \in Written, s # t, NEW k \in RowsOf(s) \cap RowsOf(t)
      PROVE  FALSE
  <2>1. \A u, name : Denotes(name, u) => name \in Range(Spellings(u))
    <3> SUFFICES ASSUME NEW u, NEW name, Denotes(name, u) PROVE name \in Range(Spellings(u))
      OBVIOUS
    <3>1. CASE Stripped(u) \in {u, NoName}
      <4>1. Spellings(u) = <<u>> /\ name = u
        BY <3>1 DEF Spellings, Denotes
      <4> QED
        BY <4>1 DEF Range
    <3>2. CASE ~(Stripped(u) \in {u, NoName})
      <4>1. Spellings(u) = <<u, Stripped(u)>> /\ name \in {u, Stripped(u)}
        BY <3>2 DEF Spellings, Denotes
      <4>2. DOMAIN <<u, Stripped(u)>> = {1, 2}
        OBVIOUS
      <4> QED
        BY <4>1, <4>2 DEF Range
    <3> QED
      BY <3>1, <3>2
  <2>2. scanned[k].symbol \in Range(Spellings(s)) \cap Range(Spellings(t))
    BY <1>2, <2>1 DEF RowsOf
  <2>3. Ambiguous
    BY <1>2, <2>2 DEF Ambiguous, Written
  <2>4. phase \notin {"aliases", "failed"}
    BY <1>2 DEF Placing
  <2> QED
    BY <2>3, <2>4 DEF Placing
<1> QED
  BY <1>1, <1>2 DEF EveryRowOnce

\* However the rows are cut into files and batches and a symbol is spelled, every
\* accepted row of it is in its file, once, and in no other file.
THEOREM EveryRowIsOnce == Spec => []EveryRowOnce
  BY AlwaysPlaced, PlacingMeansOnce, PTL
-----------------------------------------------------------------------------
(* What the builder records of a symbol part by part, what the store reads *)
(* back from the whole file.                                               *)

LEMMA ColumnIs ==
  ASSUME NEW R, NEW rows \in Seq(R), NEW name
  PROVE  /\ Column(rows, name) \in Seq({r[name] : r \in R})
         /\ Len(Column(rows, name)) = Len(rows)
<1>1. PICK n \in Nat : n = Len(rows) /\ DOMAIN rows = 1 .. n /\ \A i \in 1 .. n : rows[i] \in R
  BY LenProperties
<1>2. Column(rows, name) \in [1 .. n -> {r[name] : r \in R}]
  BY <1>1 DEF Column
<1> QED
  BY <1>1, <1>2, TupleIsSeq

LEMMA ColumnConcat ==
  ASSUME NEW R, NEW p \in Seq(R), NEW q \in Seq(R), NEW name
  PROVE  Column(p \o q, name) = Column(p, name) \o Column(q, name)
<1> DEFINE V == {r[name] : r \in R}
<1>1. PICK m \in Nat : m = Len(p) /\ DOMAIN p = 1 .. m
  BY LenProperties
<1>2. PICK n \in Nat : n = Len(q) /\ DOMAIN q = 1 .. n
  BY LenProperties
<1>t. PICK t : t = p \o q
  OBVIOUS
<1>3. DOMAIN t = 1 .. m + n /\ \A i \in 1 .. m + n : t[i] = IF i <= m THEN p[i] ELSE q[i - m]
  BY <1>1, <1>2, <1>t, ConcatProperties, LenProperties
<1>a. PICK a : a = Column(p, name)
  OBVIOUS
<1>b. PICK b : b = Column(q, name)
  OBVIOUS
<1>c. PICK c : c = a \o b
  OBVIOUS
<1>4. a \in Seq(V) /\ Len(a) = m /\ \A i \in 1 .. m : a[i] = p[i][name]
  <2>1. a \in Seq(V) /\ Len(a) = m
    BY <1>1, <1>a, ColumnIs
  <2>2. \A i \in 1 .. m : a[i] = p[i][name]
    BY <1>1, <1>a DEF Column
  <2> QED
    BY <2>1, <2>2
<1>5. b \in Seq(V) /\ Len(b) = n /\ \A i \in 1 .. n : b[i] = q[i][name]
  <2>1. b \in Seq(V) /\ Len(b) = n
    BY <1>2, <1>b, ColumnIs
  <2>2. \A i \in 1 .. n : b[i] = q[i][name]
    BY <1>2, <1>b DEF Column
  <2> QED
    BY <2>1, <2>2
<1> HIDE DEF V
<1>6. /\ c = [i \in 1 .. m + n |-> c[i]]
      /\ \A i \in 1 .. m + n : c[i] = IF i <= m THEN a[i] ELSE b[i - m]
  <2>1. c \in Seq(V) /\ Len(c) = m + n
    BY <1>4, <1>5, <1>c, ConcatProperties
  <2>2. \A i \in 1 .. m + n : c[i] = IF i <= m THEN a[i] ELSE b[i - m]
    BY <1>4, <1>5, <1>c, ConcatProperties
  <2>3. c = [i \in 1 .. m + n |-> c[i]]
    BY <2>1, LenProperties
  <2> QED
    BY <2>2, <2>3
<1>7. \A i \in 1 .. m + n : (i <= m => i \in 1 .. m) /\ (~(i <= m) => i - m \in 1 .. n)
  OBVIOUS
<1>8. \A i \in 1 .. m + n : t[i][name] = IF i <= m THEN a[i] ELSE b[i - m]
  <2> SUFFICES ASSUME NEW i \in 1 .. m + n
               PROVE  t[i][name] = IF i <= m THEN a[i] ELSE b[i - m]
    OBVIOUS
  <2>1. CASE i <= m
    <3>1. i \in 1 .. m /\ t[i] = p[i]
      BY <1>3, <1>7, <2>1
    <3> QED
      BY <1>4, <2>1, <3>1
  <2>2. CASE ~(i <= m)
    <3>1. i - m \in 1 .. n /\ t[i] = q[i - m]
      BY <1>3, <1>7, <2>2
    <3> QED
      BY <1>5, <2>2, <3>1
  <2> QED
    BY <2>1, <2>2
<1>9. Column(t, name) = c
  <2>1. \A i \in 1 .. m + n : t[i][name] = c[i]
    BY <1>6, <1>8
  <2> QED
    BY <1>3, <1>6, <2>1 DEF Column
<1> QED
  BY <1>a, <1>b, <1>c, <1>t, <1>9

\* A column of all the parts is the column of all the rows.
LEMMA JoinedIs ==
  ASSUME NEW R, NEW ps \in Seq(Seq(R)), NEW name
  PROVE  Joined(ps, name) = Column(FlattenSeq(ps), name)
<1> DEFINE V == {r[name] : r \in R}
           cols == [k \in DOMAIN ps |-> Column(ps[k], name)]
<1>1. PICK n \in Nat : n = Len(ps) /\ DOMAIN ps = 1 .. n /\ \A k \in 1 .. n : ps[k] \in Seq(R)
  BY LenProperties
<1>2. Joined(ps, name) = FlattenSeq(cols)
  BY DEF Joined
<1>3. cols \in Seq(Seq(V)) /\ Len(cols) = n /\ \A k \in 1 .. n : cols[k] = Column(ps[k], name)
  <2>1. cols \in [1 .. n -> Seq(V)]
    BY <1>1, ColumnIs
  <2> QED
    BY <1>1, <2>1, TupleIsSeq
<1> HIDE DEF cols, V
<1>4. CASE n = 0
  <2>1. ps = <<>> /\ cols = <<>>
    BY <1>1, <1>3, <1>4, EmptySeq
  <2>2. Column(<<>>, name) = <<>>
    BY DEF Column
  <2> QED
    BY <1>2, <2>1, <2>2, FlattenSeqEmpty
<1>5. CASE n # 0
  <2>1. PICK F \in [1 .. n -> Seq(R)] : Flattens(F, ps, n)
    BY <1>1, FlattensExists
  <2>2. PICK G : G = [i \in 1 .. n |-> Column(F[i], name)]
    OBVIOUS
  <2>3. \A i \in 1 .. n : Column(F[i], name) = IF i = 1 THEN cols[i] ELSE G[i - 1] \o cols[i]
    <3> SUFFICES ASSUME NEW i \in 1 .. n
                 PROVE  Column(F[i], name) = IF i = 1 THEN cols[i] ELSE G[i - 1] \o cols[i]
      OBVIOUS
    <3>1. F[i] = IF i = 1 THEN ps[i] ELSE F[i - 1] \o ps[i]
      BY <2>1 DEF Flattens
    <3>2. CASE i = 1
      BY <1>3, <3>1, <3>2
    <3>3. CASE i # 1
      <4>1. i - 1 \in 1 .. n
        BY <3>3
      <4>2. F[i - 1] \in Seq(R)
        BY <2>1, <4>1
      <4>3. ps[i] \in Seq(R)
        BY <1>1
      <4>4. G[i - 1] = Column(F[i - 1], name) /\ cols[i] = Column(ps[i], name)
        BY <1>3, <2>2, <4>1
      <4>5. Column(F[i - 1] \o ps[i], name) = Column(F[i - 1], name) \o Column(ps[i], name)
        <5>1. \A p, q \in Seq(R) : Column(p \o q, name) = Column(p, name) \o Column(q, name)
          BY ColumnConcat
        <5> QED
          BY <4>2, <4>3, <5>1
      <4> QED
        BY <3>1, <3>3, <4>4, <4>5
    <3> QED
      BY <3>2, <3>3
  <2>4. Flattens(G, cols, n)
    BY <2>2, <2>3 DEF Flattens
  <2>5. n \in 1 .. n
    BY <1>5
  <2>6. FlattenSeq(cols) = G[n]
    BY <1>3, <1>5, <2>4, FlattenSeqLast
  <2>7. FlattenSeq(ps) = F[n]
    BY <1>1, <1>5, <2>1, FlattenSeqLast
  <2> QED
    BY <1>2, <2>2, <2>5, <2>6, <2>7
<1> QED
  BY <1>4, <1>5

LEMMA PricesOver ==
  ASSUME NEW k, NEW rows, DOMAIN rows = 1 .. k, NEW x
  PROVE  x \in Prices(rows) <=> x # 0 /\ \E i \in 1 .. k : x = rows[i].bid.px \/ x = rows[i].ask.px
  BY DEF Prices

LEMMA PricesConcat ==
  ASSUME NEW R, NEW p \in Seq(R), NEW q \in Seq(R)
  PROVE  Prices(p \o q) = Prices(p) \cup Prices(q)
<1>1. PICK m \in Nat : m = Len(p) /\ DOMAIN p = 1 .. m
  BY LenProperties
<1>2. PICK n \in Nat : n = Len(q) /\ DOMAIN q = 1 .. n
  BY LenProperties
<1>t. PICK t : t = p \o q
  OBVIOUS
<1>3. DOMAIN t = 1 .. m + n /\ \A i \in 1 .. m + n : t[i] = IF i <= m THEN p[i] ELSE q[i - m]
  BY <1>1, <1>2, <1>t, ConcatProperties, LenProperties
<1>4. \A i \in 1 .. m + n : (\E j \in 1 .. m : t[i] = p[j]) \/ \E j \in 1 .. n : t[i] = q[j]
  <2>1. \A i \in 1 .. m + n : (i <= m => i \in 1 .. m) /\ (~(i <= m) => i - m \in 1 .. n)
    OBVIOUS
  <2> QED
    BY <1>3, <2>1
<1>5. \A j \in 1 .. m : j \in 1 .. m + n /\ t[j] = p[j]
  BY <1>3
<1>6. \A j \in 1 .. n : m + j \in 1 .. m + n /\ t[m + j] = q[j]
  <2>1. \A j \in 1 .. n : m + j \in 1 .. m + n /\ ~(m + j <= m) /\ (m + j) - m = j
    OBVIOUS
  <2> QED
    BY <1>3, <2>1
<1>7. ASSUME NEW x
      PROVE  x \in Prices(t) <=> x \in Prices(p) \/ x \in Prices(q)
  <2>1. x \in Prices(t) <=> x # 0 /\ \E i \in 1 .. m + n : x = t[i].bid.px \/ x = t[i].ask.px
    BY <1>3, PricesOver
  <2>2. x \in Prices(p) <=> x # 0 /\ \E i \in 1 .. m : x = p[i].bid.px \/ x = p[i].ask.px
    BY <1>1, PricesOver
  <2>3. x \in Prices(q) <=> x # 0 /\ \E i \in 1 .. n : x = q[i].bid.px \/ x = q[i].ask.px
    BY <1>2, PricesOver
  <2>4. x \in Prices(t) => x \in Prices(p) \/ x \in Prices(q)
    BY <1>4, <2>1, <2>2, <2>3
  <2>5. x \in Prices(p) => x \in Prices(t)
    BY <1>5, <2>1, <2>2
  <2>6. x \in Prices(q) => x \in Prices(t)
    BY <1>6, <2>1, <2>3
  <2> QED
    BY <2>4, <2>5, <2>6
<1> QED
  BY <1>t, <1>7

\* The prices of the parts are the prices of all the rows: a first part at which
\* they were not would differ from the one before.
LEMMA PartPricesIs ==
  ASSUME NEW R, NEW ps \in Seq(Seq(R))
  PROVE  PartPrices(ps) = Prices(FlattenSeq(ps))
<1>1. PICK n \in Nat : n = Len(ps) /\ DOMAIN ps = 1 .. n /\ \A k \in 1 .. n : ps[k] \in Seq(R)
  BY LenProperties
<1> DEFINE upto(m) == UNION {Prices(ps[k]) : k \in 1 .. m}
<1>2. PartPrices(ps) = upto(n)
  BY <1>1 DEF PartPrices
<1>3. CASE n = 0
  <2>1. ps = <<>> /\ Prices(<<>>) = {} /\ 1 .. 0 = {}
    BY <1>1, <1>3, EmptySeq DEF Prices
  <2> QED
    BY <1>2, <1>3, <2>1, FlattenSeqEmpty
<1>4. CASE n # 0
  <2>1. PICK F \in [1 .. n -> Seq(R)] : Flattens(F, ps, n)
    BY <1>1, FlattensExists
  <2>2. n \in 1 .. n /\ FlattenSeq(ps) = F[n]
    BY <1>1, <1>4, <2>1, FlattenSeqLast
  <2> DEFINE Bad == {m \in 1 .. n : Prices(F[m]) # upto(m)}
  <2>3. ASSUME Bad # {} PROVE FALSE
    <3>1. PICK m \in Bad : \A j \in Bad : m <= j
      <4>1. Bad \subseteq Nat
        OBVIOUS
      <4> HIDE DEF Bad
      <4> QED
        BY <2>3, <4>1, LeastOne
    <3>2. m \in 1 .. n /\ Prices(F[m]) # upto(m)
      OBVIOUS
    <3>3. F[m] = IF m = 1 THEN ps[m] ELSE F[m - 1] \o ps[m]
      BY <2>1, <3>2 DEF Flattens
    <3>4. CASE m = 1
      <4>1. 1 .. 1 = {1}
        OBVIOUS
      <4>2. upto(1) = Prices(ps[1])
        BY <4>1
      <4> HIDE DEF upto
      <4> QED
        BY <3>2, <3>3, <3>4, <4>2
    <3>5. CASE m # 1
      <4>1. m - 1 \in 1 .. n /\ ~(m <= m - 1) /\ 1 .. m = (1 .. m - 1) \cup {m}
        BY <3>2, <3>5
      <4>2. Prices(F[m - 1]) = upto(m - 1)
        BY <3>1, <4>1
      <4>3. upto(m) = upto(m - 1) \cup Prices(ps[m])
        BY <4>1
      <4> HIDE DEF upto
      <4>4. F[m - 1] \in Seq(R) /\ ps[m] \in Seq(R)
        BY <1>1, <2>1, <3>2, <4>1
      <4>5. Prices(F[m]) = Prices(F[m - 1]) \cup Prices(ps[m])
        BY <3>3, <3>5, <4>4, PricesConcat
      <4> QED
        BY <3>2, <4>2, <4>3, <4>5
    <3> QED
      BY <3>4, <3>5
  <2>4. Prices(F[n]) = upto(n)
    BY <2>2, <2>3
  <2> HIDE DEF upto
  <2> QED
    BY <1>2, <2>2, <2>4
<1> QED
  BY <1>3, <1>4

CountFold(f, ps, S) ==
  f = [s \in SUBSET S |-> IF s = {} THEN 0 ELSE Len(ps[FirstOf(s)]) + f[s \ {FirstOf(s)}]]

LEMMA RowsInFolds ==
  \A ps : RowCount(ps) = (CHOOSE f : CountFold(f, ps, DOMAIN ps))[DOMAIN ps]
  BY Zenon DEF RowCount, MapThenSumSet, MapThenFoldSet, CountFold, FirstOf

\* And so with their number.
LEMMA RowCountIs ==
  ASSUME NEW R, NEW ps \in Seq(Seq(R))
  PROVE  RowCount(ps) = Len(FlattenSeq(ps))
<1>1. PICK n \in Nat : n = Len(ps) /\ DOMAIN ps = 1 .. n /\ \A k \in 1 .. n : ps[k] \in Seq(R)
  BY LenProperties
<1>2. PICK w : w = [k \in 1 .. n |-> Len(ps[k])]
  OBVIOUS
<1>3. \A k \in 1 .. n : w[k] \in Nat /\ w[k] = Len(ps[k])
  BY <1>1, <1>2, LenProperties
<1>4. IsFiniteSet(1 .. n)
  BY FS_Interval
<1>5. PICK g : AddsUp(g, w, 1 .. n, Nat)
  <2>1. SumsIn(Nat)
    BY DEF SumsIn
  <2> QED
    BY <1>3, <1>4, <2>1, SumExists
<1>6. RowCount(ps) = g[1 .. n]
  <2> DEFINE S == 1 .. n
             f == CHOOSE e : CountFold(e, ps, S)
  <2>1. \A s \in SUBSET S : s # {} => FirstOf(s) \in S /\ w[FirstOf(s)] = Len(ps[FirstOf(s)])
    <3> SUFFICES ASSUME NEW s \in SUBSET S, s # {} PROVE FirstOf(s) \in S
      BY <1>3
    <3>1. FirstOf(s) \in s
      BY DEF FirstOf
    <3> QED
      BY <3>1
  <2> HIDE DEF S
  <2>2. \A e : [s \in SUBSET S |-> IF s = {} THEN 0 ELSE Len(ps[FirstOf(s)]) + e[s \ {FirstOf(s)}]]
             = [s \in SUBSET S |-> IF s = {} THEN 0 ELSE w[FirstOf(s)] + e[s \ {FirstOf(s)}]]
    BY <2>1
  <2>3. \A e : CountFold(e, ps, S) <=> SumFold(e, w, S)
    BY <2>2 DEF CountFold, SumFold
  <2>4. (\E e : SumFold(e, w, S)) /\ \A e : SumFold(e, w, S) => e[S] = g[S]
    BY <1>4, <1>5, SumFoldIs DEF S
  <2>5. CountFold(f, ps, S)
    BY <2>3, <2>4
  <2>6. RowCount(ps) = f[S]
    BY <1>1, RowsInFolds DEF S
  <2> HIDE DEF f
  <2> QED
    BY <2>3, <2>4, <2>5, <2>6 DEF S
<1>7. CASE n = 0
  <2>1. ps = <<>> /\ 1 .. n = {} /\ Len(<<>>) = 0
    BY <1>1, <1>7, EmptySeq
  <2> QED
    BY <1>5, <1>6, <2>1, FlattenSeqEmpty DEF AddsUp
<1>8. CASE n # 0
  <2>1. PICK F \in [1 .. n -> Seq(R)] : Flattens(F, ps, n)
    BY <1>1, FlattensExists
  <2>2. n \in 1 .. n /\ FlattenSeq(ps) = F[n]
    BY <1>1, <1>8, <2>1, FlattenSeqLast
  <2> DEFINE Bad == {m \in 1 .. n : Len(F[m]) # g[1 .. m]}
  <2>3. ASSUME Bad # {} PROVE FALSE
    <3>1. PICK m \in Bad : \A j \in Bad : m <= j
      <4>1. Bad \subseteq Nat
        OBVIOUS
      <4> HIDE DEF Bad
      <4> QED
        BY <2>3, <4>1, LeastOne
    <3>2. m \in 1 .. n /\ Len(F[m]) # g[1 .. m]
      OBVIOUS
    <3>3. F[m] = IF m = 1 THEN ps[m] ELSE F[m - 1] \o ps[m]
      BY <2>1, <3>2 DEF Flattens
    <3>4. (1 .. m) \ {m} = 1 .. m - 1 /\ m \in 1 .. m /\ 1 .. m \in SUBSET (1 .. n)
      BY <3>2
    <3>5. g[1 .. m] = Len(ps[m]) + g[1 .. m - 1]
      <4>1. g[1 .. m] = w[m] + g[(1 .. m) \ {m}]
        BY <1>5, <3>4 DEF AddsUp
      <4> QED
        BY <1>3, <3>2, <3>4, <4>1
    <3>6. ps[m] \in Seq(R) /\ Len(ps[m]) \in Nat
      BY <1>1, <3>2, LenProperties
    <3>7. CASE m = 1
      <4>1. g[1 .. m - 1] = 0
        <5>1. 1 .. m - 1 = {}
          BY <3>7
        <5> QED
          BY <1>5, <5>1 DEF AddsUp
      <4>2. F[m] = ps[m]
        BY <3>3, <3>7
      <4> QED
        BY <3>2, <3>5, <3>6, <4>1, <4>2
    <3>8. CASE m # 1
      <4>1. m - 1 \in 1 .. n /\ ~(m <= m - 1)
        BY <3>2, <3>8
      <4>2. Len(F[m - 1]) = g[1 .. m - 1]
        BY <3>1, <4>1
      <4>3. F[m - 1] \in Seq(R) /\ Len(F[m - 1]) \in Nat
        BY <2>1, <4>1, LenProperties
      <4>4. Len(F[m]) = Len(F[m - 1]) + Len(ps[m])
        BY <3>3, <3>6, <3>8, <4>3, ConcatProperties
      <4> QED
        BY <3>2, <3>5, <3>6, <4>2, <4>3, <4>4
    <3> QED
      BY <3>7, <3>8
  <2>4. Len(F[n]) = g[1 .. n]
    BY <2>2, <2>3
  <2> QED
    BY <1>6, <2>2, <2>4
<1> QED
  BY <1>7, <1>8

\* Parts have rows, and so has a file made of any.
FullParts == Seq(Seq(CompactRows) \ {<<>>})

LEMMA FullFile ==
  ASSUME NEW ps \in FullParts, ps # <<>>
  PROVE  FlattenSeq(ps) # <<>> /\ ps \in Seq(Seq(CompactRows)) /\ FlattenSeq(ps) \in Seq(CompactRows)
<1>1. PICK n \in Nat : n = Len(ps) /\ \A k \in 1 .. n : ps[k] \in Seq(CompactRows) \ {<<>>}
  BY LenProperties, ElementOfSeq DEF FullParts
<1>2. ps \in Seq(Seq(CompactRows))
  <2>1. Seq(CompactRows) \ {<<>>} \subseteq Seq(CompactRows)
    OBVIOUS
  <2> QED
    BY <2>1, SeqMonotonic DEF FullParts
<1>3. n # 0 /\ n \in 1 .. n
  BY <1>1, <1>2, EmptySeq
<1>4. PICK F \in [1 .. n -> Seq(CompactRows)] : Flattens(F, ps, n)
  BY <1>1, <1>2, FlattensExists
<1>5. FlattenSeq(ps) = F[n]
  BY <1>1, <1>2, <1>3, <1>4, FlattenSeqLast
<1>6. F[n] = IF n = 1 THEN ps[n] ELSE F[n - 1] \o ps[n]
  BY <1>3, <1>4 DEF Flattens
<1>7. ps[n] \in Seq(CompactRows) /\ ps[n] # <<>> /\ Len(ps[n]) \in Nat /\ Len(ps[n]) # 0
  BY <1>1, <1>3, LenProperties, EmptySeq
<1>8. F[n] # <<>>
  <2>1. CASE n = 1
    BY <1>6, <1>7, <2>1
  <2>2. CASE n # 1
    <3>1. n - 1 \in 1 .. n
      BY <1>3, <2>2
    <3>2. F[n - 1] \in Seq(CompactRows) /\ Len(F[n - 1]) \in Nat
      BY <1>4, <3>1, LenProperties
    <3>3. Len(F[n]) = Len(F[n - 1]) + Len(ps[n])
      BY <1>6, <1>7, <2>2, <3>2, ConcatProperties
    <3>4. \A i, j \in Nat : j # 0 => i + j # 0
      OBVIOUS
    <3>5. Len(F[n]) # 0
      BY <1>7, <3>2, <3>3, <3>4
    <3>6. Len(<<>>) = 0
      OBVIOUS
    <3> QED
      BY <3>5, <3>6
  <2> QED
    BY <2>1, <2>2
<1> QED
  BY <1>2, <1>5, <1>8, FlattenSeqType

\* What the store finds in the rows of a file, and asks of its manifest.
Found(rows) ==
  OrderingFacts(Column(rows, "exch_ts"), Column(rows, "local_ts_raw"), Column(rows, "source_seq"),
                BaseLatency)

Recorded(file) ==
  /\ Validates(file) /\ file.metadata.base_latency = BaseLatency
  /\ file.details.ordering = Found(file.rows)
  /\ file.metadata.adjustment = Found(file.rows).adjustment

LEMMA EmptyRecorded == Recorded(WriteEmptySymbol)
<1>1. DOMAIN <<>> = {} /\ Len(<<>>) = 0 /\ Range(<<>>) = {}
  BY DEF Range
<1>2. \A name : Column(<<>>, name) = <<>>
  BY <1>1 DEF Column
<1>3. Prices(<<>>) = {} /\ Bounds({}) = None
  BY <1>1 DEF Prices, Bounds
<1>4. Found(<<>>) = NothingToOrder
  BY <1>2 DEF Found, OrderingFacts
<1>5. /\ WriteEmptySymbol.rows = <<>> /\ WriteEmptySymbol.metadata.base_latency = BaseLatency
      /\ WriteEmptySymbol.metadata.adjustment = 0
  BY DEF WriteEmptySymbol
<1>6. /\ WriteEmptySymbol.details.rows = 0 /\ WriteEmptySymbol.details.price = None
      /\ WriteEmptySymbol.details.exch_ts = None
      /\ WriteEmptySymbol.details.ordering = NothingToOrder
  BY DEF WriteEmptySymbol, NothingToOrder
<1>7. NothingToOrder.adjustment = 0
  BY DEF NothingToOrder
<1>8. PICK file : file = WriteEmptySymbol
  OBVIOUS
<1> HIDE DEF WriteEmptySymbol, NothingToOrder
<1>9. Validates(file)
  BY <1>1, <1>2, <1>3, <1>4, <1>5, <1>6, <1>7, <1>8 DEF Validates, Found
<1> QED
  BY <1>4, <1>5, <1>6, <1>7, <1>8, <1>9 DEF Recorded

LEMMA ConsolidatedRecorded ==
  ASSUME NEW ps \in FullParts, ps # <<>>
  PROVE  Recorded(ConsolidateSymbol(ps))
<1>1. PICK rows : rows = FlattenSeq(ps)
  OBVIOUS
<1>2. ps \in Seq(Seq(CompactRows)) /\ rows \in Seq(CompactRows) /\ rows # <<>>
  BY <1>1, FullFile
<1>3. \A name : Joined(ps, name) = Column(rows, name)
  BY <1>1, <1>2, JoinedIs
<1>4. RowCount(ps) = Len(rows) /\ PartPrices(ps) = Prices(rows)
  BY <1>1, <1>2, RowCountIs, PartPricesIs
<1>5. PICK exchange : exchange = Column(rows, "exch_ts")
  OBVIOUS
<1>6. Bounds(Range(exchange)) = <<Min(Range(exchange)), Max(Range(exchange))>>
  <2>1. Len(rows) # 0 /\ Len(rows) \in Nat /\ DOMAIN exchange = 1 .. Len(rows)
    BY <1>2, <1>5, EmptySeq, LenProperties DEF Column
  <2>2. 1 \in DOMAIN exchange
    BY <2>1
  <2> QED
    BY <2>2 DEF Range, Bounds
<1>7. PICK ordering : ordering = Found(rows)
  OBVIOUS
<1>8. PICK file : file = ConsolidateSymbol(ps)
  OBVIOUS
<1>9. file = [status |-> "valid", rows |-> rows,
              metadata |-> [adjustment |-> ordering.adjustment, base_latency |-> BaseLatency],
              details |-> [rows |-> Len(rows), price |-> Bounds(Prices(rows)), ordering |-> ordering,
                           exch_ts |-> <<Min(Range(exchange)), Max(Range(exchange))>>]]
  BY <1>1, <1>3, <1>4, <1>5, <1>7, <1>8, Zenon DEF ConsolidateSymbol, Found
<1>10. /\ file.rows = rows /\ file.metadata.base_latency = BaseLatency
       /\ file.metadata.adjustment = ordering.adjustment
       /\ file.details.rows = Len(rows) /\ file.details.price = Bounds(Prices(rows))
       /\ file.details.ordering = ordering
       /\ file.details.exch_ts = Bounds(Range(exchange))
  BY <1>6, <1>9
<1>11. Validates(file)
  BY <1>5, <1>7, <1>10 DEF Validates, Found
<1> QED
  BY <1>7, <1>8, <1>10, <1>11 DEF Recorded

Sealing ==
  /\ \A s \in symbols : parts[s] \in FullParts
  /\ \A s \in Written : Recorded(files[s])

LEMMA SealingInit == Init => Sealing
<1> SUFFICES ASSUME Init PROVE Sealing
  OBVIOUS
<1>1. Written = {} /\ \A s \in symbols : parts[s] = <<>>
  BY DEF Init, Written
<1>2. <<>> \in FullParts
  BY DEF FullParts
<1> QED
  BY <1>1, <1>2 DEF Sealing

LEMMA SealingScan == TypeOK /\ Placing /\ Sealing /\ ScanBatch => Sealing'
<1> SUFFICES ASSUME TypeOK, Placing, Sealing, ScanBatch PROVE Sealing'
  OBVIOUS
<1>1. phase = "scan" /\ UNCHANGED <<source, path, files, phase>>
  BY DEF ScanBatch
<1>2. PICK n \in 1 .. Min({BatchRows, Asked.most - Len(scanned)}) :
        \E batch \in [1 .. n -> Asked.rows] :
          parts' = [s \in symbols |-> parts[s] \o NewParts(s, batch)]
  BY DEF ScanBatch
<1>3. PICK batch \in [1 .. n -> Asked.rows] :
        parts' = [s \in symbols |-> parts[s] \o NewParts(s, batch)]
  BY <1>2
<1>4. n \in Nat
  <2>1. BatchRows \in Int /\ Asked.most - Len(scanned) \in Int
    BY SourcesAssumption, BatchAssumption, LenProperties DEF TypeOK, Asked, CompactSource
  <2>2. Min({BatchRows, Asked.most - Len(scanned)}) \in Int
    BY <2>1, LeastOfTwo
  <2> QED
    BY <2>2
<1>5. batch \in Seq(Asked.rows) /\ scanned \in Seq(Asked.rows) /\ offset = Len(scanned)
  BY <1>4, TupleIsSeq DEF TypeOK
<1>6. \A name : PartOf(CompactBatch(batch, name)) \in FullParts
  <2>1. \A name : CompactBatch(batch, name) \in Seq(CompactRows)
    BY <1>5, BatchType
  <2>2. \A x : x \in Seq(CompactRows) /\ x # <<>> => <<x>> \in FullParts
    BY DEF FullParts
  <2>3. <<>> \in FullParts
    BY DEF FullParts
  <2> QED
    BY <2>1, <2>2, <2>3 DEF PartOf
<1>7. \A p, q : p \in FullParts /\ q \in FullParts => p \o q \in FullParts
  BY ConcatProperties DEF FullParts
<1>8. ASSUME NEW s \in symbols PROVE parts'[s] \in FullParts
  <2>1. \A name : CompactBatch(batch, name) \in Seq(CompactRows)
    BY <1>5, BatchType
  <2>2. NewParts(s, batch) \in FullParts
    <3>1. NewParts(s, batch) =
            IF OneSpelling(s) THEN PartOf(CompactBatch(batch, s))
            ELSE PartOf(CompactBatch(batch, s)) \o PartOf(CompactBatch(batch, Stripped(s)))
      BY <2>1, NewPartsIs
    <3> QED
      BY <1>6, <1>7, <3>1
  <2>3. parts[s] \in FullParts /\ parts'[s] = parts[s] \o NewParts(s, batch)
    BY <1>3 DEF Sealing
  <2> QED
    BY <1>7, <2>2, <2>3
<1>9. Written = {}
  BY <1>1 DEF Placing
<1>10. Written' = {} /\ symbols' = symbols /\ FullParts' = FullParts
  BY <1>1, <1>9, SameSource DEF Written, FullParts
<1> QED
  BY <1>8, <1>10 DEF Sealing

LEMMA SealingNext == TypeOK /\ Placing /\ Sealing /\ [Next]_vars => Sealing'
<1> SUFFICES ASSUME TypeOK, Placing, Sealing, [Next]_vars PROVE Sealing'
  OBVIOUS
<1>1. ASSUME UNCHANGED source PROVE symbols' = symbols /\ FullParts' = FullParts
  BY <1>1, SameSource DEF FullParts
<1>2. CASE UNCHANGED <<source, parts, files>>
  <2>1. Written' = Written
    BY <1>1, <1>2 DEF Written
  <2> QED
    BY <1>1, <1>2, <2>1 DEF Sealing, Recorded, Found
<1>3. CASE ScanBatch
  BY <1>3, SealingScan
<1>4. ASSUME NEW s \in symbols, Consolidate(s) PROVE Sealing'
  <2>1. /\ UNCHANGED <<source, parts>> /\ DOMAIN files = symbols
        /\ files' = [files EXCEPT ![s] = FileOf(parts[s])]
    BY <1>4 DEF Consolidate, TypeOK
  <2>2. Recorded(FileOf(parts[s]))
    <3>1. parts[s] \in FullParts
      BY DEF Sealing
    <3> QED
      BY <3>1, EmptyRecorded, ConsolidatedRecorded DEF FileOf
  <2>3. ASSUME NEW t \in Written' PROVE Recorded(files'[t])
    <3>1. CASE t = s
      BY <2>1, <2>2, <3>1
    <3>2. CASE t # s
      <4>1. files'[t] = files[t] /\ t \in Written
        BY <1>1, <2>1, <2>3, <3>2 DEF Written
      <4> QED
        BY <4>1 DEF Sealing
    <3> QED
      BY <3>1, <3>2
  <2>4. \A file : Recorded(file)' <=> Recorded(file')
    BY DEF Recorded, Found
  <2>5. \A t \in symbols : parts'[t] \in FullParts
    BY <2>1 DEF Sealing
  <2> QED
    BY <1>1, <2>1, <2>3, <2>5 DEF Sealing, Recorded, Found
<1>5. CASE Finish
  <2>1. UNCHANGED <<source, files>> /\ parts' = [s \in symbols |-> <<>>]
    BY <1>5 DEF Finish
  <2>2. Written' = Written /\ <<>> \in FullParts
    BY <1>1, <2>1 DEF Written, FullParts
  <2> QED
    BY <1>1, <2>1, <2>2 DEF Sealing, Recorded, Found
<1> QED
  BY <1>2, <1>3, <1>4, <1>5 DEF Next, ResolveAliases, NextPath, EndOfScan, vars

LEMMA AlwaysSealed == Spec => [](TypeOK /\ Placing /\ Sealing)
  BY TypesInit, TypesNext, PlacingInit, PlacingNext, SealingInit, SealingNext, PTL DEF Spec

\* What the builder records of a symbol from its parts, or writes as literals when
\* it has none, is what the store computes from the rows of the file: no build
\* writes a symbol that the validation of the date refuses.
THEOREM WrittenAlwaysValidates == Spec => []WrittenValidates
<1>1. Sealing => WrittenValidates
  BY DEF Sealing, Recorded, WrittenValidates
<1> QED
  BY <1>1, AlwaysSealed, PTL
-----------------------------------------------------------------------------
(* The correction.                                                         *)

LEMMA MinIs ==
  ASSUME NEW S, S \subseteq Int, NEW x \in S, \A y \in S : x <= y
  PROVE  Min(S) = x
<1>1. Min(S) \in S /\ \A y \in S : Min(S) <= y
  BY DEF Min
<1>2. Min(S) \in Int /\ x \in Int /\ Min(S) <= x /\ x <= Min(S)
  BY <1>1
<1> QED
  BY <1>2

LEMMA MaxIs ==
  ASSUME NEW S, S \subseteq Int, NEW x \in S, \A y \in S : x >= y
  PROVE  Max(S) = x
<1>1. Max(S) \in S /\ \A y \in S : Max(S) >= y
  BY DEF Max
<1>2. Max(S) \in Int /\ x \in Int /\ Max(S) >= x /\ x >= Max(S)
  BY <1>1
<1> QED
  BY <1>2

LEMMA RowTimes ==
  ASSUME TypeOK, NEW k \in DOMAIN scanned
  PROVE  scanned[k].exchtime \in Int /\ scanned[k].localtime \in Int
<1>1. \A row \in Asked.rows : row.exchtime \in Int /\ row.localtime \in Int
  BY SourcesAssumption DEF TypeOK, Asked, CompactSource
<1>2. scanned[k] \in Asked.rows
  BY LenProperties DEF TypeOK
<1> QED
  BY <1>1, <1>2

LEMMA WrittenType ==
  ASSUME TypeOK, Placing, NEW s \in Written
  PROVE  files[s].rows \in Seq(CompactRows)
<1>1. PICK p : Lists(p, RowsIn(scanned, s)) /\ files[s].rows = Compacted(scanned, p)
  BY DEF Placing, Gathered
<1>2. p \in Seq(DOMAIN scanned)
  <2>1. RowsIn(scanned, s) \subseteq DOMAIN scanned
    BY DEF RowsIn
  <2> QED
    BY <1>1, <2>1, SeqMonotonic DEF Lists
<1> QED
  BY <1>1, <1>2, CompactedType DEF TypeOK

\* The latencies of rows, and the correction they call for.
RowLatencies(rows) == {FeedLatency(rows[i]) : i \in DOMAIN rows}
Adjustment(rows) ==
  IF rows # <<>> /\ Min(RowLatencies(rows)) < 0 THEN BaseLatency - Min(RowLatencies(rows)) ELSE 0

\* The latencies of what is written, row by row.
LEMMA WrittenLatencies ==
  ASSUME TypeOK, Placing, NEW s \in Written
  PROVE  /\ RowLatencies(files[s].rows) \subseteq Int /\ IsFiniteSet(RowLatencies(files[s].rows))
         /\ \A i \in DOMAIN files[s].rows : FeedLatency(files[s].rows[i]) \in Int
         /\ (files[s].rows = <<>> <=> RowLatencies(files[s].rows) = {})
         /\ (\E l \in RowLatencies(files[s].rows) : l < 0)
              <=> \E k \in RowsOf(s) : /\ scanned[k].localtime # 0
                                      /\ scanned[k].localtime < scanned[k].exchtime
<1> DEFINE rows == files[s].rows
<1>1. PICK q : /\ Lists(q, RowsOf(s)) /\ Len(rows) = Len(q) /\ q \in Seq(DOMAIN scanned)
               /\ DOMAIN rows = 1 .. Len(q)
               /\ \A i \in 1 .. Len(q) :
                    /\ q[i] \in RowsOf(s) /\ q[i] \in Nat \ {0}
                    /\ rows[i] = CompactRow(q[i] - 1, scanned[q[i]])
  BY WrittenRows
<1>2. PICK n \in Nat : n = Len(q)
  BY <1>1, LenProperties
<1> HIDE DEF rows
<1> DEFINE lat(k) == LocalTime(scanned[k]) - scanned[k].exchtime
<1>3. \A i \in 1 .. n : FeedLatency(rows[i]) = lat(q[i]) /\ q[i] \in RowsOf(s)
  BY <1>1, <1>2, RowFields DEF FeedLatency
<1>4. \A k \in RowsOf(s) : /\ lat(k) \in Int
                           /\ lat(k) < 0 <=> /\ scanned[k].localtime # 0
                                             /\ scanned[k].localtime < scanned[k].exchtime
  <2> SUFFICES ASSUME NEW k \in RowsOf(s)
               PROVE  /\ lat(k) \in Int
                      /\ lat(k) < 0 <=> /\ scanned[k].localtime # 0
                                        /\ scanned[k].localtime < scanned[k].exchtime
    OBVIOUS
  <2>1. scanned[k].exchtime \in Int /\ scanned[k].localtime \in Int
    BY RowTimes DEF RowsOf
  <2>2. CASE scanned[k].localtime = 0
    <3>1. lat(k) = 0
      BY <2>1, <2>2 DEF LocalTime
    <3> QED
      BY <2>2, <3>1
  <2>3. CASE scanned[k].localtime # 0
    <3>1. lat(k) = scanned[k].localtime - scanned[k].exchtime
      BY <2>3 DEF LocalTime
    <3> HIDE DEF lat
    <3> QED
      BY <2>1, <2>3, <3>1
  <2> QED
    BY <2>2, <2>3
<1> HIDE DEF lat
<1>5. \A i \in 1 .. n : FeedLatency(rows[i]) \in Int
  BY <1>3, <1>4
<1>6. RowLatencies(rows) = {FeedLatency(rows[i]) : i \in 1 .. n}
  BY <1>1, <1>2 DEF RowLatencies
<1>7. IsFiniteSet(RowLatencies(rows))
  <2> DEFINE f == [i \in 1 .. n |-> FeedLatency(rows[i])]
  <2>1. f \in Surjection(1 .. n, RowLatencies(rows))
    BY <1>6 DEF Surjection
  <2>2. IsFiniteSet(1 .. n)
    BY FS_Interval
  <2> HIDE DEF f
  <2> QED
    BY <2>1, <2>2, FS_Surjection
<1>8. rows = <<>> <=> RowLatencies(rows) = {}
  <2>1. Len(rows) = n /\ rows \in Seq(CompactRows)
    BY <1>1, <1>2, WrittenType DEF rows
  <2>2. rows = <<>> <=> n = 0
    BY <2>1, EmptySeq
  <2>3. n # 0 => 1 \in 1 .. n
    OBVIOUS
  <2>4. n = 0 => 1 .. n = {}
    OBVIOUS
  <2> QED
    BY <1>6, <2>2, <2>3, <2>4
<1>9. (\E l \in RowLatencies(rows) : l < 0)
        <=> \E k \in RowsOf(s) : /\ scanned[k].localtime # 0
                                /\ scanned[k].localtime < scanned[k].exchtime
  <2>1. \A k \in RowsOf(s) : \E i \in 1 .. n : q[i] = k
    BY <1>1, <1>2 DEF Lists
  <2>2. (\E l \in RowLatencies(rows) : l < 0) <=> \E k \in RowsOf(s) : lat(k) < 0
    BY <1>3, <1>6, <2>1
  <2> QED
    BY <1>4, <2>2
<1> QED
  BY <1>1, <1>2, <1>5, <1>6, <1>7, <1>8, <1>9 DEF rows

LEMMA FoundFields ==
  ASSUME NEW rows \in Seq(CompactRows)
  PROVE  /\ Found(rows).adjustment = Adjustment(rows)
         /\ Found(rows).exchange_order = Sidecar(Column(rows, "exch_ts"), Column(rows, "source_seq"))
         /\ Found(rows).local_order =
              Sidecar(Corrected(Column(rows, "local_ts_raw"), Adjustment(rows)),
                      Column(rows, "source_seq"))
<1>1. PICK n \in Nat : n = Len(rows) /\ DOMAIN rows = 1 .. n
  BY LenProperties
<1>2. PICK exchange, local, seqs :
        /\ exchange = Column(rows, "exch_ts") /\ local = Column(rows, "local_ts_raw")
        /\ seqs = Column(rows, "source_seq")
  OBVIOUS
<1>3. Latencies(exchange, local) = RowLatencies(rows)
  <2>1. /\ DOMAIN exchange = DOMAIN rows
        /\ \A i \in DOMAIN rows : local[i] - exchange[i] = FeedLatency(rows[i])
    BY <1>2 DEF Column, FeedLatency
  <2> QED
    BY <2>1 DEF Latencies, RowLatencies
<1>4. CASE rows = <<>>
  <2>1. exchange = <<>> /\ local = <<>> /\ seqs = <<>>
    BY <1>2, <1>4 DEF Column
  <2>2. Found(rows) = NothingToOrder
    BY <1>2, <2>1 DEF Found, OrderingFacts
  <2>3. Adjustment(rows) = 0
    BY <1>4 DEF Adjustment
  <2>4. Corrected(<<>>, 0) = <<>>
    BY DEF Corrected
  <2>5. Sidecar(<<>>, <<>>) = NoSidecar
    BY DEF Sidecar, Ordered
  <2> QED
    BY <1>2, <2>1, <2>2, <2>3, <2>4, <2>5 DEF NothingToOrder
<1>5. CASE rows # <<>>
  <2>1. exchange # <<>>
    <3>1. n # 0
      BY <1>1, <1>5, EmptySeq
    <3>2. 1 \in DOMAIN exchange /\ DOMAIN <<>> = {}
      BY <1>1, <1>2, <3>1 DEF Column
    <3> QED
      BY <3>2
  <2>2. Adjustment(rows) =
          IF Min(Latencies(exchange, local)) < 0 THEN BaseLatency - Min(Latencies(exchange, local)) ELSE 0
    BY <1>3, <1>5 DEF Adjustment
  <2>3. PICK o : o = OrderingFacts(exchange, local, seqs, BaseLatency)
    OBVIOUS
  <2>4. /\ o.adjustment = Adjustment(rows)
        /\ o.exchange_order = Sidecar(exchange, seqs)
        /\ o.local_order = Sidecar(Corrected(local, Adjustment(rows)), seqs)
    BY <2>1, <2>2, <2>3 DEF OrderingFacts
  <2> QED
    BY <1>2, <2>3, <2>4 DEF Found
<1> QED
  BY <1>4, <1>5

LEMMA CorrectionHolds == TypeOK /\ Placing /\ Sealing => CorrectionIsLeast
<1> SUFFICES ASSUME TypeOK, Placing, Sealing, NEW s \in Written
             PROVE  LET f == files[s]
                        latencies == {FeedLatency(f.rows[i]) + f.metadata.adjustment : i \in DOMAIN f.rows}
                        early == {k \in RowsOf(s) : /\ scanned[k].localtime # 0
                                                    /\ scanned[k].localtime < scanned[k].exchtime}
                    IN  IF early = {} THEN f.metadata.adjustment = 0 ELSE Min(latencies) = BaseLatency
  BY DEF CorrectionIsLeast
<1> DEFINE rows == files[s].rows
           adjust == files[s].metadata.adjustment
           lats == RowLatencies(rows)
           moved == {FeedLatency(rows[i]) + adjust : i \in DOMAIN rows}
           early == {k \in RowsOf(s) : /\ scanned[k].localtime # 0
                                       /\ scanned[k].localtime < scanned[k].exchtime}
<1>1. adjust = Adjustment(rows)
  <2>1. Recorded(files[s])
    BY DEF Sealing
  <2> QED
    BY <2>1, WrittenType, FoundFields DEF Recorded
<1>2. /\ lats \subseteq Int /\ IsFiniteSet(lats) /\ (rows = <<>> <=> lats = {})
      /\ \A i \in DOMAIN rows : FeedLatency(rows[i]) \in Int
      /\ (\E l \in lats : l < 0) <=> early # {}
  BY WrittenLatencies
<1>3. lats = {FeedLatency(rows[i]) : i \in DOMAIN rows}
  BY DEF RowLatencies
<1>4. Adjustment(rows) = IF rows # <<>> /\ Min(lats) < 0 THEN BaseLatency - Min(lats) ELSE 0
  BY DEF Adjustment
<1> HIDE DEF rows, adjust, lats, early
<1>5. CASE early = {}
  <2>1. ASSUME lats # {} PROVE ~(Min(lats) < 0)
    <3>1. PICK x \in lats : \A y \in lats : x <= y
      BY <1>2, <2>1, Extremes
    <3> QED
      BY <1>2, <1>5, <3>1, MinIs
  <2>2. adjust = 0
    BY <1>1, <1>2, <1>4, <2>1
  <2> QED
    BY <1>5, <2>2 DEF early, adjust
<1>6. CASE early # {}
  <2>1. PICK l \in lats : l < 0
    BY <1>2, <1>6
  <2>2. PICK x \in lats : \A y \in lats : x <= y
    BY <1>2, <2>1, Extremes
  <2>3. x \in Int /\ l \in Int /\ Min(lats) = x /\ x < 0 /\ BaseLatency \in Int
    <3>1. x \in Int /\ l \in Int /\ x <= l
      BY <1>2, <2>1, <2>2
    <3>2. Min(lats) = x
      BY <1>2, <2>2, MinIs
    <3>3. x < 0
      BY <2>1, <3>1
    <3> QED
      BY <3>1, <3>2, <3>3, LatencyAssumption
  <2>4. adjust = BaseLatency - x
    BY <1>1, <1>2, <1>4, <2>1, <2>3
  <2>5. PICK i \in DOMAIN rows : x = FeedLatency(rows[i])
    BY <1>3, <2>2
  <2>6. BaseLatency \in moved /\ moved \subseteq Int /\ \A y \in moved : BaseLatency <= y
    <3>1. x + adjust = BaseLatency /\ adjust \in Int
      BY <2>3, <2>4
    <3>2. \A j \in DOMAIN rows : FeedLatency(rows[j]) \in Int /\ x <= FeedLatency(rows[j])
      BY <1>2, <1>3, <2>2
    <3>3. \A j \in DOMAIN rows : /\ FeedLatency(rows[j]) + adjust \in Int
                                 /\ BaseLatency <= FeedLatency(rows[j]) + adjust
      BY <2>3, <3>1, <3>2
    <3> QED
      BY <2>5, <3>1, <3>3
  <2> HIDE DEF moved
  <2>7. Min(moved) = BaseLatency
    BY <2>6, MinIs
  <2> QED
    BY <1>6, <2>7 DEF moved, early, rows, adjust
<1> QED
  BY <1>5, <1>6

\* A file is corrected exactly when some row of the symbol was stamped early, and
\* then by the amount that leaves its fastest row the base latency.
THEOREM CorrectionAlwaysLeast == Spec => []CorrectionIsLeast
  BY AlwaysSealed, CorrectionHolds, PTL
-----------------------------------------------------------------------------
(* The recorded order.                                                     *)

LEMMA OrderedAll ==
  ASSUME NEW n \in Nat, NEW ts \in [1 .. n -> Int], Ordered(ts)
  PROVE  \A i, j \in 1 .. n : i < j => ts[i] <= ts[j]
<1> SUFFICES ASSUME NEW i \in 1 .. n,
                    NEW a \in {j \in 1 .. n : i < j /\ ~(ts[i] <= ts[j])}
             PROVE  FALSE
  OBVIOUS
<1> DEFINE Bad == {j \in 1 .. n : i < j /\ ~(ts[i] <= ts[j])}
<1>1. PICK j \in Bad : \A k \in Bad : j <= k
  <2>1. Bad \subseteq Nat /\ Bad # {}
    OBVIOUS
  <2> HIDE DEF Bad
  <2> QED
    BY <2>1, LeastOne
<1>2. j \in 1 .. n /\ i < j /\ ~(ts[i] <= ts[j])
  OBVIOUS
<1>3. Len(ts) = n
  BY TupleIsSeq
<1>4. j - 1 \in 1 .. n - 1 /\ (j - 1) + 1 = j /\ j - 1 \in 1 .. n /\ ~(j <= j - 1)
  BY <1>2
<1>5. \A k \in 1 .. n - 1 : ts[k] <= ts[k + 1]
  BY <1>3 DEF Ordered
<1>6. ts[j - 1] <= ts[j]
  BY <1>4, <1>5
<1>7. ts[i] <= ts[j - 1]
  <2>1. CASE i = j - 1
    BY <1>4, <2>1
  <2>2. CASE i # j - 1
    <3>1. i < j - 1 /\ j - 1 \notin Bad
      BY <1>1, <1>2, <1>4, <2>2
    <3> QED
      BY <1>4, <3>1
  <2> QED
    BY <2>1, <2>2
<1>8. ts[i] \in Int /\ ts[j] \in Int /\ ts[j - 1] \in Int
  BY <1>2, <1>4
<1> QED
  BY <1>2, <1>6, <1>7, <1>8

\* Rows of any keys have a stable order.
LEMMA StableOrderExists ==
  ASSUME NEW n \in Nat, NEW keys \in [1 .. n -> Int \X Int]
  PROVE  StableOrders(keys) # {}
<1> DEFINE D == 1 .. n
           R == {e \in D \X D : \/ PairBefore(keys[e[1]], keys[e[2]])
                               \/ (keys[e[1]] = keys[e[2]] /\ e[1] < e[2])}
           a == [i \in D |-> keys[i][1]]
           b == [i \in D |-> keys[i][2]]
<1>1. IsFiniteSet(D) /\ Cardinality(D) = n
  BY FS_Interval
<1>2. /\ a \in [D -> Int] /\ b \in [D -> Int] /\ DOMAIN keys = D
      /\ \A i \in D : keys[i] = <<a[i], b[i]>> /\ i \in Int
  OBVIOUS
<1> HIDE DEF R, D, a, b
<1>3. \A i, j \in D : PairBefore(keys[i], keys[j]) <=> a[i] < a[j] \/ (a[i] = a[j] /\ b[i] < b[j])
  BY <1>2 DEF PairBefore
<1>8. \A i, j \in D : <<i, j>> \in R <=> (PairBefore(keys[i], keys[j]) \/ (keys[i] = keys[j] /\ i < j))
  <2> SUFFICES ASSUME NEW i \in D, NEW j \in D
               PROVE  <<i, j>> \in R <=> (PairBefore(keys[i], keys[j]) \/ (keys[i] = keys[j] /\ i < j))
    OBVIOUS
  <2> DEFINE e == <<i, j>>
  <2>1. e \in D \X D /\ e[1] = i /\ e[2] = j
    OBVIOUS
  <2> HIDE DEF e
  <2>2. e \in R <=> PairBefore(keys[e[1]], keys[e[2]]) \/ (keys[e[1]] = keys[e[2]] /\ e[1] < e[2])
    BY <2>1 DEF R
  <2> QED
    BY <2>1, <2>2 DEF e
<1>9. \A i, j \in D : <<i, j>> \in R <=>
          (a[i] < a[j] \/ (a[i] = a[j] /\ b[i] < b[j]) \/ (a[i] = a[j] /\ b[i] = b[j] /\ i < j))
  <2> SUFFICES ASSUME NEW i \in D, NEW j \in D
               PROVE  <<i, j>> \in R <=>
                        (a[i] < a[j] \/ (a[i] = a[j] /\ b[i] < b[j]) \/ (a[i] = a[j] /\ b[i] = b[j] /\ i < j))
    OBVIOUS
  <2>1. keys[i] = <<a[i], b[i]>> /\ keys[j] = <<a[j], b[j]>>
    BY <1>2
  <2>2. keys[i] = keys[j] <=> a[i] = a[j] /\ b[i] = b[j]
    BY <2>1
  <2>3. PairBefore(keys[i], keys[j]) <=> a[i] < a[j] \/ (a[i] = a[j] /\ b[i] < b[j])
    BY <1>3
  <2>4. <<i, j>> \in R <=> (PairBefore(keys[i], keys[j]) \/ (keys[i] = keys[j] /\ i < j))
    BY <1>8
  <2> QED
    BY <2>2, <2>3, <2>4
<1>4. Orders(R, D)
  <2>1. \A x \in D : <<x, x>> \notin R
    <3> SUFFICES ASSUME NEW x \in D PROVE <<x, x>> \notin R
      OBVIOUS
    <3>1. a[x] \in Int /\ b[x] \in Int /\ x \in Int
      BY <1>2
    <3> QED
      BY <1>9, <3>1
  <2>2. ASSUME NEW x \in D, NEW y \in D, NEW z \in D, <<x, y>> \in R, <<y, z>> \in R
        PROVE  <<x, z>> \in R
    <3>1. /\ a[x] \in Int /\ a[y] \in Int /\ a[z] \in Int /\ x \in Int /\ y \in Int /\ z \in Int
          /\ b[x] \in Int /\ b[y] \in Int /\ b[z] \in Int
      BY <1>2
    <3>2. a[x] < a[y] \/ (a[x] = a[y] /\ b[x] < b[y]) \/ (a[x] = a[y] /\ b[x] = b[y] /\ x < y)
      BY <1>9, <2>2
    <3>3. a[y] < a[z] \/ (a[y] = a[z] /\ b[y] < b[z]) \/ (a[y] = a[z] /\ b[y] = b[z] /\ y < z)
      BY <1>9, <2>2
    <3>4. a[x] < a[z] \/ (a[x] = a[z] /\ b[x] < b[z]) \/ (a[x] = a[z] /\ b[x] = b[z] /\ x < z)
      BY <3>1, <3>2, <3>3
    <3> QED
      BY <1>9, <3>4
  <2> QED
    BY <2>1, <2>2 DEF Orders
<1>5. Compares(R, D)
  <2> SUFFICES ASSUME NEW x \in D, NEW y \in D, x # y PROVE <<x, y>> \in R \/ <<y, x>> \in R
    BY DEF Compares
  <2>1. /\ a[x] \in Int /\ a[y] \in Int /\ x \in Int /\ y \in Int /\ b[x] \in Int /\ b[y] \in Int
    BY <1>2
  <2> QED
    BY <1>9, <2>1
<1>6. PICK p : p \in Enumerations(D, R)
  BY <1>1, <1>4, <1>5, EnumerationExists
<1>7. /\ p \in [1 .. n -> D]
      /\ \A i, j \in 1 .. n : i < j => <<p[i], p[j]>> \in R
      /\ \A i, j \in 1 .. n : p[i] = p[j] => i = j
      /\ \A x \in D : \E i \in 1 .. n : p[i] = x
  <2>1. IsFiniteSet(D) /\ Cardinality(D) = n
    BY <1>1
  <2>2. p \in [1 .. n -> D]
    BY <1>4, <1>6, <2>1, EnumerationFacts
  <2>3. \A i, j \in 1 .. n : i < j => <<p[i], p[j]>> \in R
    BY <1>4, <1>6, <2>1, EnumerationFacts
  <2>4. \A i, j \in 1 .. n : p[i] = p[j] => i = j
    <3> SUFFICES ASSUME NEW i \in 1 .. n, NEW j \in 1 .. n, p[i] = p[j], i # j PROVE FALSE
      OBVIOUS
    <3>1. p[i] \in D /\ <<p[i], p[i]>> \notin R
      BY <1>4, <2>2 DEF Orders
    <3>2. i < j \/ j < i
      OBVIOUS
    <3> QED
      BY <2>3, <3>1, <3>2
  <2>5. \A x \in D : \E i \in 1 .. n : p[i] = x
    BY <1>4, <1>6, <2>1, EnumerationFacts
  <2> QED
    BY <2>2, <2>3, <2>4, <2>5
<1>11. D = 1 .. n
  BY DEF D
<1>10. p \in Bijection(D, D)
  BY <1>7, <1>11 DEF Bijection, Injection, IsInjective, Surjection
<1>12. \A i, j \in D : i < j => PairBefore(keys[p[i]], keys[p[j]]) \/ (keys[p[i]] = keys[p[j]] /\ p[i] < p[j])
  BY <1>7, <1>8, <1>11
<1>13. p \in StableOrders(keys)
  BY <1>2, <1>10, <1>12 DEF StableOrders
<1> QED
  BY <1>13

\* What a file records of its order replays it.
LEMMA SidecarReplays ==
  ASSUME NEW n \in Nat, NEW rows, DOMAIN rows = 1 .. n, NEW ts \in [1 .. n -> Int],
         NEW seqs \in [1 .. n -> Int]
  PROVE  LET p == Replayed(Sidecar(ts, seqs), rows) IN
         /\ Ordered([i \in DOMAIN p |-> ts[p[i]]])
         /\ (\A i, j \in 1 .. n : i < j => seqs[i] < seqs[j])
              => p \in StableOrders(Keys(ts, seqs))
<1> DEFINE keys == Keys(ts, seqs)
           p == Replayed(Sidecar(ts, seqs), rows)
<1>1. /\ keys \in [1 .. n -> Int \X Int] /\ DOMAIN keys = 1 .. n
      /\ \A i \in 1 .. n : keys[i] = <<ts[i], seqs[i]>>
  BY DEF Keys
<1>2. Len(ts) = n
  BY TupleIsSeq
<1> HIDE DEF keys
<1>3. CASE Ordered(ts)
  <2>1. p = [i \in 1 .. n |-> i]
    BY <1>3 DEF Sidecar, Replayed
  <2> HIDE DEF p
  <2>2. [i \in DOMAIN p |-> ts[p[i]]] = ts
    BY <2>1
  <2>3. ASSUME \A i, j \in 1 .. n : i < j => seqs[i] < seqs[j]
        PROVE  p \in StableOrders(keys)
    <3>1. p \in Bijection(1 .. n, 1 .. n)
      BY <2>1 DEF Bijection, Injection, IsInjective, Surjection
    <3>2. ASSUME NEW i \in 1 .. n, NEW j \in 1 .. n, i < j
          PROVE  PairBefore(keys[p[i]], keys[p[j]])
      <4>1. ts[i] <= ts[j] /\ ts[i] \in Int /\ ts[j] \in Int /\ seqs[i] < seqs[j]
        BY <1>3, <2>3, <3>2, OrderedAll
      <4>2. keys[p[i]] = <<ts[i], seqs[i]>> /\ keys[p[j]] = <<ts[j], seqs[j]>>
        BY <1>1, <2>1
      <4> QED
        BY <4>1, <4>2 DEF PairBefore
    <3> QED
      BY <1>1, <3>1, <3>2 DEF StableOrders
  <2> QED
    BY <1>3, <2>2, <2>3 DEF p, keys
<1>4. CASE ~Ordered(ts)
  <2> DEFINE o == CHOOSE o \in StableOrders(keys) : TRUE
  <2>1. o \in StableOrders(keys)
    BY <1>1, StableOrderExists
  <2>2. Sidecar(ts, seqs) = o
    BY <1>4 DEF Sidecar, keys
  <2> HIDE DEF o
  <2>3. /\ o \in [1 .. n -> 1 .. n]
        /\ \A i, j \in 1 .. n : i < j =>
             PairBefore(keys[o[i]], keys[o[j]]) \/ (keys[o[i]] = keys[o[j]] /\ o[i] < o[j])
    <3>1. /\ o \in Bijection(1 .. n, 1 .. n)
          /\ \A i, j \in 1 .. n : i < j =>
               PairBefore(keys[o[i]], keys[o[j]]) \/ (keys[o[i]] = keys[o[j]] /\ o[i] < o[j])
      <4>1. /\ o \in Bijection(DOMAIN keys, DOMAIN keys)
            /\ \A i, j \in DOMAIN keys : i < j =>
                 PairBefore(keys[o[i]], keys[o[j]]) \/ (keys[o[i]] = keys[o[j]] /\ o[i] < o[j])
        BY <2>1 DEF StableOrders
      <4>2. DOMAIN keys = 1 .. n
        BY <1>1
      <4> QED
        BY <4>1, <4>2
    <3>2. o \in [1 .. n -> 1 .. n]
      BY <3>1, Zenon DEF Bijection, Injection
    <3> QED
      BY <3>1, <3>2
  <2>4. n # 0
    <3>1. n = 0 => Ordered(ts)
      BY <1>2 DEF Ordered
    <3> QED
      BY <1>4, <3>1
  <2>5. o # NoSidecar
    <3>1. 1 \in DOMAIN o /\ DOMAIN <<>> = {}
      BY <2>3, <2>4
    <3> QED
      BY <3>1 DEF NoSidecar
  <2>6. p = o
    BY <2>2, <2>5 DEF Replayed
  <2> HIDE DEF p
  <2> DEFINE out == [i \in DOMAIN p |-> ts[p[i]]]
  <2>7. out \in [1 .. n -> Int] /\ \A i \in 1 .. n : out[i] = ts[o[i]]
    BY <2>3, <2>6
  <2> HIDE DEF out
  <2>8. Len(out) = n
    BY <2>7, TupleIsSeq
  <2>9. ASSUME NEW i \in 1 .. n - 1 PROVE out[i] <= out[i + 1]
    <3>1. i \in 1 .. n /\ i + 1 \in 1 .. n /\ i < i + 1
      OBVIOUS
    <3>2. o[i] \in 1 .. n /\ o[i + 1] \in 1 .. n
      BY <2>3, <3>1
    <3>3. /\ keys[o[i]] = <<ts[o[i]], seqs[o[i]]>>
          /\ keys[o[i + 1]] = <<ts[o[i + 1]], seqs[o[i + 1]]>>
          /\ ts[o[i]] \in Int /\ ts[o[i + 1]] \in Int
      BY <1>1, <3>2
    <3>4. PairBefore(keys[o[i]], keys[o[i + 1]]) \/ keys[o[i]] = keys[o[i + 1]]
      BY <2>3, <3>1
    <3>5. ts[o[i]] <= ts[o[i + 1]]
      BY <3>3, <3>4 DEF PairBefore
    <3> QED
      BY <2>7, <3>1, <3>5
  <2>10. Ordered(out)
    BY <2>8, <2>9 DEF Ordered
  <2> QED
    BY <2>1, <2>6, <2>10 DEF p, out, keys
<1> QED
  BY <1>3, <1>4

LEMMA ReplaysHold == TypeOK /\ Placing /\ Sealing => RecordedOrderReplays
<1> SUFFICES ASSUME TypeOK, Placing, Sealing, NEW s \in Written
             PROVE  LET f == files[s]
                        Agrees(order, ts) ==
                          LET p == Replayed(order, f.rows) IN
                          /\ Ordered([i \in DOMAIN p |-> ts[p[i]]])
                          /\ Cardinality({scanned[k].symbol : k \in RowsOf(s)}) <= 1
                               => SourceOrder(f.rows) /\ p \in StableOrders(Keys(ts, Column(f.rows, "source_seq")))
                    IN  /\ Agrees(f.details.ordering.exchange_order, Column(f.rows, "exch_ts"))
                        /\ Agrees(f.details.ordering.local_order,
                                  Corrected(Column(f.rows, "local_ts_raw"), f.metadata.adjustment))
  BY DEF RecordedOrderReplays
<1> DEFINE rows == files[s].rows
           seqs == Column(rows, "source_seq")
           adjust == files[s].metadata.adjustment
           ordering == files[s].details.ordering
           names == {scanned[k].symbol : k \in RowsOf(s)}
<1>1. PICK q : /\ Lists(q, RowsOf(s)) /\ q \in Seq(DOMAIN scanned)
               /\ DOMAIN rows = 1 .. Len(q)
               /\ \A i \in 1 .. Len(q) :
                    /\ q[i] \in RowsOf(s) /\ q[i] \in Nat \ {0}
                    /\ rows[i] = CompactRow(q[i] - 1, scanned[q[i]])
               /\ OneName(scanned, s) => Rising(q)
  BY WrittenRows
<1>2. PICK n \in Nat : n = Len(q)
  BY <1>1, LenProperties
<1>3. /\ adjust = Adjustment(rows)
      /\ ordering.exchange_order = Sidecar(Column(rows, "exch_ts"), seqs)
      /\ ordering.local_order = Sidecar(Corrected(Column(rows, "local_ts_raw"), adjust), seqs)
  <2>1. Recorded(files[s])
    BY DEF Sealing
  <2> QED
    BY <2>1, WrittenType, FoundFields DEF Recorded
<1>4. Adjustment(rows) \in Int
  <2>1. CASE rows # <<>>
    <3>1. /\ RowLatencies(rows) \subseteq Int /\ IsFiniteSet(RowLatencies(rows))
          /\ RowLatencies(rows) # {}
      BY <2>1, WrittenLatencies
    <3>2. PICK x \in RowLatencies(rows) : \A y \in RowLatencies(rows) : x <= y
      BY <3>1, Extremes
    <3>3. Min(RowLatencies(rows)) = x /\ x \in Int
      BY <3>1, <3>2, MinIs
    <3> HIDE DEF rows
    <3> QED
      BY <3>3, LatencyAssumption DEF Adjustment
  <2>2. CASE rows = <<>>
    BY <2>2 DEF Adjustment
  <2> QED
    BY <2>1, <2>2
<1>5. \A i \in 1 .. n : /\ rows[i].source_seq = q[i] - 1 /\ rows[i].source_seq \in Int
                        /\ rows[i].exch_ts \in Int /\ rows[i].local_ts_raw \in Int
  <2> SUFFICES ASSUME NEW i \in 1 .. n
               PROVE  /\ rows[i].source_seq = q[i] - 1 /\ rows[i].source_seq \in Int
                      /\ rows[i].exch_ts \in Int /\ rows[i].local_ts_raw \in Int
    OBVIOUS
  <2>1. q[i] \in RowsOf(s) /\ q[i] \in Nat \ {0} /\ rows[i] = CompactRow(q[i] - 1, scanned[q[i]])
    BY <1>1, <1>2
  <2>2. scanned[q[i]].exchtime \in Int /\ scanned[q[i]].localtime \in Int
    BY <2>1, RowTimes DEF RowsOf
  <2>3. LocalTime(scanned[q[i]]) \in Int
    BY <2>2 DEF LocalTime
  <2> HIDE DEF rows
  <2> QED
    BY <2>1, <2>2, <2>3, RowFields
<1> HIDE DEF rows, adjust, ordering
<1>6. Column(rows, "exch_ts") \in [1 .. n -> Int]
  BY <1>1, <1>2, <1>5 DEF Column
<1>7. Corrected(Column(rows, "local_ts_raw"), adjust) \in [1 .. n -> Int]
  <2>1. Column(rows, "local_ts_raw") \in [1 .. n -> Int]
    BY <1>1, <1>2, <1>5 DEF Column
  <2> QED
    BY <1>3, <1>4, <2>1 DEF Corrected
<1>s. seqs \in [1 .. n -> Int] /\ \A i \in 1 .. n : seqs[i] = rows[i].source_seq
  BY <1>1, <1>2, <1>5 DEF Column
<1>8. Cardinality(names) <= 1 => OneName(scanned, s)
  <2>1. names \subseteq {s, Stripped(s)}
    BY DenotesIs DEF RowsOf
  <2>2. IsFiniteSet(names)
    <3>1. IsFiniteSet({s, Stripped(s)})
      <4>1. IsFiniteSet({s}) /\ {s} \cup {Stripped(s)} = {s, Stripped(s)}
        BY FS_Singleton
      <4>2. IsFiniteSet({s} \cup {Stripped(s)})
        BY <4>1, FS_AddElement
      <4> QED
        BY <4>1, <4>2
    <3> QED
      BY <2>1, <3>1, FS_Subset
  <2> SUFFICES ASSUME Cardinality(names) <= 1, NEW k \in RowsIn(scanned, s), NEW l \in RowsIn(scanned, s)
               PROVE  scanned[k].symbol = scanned[l].symbol
    BY DEF OneName
  <2>3. scanned[k].symbol \in names /\ scanned[l].symbol \in names
    BY DEF RowsIn, RowsOf
  <2> DEFINE a == scanned[k].symbol
             b == scanned[l].symbol
  <2> HIDE DEF names, a, b
  <2>4. a = b
    <3> SUFFICES ASSUME a # b PROVE FALSE
      OBVIOUS
    <3>1. IsFiniteSet({a}) /\ Cardinality({a}) = 1 /\ b \notin {a}
      BY FS_Singleton
    <3>2. Cardinality({a} \cup {b}) = 2
      BY <3>1, FS_AddElement
    <3>3. {a} \cup {b} \subseteq names
      BY <2>3 DEF a, b
    <3>4. Cardinality({a} \cup {b}) <= Cardinality(names) /\ Cardinality(names) \in Nat
      BY <2>2, <3>3, FS_Subset, FS_CardinalityType
    <3> QED
      BY <3>2, <3>4
  <2> QED
    BY <2>4 DEF a, b
<1>9. OneName(scanned, s) => \A i, j \in 1 .. n : i < j => rows[i].source_seq < rows[j].source_seq
  <2>1. \A i \in 1 .. n : q[i] \in Nat
    BY <1>1, <1>2
  <2> QED
    BY <1>1, <1>2, <1>5, <2>1 DEF Rising
<1>10. OneName(scanned, s) => SourceOrder(rows)
  <2> SUFFICES ASSUME OneName(scanned, s) PROVE SourceOrder(rows)
    OBVIOUS
  <2>2. \A i \in 1 .. n - 1 : seqs[i] <= seqs[i + 1]
    <3>1. \A i \in 1 .. n - 1 : i \in 1 .. n /\ i + 1 \in 1 .. n /\ i < i + 1
      OBVIOUS
    <3>2. \A i \in 1 .. n - 1 : rows[i].source_seq < rows[i + 1].source_seq
      BY <1>9, <3>1
    <3> HIDE DEF seqs
    <3> QED
      BY <1>5, <1>s, <3>1, <3>2
  <2>4. Len(seqs) = n
    BY <1>s, TupleIsSeq
  <2> QED
    BY <2>2, <2>4 DEF SourceOrder, Ordered
<1> HIDE DEF seqs
<1>11. ASSUME NEW ts \in [1 .. n -> Int]
       PROVE  LET p == Replayed(Sidecar(ts, seqs), rows) IN
              /\ Ordered([i \in DOMAIN p |-> ts[p[i]]])
              /\ Cardinality(names) <= 1 => SourceOrder(rows) /\ p \in StableOrders(Keys(ts, seqs))
  <2>1. DOMAIN rows = 1 .. n
    BY <1>1, <1>2
  <2>2. LET p == Replayed(Sidecar(ts, seqs), rows) IN
        /\ Ordered([i \in DOMAIN p |-> ts[p[i]]])
        /\ (\A i, j \in 1 .. n : i < j => seqs[i] < seqs[j])
             => p \in StableOrders(Keys(ts, seqs))
    BY <1>s, <2>1, SidecarReplays
  <2>3. OneName(scanned, s) => \A i, j \in 1 .. n : i < j => seqs[i] < seqs[j]
    BY <1>9, <1>s
  <2> QED
    BY <1>8, <1>10, <2>2, <2>3
<1> QED
  BY <1>3, <1>6, <1>7, <1>11 DEF rows, seqs, adjust, ordering

\* The recorded order never goes back in time on either clock, and as long as a
\* symbol is spelled one way it is the order in which the engine would sort.
THEOREM RecordedOrderAlwaysReplays == Spec => []RecordedOrderReplays
  BY AlwaysSealed, ReplaysHold, PTL
-----------------------------------------------------------------------------
(* The best quotes.  Quoted are the prices of a side with the quantity at  *)
(* each; the two folds of normalize.py are the sequence of what they come  *)
(* to after each level.                                                    *)

Quoted == [px : Nat, qty : Int]

\* A source whose quantities are numbers or missing.
Quantified(src) == src.price_only_depth_qty \in Int \cup {NaN} /\ src.volume_scale \in Int

LEMMA LastUpTo == \A n \in Nat : n > 0 => Max(1 .. n) = n /\ (1 .. n) \ {n} = 1 .. n - 1
<1> SUFFICES ASSUME NEW n \in Nat, n > 0 PROVE Max(1 .. n) = n /\ (1 .. n) \ {n} = 1 .. n - 1
  OBVIOUS
<1>1. n \in 1 .. n /\ 1 .. n \subseteq Int /\ \A y \in 1 .. n : n >= y
  OBVIOUS
<1>2. (1 .. n) \ {n} = 1 .. n - 1
  OBVIOUS
<1> DEFINE S == 1 .. n
<1> HIDE DEF S
<1>3. Max(S) = n
  BY <1>1, MaxIs DEF S
<1> QED
  BY <1>2, <1>3 DEF S

LEMMA MaxOfSome ==
  ASSUME NEW n \in Nat, NEW s \in SUBSET (1 .. n), s # {}
  PROVE  Max(s) \in s
<1>1. s \subseteq Int /\ IsFiniteSet(s)
  <2>1. IsFiniteSet(1 .. n) /\ 1 .. n \subseteq Int
    BY FS_Interval
  <2> QED
    BY <2>1, FS_Subset
<1>2. PICK x \in s : \A y \in s : x >= y
  BY <1>1, Extremes
<1> QED
  BY <1>1, <1>2, MaxIs

\* A quantity that counts is a positive number.
LEMMA CountedQuantity ==
  ASSUME NEW src, Quantified(src), NEW level \in Level, Counts(level, src)
  PROVE  Quantity(level, src) \in Int /\ Quantity(level, src) > 0 /\ level.px \in Nat
<1> DEFINE qty == IF level.qty = NaN THEN src.price_only_depth_qty ELSE level.qty
<1>1. qty \in Int \cup {NaN} /\ level.px \in Nat
  BY DEF Level, Quantified
<1>2. Quantity(level, src) = IF qty = NaN THEN NaN ELSE qty * src.volume_scale
  BY DEF Quantity
<1>3. Quantity(level, src) # NaN /\ Quantity(level, src) > 0
  BY DEF Counts
<1> HIDE DEF qty
<1>4. qty \in Int /\ src.volume_scale \in Int
  BY <1>1, <1>2, <1>3 DEF Quantified
<1>5. Quantity(level, src) = qty * src.volume_scale
  BY <1>2, <1>3
<1>6. qty * src.volume_scale \in Int
  BY <1>4
<1> QED
  BY <1>1, <1>3, <1>5, <1>6

LEMMA MergedType ==
  ASSUME NEW side \in Seq(Quoted), NEW px \in Nat, NEW qty \in Int
  PROVE  Merged(side, px, qty) \in Seq(Quoted)
<1>1. PICK n \in Nat : n = Len(side) /\ DOMAIN side = 1 .. n /\ \A k \in 1 .. n : side[k] \in Quoted
  BY LenProperties
<1>2. \A k \in 1 .. n : side[k].px \in Nat /\ side[k].qty \in Int
  BY <1>1 DEF Quoted
<1>3. [px |-> px, qty |-> qty] \in Quoted
  BY DEF Quoted
<1>4. \A k \in 1 .. n : [side[k] EXCEPT !.qty = @ + qty] \in Quoted
  BY <1>1, <1>2 DEF Quoted
<1> DEFINE added == [k \in 1 .. n |-> IF side[k].px = px THEN [side[k] EXCEPT !.qty = @ + qty] ELSE side[k]]
<1>5. added \in Seq(Quoted)
  <2>1. added \in [1 .. n -> Quoted]
    BY <1>1, <1>4
  <2> HIDE DEF added
  <2> QED
    BY <2>1, TupleIsSeq
<1>6. Append(side, [px |-> px, qty |-> qty]) \in Seq(Quoted)
  BY <1>3
<1>7. Merged(side, px, qty) = IF \E k \in 1 .. n : side[k].px = px THEN added
                              ELSE Append(side, [px |-> px, qty |-> qty])
  BY <1>1 DEF Merged
<1> HIDE DEF added
<1> QED
  BY <1>5, <1>6, <1>7

AggStep(levels, src, x, side) ==
  IF Counts(levels[x], src) THEN Merged(side, levels[x].px, Quantity(levels[x], src)) ELSE side
AggFold(f, levels, src) ==
  f = [s \in SUBSET DOMAIN levels |->
         IF s = {} THEN <<>> ELSE AggStep(levels, src, Max(s), f[s \ {Max(s)}])]

LEMMA AggregatedFolds ==
  \A levels, src : Aggregated(levels, src) = (CHOOSE f : AggFold(f, levels, src))[DOMAIN levels]
  BY Zenon DEF Aggregated, FoldLeft, MapThenFoldSet, AggFold, AggStep

\* k goes through what the first levels come to, up to all of them.
AggRuns(k, n, levels, src) ==
  /\ k[0] = <<>>
  /\ \A i \in 1 .. n : k[i] = AggStep(levels, src, i, k[i - 1])
  /\ Aggregated(levels, src) = k[n]

LEMMA AggregatedRuns ==
  ASSUME NEW src, Quantified(src), NEW levels \in Seq(Level), NEW n \in Nat, n = Len(levels)
  PROVE  \E k : AggRuns(k, n, levels, src)
<1> DEFINE D == 1 .. n
           A == Seq(Quoted)
           h == [e \in D \X A |-> AggStep(levels, src, e[1], e[2])]
           c == [s \in SUBSET D |-> Max(s)]
<1>1. DOMAIN levels = D /\ \A x \in D : levels[x] \in Level
  BY LenProperties
<1>2. \A x \in D, a \in A : h[<<x, a>>] = AggStep(levels, src, x, a)
  OBVIOUS
<1>3. h \in [D \X A -> A]
  <2>1. ASSUME NEW x \in D, NEW a \in A PROVE AggStep(levels, src, x, a) \in A
    <3>1. CASE Counts(levels[x], src)
      <4>1. Quantity(levels[x], src) \in Int /\ levels[x].px \in Nat
        BY <1>1, <3>1, CountedQuantity
      <4> QED
        BY <3>1, <4>1, MergedType DEF AggStep
    <3> QED
      BY <3>1 DEF AggStep
  <2> QED
    BY <2>1
<1>4. \A s \in SUBSET D : s # {} => c[s] \in s
  BY MaxOfSome
<1>5. IsFiniteSet(D) /\ <<>> \in A
  BY FS_Interval
<1>6. \A s \in SUBSET D : c[s] = Max(s)
  OBVIOUS
<1> HIDE DEF h, c
<1>7. PICK g : IsFold(g, D, A, <<>>, h, c)
  BY <1>3, <1>4, <1>5, FoldExists
<1>8. AggFold(g, levels, src)
  <2>1. g \in [SUBSET D -> A] /\ g[{}] = <<>>
    BY <1>7 DEF IsFold
  <2>2. ASSUME NEW s \in SUBSET D, s # {}
        PROVE  g[s] = AggStep(levels, src, Max(s), g[s \ {Max(s)}])
    <3>1. g[s] = h[<<c[s], g[s \ {c[s]}]>>]
      BY <1>7, <2>2 DEF IsFold
    <3>2. c[s] \in D /\ s \ {c[s]} \in SUBSET D
      BY <1>4, <2>2
    <3>3. g[s \ {c[s]}] \in A
      BY <2>1, <3>2
    <3> HIDE DEF A, D
    <3> QED
      BY <1>2, <1>6, <3>1, <3>2, <3>3
  <2> HIDE DEF D, A
  <2> QED
    BY <1>1, <2>1, <2>2 DEF AggFold
<1> DEFINE f == CHOOSE e : AggFold(e, levels, src)
           k == [i \in 0 .. n |-> f[1 .. i]]
<1>9. AggFold(f, levels, src) /\ Aggregated(levels, src) = f[1 .. n]
  BY <1>1, <1>8, AggregatedFolds
<1>10. \A i \in 0 .. n : k[i] = f[1 .. i]
  OBVIOUS
<1> HIDE DEF f, k
<1>11. 1 .. 0 = {} /\ f[{}] = <<>>
  BY <1>9 DEF AggFold
<1>12. ASSUME NEW i \in 1 .. n PROVE k[i] = AggStep(levels, src, i, k[i - 1])
  <2>1. i \in Nat /\ i > 0 /\ 1 .. i \in SUBSET D /\ 1 .. i # {} /\ i - 1 \in 0 .. n /\ i \in 0 .. n
    OBVIOUS
  <2>2. Max(1 .. i) = i /\ (1 .. i) \ {i} = 1 .. i - 1
    BY <2>1, LastUpTo
  <2>3. f[1 .. i] = AggStep(levels, src, Max(1 .. i), f[(1 .. i) \ {Max(1 .. i)}])
    <3> HIDE DEF D
    <3> QED
      BY <1>1, <1>9, <2>1 DEF AggFold
  <2> QED
    BY <1>10, <2>1, <2>2, <2>3
<1> QED
  BY <1>9, <1>10, <1>11, <1>12 DEF AggRuns

\* The levels that count, of those given by place, and those of them at a price.
Counted(levels, src, n)   == {j \in 1 .. n : Counts(levels[j], src)}
AtPrice(levels, src, n, px) == {j \in Counted(levels, src, n) : levels[j].px = px}
Weights(levels, src, n) ==
  [j \in 1 .. n |-> IF Counts(levels[j], src) THEN Quantity(levels[j], src) ELSE 0]

\* A side shows the first n levels: at each price that counts, what they offer.
ShowsLevels(side, levels, src, n, g) ==
  /\ side \in Seq(Quoted)
  /\ \A i \in DOMAIN side :
       /\ side[i].qty = g[AtPrice(levels, src, n, side[i].px)]
       /\ \E j \in Counted(levels, src, n) : levels[j].px = side[i].px
  /\ \A j \in Counted(levels, src, n) : \E i \in DOMAIN side : side[i].px = levels[j].px

\* What merging a price and quantity makes of a side of m entries.
IsMerged(t, side, px, qty, m) ==
  /\ (\E i \in 1 .. m : side[i].px = px)
       => /\ DOMAIN t = 1 .. m
          /\ \A i \in 1 .. m : /\ t[i].px = side[i].px
                               /\ t[i].qty = side[i].qty + (IF side[i].px = px THEN qty ELSE 0)
  /\ ~(\E i \in 1 .. m : side[i].px = px)
       => /\ DOMAIN t = 1 .. m + 1
          /\ \A i \in 1 .. m : t[i] = side[i]
          /\ t[m + 1].px = px /\ t[m + 1].qty = qty

LEMMA MergedIs ==
  ASSUME NEW side \in Seq(Quoted), NEW px \in Nat, NEW qty \in Int, NEW m \in Nat, m = Len(side)
  PROVE  IsMerged(Merged(side, px, qty), side, px, qty, m)
<1>1. DOMAIN side = 1 .. m /\ \A i \in 1 .. m : side[i] \in Quoted
  BY LenProperties
<1>2. \A i \in 1 .. m : side[i].px \in Nat /\ side[i].qty \in Int /\ DOMAIN side[i] = {"px", "qty"}
  BY <1>1 DEF Quoted
<1>3. ASSUME \E i \in 1 .. m : side[i].px = px
      PROVE  /\ DOMAIN Merged(side, px, qty) = 1 .. m
             /\ \A i \in 1 .. m :
                  /\ Merged(side, px, qty)[i].px = side[i].px
                  /\ Merged(side, px, qty)[i].qty = side[i].qty + (IF side[i].px = px THEN qty ELSE 0)
  <2>1. Merged(side, px, qty) =
          [k \in 1 .. m |-> IF side[k].px = px THEN [side[k] EXCEPT !.qty = @ + qty] ELSE side[k]]
    BY <1>1, <1>3 DEF Merged
  <2>2. ASSUME NEW i \in 1 .. m
        PROVE  /\ Merged(side, px, qty)[i].px = side[i].px
               /\ Merged(side, px, qty)[i].qty = side[i].qty + (IF side[i].px = px THEN qty ELSE 0)
    <3>1. CASE side[i].px = px
      <4>1. Merged(side, px, qty)[i] = [side[i] EXCEPT !.qty = @ + qty]
        BY <2>1, <3>1
      <4> QED
        BY <1>2, <3>1, <4>1
    <3>2. CASE side[i].px # px
      <4>1. Merged(side, px, qty)[i] = side[i]
        BY <2>1, <3>2
      <4> QED
        BY <1>2, <3>2, <4>1
    <3> QED
      BY <3>1, <3>2
  <2> QED
    BY <2>1, <2>2
<1>4. ASSUME ~(\E i \in 1 .. m : side[i].px = px)
      PROVE  /\ DOMAIN Merged(side, px, qty) = 1 .. m + 1
             /\ \A i \in 1 .. m : Merged(side, px, qty)[i] = side[i]
             /\ Merged(side, px, qty)[m + 1].px = px /\ Merged(side, px, qty)[m + 1].qty = qty
  <2> DEFINE e == [px |-> px, qty |-> qty]
  <2>1. Merged(side, px, qty) = Append(side, e)
    BY <1>1, <1>4 DEF Merged
  <2>2. e \in Quoted /\ e.px = px /\ e.qty = qty
    BY DEF Quoted
  <2> HIDE DEF e
  <2> QED
    BY <1>1, <2>1, <2>2
<1> QED
  BY <1>3, <1>4 DEF IsMerged

LEMMA CountedOn ==
  ASSUME NEW src, NEW levels, NEW i \in Nat, i > 0
  PROVE  Counted(levels, src, i) =
           Counted(levels, src, i - 1) \cup (IF Counts(levels[i], src) THEN {i} ELSE {})
<1>1. 1 .. i = (1 .. i - 1) \cup {i} /\ i \notin 1 .. i - 1
  OBVIOUS
<1> QED
  BY <1>1 DEF Counted

\* One level more is offered at its price.
LEMMA OneMoreLevel ==
  ASSUME NEW src, NEW levels, NEW n \in Nat, NEW i \in 1 .. n, NEW px,
         NEW g, AddsUp(g, Weights(levels, src, n), 1 .. n, Int)
  PROVE  /\ g[AtPrice(levels, src, i - 1, px)] \in Int
         /\ ~Counts(levels[i], src) => AtPrice(levels, src, i, px) = AtPrice(levels, src, i - 1, px)
         /\ Counts(levels[i], src) =>
              g[AtPrice(levels, src, i, px)] =
                (IF levels[i].px = px THEN Quantity(levels[i], src) ELSE 0)
                  + g[AtPrice(levels, src, i - 1, px)]
<1> DEFINE S == AtPrice(levels, src, i, px)
           T == AtPrice(levels, src, i - 1, px)
<1>1. 1 .. i = (1 .. i - 1) \cup {i} /\ i \notin 1 .. i - 1
  OBVIOUS
<1>2. Counted(levels, src, i) =
        Counted(levels, src, i - 1) \cup (IF Counts(levels[i], src) THEN {i} ELSE {})
  BY CountedOn
<1>3. S \in SUBSET (1 .. n) /\ T \in SUBSET (1 .. n) /\ i \notin T
  BY DEF AtPrice, Counted
<1>4. g[T] \in Int
  BY <1>3 DEF AddsUp
<1>5. S = IF Counts(levels[i], src) /\ levels[i].px = px THEN T \cup {i} ELSE T
  BY <1>2 DEF AtPrice
<1>6. ASSUME Counts(levels[i], src), levels[i].px = px
      PROVE  g[S] = Quantity(levels[i], src) + g[T]
  <2>1. i \in S /\ S \ {i} = T
    BY <1>3, <1>5, <1>6
  <2>2. g[S] = Weights(levels, src, n)[i] + g[S \ {i}]
    <3> HIDE DEF S
    <3> QED
      BY <1>3, <2>1 DEF AddsUp
  <2>3. Weights(levels, src, n)[i] = Quantity(levels[i], src)
    BY <1>6 DEF Weights
  <2> HIDE DEF S, T
  <2> QED
    BY <2>1, <2>2, <2>3
<1>7. g[T] = 0 + g[T]
  BY <1>4
<1> HIDE DEF S, T
<1> QED
  BY <1>2, <1>4, <1>5, <1>6, <1>7 DEF S, T

LEMMA ShowsOneMore ==
  ASSUME NEW src, Quantified(src), NEW levels, NEW n \in Nat, NEW i \in 1 .. n,
         levels[i] \in Level,
         NEW g, AddsUp(g, Weights(levels, src, n), 1 .. n, Int),
         NEW side, ShowsLevels(side, levels, src, i - 1, g)
  PROVE  ShowsLevels(AggStep(levels, src, i, side), levels, src, i, g)
<1> DEFINE t == AggStep(levels, src, i, side)
           px == levels[i].px
           qty == Quantity(levels[i], src)
           At(p) == g[AtPrice(levels, src, i, p)]
           Was(p) == g[AtPrice(levels, src, i - 1, p)]
<1>1. Counted(levels, src, i) =
        Counted(levels, src, i - 1) \cup (IF Counts(levels[i], src) THEN {i} ELSE {})
  BY CountedOn
<1>2. \A p : /\ Was(p) \in Int
             /\ ~Counts(levels[i], src) => At(p) = Was(p)
             /\ Counts(levels[i], src) => At(p) = (IF px = p THEN qty ELSE 0) + Was(p)
  BY OneMoreLevel
<1>3. /\ side \in Seq(Quoted)
      /\ \A a \in DOMAIN side : /\ side[a].qty = Was(side[a].px)
                                /\ \E j \in Counted(levels, src, i - 1) : levels[j].px = side[a].px
      /\ \A j \in Counted(levels, src, i - 1) : \E a \in DOMAIN side : side[a].px = levels[j].px
  BY DEF ShowsLevels
<1>4. PICK m \in Nat : m = Len(side) /\ DOMAIN side = 1 .. m
  BY <1>3, LenProperties
<1>5. SUFFICES /\ t \in Seq(Quoted)
               /\ \A a \in DOMAIN t : /\ t[a].qty = At(t[a].px)
                                      /\ \E j \in Counted(levels, src, i) : levels[j].px = t[a].px
               /\ \A j \in Counted(levels, src, i) : \E a \in DOMAIN t : t[a].px = levels[j].px
  BY DEF ShowsLevels
<1>6. CASE ~Counts(levels[i], src)
  <2>1. t = side
    BY <1>6 DEF AggStep
  <2> HIDE DEF t, At, Was
  <2> QED
    BY <1>1, <1>2, <1>3, <1>6, <2>1
<1>7. CASE Counts(levels[i], src)
  <2>1. t = Merged(side, px, qty)
    BY <1>7 DEF AggStep
  <2>2. qty \in Int /\ px \in Nat
    BY <1>7, CountedQuantity
  <2>3. t \in Seq(Quoted)
    BY <1>3, <2>1, <2>2, MergedType
  <2>4. IsMerged(t, side, px, qty, m)
    BY <1>3, <1>4, <2>1, <2>2, MergedIs
  <2>5. Counted(levels, src, i) = Counted(levels, src, i - 1) \cup {i}
    BY <1>1, <1>7
  <2>6. \A p : Was(p) \in Int /\ At(p) = (IF px = p THEN qty ELSE 0) + Was(p)
    BY <1>2, <1>7
  <2>7. CASE \E a \in 1 .. m : side[a].px = px
    <3>1. ASSUME NEW a \in DOMAIN t
          PROVE  /\ t[a].qty = At(t[a].px)
                 /\ \E j \in Counted(levels, src, i) : levels[j].px = t[a].px
      <4>1. a \in 1 .. m /\ t[a].px = side[a].px
            /\ t[a].qty = side[a].qty + (IF side[a].px = px THEN qty ELSE 0)
        BY <2>4, <2>7 DEF IsMerged
      <4>2. side[a].qty = Was(side[a].px) /\ \E j \in Counted(levels, src, i - 1) : levels[j].px = side[a].px
        BY <1>3, <1>4, <4>1
      <4> HIDE DEF t, At, Was, px, qty
      <4> QED
        BY <2>2, <2>5, <2>6, <4>1, <4>2
    <3>2. ASSUME NEW j \in Counted(levels, src, i)
          PROVE  \E a \in DOMAIN t : t[a].px = levels[j].px
      <4>1. \E a \in 1 .. m : side[a].px = levels[j].px
        BY <1>3, <1>4, <2>5, <2>7
      <4> HIDE DEF t
      <4> QED
        BY <2>4, <2>7, <4>1 DEF IsMerged
    <3> QED
      BY <2>3, <3>1, <3>2
  <2>8. CASE ~(\E a \in 1 .. m : side[a].px = px)
    <3>1. Was(px) = 0
      <4>1. \A j \in Counted(levels, src, i - 1) : levels[j].px # px
        BY <1>3, <1>4, <2>8
      <4>2. AtPrice(levels, src, i - 1, px) = {}
        BY <4>1 DEF AtPrice
      <4> QED
        BY <4>2 DEF AddsUp
    <3>2. ASSUME NEW a \in DOMAIN t
          PROVE  /\ t[a].qty = At(t[a].px)
                 /\ \E j \in Counted(levels, src, i) : levels[j].px = t[a].px
      <4>1. a \in 1 .. m \/ a = m + 1
        <5> HIDE DEF t
        <5> QED
          BY <2>4, <2>8 DEF IsMerged
      <4>2. CASE a \in 1 .. m
        <5>1. t[a] = side[a] /\ side[a].px # px
          BY <2>4, <2>8, <4>2 DEF IsMerged
        <5>2. /\ side[a].qty = Was(side[a].px)
              /\ \E j \in Counted(levels, src, i - 1) : levels[j].px = side[a].px
          BY <1>3, <1>4, <4>2
        <5> HIDE DEF t, At, Was, px, qty
        <5> QED
          BY <2>5, <2>6, <5>1, <5>2
      <4>3. CASE a = m + 1
        <5>1. t[a].px = px /\ t[a].qty = qty
          BY <2>4, <2>8, <4>3 DEF IsMerged
        <5>2. i \in Counted(levels, src, i) /\ levels[i].px = px
          BY <2>5
        <5> HIDE DEF t, At, Was, px, qty
        <5> QED
          BY <2>2, <2>6, <3>1, <5>1, <5>2
      <4> QED
        BY <4>1, <4>2, <4>3
    <3>3. ASSUME NEW j \in Counted(levels, src, i)
          PROVE  \E a \in DOMAIN t : t[a].px = levels[j].px
      <4>1. DOMAIN t = 1 .. m + 1 /\ (\A a \in 1 .. m : t[a] = side[a]) /\ t[m + 1].px = px
        BY <2>4, <2>8 DEF IsMerged
      <4>2. CASE j \in Counted(levels, src, i - 1)
        <5>1. PICK a \in 1 .. m : side[a].px = levels[j].px
          BY <1>3, <1>4, <4>2
        <5> HIDE DEF t
        <5> QED
          BY <4>1, <5>1
      <4>3. CASE j = i
        <5> HIDE DEF t
        <5> QED
          BY <4>1, <4>3
      <4> QED
        BY <2>5, <4>2, <4>3
    <3> QED
      BY <2>3, <3>2, <3>3
  <2> QED
    BY <2>7, <2>8
<1> QED
  BY <1>6, <1>7

\* All of them.
LEMMA AggregatedShows ==
  ASSUME NEW src, Quantified(src), NEW levels \in Seq(Level), NEW n \in Nat, n = Len(levels),
         NEW g, AddsUp(g, Weights(levels, src, n), 1 .. n, Int)
  PROVE  ShowsLevels(Aggregated(levels, src), levels, src, n, g)
<1>1. DOMAIN levels = 1 .. n /\ \A j \in 1 .. n : levels[j] \in Level
  BY LenProperties
<1>2. PICK k : AggRuns(k, n, levels, src)
  BY AggregatedRuns
<1> DEFINE Bad == {i \in 0 .. n : ~ShowsLevels(k[i], levels, src, i, g)}
<1>3. SUFFICES ASSUME Bad # {} PROVE FALSE
  BY <1>2 DEF AggRuns
<1>4. PICK i \in Bad : \A j \in Bad : i <= j
  <2>1. Bad \subseteq Nat
    OBVIOUS
  <2> HIDE DEF Bad
  <2> QED
    BY <1>3, <2>1, LeastOne
<1>5. i \in 0 .. n /\ ~ShowsLevels(k[i], levels, src, i, g)
  OBVIOUS
<1>6. CASE i = 0
  <2>1. k[0] = <<>> /\ <<>> \in Seq(Quoted) /\ DOMAIN <<>> = {} /\ 1 .. 0 = {}
    BY <1>2 DEF AggRuns
  <2>2. Counted(levels, src, 0) = {}
    BY <2>1 DEF Counted
  <2>3. ShowsLevels(k[0], levels, src, 0, g)
    BY <2>1, <2>2 DEF ShowsLevels
  <2> QED
    BY <1>5, <1>6, <2>3
<1>7. CASE i # 0
  <2>1. i \in 1 .. n /\ i - 1 \in 0 .. n /\ ~(i <= i - 1)
    BY <1>5, <1>7
  <2>2. ShowsLevels(k[i - 1], levels, src, i - 1, g)
    BY <1>4, <2>1
  <2>3. k[i] = AggStep(levels, src, i, k[i - 1])
    BY <1>2, <2>1 DEF AggRuns
  <2> QED
    BY <1>1, <1>5, <2>1, <2>2, <2>3, ShowsOneMore
<1> QED
  BY <1>6, <1>7

Quoting(levels, px) == {k \in DOMAIN levels : Counts(levels[k], Asked) /\ levels[k].px = px}
OfferFold(f, levels, S) ==
  f = [s \in SUBSET S |-> IF s = {} THEN 0
                          ELSE Quantity(levels[FirstOf(s)], Asked) + f[s \ {FirstOf(s)}]]

LEMMA OfferedFolds ==
  \A levels, px : Offered(levels, px) =
    (CHOOSE f : OfferFold(f, levels, Quoting(levels, px)))[Quoting(levels, px)]
  BY Zenon DEF Offered, MapThenSumSet, MapThenFoldSet, OfferFold, Quoting, FirstOf

LEMMA OfferedIs ==
  ASSUME NEW levels, NEW n \in Nat, DOMAIN levels = 1 .. n,
         NEW g, AddsUp(g, Weights(levels, Asked, n), 1 .. n, Int), NEW px
  PROVE  Offered(levels, px) = g[AtPrice(levels, Asked, n, px)]
<1> DEFINE S == Quoting(levels, px)
           w == Weights(levels, Asked, n)
           f == CHOOSE e : OfferFold(e, levels, S)
<1>1. S = AtPrice(levels, Asked, n, px) /\ S \in SUBSET (1 .. n)
  BY DEF Quoting, AtPrice, Counted
<1>2. \A e : OfferFold(e, levels, S) <=> SumFold(e, w, S)
  <2>1. \A s \in SUBSET S : s # {} => w[FirstOf(s)] = Quantity(levels[FirstOf(s)], Asked)
    <3> SUFFICES ASSUME NEW s \in SUBSET S, s # {}
                 PROVE  w[FirstOf(s)] = Quantity(levels[FirstOf(s)], Asked)
      OBVIOUS
    <3>1. FirstOf(s) \in s
      BY DEF FirstOf
    <3>2. FirstOf(s) \in 1 .. n /\ Counts(levels[FirstOf(s)], Asked)
      BY <3>1 DEF Quoting
    <3> QED
      BY <3>2 DEF Weights
  <2> HIDE DEF w, S
  <2>2. \A e : [s \in SUBSET S |-> IF s = {} THEN 0
                                   ELSE Quantity(levels[FirstOf(s)], Asked) + e[s \ {FirstOf(s)}]]
             = [s \in SUBSET S |-> IF s = {} THEN 0 ELSE w[FirstOf(s)] + e[s \ {FirstOf(s)}]]
    BY <2>1
  <2> QED
    BY <2>2 DEF OfferFold, SumFold
<1>3. IsFiniteSet(1 .. n)
  BY FS_Interval
<1> HIDE DEF S, w
<1>4. (\E e : SumFold(e, w, S)) /\ \A e : SumFold(e, w, S) => e[S] = g[S]
  BY <1>1, <1>3, SumFoldIs DEF w
<1>5. OfferFold(f, levels, S)
  BY <1>2, <1>4
<1>6. f[S] = g[S]
  <2> HIDE DEF f
  <2> QED
    BY <1>2, <1>4, <1>5
<1>7. Offered(levels, px) = f[S]
  BY OfferedFolds DEF S
<1> HIDE DEF f
<1> QED
  BY <1>1, <1>6, <1>7
-----------------------------------------------------------------------------
(* The insertion sort.                                                     *)

Precedes(a, b, ascending) == IF ascending THEN a.px <= b.px ELSE a.px >= b.px

\* What is inserted goes before the first entry that it must precede.
LEMMA InsertedIs ==
  ASSUME NEW side \in Seq(Quoted), NEW level \in Quoted, NEW ascending
  PROVE  /\ Inserted(side, level, ascending) \in Seq(Quoted)
         /\ Len(Inserted(side, level, ascending)) > 0
         /\ Inserted(side, level, ascending)[1] =
              IF side # <<>> /\ Precedes(side[1], level, ascending) THEN side[1] ELSE level
<1> DEFINE n == Len(side)
           I == {i \in 1 .. n : ~Precedes(side[i], level, ascending)}
           r == Inserted(side, level, ascending)
<1>1. n \in Nat /\ (side = <<>> <=> n = 0)
  BY LenProperties, EmptySeq
<1>2. r = IF I = {} THEN Append(side, level)
          ELSE IF Min(I) = 0 THEN Append(side, level)
          ELSE SubSeq(side, 1, Min(I) - 1) \o <<level>> \o SubSeq(side, Min(I), n)
  BY DEF Inserted, SelectInSeq, InsertAt, Precedes
<1> HIDE DEF r
<1>3. CASE I = {}
  <2>1. r = Append(side, level)
    BY <1>2, <1>3
  <2>2. n > 0 => Precedes(side[1], level, ascending)
    BY <1>1, <1>3
  <2>3. r \in Seq(Quoted) /\ Len(r) = n + 1 /\ r[1] = IF n > 0 THEN side[1] ELSE level
    BY <1>1, <2>1
  <2> QED
    BY <1>1, <2>2, <2>3 DEF r
<1>4. CASE I # {}
  <2>1. I \subseteq Int /\ IsFiniteSet(I)
    <3>1. IsFiniteSet(1 .. n) /\ 1 .. n \subseteq Int /\ I \subseteq 1 .. n
      BY <1>1, FS_Interval
    <3> HIDE DEF I
    <3> QED
      BY <3>1, FS_Subset
  <2>2. PICK x \in I : \A y \in I : x <= y
    <3> HIDE DEF I
    <3> QED
      BY <1>4, <2>1, Extremes
  <2>3. Min(I) = x
    <3> HIDE DEF I
    <3> QED
      BY <2>1, <2>2, MinIs
  <2>4. x \in 1 .. n /\ ~Precedes(side[x], level, ascending)
    OBVIOUS
  <2>5. x # 1 => Precedes(side[1], level, ascending)
    <3> SUFFICES ASSUME x # 1, ~Precedes(side[1], level, ascending) PROVE FALSE
      OBVIOUS
    <3>1. 1 \in 1 .. n
      BY <1>1, <2>4
    <3>2. 1 \in I
      BY <3>1
    <3>3. x <= 1
      BY <2>2, <3>2
    <3> QED
      BY <2>4, <3>3
  <2>6. r = SubSeq(side, 1, x - 1) \o <<level>> \o SubSeq(side, x, n)
    <3>1. Min(I) # 0
      BY <2>3, <2>4
    <3> HIDE DEF I
    <3> QED
      BY <1>2, <1>4, <2>3, <3>1
  <2> DEFINE a == SubSeq(side, 1, x - 1)
             c == SubSeq(side, x, n)
             b == a \o <<level>>
  <2> HIDE DEF I
  <2>7. a \in Seq(Quoted) /\ Len(a) = x - 1 /\ (x # 1 => a[1] = side[1])
    BY <1>1, <2>4
  <2>8. c \in Seq(Quoted)
    BY <1>1, <2>4
  <2> HIDE DEF a, c
  <2>9. b \in Seq(Quoted) /\ Len(b) = x /\ b[1] = IF x = 1 THEN level ELSE side[1]
    BY <2>4, <2>7
  <2> HIDE DEF b
  <2>10. b \o c \in Seq(Quoted) /\ Len(b \o c) = x + Len(c) /\ (b \o c)[1] = b[1]
    BY <2>4, <2>8, <2>9
  <2>11. r = b \o c /\ Len(c) \in Nat
    BY <2>6, <2>8 DEF a, b, c
  <2>12. side # <<>>
    BY <1>1, <2>4
  <2>13. CASE x = 1
    BY <2>4, <2>9, <2>10, <2>11, <2>12, <2>13 DEF r
  <2>14. CASE x # 1
    BY <2>4, <2>5, <2>9, <2>10, <2>11, <2>12, <2>14 DEF r
  <2> QED
    BY <2>13, <2>14
<1> QED
  BY <1>3, <1>4

SortFold(f, side, ascending) ==
  f = [s \in SUBSET DOMAIN side |->
         IF s = {} THEN <<>> ELSE Inserted(f[s \ {Max(s)}], side[Max(s)], ascending)]

LEMMA SortedFolds ==
  \A side, ascending :
    Sorted(side, ascending) = (CHOOSE f : SortFold(f, side, ascending))[DOMAIN side]
  BY Zenon DEF Sorted, FoldLeft, MapThenFoldSet, SortFold

\* k goes through what the first entries come to, up to all of them.
SortRuns(k, n, side, ascending) ==
  /\ k[0] = <<>>
  /\ \A i \in 1 .. n : k[i] = Inserted(k[i - 1], side[i], ascending)
  /\ Sorted(side, ascending) = k[n]

LEMMA SortedRuns ==
  ASSUME NEW side \in Seq(Quoted), NEW n \in Nat, n = Len(side), NEW ascending
  PROVE  \E k : SortRuns(k, n, side, ascending)
<1> DEFINE D == 1 .. n
           A == Seq(Quoted)
           h == [e \in D \X A |-> Inserted(e[2], side[e[1]], ascending)]
           c == [s \in SUBSET D |-> Max(s)]
<1>1. DOMAIN side = D /\ \A x \in D : side[x] \in Quoted
  BY LenProperties
<1>2. \A x \in D, a \in A : h[<<x, a>>] = Inserted(a, side[x], ascending)
  OBVIOUS
<1>3. h \in [D \X A -> A]
  <2>1. \A x \in D, a \in A : Inserted(a, side[x], ascending) \in A
    BY <1>1, InsertedIs
  <2> QED
    BY <2>1
<1>4. \A s \in SUBSET D : s # {} => c[s] \in s
  BY MaxOfSome
<1>5. IsFiniteSet(D) /\ <<>> \in A
  BY FS_Interval
<1>6. \A s \in SUBSET D : c[s] = Max(s)
  OBVIOUS
<1> HIDE DEF h, c
<1>7. PICK g : IsFold(g, D, A, <<>>, h, c)
  BY <1>3, <1>4, <1>5, FoldExists
<1>8. SortFold(g, side, ascending)
  <2>1. g \in [SUBSET D -> A] /\ g[{}] = <<>>
    BY <1>7 DEF IsFold
  <2>2. ASSUME NEW s \in SUBSET D, s # {}
        PROVE  g[s] = Inserted(g[s \ {Max(s)}], side[Max(s)], ascending)
    <3>1. g[s] = h[<<c[s], g[s \ {c[s]}]>>]
      BY <1>7, <2>2 DEF IsFold
    <3>2. c[s] \in D /\ s \ {c[s]} \in SUBSET D
      BY <1>4, <2>2
    <3>3. g[s \ {c[s]}] \in A
      BY <2>1, <3>2
    <3> HIDE DEF A, D
    <3> QED
      BY <1>2, <1>6, <3>1, <3>2, <3>3
  <2> HIDE DEF D, A
  <2> QED
    BY <1>1, <2>1, <2>2 DEF SortFold
<1> DEFINE f == CHOOSE e : SortFold(e, side, ascending)
           k == [i \in 0 .. n |-> f[1 .. i]]
<1>9. SortFold(f, side, ascending) /\ Sorted(side, ascending) = f[1 .. n]
  BY <1>1, <1>8, SortedFolds
<1>10. \A i \in 0 .. n : k[i] = f[1 .. i]
  OBVIOUS
<1> HIDE DEF f, k
<1>11. 1 .. 0 = {} /\ f[{}] = <<>>
  BY <1>9 DEF SortFold
<1>12. ASSUME NEW i \in 1 .. n PROVE k[i] = Inserted(k[i - 1], side[i], ascending)
  <2>1. i \in Nat /\ i > 0 /\ 1 .. i \in SUBSET D /\ 1 .. i # {} /\ i - 1 \in 0 .. n /\ i \in 0 .. n
    <3>1. i \in Nat /\ i > 0 /\ i <= n /\ 1 \in 1 .. i
      OBVIOUS
    <3>2. \A j \in 1 .. i : j \in 1 .. n
      BY <3>1
    <3> QED
      BY <3>1, <3>2
  <2>2. Max(1 .. i) = i /\ (1 .. i) \ {i} = 1 .. i - 1
    BY <2>1, LastUpTo
  <2>3. f[1 .. i] = Inserted(f[(1 .. i) \ {Max(1 .. i)}], side[Max(1 .. i)], ascending)
    <3> HIDE DEF D
    <3> QED
      BY <1>1, <1>9, <2>1 DEF SortFold
  <2> QED
    BY <1>10, <2>1, <2>2, <2>3
<1> QED
  BY <1>9, <1>10, <1>11, <1>12 DEF SortRuns

\* t starts with what precedes all of the first i entries of a side.
StartsWell(t, side, i, ascending) ==
  /\ t \in Seq(Quoted)
  /\ i = 0 => t = <<>>
  /\ i > 0 => /\ t # <<>>
              /\ \E m \in 1 .. i : t[1] = side[m]
              /\ \A m \in 1 .. i : Precedes(t[1], side[m], ascending)

LEMMA StartsWellOn ==
  ASSUME NEW side \in Seq(Quoted), NEW ascending, NEW i \in Nat, i > 0, i <= Len(side),
         NEW t, StartsWell(t, side, i - 1, ascending)
  PROVE  StartsWell(Inserted(t, side[i], ascending), side, i, ascending)
<1> DEFINE r == Inserted(t, side[i], ascending)
<1>1. \A m \in 1 .. i : side[m] \in Quoted
  BY LenProperties
<1>2. t \in Seq(Quoted) /\ i \in 1 .. i /\ 1 .. i = (1 .. i - 1) \cup {i}
  BY DEF StartsWell
<1>3. /\ r \in Seq(Quoted) /\ Len(r) > 0
      /\ r[1] = IF t # <<>> /\ Precedes(t[1], side[i], ascending) THEN t[1] ELSE side[i]
  BY <1>1, <1>2, InsertedIs
<1>4. r # <<>>
  BY <1>3
<1> HIDE DEF r
<1>5. \A a, b, c \in Quoted :
        /\ Precedes(a, a, ascending)
        /\ ~Precedes(a, b, ascending) => Precedes(b, a, ascending)
        /\ Precedes(a, b, ascending) /\ Precedes(b, c, ascending) => Precedes(a, c, ascending)
  <2>1. \A a \in Quoted : a.px \in Int
    BY DEF Quoted
  <2> QED
    BY <2>1 DEF Precedes
<1>6. CASE i - 1 = 0
  <2>1. t = <<>> /\ i = 1
    BY <1>6 DEF StartsWell
  <2>2. r[1] = side[1] /\ side[1] \in Quoted /\ 1 .. 1 = {1}
    BY <1>1, <1>3, <2>1
  <2>3. Precedes(r[1], side[1], ascending)
    BY <1>5, <2>2
  <2> QED
    BY <1>3, <1>4, <2>1, <2>2, <2>3 DEF StartsWell, r
<1>7. CASE i - 1 > 0
  <2>1. /\ t # <<>>
        /\ \E m \in 1 .. i - 1 : t[1] = side[m]
        /\ \A m \in 1 .. i - 1 : Precedes(t[1], side[m], ascending)
    BY <1>7 DEF StartsWell
  <2>2. t[1] \in Quoted /\ side[i] \in Quoted
    BY <1>1, <1>2, <2>1
  <2>3. CASE Precedes(t[1], side[i], ascending)
    <3>1. r[1] = t[1]
      BY <1>3, <2>1, <2>3
    <3> QED
      BY <1>2, <1>3, <1>4, <2>1, <2>3, <3>1 DEF StartsWell, r
  <2>4. CASE ~Precedes(t[1], side[i], ascending)
    <3>1. r[1] = side[i] /\ Precedes(side[i], t[1], ascending) /\ Precedes(side[i], side[i], ascending)
      BY <1>3, <1>5, <2>2, <2>4
    <3>2. \A m \in 1 .. i - 1 : Precedes(side[i], side[m], ascending)
      BY <1>1, <1>2, <1>5, <2>1, <2>2, <3>1
    <3> QED
      BY <1>2, <1>3, <1>4, <3>1, <3>2 DEF StartsWell, r
  <2> QED
    BY <2>3, <2>4
<1> QED
  BY <1>6, <1>7

LEMMA SortedStarts ==
  ASSUME NEW side \in Seq(Quoted), NEW ascending
  PROVE  StartsWell(Sorted(side, ascending), side, Len(side), ascending)
<1>1. PICK n \in Nat : n = Len(side)
  BY LenProperties
<1>2. PICK k : SortRuns(k, n, side, ascending)
  BY <1>1, SortedRuns
<1> DEFINE Bad == {i \in 0 .. n : ~StartsWell(k[i], side, i, ascending)}
<1>3. SUFFICES ASSUME Bad # {} PROVE FALSE
  BY <1>1, <1>2 DEF SortRuns
<1>4. PICK i \in Bad : \A j \in Bad : i <= j
  <2>1. Bad \subseteq Nat
    OBVIOUS
  <2> HIDE DEF Bad
  <2> QED
    BY <1>3, <2>1, LeastOne
<1>5. i \in 0 .. n /\ ~StartsWell(k[i], side, i, ascending)
  OBVIOUS
<1>6. CASE i = 0
  <2>1. k[0] = <<>> /\ <<>> \in Seq(Quoted) /\ ~(0 > 0)
    BY <1>2 DEF SortRuns
  <2> QED
    BY <1>5, <1>6, <2>1 DEF StartsWell
<1>7. CASE i # 0
  <2>1. i \in 1 .. n /\ i - 1 \in 0 .. n /\ ~(i <= i - 1) /\ i \in Nat /\ i > 0 /\ i <= n
    BY <1>5, <1>7
  <2>2. StartsWell(k[i - 1], side, i - 1, ascending)
    BY <1>4, <2>1
  <2>3. k[i] = Inserted(k[i - 1], side[i], ascending)
    BY <1>2, <2>1 DEF SortRuns
  <2> QED
    BY <1>1, <1>5, <2>1, <2>2, <2>3, StartsWellOn
<1> QED
  BY <1>6, <1>7
-----------------------------------------------------------------------------
BestPrice(levels, bid) == IF bid THEN Max(PricesOf(levels)) ELSE Min(PricesOf(levels))

LEMMA BestFound ==
  ASSUME Quantified(Asked), NEW levels \in Seq(Level), NEW bid \in BOOLEAN
  PROVE  Best(levels, Asked, bid) =
           IF PricesOf(levels) = {} THEN NoQuote
           ELSE [px |-> BestPrice(levels, bid), qty |-> Offered(levels, BestPrice(levels, bid))]
<1>1. PICK n \in Nat : n = Len(levels) /\ DOMAIN levels = 1 .. n /\ \A j \in 1 .. n : levels[j] \in Level
  BY LenProperties
<1> DEFINE w == Weights(levels, Asked, n)
           side == Aggregated(levels, Asked)
           t == Sorted(side, ~bid)
<1>2. PICK g : AddsUp(g, w, 1 .. n, Int)
  <2>1. \A j \in 1 .. n : w[j] \in Int
    BY <1>1, CountedQuantity DEF Weights
  <2>2. IsFiniteSet(1 .. n) /\ SumsIn(Int)
    BY FS_Interval DEF SumsIn
  <2> HIDE DEF w
  <2> QED
    BY <2>1, <2>2, SumExists
<1>3. ShowsLevels(side, levels, Asked, n, g)
  BY <1>1, <1>2, AggregatedShows
<1>4. StartsWell(t, side, Len(side), ~bid) /\ side \in Seq(Quoted)
  BY <1>3, SortedStarts DEF ShowsLevels
<1>5. Best(levels, Asked, bid) = IF t = <<>> THEN NoQuote ELSE t[1]
  BY DEF Best
<1> HIDE DEF w, side, t
<1>6. PricesOf(levels) = {levels[j].px : j \in Counted(levels, Asked, n)}
  <2>1. {j \in DOMAIN levels : Counts(levels[j], Asked)} = Counted(levels, Asked, n)
    BY <1>1 DEF Counted
  <2> QED
    BY <2>1 DEF PricesOf
<1>7. PICK m \in Nat : m = Len(side) /\ DOMAIN side = 1 .. m /\ \A i \in 1 .. m : side[i] \in Quoted
  BY <1>4, LenProperties
<1>8. PricesOf(levels) = {side[i].px : i \in 1 .. m}
  <2>1. \A i \in 1 .. m : \E j \in Counted(levels, Asked, n) : levels[j].px = side[i].px
    BY <1>3, <1>7 DEF ShowsLevels
  <2>2. \A j \in Counted(levels, Asked, n) : \E i \in 1 .. m : side[i].px = levels[j].px
    BY <1>3, <1>7 DEF ShowsLevels
  <2> QED
    BY <1>6, <2>1, <2>2
<1>9. CASE m = 0
  <2>1. t = <<>>
    BY <1>4, <1>7, <1>9 DEF StartsWell
  <2>2. PricesOf(levels) = {}
    BY <1>8, <1>9
  <2> QED
    BY <1>5, <2>1, <2>2
<1>10. CASE m > 0
  <2>1. PICK i \in 1 .. m : t[1] = side[i]
    BY <1>4, <1>7, <1>10 DEF StartsWell
  <2>2. t # <<>> /\ \A j \in 1 .. m : Precedes(side[i], side[j], ~bid)
    BY <1>4, <1>7, <1>10, <2>1 DEF StartsWell
  <2>3. /\ side[i] = [px |-> side[i].px, qty |-> side[i].qty]
        /\ \A j \in 1 .. m : side[j].px \in Int
    BY <1>7 DEF Quoted
  <2>4. side[i].px \in PricesOf(levels) /\ PricesOf(levels) \subseteq Int
    BY <1>8, <2>3
  <2>5. bid => Max(PricesOf(levels)) = side[i].px
    <3>1. bid => \A y \in PricesOf(levels) : side[i].px >= y
      BY <1>8, <2>2 DEF Precedes
    <3> QED
      BY <2>4, <3>1, MaxIs
  <2>6. ~bid => Min(PricesOf(levels)) = side[i].px
    <3>1. ~bid => \A y \in PricesOf(levels) : side[i].px <= y
      BY <1>8, <2>2 DEF Precedes
    <3> QED
      BY <2>4, <3>1, MinIs
  <2>7. BestPrice(levels, bid) = side[i].px
    BY <2>5, <2>6 DEF BestPrice
  <2>8. side[i].qty = Offered(levels, side[i].px)
    <3>1. side[i].qty = g[AtPrice(levels, Asked, n, side[i].px)]
      BY <1>3, <1>7 DEF ShowsLevels
    <3> QED
      BY <1>1, <1>2, <3>1, OfferedIs DEF w
  <2>9. PricesOf(levels) # {}
    BY <2>4
  <2> QED
    BY <1>5, <2>1, <2>2, <2>3, <2>7, <2>8, <2>9
<1> QED
  BY <1>7, <1>9, <1>10

LEMMA BestHolds == TypeOK /\ Placing => BestIsTrue
<1> SUFFICES ASSUME TypeOK, Placing, NEW s \in Written, NEW i \in DOMAIN files[s].rows
             PROVE  LET row == files[s].rows[i]
                        raw == scanned[row.source_seq + 1]
                        Shows(quote, levels, prices, best) ==
                          quote = IF prices = {} THEN NoQuote
                                  ELSE [px |-> best, qty |-> Offered(levels, best)]
                    IN  /\ Shows(row.bid, raw.bids, PricesOf(raw.bids), Max(PricesOf(raw.bids)))
                        /\ Shows(row.ask, raw.asks, PricesOf(raw.asks), Min(PricesOf(raw.asks)))
  BY DEF BestIsTrue
<1>1. CompactSource(Asked)
  BY SourcesAssumption DEF TypeOK, Asked
<1>2. Quantified(Asked) /\ \A row \in Asked.rows : row.bids \in Seq(Level) /\ row.asks \in Seq(Level)
  BY <1>1 DEF CompactSource, Quantified
<1>3. PICK q : /\ DOMAIN files[s].rows = 1 .. Len(q)
               /\ \A j \in 1 .. Len(q) :
                    /\ q[j] \in RowsOf(s) /\ q[j] \in Nat \ {0}
                    /\ files[s].rows[j] = CompactRow(q[j] - 1, scanned[q[j]])
  BY WrittenRows
<1>4. q[i] \in DOMAIN scanned /\ q[i] \in Nat /\ files[s].rows[i] = CompactRow(q[i] - 1, scanned[q[i]])
  BY <1>3 DEF RowsOf
<1> DEFINE raw == scanned[q[i]]
<1>5. raw \in Asked.rows
  BY <1>4, LenProperties DEF TypeOK
<1>6. raw.bids \in Seq(Level) /\ raw.asks \in Seq(Level)
  BY <1>2, <1>5
<1>7. /\ files[s].rows[i].source_seq + 1 = q[i]
      /\ files[s].rows[i].bid = Best(raw.bids, Asked, TRUE)
      /\ files[s].rows[i].ask = Best(raw.asks, Asked, FALSE)
  <2> DEFINE row == CompactRow(q[i] - 1, raw)
  <2>1. /\ row.source_seq = q[i] - 1
        /\ row.bid = Best(raw.bids, Asked, TRUE) /\ row.ask = Best(raw.asks, Asked, FALSE)
    BY Zenon, RowFields
  <2>2. files[s].rows[i] = row
    BY <1>4
  <2>3. q[i] - 1 + 1 = q[i]
    BY <1>4
  <2> HIDE DEF row, raw
  <2> QED
    BY <2>1, <2>2, <2>3
<1> HIDE DEF raw
<1>8. /\ Best(raw.bids, Asked, TRUE) =
           IF PricesOf(raw.bids) = {} THEN NoQuote
           ELSE [px |-> Max(PricesOf(raw.bids)), qty |-> Offered(raw.bids, Max(PricesOf(raw.bids)))]
      /\ Best(raw.asks, Asked, FALSE) =
           IF PricesOf(raw.asks) = {} THEN NoQuote
           ELSE [px |-> Min(PricesOf(raw.asks)), qty |-> Offered(raw.asks, Min(PricesOf(raw.asks)))]
  BY <1>2, <1>6, BestFound DEF BestPrice
<1>9. scanned[files[s].rows[i].source_seq + 1] = raw
  BY <1>7 DEF raw
<1> QED
  BY <1>7, <1>8, <1>9

THEOREM BestIsAlwaysTrue == Spec => []BestIsTrue
  BY AlwaysPlaced, BestHolds, PTL
=============================================================================
