---------------------------- MODULE OrderLemmas -----------------------------
(***************************************************************************)
(* Of finite sets: their enumeration in a strict total order, given as the *)
(* set R of its pairs (there is one, and one only), and the functions that *)
(* the folds of the community modules define on their subsets.  What the   *)
(* library says of induction takes an operator; here a least               *)
(* counterexample does its work.                                           *)
(***************************************************************************)
EXTENDS RowOrder, Sequences, FiniteSetTheorems, SequenceTheorems, TLAPS

\* A set of natural numbers that has a member has a least one.
LEMMA LeastOne ==
  ASSUME NEW S, S \subseteq Nat, S # {}
  PROVE  \E n \in S : \A m \in S : n <= m
<1> DEFINE R == OpToRel(<, Nat)
<1>1. IsWellFoundedOn(R, Nat)
  BY NatLessThanWellFounded
<1>2. \E x \in S : \A y \in S : <<y, x>> \notin R
  <2> HIDE DEF R
  <2> QED
    BY <1>1, WFMin
<1>3. PICK x \in S : \A y \in S : <<y, x>> \notin R
  BY <1>2
<1>4. \A y \in S : ~(y < x)
  BY <1>3 DEF OpToRel
<1> QED
  BY <1>4

\* Among the subsets of a finite set some are minimal.
LEMMA MinimalOne ==
  ASSUME NEW S, IsFiniteSet(S), NEW B, B \subseteq SUBSET S, B # {}
  PROVE  \E T \in B : \A U \in B : U \subseteq T => U = T
<1> DEFINE Sizes == {Cardinality(T) : T \in B}
<1>1. \A T \in B : IsFiniteSet(T) /\ Cardinality(T) \in Nat
  BY FS_Subset, FS_CardinalityType
<1>2. PICK n \in Sizes : \A m \in Sizes : n <= m
  <2>1. Sizes \subseteq Nat /\ Sizes # {}
    BY <1>1
  <2> HIDE DEF Sizes
  <2> QED
    BY <2>1, LeastOne
<1>3. PICK T \in B : n = Cardinality(T)
  OBVIOUS
<1>4. ASSUME NEW U \in B, U \subseteq T PROVE U = T
  <2>1. Cardinality(T) <= Cardinality(U)
    BY <1>2, <1>3
  <2>2. Cardinality(U) <= Cardinality(T) /\ (Cardinality(T) = Cardinality(U) => T = U)
    BY <1>1, <1>4, FS_Subset
  <2> QED
    BY <1>1, <2>1, <2>2
<1> QED
  BY <1>4

\* R orders S strictly.
Orders(R, S) ==
  /\ \A x \in S : <<x, x>> \notin R
  /\ \A x, y, z \in S : <<x, y>> \in R /\ <<y, z>> \in R => <<x, z>> \in R

LEMMA EnumerationFacts ==
  ASSUME NEW S, IsFiniteSet(S), NEW R, Orders(R, S), NEW s \in Enumerations(S, R)
  PROVE  /\ Cardinality(S) \in Nat
         /\ s \in [1 .. Cardinality(S) -> S]
         /\ \A i, j \in 1 .. Cardinality(S) : i < j => <<s[i], s[j]>> \in R
         /\ \A i, j \in 1 .. Cardinality(S) : s[i] = s[j] => i = j
         /\ \A x \in S : \E i \in 1 .. Cardinality(S) : s[i] = x
<1> DEFINE n == Cardinality(S)
<1>1. n \in Nat /\ Cardinality(1 .. n) = n
  BY FS_CardinalityType, FS_Interval
<1>2. s \in [1 .. n -> S] /\ \A i, j \in 1 .. n : i < j => <<s[i], s[j]>> \in R
  BY DEF Enumerations
<1> HIDE DEF n
<1>3. \A i, j \in 1 .. n : s[i] = s[j] => i = j
  <2> SUFFICES ASSUME NEW i \in 1 .. n, NEW j \in 1 .. n, s[i] = s[j], i # j PROVE FALSE
    OBVIOUS
  <2>1. s[i] \in S /\ s[j] \in S
    BY <1>2
  <2>2. i < j \/ j < i
    BY <1>1
  <2> QED
    BY <1>2, <2>1, <2>2 DEF Orders
<1>4. s \in Injection(1 .. n, S)
  BY <1>2, <1>3 DEF Injection, IsInjective
<1>5. s \in Surjection(1 .. n, S)
  BY <1>1, <1>4, FS_Injection DEF n
<1> QED
  BY <1>1, <1>2, <1>3, <1>5 DEF Surjection, n

\* Two enumerations agree: at the first place where they did not, each would
\* hold what the other has to come to later.
LEMMA EnumerationUnique ==
  ASSUME NEW S, IsFiniteSet(S), NEW R, Orders(R, S),
         NEW s \in Enumerations(S, R), NEW t \in Enumerations(S, R)
  PROVE  s = t
<1> DEFINE n == Cardinality(S)
           Bad == {i \in 1 .. n : s[i] # t[i]}
<1>1. /\ n \in Nat /\ s \in [1 .. n -> S] /\ t \in [1 .. n -> S]
      /\ \A i, j \in 1 .. n : i < j => <<s[i], s[j]>> \in R /\ <<t[i], t[j]>> \in R
      /\ \A x \in S : (\E i \in 1 .. n : s[i] = x) /\ \E i \in 1 .. n : t[i] = x
  BY EnumerationFacts
<1>2. SUFFICES Bad = {}
  BY <1>1
<1>3. SUFFICES ASSUME Bad # {} PROVE FALSE
  OBVIOUS
<1>4. PICK i \in Bad : \A m \in Bad : i <= m
  <2>1. Bad \subseteq Nat
    BY <1>1
  <2> HIDE DEF Bad
  <2> QED
    BY <1>3, <2>1, LeastOne
<1> HIDE DEF n
<1>5. i \in 1 .. n /\ s[i] # t[i] /\ \A m \in 1 .. n : m < i => s[m] = t[m]
  <2>1. \A m \in 1 .. n : m < i => m \notin Bad
    BY <1>1, <1>4
  <2> QED
    BY <1>4, <2>1
<1>6. s[i] \in S /\ t[i] \in S
  BY <1>1, <1>5
<1>7. PICK j \in 1 .. n : t[j] = s[i]
  BY <1>1, <1>6
<1>8. PICK k \in 1 .. n : s[k] = t[i]
  BY <1>1, <1>6
<1>9. i < j /\ i < k
  <2>1. j # i /\ k # i
    BY <1>5, <1>7, <1>8
  <2>2. ~(j < i)
    <3>1. j < i => s[j] = s[i] /\ <<s[j], s[i]>> \in R
      BY <1>1, <1>5, <1>7
    <3> QED
      BY <1>6, <3>1 DEF Orders
  <2>3. ~(k < i)
    <3>1. k < i => t[k] = t[i] /\ <<t[k], t[i]>> \in R
      BY <1>1, <1>5, <1>8
    <3> QED
      BY <1>6, <3>1 DEF Orders
  <2> QED
    BY <1>1, <1>5, <2>1, <2>2, <2>3
<1>10. <<t[i], s[i]>> \in R /\ <<s[i], t[i]>> \in R
  BY <1>1, <1>5, <1>7, <1>8, <1>9
<1> QED
  BY <1>6, <1>10 DEF Orders

\* Hence what InOrder chooses is any enumeration there is.
LEMMA InOrderIs ==
  ASSUME NEW S, IsFiniteSet(S), NEW R, Orders(R, S), NEW s \in Enumerations(S, R)
  PROVE  InOrder(S, R) = s
<1>1. InOrder(S, R) \in Enumerations(S, R)
  BY DEF InOrder
<1> QED
  BY <1>1, EnumerationUnique
-----------------------------------------------------------------------------
(* Enumerations that grow at their end and shrink at their head.           *)
LEMMA EnumerationEmpty ==
  ASSUME NEW R
  PROVE  <<>> \in Enumerations({}, R)
BY FS_EmptySet DEF Enumerations

\* A new member that all others precede comes last.
LEMMA EnumerationAppend ==
  ASSUME NEW S, IsFiniteSet(S), NEW R, NEW s \in Enumerations(S, R),
         NEW x, x \notin S, NEW Q,
         \A y, z \in S : <<y, z>> \in R => <<y, z>> \in Q,
         \A y \in S : <<y, x>> \in Q
  PROVE  [i \in 1 .. Cardinality(S) + 1 |-> IF i <= Cardinality(S) THEN s[i] ELSE x]
           \in Enumerations(S \cup {x}, Q)
<1> DEFINE n == Cardinality(S)
           t == [i \in 1 .. n + 1 |-> IF i <= n THEN s[i] ELSE x]
<1>1. n \in Nat /\ Cardinality(S \cup {x}) = n + 1
  BY FS_CardinalityType, FS_AddElement
<1>2. s \in [1 .. n -> S] /\ \A i, j \in 1 .. n : i < j => <<s[i], s[j]>> \in R
  BY DEF Enumerations
<1> HIDE DEF n
<1>3. t \in [1 .. n + 1 -> S \cup {x}]
  BY <1>1, <1>2
<1>4. ASSUME NEW i \in 1 .. n + 1, NEW j \in 1 .. n + 1, i < j
      PROVE  <<t[i], t[j]>> \in Q
  <2>1. i \in 1 .. n /\ t[i] = s[i] /\ s[i] \in S
    BY <1>1, <1>2, <1>4
  <2>2. CASE j <= n
    <3>1. j \in 1 .. n /\ t[j] = s[j] /\ s[j] \in S
      BY <1>1, <1>2, <2>2
    <3> QED
      BY <1>2, <1>4, <2>1, <3>1
  <2>3. CASE ~(j <= n)
    <3>1. t[j] = x
      BY <2>3
    <3> QED
      BY <2>1, <3>1
  <2> QED
    BY <2>2, <2>3
<1> QED
  BY <1>1, <1>3, <1>4 DEF Enumerations, n

\* The member that precedes all others comes first, and the rest stays in order.
LEMMA EnumerationTail ==
  ASSUME NEW S, IsFiniteSet(S), NEW R, Orders(R, S), NEW s \in Enumerations(S, R),
         NEW x \in S, \A y \in S : y # x => <<x, y>> \in R, NEW Q,
         \A y, z \in S : <<y, z>> \in R => <<y, z>> \in Q
  PROVE  /\ Cardinality(S) \in Nat \ {0}
         /\ s[1] = x
         /\ [i \in 1 .. Cardinality(S) - 1 |-> s[i + 1]] \in Enumerations(S \ {x}, Q)
<1> DEFINE n == Cardinality(S)
           t == [i \in 1 .. n - 1 |-> s[i + 1]]
<1>1. /\ n \in Nat /\ s \in [1 .. n -> S]
      /\ \A i, j \in 1 .. n : i < j => <<s[i], s[j]>> \in R
      /\ \A i, j \in 1 .. n : s[i] = s[j] => i = j
      /\ \A y \in S : \E i \in 1 .. n : s[i] = y
  BY EnumerationFacts
<1>2. Cardinality(S \ {x}) = n - 1
  BY FS_RemoveElement
<1> HIDE DEF n
<1>3. PICK k \in 1 .. n : s[k] = x
  BY <1>1
<1>4. n # 0 /\ 1 \in 1 .. n
  BY <1>1, <1>3
<1>5. k = 1
  <2> SUFFICES ASSUME 1 < k PROVE FALSE
    BY <1>1, <1>3
  <2>1. <<s[1], x>> \in R /\ s[1] \in S /\ s[1] # x
    BY <1>1, <1>3, <1>4
  <2>2. <<x, s[1]>> \in R
    BY <2>1
  <2> QED
    BY <2>1, <2>2 DEF Orders
<1>6. \A i \in 1 .. n - 1 : i + 1 \in 1 .. n /\ i + 1 # 1 /\ t[i] = s[i + 1]
  BY <1>1
<1>7. t \in [1 .. n - 1 -> S \ {x}]
  <2>1. \A i \in 1 .. n - 1 : s[i + 1] \in S \ {x}
    BY <1>1, <1>3, <1>5, <1>6
  <2> QED
    BY <2>1
<1>8. ASSUME NEW i \in 1 .. n - 1, NEW j \in 1 .. n - 1, i < j
      PROVE  <<t[i], t[j]>> \in Q
  <2>1. <<s[i + 1], s[j + 1]>> \in R /\ s[i + 1] \in S /\ s[j + 1] \in S
    BY <1>1, <1>6, <1>8
  <2> QED
    BY <1>6, <2>1
<1> QED
  BY <1>1, <1>2, <1>3, <1>4, <1>5, <1>7, <1>8 DEF Enumerations, n

\* R orders any two members of S.
Compares(R, S) == \A x, y \in S : x # y => <<x, y>> \in R \/ <<y, x>> \in R

\* Of finitely many some member comes last: the smallest set without one would
\* be a member more than a set with one.
LEMMA LastOne ==
  ASSUME NEW S, IsFiniteSet(S), S # {}, NEW R, Orders(R, S), Compares(R, S)
  PROVE  \E x \in S : \A y \in S : y # x => <<y, x>> \in R
<1> DEFINE Bad == {T \in SUBSET S : T # {} /\ ~\E x \in T : \A y \in T : y # x => <<y, x>> \in R}
<1>1. SUFFICES ASSUME Bad # {} PROVE FALSE
  OBVIOUS
<1>2. PICK T \in Bad : \A U \in Bad : U \subseteq T => U = T
  <2>1. Bad \subseteq SUBSET S
    OBVIOUS
  <2> HIDE DEF Bad
  <2> QED
    BY <1>1, <2>1, MinimalOne
<1>3. T \in SUBSET S /\ T # {} /\ ~\E x \in T : \A y \in T : y # x => <<y, x>> \in R
  OBVIOUS
<1>4. PICK x \in T : TRUE
  BY <1>3
<1>5. T \ {x} # {}
  BY <1>3, <1>4
<1>6. PICK z \in T \ {x} : \A y \in T \ {x} : y # z => <<y, z>> \in R
  <2>1. T \ {x} \in SUBSET S /\ T \ {x} \subseteq T /\ T \ {x} # T
    BY <1>3, <1>4
  <2>2. T \ {x} \notin Bad
    BY <1>2, <2>1
  <2> QED
    BY <1>5, <2>1, <2>2
<1>7. CASE <<x, z>> \in R
  BY <1>3, <1>6, <1>7
<1>8. CASE <<z, x>> \in R
  BY <1>3, <1>4, <1>6, <1>8 DEF Orders
<1> QED
  BY <1>3, <1>4, <1>6, <1>7, <1>8 DEF Compares

\* Hence there is an enumeration, by the same argument.
LEMMA EnumerationExists ==
  ASSUME NEW S, IsFiniteSet(S), NEW R, Orders(R, S), Compares(R, S)
  PROVE  Enumerations(S, R) # {}
<1> DEFINE Bad == {T \in SUBSET S : Enumerations(T, R) = {}}
<1>1. SUFFICES ASSUME Bad # {} PROVE FALSE
  OBVIOUS
<1>2. PICK T \in Bad : \A U \in Bad : U \subseteq T => U = T
  <2>1. Bad \subseteq SUBSET S
    OBVIOUS
  <2> HIDE DEF Bad
  <2> QED
    BY <1>1, <2>1, MinimalOne
<1>3. T \in SUBSET S /\ Enumerations(T, R) = {}
  OBVIOUS
<1>4. T # {}
  BY <1>3, EnumerationEmpty
<1>5. IsFiniteSet(T) /\ Orders(R, T) /\ Compares(R, T)
  BY <1>3, FS_Subset DEF Orders, Compares
<1>6. PICK x \in T : \A y \in T : y # x => <<y, x>> \in R
  BY <1>4, <1>5, LastOne
<1> DEFINE U == T \ {x}
<1>7. U \in SUBSET S /\ U \subseteq T /\ U # T /\ IsFiniteSet(U) /\ x \notin U /\ U \cup {x} = T
  BY <1>3, <1>5, <1>6, FS_Subset
<1> HIDE DEF U
<1>8. PICK s : s \in Enumerations(U, R)
  BY <1>2, <1>7
<1>9. \A y \in U : <<y, x>> \in R
  BY <1>6, <1>7
<1>10. Enumerations(U \cup {x}, R) # {}
  BY <1>7, <1>8, <1>9, EnumerationAppend
<1> QED
  BY <1>3, <1>7, <1>10

\* A finite set of integers has a least and a greatest member.
LEMMA Extremes ==
  ASSUME NEW S, S \subseteq Int, IsFiniteSet(S), S # {}
  PROVE  /\ \E x \in S : \A y \in S : x <= y
         /\ \E x \in S : \A y \in S : x >= y
<1> DEFINE L == {e \in S \X S : e[1] < e[2]}
           G == {e \in S \X S : e[1] > e[2]}
<1>1. \A x, y \in S : (<<x, y>> \in L <=> x < y) /\ (<<x, y>> \in G <=> x > y)
  OBVIOUS
<1> HIDE DEF L, G
<1>2. Orders(L, S) /\ Compares(L, S) /\ Orders(G, S) /\ Compares(G, S)
  BY <1>1 DEF Orders, Compares
<1>3. PICK x \in S : \A y \in S : y # x => <<y, x>> \in L
  BY <1>2, LastOne
<1>4. PICK z \in S : \A y \in S : y # z => <<y, z>> \in G
  BY <1>2, LastOne
<1>5. \A y \in S : (y # x => y < x) /\ (y # z => y > z)
  BY <1>1, <1>3, <1>4
<1>6. \A y \in S : x >= y /\ z <= y
  <2> SUFFICES ASSUME NEW y \in S PROVE x >= y /\ z <= y
    OBVIOUS
  <2>1. x \in Int /\ y \in Int /\ z \in Int
    OBVIOUS
  <2> QED
    BY <1>5, <2>1
<1> QED
  BY <1>6
-----------------------------------------------------------------------------
(* Folds over the members of a finite set, c saying which is taken first.  *)

IsFold(f, D, A, base, h, c) ==
  /\ f \in [SUBSET D -> A]
  /\ f[{}] = base
  /\ \A s \in SUBSET D : s # {} => f[s] = h[<<c[s], f[s \ {c[s]}]>>]

\* Two folds agree where both are defined.
LEMMA FoldUnique ==
  ASSUME NEW D, NEW E, IsFiniteSet(D), D \subseteq E, NEW A, NEW B, NEW base, NEW h, NEW c,
         \A s \in SUBSET D : s # {} => c[s] \in s,
         NEW f, IsFold(f, D, A, base, h, c), NEW g, IsFold(g, E, B, base, h, c)
  PROVE  \A s \in SUBSET D : f[s] = g[s]
<1> DEFINE Bad == {s \in SUBSET D : f[s] # g[s]}
<1>1. SUFFICES ASSUME Bad # {} PROVE FALSE
  OBVIOUS
<1>2. PICK s \in Bad : \A u \in Bad : u \subseteq s => u = s
  <2>1. Bad \subseteq SUBSET D
    OBVIOUS
  <2> HIDE DEF Bad
  <2> QED
    BY <1>1, <2>1, MinimalOne
<1>3. s \in SUBSET D /\ s \in SUBSET E /\ f[s] # g[s]
  OBVIOUS
<1>4. s # {}
  BY <1>3 DEF IsFold
<1>5. c[s] \in s
  BY <1>3, <1>4
<1>6. f[s \ {c[s]}] = g[s \ {c[s]}]
  BY <1>2, <1>3, <1>5
<1> QED
  BY <1>3, <1>4, <1>6 DEF IsFold

LEMMA FoldExists ==
  ASSUME NEW D, IsFiniteSet(D), NEW A, NEW base \in A, NEW h \in [D \X A -> A], NEW c,
         \A s \in SUBSET D : s # {} => c[s] \in s
  PROVE  \E f : IsFold(f, D, A, base, h, c)
<1> DEFINE Bad == {T \in SUBSET D : ~\E f : IsFold(f, T, A, base, h, c)}
<1>1. SUFFICES ASSUME Bad # {} PROVE FALSE
  OBVIOUS
<1>2. PICK T \in Bad : \A U \in Bad : U \subseteq T => U = T
  <2>1. Bad \subseteq SUBSET D
    OBVIOUS
  <2> HIDE DEF Bad
  <2> QED
    BY <1>1, <2>1, MinimalOne
<1>3. T \in SUBSET D /\ ~\E f : IsFold(f, T, A, base, h, c)
  OBVIOUS
<1>4. T # {}
  <2> DEFINE z == [s \in SUBSET {} |-> base]
  <2>1. z \in [SUBSET {} -> A] /\ z[{}] = base
    OBVIOUS
  <2>2. IsFold(z, {}, A, base, h, c)
    BY <2>1 DEF IsFold
  <2> QED
    BY <1>3, <2>2
<1> DEFINE Missing(s) == CHOOSE x \in T : x \notin s
           F == [x \in T |-> CHOOSE f : IsFold(f, T \ {x}, A, base, h, c)]
           Of(s) == F[Missing(s)][s]
           g == [s \in SUBSET T |-> IF s = T THEN h[<<c[T], Of(T \ {c[T]})>>] ELSE Of(s)]
<1>5. \A s \in SUBSET T : s # T => Missing(s) \in T /\ Missing(s) \notin s
  OBVIOUS
<1>6. \A x \in T : IsFold(F[x], T \ {x}, A, base, h, c)
  <2> SUFFICES ASSUME NEW x \in T PROVE \E f : IsFold(f, T \ {x}, A, base, h, c)
    OBVIOUS
  <2>1. T \ {x} \in SUBSET D /\ T \ {x} \subseteq T /\ T \ {x} # T
    BY <1>3
  <2> QED
    BY <1>2, <2>1
<1> HIDE DEF Missing, F
<1>7. \A s \in SUBSET T : s # T => Of(s) \in A
  <2> SUFFICES ASSUME NEW s \in SUBSET T, s # T PROVE Of(s) \in A
    OBVIOUS
  <2> DEFINE m == Missing(s)
  <2>1. m \in T /\ s \in SUBSET (T \ {m})
    BY <1>5
  <2> HIDE DEF m
  <2>2. F[m] \in [SUBSET (T \ {m}) -> A]
    BY <1>6, <2>1 DEF IsFold
  <2>3. F[m][s] \in A
    BY <2>1, <2>2
  <2> QED
    BY <2>3 DEF m
<1>8. \A s \in SUBSET T : s # {} => c[s] \in s
  BY <1>3
<1>9. \A s \in SUBSET T : s # T => \A x \in T : x \notin s => F[x][s] = Of(s)
  <2> SUFFICES ASSUME NEW s \in SUBSET T, s # T, NEW x \in T, x \notin s PROVE F[x][s] = Of(s)
    OBVIOUS
  <2> DEFINE m == Missing(s)
  <2>1. m \in T /\ m \notin s
    BY <1>5
  <2> HIDE DEF m
  <2>2. IsFold(F[x], T \ {x}, A, base, h, c) /\ IsFold(F[m], T \ {m}, A, base, h, c)
    BY <1>6, <2>1
  <2> DEFINE k == [u \in SUBSET s |-> F[x][u]]
  <2>3. IsFiniteSet(s) /\ s \subseteq T \ {x} /\ s \subseteq T \ {m}
    BY <1>3, <2>1, FS_Subset
  <2>4. IsFold(k, s, A, base, h, c)
    <3>1. k \in [SUBSET s -> A] /\ k[{}] = base
      BY <2>2, <2>3 DEF IsFold
    <3>2. ASSUME NEW u \in SUBSET s, u # {} PROVE k[u] = h[<<c[u], k[u \ {c[u]}]>>]
      <4>1. u \in SUBSET (T \ {x}) /\ u \ {c[u]} \in SUBSET s
        BY <2>3
      <4> QED
        BY <2>2, <3>2, <4>1 DEF IsFold
    <3> HIDE DEF k
    <3> QED
      BY <3>1, <3>2 DEF IsFold
  <2>5. \A u \in SUBSET s : u # {} => c[u] \in u
    BY <1>8
  <2>6. k[s] = F[x][s]
    OBVIOUS
  <2> HIDE DEF k
  <2>7. k[s] = F[m][s]
    <3>1. s \in SUBSET s
      OBVIOUS
    <3> QED
      BY <2>2, <2>3, <2>4, <2>5, <3>1, FoldUnique
  <2> QED
    BY <2>6, <2>7 DEF m
<1> HIDE DEF Of
<1>10. c[T] \in T /\ T \ {c[T]} \in SUBSET T /\ T \ {c[T]} # T
  BY <1>4, <1>8
<1>11. g \in [SUBSET T -> A]
  <2>1. h[<<c[T], Of(T \ {c[T]})>>] \in A
    BY <1>3, <1>7, <1>10
  <2>2. \A s \in SUBSET T : s # T => Of(s) \in A
    BY <1>7
  <2>3. \A s \in SUBSET T : g[s] \in A
    BY <2>1, <2>2
  <2> QED
    BY <2>3
<1>12. g[{}] = base
  <2>1. {} \in SUBSET T /\ {} # T
    BY <1>4
  <2>2. PICK x \in T : TRUE
    BY <1>4
  <2>3. F[x][{}] = base
    BY <1>6 DEF IsFold
  <2>4. Of({}) = base
    BY <1>9, <2>1, <2>2, <2>3
  <2> QED
    BY <2>1, <2>4
<1>13. ASSUME NEW s \in SUBSET T, s # {} PROVE g[s] = h[<<c[s], g[s \ {c[s]}]>>]
  <2>1. c[s] \in s /\ s \ {c[s]} \in SUBSET T /\ s \ {c[s]} # T
    BY <1>8, <1>13
  <2>2. g[s \ {c[s]}] = Of(s \ {c[s]})
    BY <2>1
  <2>3. CASE s = T
    <3>1. g[T] = h[<<c[T], Of(T \ {c[T]})>>]
      OBVIOUS
    <3> HIDE DEF g
    <3> QED
      BY <2>2, <2>3, <3>1
  <2>4. CASE s # T
    <3> DEFINE x == Missing(s)
    <3>1. x \in T /\ x \notin s
      BY <1>5, <2>4
    <3> HIDE DEF x
    <3>2. s \in SUBSET (T \ {x}) /\ x \notin s \ {c[s]}
      BY <3>1
    <3>3. F[x][s] = h[<<c[s], F[x][s \ {c[s]}]>>]
      BY <1>6, <1>13, <3>1, <3>2 DEF IsFold
    <3>4. F[x][s] = Of(s) /\ F[x][s \ {c[s]}] = Of(s \ {c[s]})
      BY <1>9, <2>1, <2>4, <3>1, <3>2
    <3>5. g[s] = Of(s)
      BY <2>4
    <3> HIDE DEF g
    <3> QED
      BY <2>2, <3>3, <3>4, <3>5
  <2> QED
    BY <2>3, <2>4
<1> HIDE DEF g
<1>14. IsFold(g, T, A, base, h, c)
  BY <1>11, <1>12, <1>13 DEF IsFold
<1> QED
  BY <1>3, <1>14
-----------------------------------------------------------------------------
(* Sums over the members of a finite set.                                  *)

\* g adds up the weights w of the members of every subset of D, in A.
AddsUp(g, w, D, A) ==
  /\ g \in [SUBSET D -> A]
  /\ g[{}] = 0
  /\ \A s \in SUBSET D : \A x \in s : g[s] = w[x] + g[s \ {x}]

SumsIn(A) == A \subseteq Int /\ 0 \in A /\ \A m, n \in A : m + n \in A

\* There is such a function: a smallest set without one would be one member
\* larger than a set with one.
LEMMA SumExists ==
  ASSUME NEW D, IsFiniteSet(D), NEW A, SumsIn(A), NEW w, \A x \in D : w[x] \in A
  PROVE  \E g : AddsUp(g, w, D, A)
<1> DEFINE Bad == {T \in SUBSET D : ~\E g : AddsUp(g, w, T, A)}
<1>1. SUFFICES ASSUME Bad # {} PROVE FALSE
  OBVIOUS
<1>2. PICK T \in Bad : \A U \in Bad : U \subseteq T => U = T
  <2>1. Bad \subseteq SUBSET D
    OBVIOUS
  <2> HIDE DEF Bad
  <2> QED
    BY <1>1, <2>1, MinimalOne
<1>3. T \in SUBSET D /\ ~\E g : AddsUp(g, w, T, A)
  OBVIOUS
<1>4. A \subseteq Int /\ 0 \in A /\ \A m, n \in A : m + n \in A
  BY DEF SumsIn
<1>5. T # {}
  <2> DEFINE z == [s \in SUBSET {} |-> 0]
  <2>1. AddsUp(z, w, {}, A)
    BY <1>4 DEF AddsUp
  <2> QED
    BY <1>3, <2>1
<1>6. PICK x \in T : TRUE
  BY <1>5
<1> DEFINE U == T \ {x}
<1>8. PICK h : AddsUp(h, w, U, A)
  <2>1. U \in SUBSET D /\ U \subseteq T /\ U # T
    BY <1>3, <1>6
  <2> HIDE DEF U
  <2> QED
    BY <1>2, <2>1
<1> DEFINE g == [s \in SUBSET T |-> h[s \ {x}] + (IF x \in s THEN w[x] ELSE 0)]
<1>9. \A y \in T : w[y] \in A /\ w[y] \in Int
  BY <1>3, <1>4
<1>10. \A s \in SUBSET T : s \ {x} \in SUBSET U /\ h[s \ {x}] \in A /\ h[s \ {x}] \in Int
  BY <1>4, <1>8 DEF AddsUp
<1>11. g \in [SUBSET T -> A] /\ g[{}] = 0
  <2>1. \A s \in SUBSET T : h[s \ {x}] + (IF x \in s THEN w[x] ELSE 0) \in A
    <3>1. \A s \in SUBSET T : (IF x \in s THEN w[x] ELSE 0) \in A
      BY <1>4, <1>9
    <3> QED
      BY <1>4, <1>10, <3>1
  <2>2. {} \ {x} = {} /\ h[{}] = 0
    BY <1>8 DEF AddsUp
  <2> QED
    BY <2>1, <2>2
<1>12. ASSUME NEW s \in SUBSET T, NEW y \in s
       PROVE  g[s] = w[y] + g[s \ {y}]
  <2>1. s \ {y} \in SUBSET T
    OBVIOUS
  <2>2. CASE y = x
    <3>1. (s \ {y}) \ {x} = s \ {x} /\ x \notin s \ {y}
      BY <2>2
    <3>2. g[s] = h[s \ {x}] + w[x] /\ g[s \ {y}] = h[s \ {x}] + 0
      BY <2>1, <2>2, <3>1
    <3>3. h[s \ {x}] \in Int /\ w[x] \in Int
      BY <1>9, <1>10
    <3> HIDE DEF g
    <3> QED
      BY <2>2, <3>2, <3>3
  <2>3. CASE y # x
    <3>1. y \in s \ {x} /\ (s \ {x}) \ {y} = (s \ {y}) \ {x} /\ (x \in s <=> x \in s \ {y})
      BY <2>3
    <3>2. h[s \ {x}] = w[y] + h[(s \ {y}) \ {x}]
      <4> DEFINE v == s \ {x}
      <4>1. v \in SUBSET U /\ y \in v /\ v \ {y} = (s \ {y}) \ {x}
        BY <1>10, <3>1
      <4>2. \A t \in SUBSET U : \A z \in t : h[t] = w[z] + h[t \ {z}]
        BY <1>8 DEF AddsUp
      <4> HIDE DEF v, U
      <4>3. h[v] = w[y] + h[v \ {y}]
        BY <4>1, <4>2
      <4> QED
        BY <4>1, <4>3 DEF v
    <3>3. h[(s \ {y}) \ {x}] \in Int /\ w[y] \in Int /\ w[x] \in Int
      BY <1>9, <1>10, <2>1
    <3>4. /\ g[s] = h[s \ {x}] + (IF x \in s THEN w[x] ELSE 0)
          /\ g[s \ {y}] = h[(s \ {y}) \ {x}] + (IF x \in s THEN w[x] ELSE 0)
      BY <2>1, <3>1
    <3> HIDE DEF g
    <3> QED
      BY <3>2, <3>3, <3>4
  <2> QED
    BY <2>2, <2>3
<1> HIDE DEF g
<1> QED
  BY <1>3, <1>11, <1>12 DEF AddsUp

\* f is the fold by which MapThenSumSet adds the weights of S.
FirstOf(s) == CHOOSE x \in s : TRUE
SumFold(f, w, S) == f = [s \in SUBSET S |-> IF s = {} THEN 0
                                           ELSE w[FirstOf(s)] + f[s \ {FirstOf(s)}]]

\* What it comes to, whatever the order.
LEMMA SumFoldIs ==
  ASSUME NEW D, IsFiniteSet(D), NEW A, NEW w, NEW g, AddsUp(g, w, D, A), NEW S \in SUBSET D
  PROVE  /\ \E f : SumFold(f, w, S)
         /\ \A f : SumFold(f, w, S) => f[S] = g[S]
<1> DEFINE h == [s \in SUBSET S |-> g[s]]
<1>1. SumFold(h, w, S)
  <2>1. \A s \in SUBSET S : s # {} => FirstOf(s) \in s /\ s \in SUBSET D
    BY DEF FirstOf
  <2>2. \A s \in SUBSET S : s # {} => g[s] = w[FirstOf(s)] + g[s \ {FirstOf(s)}]
    BY <2>1 DEF AddsUp
  <2> QED
    BY <2>2 DEF AddsUp, SumFold
<1> SUFFICES ASSUME NEW f, SumFold(f, w, S) PROVE f[S] = g[S]
  BY <1>1
<1> DEFINE Bad == {s \in SUBSET S : f[s] # g[s]}
<1>2. SUFFICES ASSUME Bad # {} PROVE FALSE
  OBVIOUS
<1>3. PICK s \in Bad : \A u \in Bad : u \subseteq s => u = s
  <2>1. Bad \subseteq SUBSET D
    OBVIOUS
  <2> HIDE DEF Bad
  <2> QED
    BY <1>2, <2>1, MinimalOne
<1>4. s \in SUBSET S /\ s \in SUBSET D /\ f[s] # g[s]
  OBVIOUS
<1>5. s # {}
  BY <1>4 DEF SumFold, AddsUp
<1> DEFINE x == FirstOf(s)
<1>6. x \in s
  BY <1>5 DEF FirstOf
<1>7. f[s \ {x}] = g[s \ {x}]
  BY <1>3, <1>4, <1>6
<1>8. f[s] = w[x] + f[s \ {x}]
  BY <1>4, <1>5 DEF SumFold
<1>9. g[s] = w[x] + g[s \ {x}]
  BY <1>4, <1>6 DEF AddsUp
<1> QED
  BY <1>4, <1>7, <1>8, <1>9
=============================================================================
