------------------------ MODULE PreparedTablesProofs ------------------------
(***************************************************************************)
(* What the operators on tables return: a set laid out in an order has     *)
(* every member once, at the place its predecessors leave it; BY keys are  *)
(* in one order; and shaping, sorting and marking keep a table a table.    *)
(***************************************************************************)
EXTENDS PreparedTables, DataInduction, SequenceTheorems

-----------------------------------------------------------------------------
(* Finite images, sequences, numbers                                       *)

LEMMA ImageIsFinite ==
  ASSUME NEW f, IsFiniteSet(DOMAIN f)
  PROVE  IsFiniteSet({f[x] : x \in DOMAIN f})
<1> DEFINE S == DOMAIN f
           T == {f[x] : x \in S}
           g == [x \in S |-> f[x]]
<1>1. g \in [S -> T] /\ \A y \in T : \E x \in S : g[x] = y
  OBVIOUS
<1> HIDE DEF T, g
<1>2. g \in Surjection(S, T)
  BY <1>1 DEF Surjection
<1>3. IsFiniteSet(T)
  BY <1>2, FS_Surjection
<1> QED
  BY <1>3 DEF T

(* a sequence of its own elements *)
LEMMA OneMore ==
  ASSUME NEW s, s \in Seq(ToSet(s)), NEW e
  PROVE  LET a == Append(s, e)
         IN  /\ a \in Seq(ToSet(a)) /\ Len(a) = Len(s) + 1 /\ Len(s) \in Nat
             /\ DOMAIN a = 1..(Len(s) + 1) /\ DOMAIN s = 1..Len(s)
             /\ a[Len(s) + 1] = e /\ \A k \in 1..Len(s) : a[k] = s[k]
<1> DEFINE S == ToSet(s) \cup {e}
           a == Append(s, e)
<1>1. s \in Seq(S) /\ e \in S
  OBVIOUS
<1> HIDE DEF S
<1>2. /\ a \in Seq(S) /\ Len(a) = Len(s) + 1 /\ Len(s) \in Nat
      /\ DOMAIN a = 1..(Len(s) + 1) /\ DOMAIN s = 1..Len(s)
      /\ a[Len(s) + 1] = e /\ \A k \in 1..Len(s) : a[k] = s[k]
  BY <1>1, WithOneMore
<1> HIDE DEF a
<1>3. a \in Seq(ToSet(a))
  <2>1. \A k \in 1..Len(a) : a[k] \in ToSet(a)
    BY <1>2 DEF ToSet
  <2> QED
    BY <1>2, <2>1
<1> QED
  BY <1>2, <1>3 DEF a

LEMMA OwnElements ==
  ASSUME NEW V, NEW s \in Seq(V)
  PROVE  s \in Seq(ToSet(s)) /\ DOMAIN s = 1..Len(s) /\ Len(s) \in Nat /\ \A k \in 1..Len(s) : s[k] \in V
<1>1. DOMAIN s = 1..Len(s) /\ Len(s) \in Nat /\ \A k \in 1..Len(s) : s[k] \in V
  OBVIOUS
<1>2. \A k \in 1..Len(s) : s[k] \in ToSet(s)
  BY <1>1 DEF ToSet
<1> QED
  BY <1>1, <1>2

LEMMA WithoutHead ==
  ASSUME NEW V, NEW s \in Seq(V), s # <<>>
  PROVE  /\ Len(s) \in Nat /\ Len(s) >= 1 /\ DOMAIN s = 1..Len(s) /\ Head(s) = s[1] /\ s[1] \in V
         /\ Tail(s) \in Seq(V) /\ Len(Tail(s)) = Len(s) - 1 /\ DOMAIN Tail(s) = 1..(Len(s) - 1)
         /\ \A k \in 1..(Len(s) - 1) : Tail(s)[k] = s[k + 1]
OBVIOUS

LEMMA RestOfSequence ==
  ASSUME NEW V, NEW s \in Seq(V), NEW r \in 0..Len(s)
  PROVE  LET u == SubSeq(s, r + 1, Len(s))
         IN  /\ u \in Seq(V) /\ (u = <<>> <=> r = Len(s))
             /\ r < Len(s) => Head(u) = s[r + 1] /\ Tail(u) = SubSeq(s, (r + 1) + 1, Len(s))
<1> DEFINE u == SubSeq(s, r + 1, Len(s))
           m == Len(s) - r
<1>1. Len(s) \in Nat /\ r \in Nat /\ r <= Len(s) /\ DOMAIN s = 1..Len(s)
  OBVIOUS
<1>2. \A i \in 1..Len(s) : s[i] \in V
  OBVIOUS
<1>3. m \in Nat /\ Len(s) = m + r
  BY <1>1
<1>4. u = [i \in 1..m |-> s[i + r]]
  <2>1. u = [i \in 1..(Len(s) - (r + 1) + 1) |-> s[(r + 1) + i - 1]]
    BY <1>1
  <2>2. Len(s) - (r + 1) + 1 = m
    BY <1>1
  <2> HIDE DEF u, m
  <2>3. \A i \in 1..m : (r + 1) + i - 1 = i + r
    BY <1>1, <1>3
  <2> QED
    BY <2>1, <2>2, <2>3
<1> HIDE DEF u, m
<1>5. \A i \in 1..m : i + r \in 1..Len(s)
  BY <1>1, <1>3
<1>6. u \in [1..m -> V]
  BY <1>2, <1>4, <1>5
<1>7. u \in Seq(V) /\ Len(u) = m
  BY <1>3, <1>6
<1>8. u = <<>> <=> r = Len(s)
  <2>1. u = <<>> <=> Len(u) = 0
    BY <1>7
  <2> QED
    BY <1>1, <1>3, <1>7, <2>1
<1>9. ASSUME r < Len(s)
      PROVE  Head(u) = s[r + 1] /\ Tail(u) = SubSeq(s, (r + 1) + 1, Len(s))
  <2> DEFINE v == SubSeq(s, (r + 1) + 1, Len(s))
             n == m - 1
  <2>1. m >= 1 /\ n \in Nat /\ m = n + 1 /\ u # <<>>
    BY <1>1, <1>3, <1>8, <1>9
  <2>2. /\ Head(u) = u[1] /\ Tail(u) \in Seq(V) /\ Len(Tail(u)) = n
        /\ \A i \in 1..n : Tail(u)[i] = u[i + 1]
    BY <1>7, <2>1, WithoutHead
  <2>3. Head(u) = s[r + 1]
    <3>1. 1 \in 1..m /\ 1 + r = r + 1
      BY <1>1, <1>3, <2>1
    <3> QED
      BY <1>4, <2>2, <3>1
  <2>4. v = [i \in 1..n |-> s[i + (r + 1)]]
    <3>1. v = [i \in 1..(Len(s) - ((r + 1) + 1) + 1) |-> s[((r + 1) + 1) + i - 1]]
      BY <1>1, <1>9
    <3>2. Len(s) - ((r + 1) + 1) + 1 = n
      BY <1>1, <1>3, <2>1
    <3> HIDE DEF v, n
    <3>3. \A i \in 1..n : ((r + 1) + 1) + i - 1 = i + (r + 1)
      BY <1>1, <2>1
    <3> QED
      BY <3>1, <3>2, <3>3
  <2> HIDE DEF v, n
  <2>5. \A i \in 1..n : i + 1 \in 1..m /\ (i + 1) + r = i + (r + 1) /\ i + (r + 1) \in 1..Len(s)
    BY <1>1, <1>3, <2>1
  <2>6. \A i \in 1..n : Tail(u)[i] = v[i]
    BY <1>4, <2>2, <2>4, <2>5
  <2>7. v \in [1..n -> V]
    BY <1>2, <2>4, <2>5
  <2>8. v \in Seq(V) /\ Len(v) = n
    BY <2>1, <2>7
  <2>9. Tail(u) = v
    BY <2>1, <2>2, <2>6, <2>8
  <2> QED
    BY <2>3, <2>9 DEF v
<1> QED
  BY <1>7, <1>8, <1>9 DEF u

LEMMA CountOfInterval ==
  ASSUME NEW n \in Nat
  PROVE  IsFiniteSet(1..n) /\ Cardinality(1..n) = n
<1>1. 1 \in Int /\ n \in Int
  OBVIOUS
<1>2. IsFiniteSet(1..n) /\ Cardinality(1..n) = IF 1 > n THEN 0 ELSE n - 1 + 1
  BY <1>1, FS_Interval, Zenon
<1> QED
  BY <1>2

-----------------------------------------------------------------------------
(* Sets laid out in an order                                               *)

Rank(S, R, x) == Cardinality(Before(S, R, x))

LEMMA RanksAreNumbers ==
  ASSUME NEW S, IsFiniteSet(S), NEW R, Orders(R, S), NEW x \in S
  PROVE  Rank(S, R, x) \in 0..(Cardinality(S) - 1)
<1>1. Before(S, R, x) \in SUBSET (S \ {x})
  BY DEF Before, Orders
<1>2. IsFiniteSet(S \ {x}) /\ Cardinality(S \ {x}) = Cardinality(S) - 1
  BY FS_RemoveElement
<1>3. /\ IsFiniteSet(Before(S, R, x))
      /\ Cardinality(Before(S, R, x)) <= Cardinality(S \ {x})
  BY <1>1, <1>2, FS_Subset
<1>4. Cardinality(Before(S, R, x)) \in Nat /\ Cardinality(S) \in Nat
  BY <1>3, FS_CardinalityType
<1> QED
  BY <1>2, <1>3, <1>4 DEF Rank

LEMMA RanksGrow ==
  ASSUME NEW S, IsFiniteSet(S), NEW R, Orders(R, S), NEW x \in S, NEW y \in S, <<x, y>> \in R
  PROVE  Rank(S, R, x) < Rank(S, R, y)
<1> DEFINE B == Before(S, R, x)
           C == Before(S, R, y)
<1>1. x \notin B /\ B \cup {x} \in SUBSET C /\ B \in SUBSET S /\ C \in SUBSET S
  BY DEF Before, Orders
<1>2. IsFiniteSet(B) /\ IsFiniteSet(C)
  BY <1>1, FS_Subset
<1>3. IsFiniteSet(B \cup {x}) /\ Cardinality(B \cup {x}) = Cardinality(B) + 1
  BY <1>1, <1>2, FS_AddElement
<1>4. Cardinality(B \cup {x}) <= Cardinality(C)
  BY <1>1, <1>2, FS_Subset
<1>5. Cardinality(B) \in Nat /\ Cardinality(C) \in Nat
  BY <1>2, FS_CardinalityType
<1> QED
  BY <1>3, <1>4, <1>5 DEF Rank

LEMMA RanksDiffer ==
  ASSUME NEW S, IsFiniteSet(S), NEW R, Orders(R, S), NEW x \in S, NEW y \in S,
         Rank(S, R, x) = Rank(S, R, y)
  PROVE  x = y
<1> SUFFICES ASSUME x # y PROVE FALSE
  OBVIOUS
<1>1. <<x, y>> \in R \/ <<y, x>> \in R
  BY DEF Orders
<1>2. Rank(S, R, x) \in Int /\ Rank(S, R, y) \in Int
  BY RanksAreNumbers
<1> QED
  BY <1>1, <1>2, RanksGrow

(* every place is taken *)
LEMMA PlacesAreTaken ==
  ASSUME NEW S, IsFiniteSet(S), NEW R, Orders(R, S), NEW p \in 1..Cardinality(S)
  PROVE  \E x \in S : Rank(S, R, x) = p - 1
<1> DEFINE n == Cardinality(S)
           f == [x \in S |-> Rank(S, R, x)]
<1>1. n \in Nat
  BY FS_CardinalityType
<1>2. IsFiniteSet(0..(n - 1)) /\ Cardinality(0..(n - 1)) = n
  <2> HIDE DEF n
  <2>1. 0 \in Int /\ n - 1 \in Int
    BY <1>1
  <2>2. /\ IsFiniteSet(0..(n - 1))
        /\ Cardinality(0..(n - 1)) = IF 0 > n - 1 THEN 0 ELSE (n - 1) - 0 + 1
    BY <2>1, FS_Interval, Zenon
  <2> QED
    BY <1>1, <2>2
<1>3. f \in [S -> 0..(n - 1)]
  BY RanksAreNumbers
<1>4. \A x, y \in S : f[x] = f[y] => x = y
  BY RanksDiffer
<1>5. f \in Injection(S, 0..(n - 1))
  BY <1>3, <1>4 DEF Injection, IsInjective
<1>6. f \in Surjection(S, 0..(n - 1))
  BY <1>2, <1>5, FS_Injection
<1>7. p - 1 \in 0..(n - 1)
  BY <1>1
<1> HIDE DEF n
<1>8. \E x \in S : f[x] = p - 1
  BY <1>6, <1>7 DEF Surjection
<1> QED
  BY <1>8

(* Every member is at the place after its predecessors, and only members   *)
(* are listed.                                                             *)
LEMMA ListedInOrder ==
  ASSUME NEW S, IsFiniteSet(S), NEW R, Orders(R, S)
  PROVE  LET L == Listed(S, R)
         IN  /\ L \in Seq(S) /\ Len(L) = Cardinality(S) /\ DOMAIN L = 1..Cardinality(S)
             /\ \A p \in DOMAIN L : L[p] \in S /\ Rank(S, R, L[p]) = p - 1
             /\ \A x \in S : Rank(S, R, x) + 1 \in DOMAIN L /\ L[Rank(S, R, x) + 1] = x
             /\ \A p, q \in DOMAIN L : p < q => <<L[p], L[q]>> \in R
<1> DEFINE L == Listed(S, R)
           n == Cardinality(S)
<1>1. n \in Nat
  BY FS_CardinalityType
<1>2. DOMAIN L = 1..n /\ L = [p \in 1..n |-> L[p]]
  BY DEF Listed
<1>3. ASSUME NEW p \in 1..n
      PROVE  L[p] \in S /\ Rank(S, R, L[p]) = p - 1
  <2>1. \E x \in S : Cardinality(Before(S, R, x)) = p - 1
    BY PlacesAreTaken DEF Rank
  <2>2. L[p] = CHOOSE x \in S : Cardinality(Before(S, R, x)) = p - 1
    BY DEF Listed
  <2> QED
    BY <2>1, <2>2 DEF Rank
<1> HIDE DEF L, n
<1>4. L \in Seq(S) /\ Len(L) = n
  BY <1>1, <1>2, <1>3
<1>5. ASSUME NEW x \in S
      PROVE  Rank(S, R, x) + 1 \in DOMAIN L /\ L[Rank(S, R, x) + 1] = x
  <2>1. Rank(S, R, x) \in 0..(n - 1)
    BY RanksAreNumbers DEF n
  <2>2. Rank(S, R, x) + 1 \in 1..n
    BY <2>1, <1>1
  <2>3. L[Rank(S, R, x) + 1] \in S /\ Rank(S, R, L[Rank(S, R, x) + 1]) = Rank(S, R, x)
    BY <2>1, <2>2, <1>3
  <2> QED
    BY <2>2, <2>3, <1>2, RanksDiffer
<1>6. ASSUME NEW p \in 1..n, NEW q \in 1..n, p < q
      PROVE  <<L[p], L[q]>> \in R
  <2>1. L[p] \in S /\ L[q] \in S /\ Rank(S, R, L[p]) = p - 1 /\ Rank(S, R, L[q]) = q - 1
    BY <1>3
  <2>2. L[p] # L[q]
    BY <2>1, <1>6
  <2>3. CASE <<L[q], L[p]>> \in R
    <3>1. q - 1 < p - 1
      BY <2>1, <2>3, RanksGrow
    <3> QED
      BY <3>1, <1>6
  <2> QED
    BY <2>1, <2>2, <2>3 DEF Orders
<1> QED
  BY <1>2, <1>3, <1>4, <1>5, <1>6 DEF L, n

(* a finite set of numbers has a greatest one *)
LEMMA GreatestNumber ==
  ASSUME NEW S, S \subseteq Nat, S # {}, IsFiniteSet(S)
  PROVE  \E m \in S : \A n \in S : n <= m
<1> DEFINE R == {e \in S \X S : e[1] < e[2]}
           N == Cardinality(S)
<1>1. Orders(R, S)
  BY DEF Orders
<1>2. N \in Nat /\ N # 0
  BY FS_CardinalityType, FS_EmptySet
<1>3. N \in 1..N
  BY <1>2
<1>4. \A x, y \in S : x < y => <<x, y>> \in R
  OBVIOUS
<1> HIDE DEF R
<1>5. PICK m \in S : Rank(S, R, m) = N - 1
  BY <1>1, <1>3, PlacesAreTaken
<1>6. ASSUME NEW n \in S, m < n
      PROVE  FALSE
  <2>1. Rank(S, R, m) < Rank(S, R, n) /\ Rank(S, R, n) \in 0..(N - 1)
    BY <1>1, <1>4, <1>6, RanksGrow, RanksAreNumbers
  <2> QED
    BY <1>2, <1>5, <2>1
<1>7. \A n \in S : n \in Nat /\ m \in Nat
  OBVIOUS
<1> QED
  BY <1>6, <1>7

(* a set of numbers in ascending order *)
LEMMA NumberedInOrder ==
  ASSUME NEW I, I \subseteq Int, IsFiniteSet(I)
  PROVE  LET L == Numbered(I)
         IN  /\ L \in Seq(I) /\ Len(L) = Cardinality(I) /\ DOMAIN L = 1..Cardinality(I)
             /\ \A p \in DOMAIN L : L[p] \in I /\ Cardinality({j \in I : j < L[p]}) = p - 1
             /\ \A i \in I : LET p == Cardinality({j \in I : j < i}) + 1
                             IN  p \in DOMAIN L /\ L[p] = i
             /\ \A p, q \in DOMAIN L : p < q => L[p] < L[q]
<1> DEFINE R == {e \in I \X I : e[1] < e[2]}
<1>1. Orders(R, I)
  BY DEF Orders
<1>2. ASSUME NEW i \in I
      PROVE  Before(I, R, i) = {j \in I : j < i}
  BY DEF Before
<1> DEFINE Pick(p) == CHOOSE i \in I : Cardinality({j \in I : j < i}) = p - 1
           Same(p) == CHOOSE i \in I : Cardinality(Before(I, R, i)) = p - 1
<1>3. ASSUME NEW p \in 1..Cardinality(I)
      PROVE  Pick(p) = Same(p)
  <2> HIDE DEF R
  <2>1. \A i \in I : Cardinality({j \in I : j < i}) = p - 1 <=> Cardinality(Before(I, R, i)) = p - 1
    BY <1>2
  <2> QED
    BY <2>1
<1>4. Numbered(I) = Listed(I, R)
  <2>1. Numbered(I) = [p \in 1..Cardinality(I) |-> Pick(p)]
    BY DEF Numbered
  <2>2. Listed(I, R) = [p \in 1..Cardinality(I) |-> Same(p)]
    BY DEF Listed
  <2> HIDE DEF Pick, Same
  <2> QED
    BY <1>3, <2>1, <2>2
<1>5. \A x, y \in I : <<x, y>> \in R => x < y
  OBVIOUS
<1> DEFINE L == Listed(I, R)
<1> HIDE DEF R
<1>6. /\ L \in Seq(I) /\ Len(L) = Cardinality(I) /\ DOMAIN L = 1..Cardinality(I)
      /\ \A p \in DOMAIN L : L[p] \in I /\ Rank(I, R, L[p]) = p - 1
      /\ \A x \in I : Rank(I, R, x) + 1 \in DOMAIN L /\ L[Rank(I, R, x) + 1] = x
      /\ \A p, q \in DOMAIN L : p < q => <<L[p], L[q]>> \in R
  BY <1>1, ListedInOrder
<1> HIDE DEF L
<1> QED
  BY <1>2, <1>4, <1>5, <1>6 DEF Rank, L

(* what a sequence has at some of its places, in the order of the places   *)
LEMMA SelectedInOrder ==
  ASSUME NEW V, NEW s \in Seq(V), NEW I \in SUBSET DOMAIN s
  PROVE  LET c == Selected(s, I)
         IN  /\ c \in Seq(V) /\ Len(c) = Cardinality(I) /\ DOMAIN c = 1..Cardinality(I)
             /\ IsFiniteSet(I) /\ Cardinality(I) \in Nat
             /\ \A p \in DOMAIN c : Numbered(I)[p] \in I /\ c[p] = s[Numbered(I)[p]]
             /\ \A i \in I : \E p \in DOMAIN c : Numbered(I)[p] = i
             /\ \A p, q \in DOMAIN c : p < q => Numbered(I)[p] < Numbered(I)[q]
<1> DEFINE c == Selected(s, I)
           L == Numbered(I)
<1>1. DOMAIN s = 1..Len(s) /\ Len(s) \in Nat /\ \A i \in DOMAIN s : s[i] \in V
  OBVIOUS
<1>2. IsFiniteSet(I) /\ I \subseteq Int
  <2>1. IsFiniteSet(1..Len(s))
    BY <1>1, FS_Interval
  <2> QED
    BY <1>1, <2>1, FS_Subset
<1>3. /\ L \in Seq(I) /\ DOMAIN L = 1..Cardinality(I)
      /\ \A p \in DOMAIN L : L[p] \in I
      /\ \A i \in I : \E p \in DOMAIN L : L[p] = i
      /\ \A p, q \in DOMAIN L : p < q => L[p] < L[q]
  <2>1. /\ L \in Seq(I) /\ DOMAIN L = 1..Cardinality(I)
        /\ \A p \in DOMAIN L : L[p] \in I /\ Cardinality({j \in I : j < L[p]}) = p - 1
        /\ \A i \in I : LET p == Cardinality({j \in I : j < i}) + 1
                        IN  p \in DOMAIN L /\ L[p] = i
        /\ \A p, q \in DOMAIN L : p < q => L[p] < L[q]
    BY <1>2, NumberedInOrder
  <2> QED
    BY <2>1
<1>4. Cardinality(I) \in Nat
  BY <1>2, FS_CardinalityType
<1>5. c = [p \in 1..Cardinality(I) |-> s[L[p]]]
  BY DEF Selected
<1> HIDE DEF c, L
<1>6. \A p \in 1..Cardinality(I) : s[L[p]] \in V
  BY <1>1, <1>3
<1>7. c \in Seq(V) /\ Len(c) = Cardinality(I)
  BY <1>4, <1>5, <1>6
<1> QED
  BY <1>2, <1>3, <1>4, <1>5, <1>7 DEF c, L

-----------------------------------------------------------------------------
(* The order of BY keys                                                    *)

LEMMA ValuesAreOrdered ==
  /\ \A v \in Cells : ~Precedes(v, v)
  /\ \A v, w \in Cells : Precedes(v, w) => ~Precedes(w, v)
  /\ \A v, w \in Cells : v # w => Precedes(v, w) \/ Precedes(w, v)
  /\ \A u, v, w \in Cells : Precedes(u, v) /\ Precedes(v, w) => Precedes(u, w)
BY NullAssumption DEF Cells, Precedes

(* missing values last, the first column that differs decides *)
LEMMA KeysAreOrdered ==
  ASSUME NEW n \in Nat, NEW k \in [1..n -> Cells], NEW l \in [1..n -> Cells]
  PROVE  /\ ~KeyPrecedes(k, k)
         /\ KeyPrecedes(k, l) => ~KeyPrecedes(l, k)
         /\ k # l => KeyPrecedes(k, l) \/ KeyPrecedes(l, k)
         /\ \A m \in [1..n -> Cells] : KeyPrecedes(k, l) /\ KeyPrecedes(l, m) => KeyPrecedes(k, m)
<1>1. DOMAIN k = 1..n /\ DOMAIN l = 1..n /\ \A i \in 1..n : k[i] \in Cells /\ l[i] \in Cells
  OBVIOUS
<1>2. ~KeyPrecedes(k, k)
  BY <1>1, ValuesAreOrdered DEF KeyPrecedes
<1>3. ASSUME KeyPrecedes(k, l), KeyPrecedes(l, k)
      PROVE  FALSE
  <2>1. PICK i \in 1..n : Precedes(k[i], l[i]) /\ \A h \in 1..(i - 1) : k[h] = l[h]
    BY <1>1, <1>3 DEF KeyPrecedes
  <2>2. PICK j \in 1..n : Precedes(l[j], k[j]) /\ \A h \in 1..(j - 1) : l[h] = k[h]
    BY <1>1, <1>3 DEF KeyPrecedes
  <2>3. CASE i < j
    <3>1. k[i] = l[i]
      BY <2>2, <2>3
    <3> QED
      BY <1>1, <2>1, <3>1, ValuesAreOrdered
  <2>4. CASE j < i
    <3>1. k[j] = l[j]
      BY <2>1, <2>4
    <3> QED
      BY <1>1, <2>2, <3>1, ValuesAreOrdered
  <2>5. CASE i = j
    BY <1>1, <2>1, <2>2, <2>5, ValuesAreOrdered
  <2> QED
    BY <2>3, <2>4, <2>5
<1>4. ASSUME k # l
      PROVE  KeyPrecedes(k, l) \/ KeyPrecedes(l, k)
  <2> DEFINE D == {i \in 1..n : k[i] # l[i]}
  <2>1. D \subseteq Nat /\ D # {}
    BY <1>1, <1>4
  <2>2. PICK i \in D : \A j \in D : i <= j
    BY <2>1, LeastNumber
  <2>3. i \in 1..n /\ k[i] # l[i] /\ \A h \in 1..(i - 1) : k[h] = l[h]
    BY <2>2
  <2>4. Precedes(k[i], l[i]) \/ Precedes(l[i], k[i])
    BY <1>1, <2>3, ValuesAreOrdered
  <2> QED
    BY <1>1, <2>3, <2>4 DEF KeyPrecedes
<1>5. ASSUME NEW m \in [1..n -> Cells], KeyPrecedes(k, l), KeyPrecedes(l, m)
      PROVE  KeyPrecedes(k, m)
  <2>1. PICK i \in 1..n : Precedes(k[i], l[i]) /\ \A h \in 1..(i - 1) : k[h] = l[h]
    BY <1>1, <1>5 DEF KeyPrecedes
  <2>2. PICK j \in 1..n : Precedes(l[j], m[j]) /\ \A h \in 1..(j - 1) : l[h] = m[h]
    BY <1>1, <1>5 DEF KeyPrecedes
  <2>3. m[i] \in Cells /\ m[j] \in Cells
    OBVIOUS
  <2>4. CASE i < j
    <3>1. Precedes(k[i], m[i]) /\ \A h \in 1..(i - 1) : k[h] = m[h]
      BY <2>1, <2>2, <2>4
    <3> QED
      BY <1>1, <3>1 DEF KeyPrecedes
  <2>5. CASE j < i
    <3>1. Precedes(k[j], m[j]) /\ \A h \in 1..(j - 1) : k[h] = m[h]
      BY <2>1, <2>2, <2>5
    <3> QED
      BY <1>1, <3>1 DEF KeyPrecedes
  <2>6. CASE i = j
    <3>1. Precedes(k[i], m[i])
      BY <1>1, <2>1, <2>2, <2>3, <2>6, ValuesAreOrdered
    <3>2. \A h \in 1..(i - 1) : k[h] = m[h]
      BY <2>1, <2>2, <2>6
    <3> QED
      BY <1>1, <3>1, <3>2 DEF KeyPrecedes
  <2> QED
    BY <2>4, <2>5, <2>6
<1> QED
  BY <1>2, <1>3, <1>4, <1>5

LEMMA KeySetsAreOrdered ==
  ASSUME NEW n \in Nat, NEW S \in SUBSET [1..n -> Cells]
  PROVE  Orders({e \in S \X S : KeyPrecedes(e[1], e[2])}, S)
<1> DEFINE R == {e \in S \X S : KeyPrecedes(e[1], e[2])}
<1>1. \A x, y \in S : <<x, y>> \in R <=> KeyPrecedes(x, y)
  OBVIOUS
<1>2. \A x \in S : x \in [1..n -> Cells]
  OBVIOUS
<1> HIDE DEF R
<1>3. \A x \in S : <<x, x>> \notin R
  BY <1>1, <1>2, KeysAreOrdered
<1>4. \A x, y \in S : x # y => <<x, y>> \in R \/ <<y, x>> \in R
  BY <1>1, <1>2, KeysAreOrdered
<1>5. \A x, y, z \in S : <<x, y>> \in R /\ <<y, z>> \in R => <<x, z>> \in R
  BY <1>1, <1>2, KeysAreOrdered
<1> QED
  BY <1>3, <1>4, <1>5 DEF Orders, R

(* rows with their numbers: the number decides between equal keys *)
LEMMA KeyedRowsAreOrdered ==
  ASSUME NEW n \in Nat, NEW K \in SUBSET ([1..n -> Cells] \X Int)
  PROVE  Orders(Stably(K), K)
<1> DEFINE R == Stably(K)
<1>1. \A x, y \in K : <<x, y>> \in R <=> \/ KeyPrecedes(x[1], y[1])
                                         \/ x[1] = y[1] /\ x[2] < y[2]
  BY DEF Stably
<1>2. \A x \in K : x[1] \in [1..n -> Cells] /\ x[2] \in Int /\ x = <<x[1], x[2]>>
  OBVIOUS
<1> HIDE DEF R
<1>3. \A x \in K : <<x, x>> \notin R
  BY <1>1, <1>2, KeysAreOrdered
<1>4. ASSUME NEW x \in K, NEW y \in K, x # y
      PROVE  <<x, y>> \in R \/ <<y, x>> \in R
  <2>1. CASE x[1] # y[1]
    BY <1>1, <1>2, <2>1, KeysAreOrdered
  <2>2. CASE x[1] = y[1]
    <3>1. x[2] < y[2] \/ y[2] < x[2]
      BY <1>2, <1>4, <2>2
    <3> QED
      BY <1>1, <2>2, <3>1
  <2> QED
    BY <2>1, <2>2
<1>5. ASSUME NEW x \in K, NEW y \in K, NEW z \in K, <<x, y>> \in R, <<y, z>> \in R
      PROVE  <<x, z>> \in R
  <2>1. CASE KeyPrecedes(x[1], y[1]) /\ KeyPrecedes(y[1], z[1])
    BY <1>1, <1>2, <2>1, KeysAreOrdered
  <2>2. CASE x[1] = y[1] /\ y[1] = z[1]
    <3>1. x[2] < z[2] \/ KeyPrecedes(x[1], x[1])
      BY <1>1, <1>2, <1>5, <2>2
    <3> QED
      BY <1>1, <1>2, <2>2, <3>1, KeysAreOrdered
  <2>3. CASE (x[1] = y[1] \/ y[1] = z[1]) /\ (KeyPrecedes(x[1], y[1]) \/ KeyPrecedes(y[1], z[1]))
    <3>1. KeyPrecedes(x[1], z[1]) \/ (KeyPrecedes(x[1], y[1]) /\ KeyPrecedes(y[1], z[1]))
      BY <1>1, <1>2, <1>5, <2>3, KeysAreOrdered
    <3> QED
      BY <1>1, <2>1, <3>1
  <2> QED
    BY <1>1, <1>5, <2>1, <2>2, <2>3
<1> QED
  BY <1>3, <1>4, <1>5 DEF Orders, R

-----------------------------------------------------------------------------
(* Tables                                                                  *)

(* The rows of t before row i in BY order, and the row at place p.         *)
KeyOfRow(t, by, i) == RowKey(t, by, t.rows[i])
RowsBefore(t, by, i) ==
  {j \in DOMAIN t.rows : \/ KeyPrecedes(KeyOfRow(t, by, j), KeyOfRow(t, by, i))
                         \/ KeyOfRow(t, by, j) = KeyOfRow(t, by, i) /\ j < i}
RowAt(t, by, p) == Listed(KeyedRows(t, by), Stably(KeyedRows(t, by)))[p][2]

(* Sorting keeps the rows, each at the place that the rows before it in BY *)
(* order leave it.                                                         *)
LEMMA SortedTable ==
  ASSUME NEW t, NEW V, IsTable(t, V), NEW by, NEW n \in Nat,
         \A i \in DOMAIN t.rows : KeyOfRow(t, by, i) \in [1..n -> Cells]
  PROVE  LET u == SortTable(t, by)
         IN  /\ IsTable(u, V) /\ u.cols = t.cols /\ u.type = t.type
             /\ Len(u.rows) = Len(t.rows) /\ DOMAIN u.rows = DOMAIN t.rows
             /\ \A p \in DOMAIN t.rows : /\ RowAt(t, by, p) \in DOMAIN t.rows
                                         /\ u.rows[p] = t.rows[RowAt(t, by, p)]
                                         /\ Cardinality(RowsBefore(t, by, RowAt(t, by, p))) = p - 1
             /\ \A i \in DOMAIN t.rows :
                  LET p == Cardinality(RowsBefore(t, by, i)) + 1
                  IN  p \in DOMAIN t.rows /\ RowAt(t, by, p) = i
             /\ \A p, q \in DOMAIN t.rows :
                  p < q => ~KeyPrecedes(KeyOfRow(t, by, RowAt(t, by, q)), KeyOfRow(t, by, RowAt(t, by, p)))
<1> DEFINE D == DOMAIN t.rows
           Keyed(i) == <<KeyOfRow(t, by, i), i>>
           K == KeyedRows(t, by)
           R == Stably(K)
           L == Listed(K, R)
           u == SortTable(t, by)
<1>1. D = 1..Len(t.rows) /\ Len(t.rows) \in Nat /\ \A i \in D : t.rows[i] \in [Columns(t) -> V]
  BY DEF IsTable
<1>2. K = {Keyed(i) : i \in D} /\ K \in SUBSET ([1..n -> Cells] \X Int)
  BY <1>1 DEF KeyedRows, KeyOfRow
<1>3. Orders(R, K)
  BY <1>2, KeyedRowsAreOrdered
<1>4. IsFiniteSet(D) /\ Cardinality(D) = Len(t.rows)
  <2>1. 1 \in Int /\ Len(t.rows) \in Int
    BY <1>1
  <2>2. IsFiniteSet(1..Len(t.rows)) /\ Cardinality(1..Len(t.rows)) = IF 1 > Len(t.rows) THEN 0 ELSE Len(t.rows) - 1 + 1
    BY <2>1, FS_Interval, Zenon
  <2> QED
    BY <1>1, <2>2
<1>5. ASSUME NEW A \in SUBSET D
      PROVE  /\ IsFiniteSet({Keyed(i) : i \in A})
             /\ Cardinality({Keyed(i) : i \in A}) = Cardinality(A)
  <2> DEFINE B == {Keyed(i) : i \in A}
             f == [i \in A |-> Keyed(i)]
  <2>1. f \in [A -> B] /\ (\A i, j \in A : f[i] = f[j] => i = j) /\ \A b \in B : \E i \in A : f[i] = b
    OBVIOUS
  <2>2. f \in Bijection(A, B)
    <3> HIDE DEF f, B
    <3> QED
      BY <2>1 DEF Bijection, Injection, Surjection, IsInjective
  <2>3. ExistsBijection(A, B)
    BY <2>2 DEF ExistsBijection
  <2>4. IsFiniteSet(A)
    BY <1>4, FS_Subset
  <2> QED
    BY <2>3, <2>4, FS_Bijection
<1>6. IsFiniteSet(K) /\ Cardinality(K) = Len(t.rows)
  BY <1>2, <1>4, <1>5
<1>7. /\ DOMAIN L = D
      /\ \A p \in D : L[p] \in K /\ Rank(K, R, L[p]) = p - 1
      /\ \A x \in K : Rank(K, R, x) + 1 \in D /\ L[Rank(K, R, x) + 1] = x
      /\ \A p, q \in D : p < q => <<L[p], L[q]>> \in R
  BY <1>1, <1>3, <1>6, ListedInOrder
<1>8. ASSUME NEW p \in D
      PROVE  RowAt(t, by, p) \in D /\ L[p] = Keyed(RowAt(t, by, p))
  BY <1>2, <1>7 DEF RowAt
<1>9. ASSUME NEW i \in D
      PROVE  LET p == Cardinality(RowsBefore(t, by, i)) + 1
             IN  /\ p \in D /\ RowAt(t, by, p) = i
                 /\ Rank(K, R, Keyed(i)) = Cardinality(RowsBefore(t, by, i))
  <2>1. RowsBefore(t, by, i) \in SUBSET D
    BY DEF RowsBefore
  <2>2. Before(K, R, Keyed(i)) = {Keyed(j) : j \in RowsBefore(t, by, i)}
    <3>1. \A j \in D : <<Keyed(j), Keyed(i)>> \in R <=> j \in RowsBefore(t, by, i)
      BY <1>2 DEF Stably, RowsBefore
    <3> HIDE DEF R, Keyed
    <3> QED
      BY <1>2, <2>1, <3>1 DEF Before
  <2>3. Rank(K, R, Keyed(i)) = Cardinality(RowsBefore(t, by, i))
    BY <1>5, <2>1, <2>2 DEF Rank
  <2>4. Keyed(i) \in K
    BY <1>2
  <2> QED
    BY <1>7, <2>3, <2>4 DEF RowAt
<1>10. ASSUME NEW p \in D, NEW q \in D, p < q
       PROVE  ~KeyPrecedes(KeyOfRow(t, by, RowAt(t, by, q)), KeyOfRow(t, by, RowAt(t, by, p)))
  <2>1. <<Keyed(RowAt(t, by, p)), Keyed(RowAt(t, by, q))>> \in R
    BY <1>7, <1>8, <1>10
  <2> DEFINE k == KeyOfRow(t, by, RowAt(t, by, p))
             l == KeyOfRow(t, by, RowAt(t, by, q))
  <2>2. KeyPrecedes(k, l) \/ k = l
    BY <2>1 DEF Stably
  <2>3. k \in [1..n -> Cells] /\ l \in [1..n -> Cells]
    BY <1>8
  <2> HIDE DEF k, l
  <2>4. ~KeyPrecedes(l, k)
    BY <2>2, <2>3, KeysAreOrdered
  <2> QED
    BY <2>4 DEF k, l
<1>15. \A p \in D : Cardinality(RowsBefore(t, by, RowAt(t, by, p))) = p - 1
  BY <1>7, <1>8, <1>9
<1>11. /\ DOMAIN u = {"cols", "rows", "type"} /\ u.cols = t.cols /\ u.type = t.type
       /\ u.rows = [p \in D |-> t.rows[RowAt(t, by, p)]]
  BY DEF SortTable, RowAt, IsTable
<1> HIDE DEF K, R, L, u, D
<1>12. Columns(u) = Columns(t)
  BY <1>11 DEF Columns
<1>13. /\ u.rows \in Seq([Columns(t) -> V]) /\ Len(u.rows) = Len(t.rows) /\ DOMAIN u.rows = D
       /\ \A p \in D : u.rows[p] = t.rows[RowAt(t, by, p)]
  BY <1>1, <1>8, <1>11 DEF D
<1>14. IsTable(u, V)
  BY <1>11, <1>12, <1>13 DEF IsTable
<1> QED
  BY <1>8, <1>9, <1>10, <1>11, <1>13, <1>14, <1>15 DEF u, D

(* A table whose rows are in order keeps them where they are.              *)
LEMMA SortOfSorted ==
  ASSUME NEW t, NEW V, IsTable(t, V), NEW by, NEW n \in Nat,
         \A i \in DOMAIN t.rows : KeyOfRow(t, by, i) \in [1..n -> Cells],
         \A p, q \in DOMAIN t.rows : p < q => ~KeyPrecedes(KeyOfRow(t, by, q), KeyOfRow(t, by, p))
  PROVE  SortTable(t, by).rows = t.rows /\ SortTable(t, by).cols = t.cols
<1> DEFINE D == DOMAIN t.rows
           u == SortTable(t, by)
           Key(i) == KeyOfRow(t, by, i)
<1>1. D = 1..Len(t.rows) /\ Len(t.rows) \in Nat /\ t.rows = [i \in D |-> t.rows[i]]
  BY DEF IsTable
<1>2. ASSUME NEW p \in D PROVE Cardinality(RowsBefore(t, by, p)) = p - 1
  <2>1. \A q \in D : KeyPrecedes(Key(q), Key(p)) \/ (Key(q) = Key(p) /\ q < p) <=> q < p
    <3> SUFFICES ASSUME NEW q \in D
                 PROVE  KeyPrecedes(Key(q), Key(p)) \/ (Key(q) = Key(p) /\ q < p) <=> q < p
      OBVIOUS
    <3>1. Key(q) \in [1..n -> Cells] /\ Key(p) \in [1..n -> Cells]
      OBVIOUS
    <3>2. q < p => ~KeyPrecedes(Key(p), Key(q))
      OBVIOUS
    <3>3. p < q => ~KeyPrecedes(Key(q), Key(p))
      OBVIOUS
    <3>4. p \in Nat /\ q \in Nat
      BY <1>1
    <3> HIDE DEF Key
    <3>5. ~KeyPrecedes(Key(p), Key(p))
      BY <3>1, KeysAreOrdered
    <3>6. q < p => KeyPrecedes(Key(q), Key(p)) \/ Key(q) = Key(p)
      BY <3>1, <3>2, KeysAreOrdered
    <3>7. q < p \/ p < q \/ p = q
      BY <3>4
    <3> QED
      BY <3>3, <3>5, <3>6, <3>7
  <2>2. RowsBefore(t, by, p) = {q \in D : q < p}
    BY <2>1 DEF RowsBefore
  <2>3. {q \in D : q < p} = 1..(p - 1)
    BY <1>1
  <2>4. p - 1 \in Nat
    BY <1>1
  <2> QED
    BY <2>2, <2>3, <2>4, CountOfInterval
<1>3. /\ u.cols = t.cols /\ DOMAIN u.rows = D /\ IsTable(u, V)
      /\ \A p \in D : u.rows[p] = t.rows[RowAt(t, by, p)]
      /\ \A i \in D : RowAt(t, by, Cardinality(RowsBefore(t, by, i)) + 1) = i
  BY SortedTable
<1>4. \A p \in D : RowAt(t, by, p) = p
  BY <1>1, <1>2, <1>3
<1>5. u.rows = [i \in DOMAIN u.rows |-> u.rows[i]]
  BY <1>3 DEF IsTable
<1> QED
  BY <1>1, <1>3, <1>4, <1>5

LEMMA SortByNothing ==
  ASSUME NEW t, NEW V, IsTable(t, V)
  PROVE  SortTable(t, <<>>).rows = t.rows /\ SortTable(t, <<>>).cols = t.cols
<1>1. DOMAIN <<>> = 1..0
  OBVIOUS
<1>2. \A i : KeyOfRow(t, <<>>, i) \in [1..0 -> Cells]
  BY <1>1 DEF KeyOfRow, RowKey
<1>3. \A k, l \in [1..0 -> Cells] : ~KeyPrecedes(k, l)
  BY DEF KeyPrecedes
<1> QED
  BY <1>2, <1>3, SortOfSorted

LEMMA WindowOfRows ==
  ASSUME NEW S, NEW rows \in Seq(S), NEW o, o.firstobs \in Nat, o.firstobs >= 1, o.obs \in Int
  PROVE  Window(rows, o) \in Seq(S)
<1> DEFINE m == o.firstobs
           n == IF o.obs < 0 \/ o.firstobs - 1 + o.obs > Len(rows) THEN Len(rows)
                ELSE o.firstobs - 1 + o.obs
<1>1. Len(rows) \in Nat /\ \A i \in 1..Len(rows) : rows[i] \in S
  OBVIOUS
<1>2. m \in Nat /\ m >= 1 /\ n \in Nat /\ n <= Len(rows)
  BY <1>1
<1>3. Window(rows, o) = SubSeq(rows, m, n)
  BY DEF Window
<1> HIDE DEF m, n
<1>4. SubSeq(rows, m, n) \in Seq(S)
  BY <1>1, <1>2
<1> QED
  BY <1>3, <1>4

(* The options leave a table: its columns are renamed one by one, and the  *)
(* rows that are left have them all.                                       *)
LEMMA ShapedTable ==
  ASSUME NEW t, NEW V, IsTable(t, V),
         NEW o, o.firstobs \in Nat, o.firstobs >= 1, o.obs \in Int
  PROVE  IsTable(Shape(t, o), V) /\ Shape(t, o).type = t.type
<1> DEFINE kept == Without(t, o.drop)
           held == IF o.where = <<>> THEN t.rows
                   ELSE Selected(t.rows, {i \in DOMAIN t.rows : t.rows[i][Resolve(t, o.where[1])] \in o.where[2]})
           New(c) == IF o.rename # <<>> /\ ColumnKey(c) = ColumnKey(o.rename[1]) THEN o.rename[2] ELSE c
           Old(c) == CHOOSE b \in ToSet(kept) : New(b) = c
           cols == [i \in DOMAIN kept |-> New(kept[i])]
           w == Window(held, o)
           rows == [i \in DOMAIN w |-> [c \in ToSet(cols) |-> w[i][Old(c)]]]
           u == Shape(t, o)
<1>1. kept \in Seq(Columns(t))
  <2>1. {i \in DOMAIN t.cols : ColumnKey(t.cols[i]) \notin o.drop} \in SUBSET DOMAIN t.cols
    OBVIOUS
  <2> QED
    BY <2>1, SelectedInOrder DEF Without, IsTable
<1>2. held \in Seq([Columns(t) -> V])
  <2> DEFINE I == {i \in DOMAIN t.rows : t.rows[i][Resolve(t, o.where[1])] \in o.where[2]}
  <2>1. I \in SUBSET DOMAIN t.rows
    OBVIOUS
  <2> HIDE DEF I
  <2>2. Selected(t.rows, I) \in Seq([Columns(t) -> V])
    BY <2>1, SelectedInOrder DEF IsTable
  <2> QED
    BY <2>2 DEF IsTable, I
<1>3. w \in Seq([Columns(t) -> V])
  <2> HIDE DEF held
  <2> QED
    BY <1>2, WindowOfRows
<1>4. u = [t EXCEPT !.cols = cols, !.rows = rows]
  BY DEF Shape
<1>5. DOMAIN u = {"cols", "rows", "type"} /\ u.cols = cols /\ u.rows = rows /\ u.type = t.type
  BY <1>4 DEF IsTable
<1> HIDE DEF kept, held, w, u
<1>6. cols \in Seq(ToSet(cols))
  <2>1. DOMAIN kept = 1..Len(kept) /\ Len(kept) \in Nat
    BY <1>1
  <2>2. DOMAIN cols = 1..Len(kept) /\ \A i \in 1..Len(kept) : cols[i] \in ToSet(cols)
    BY <2>1 DEF ToSet
  <2> QED
    BY <2>1, <2>2
<1>7. ASSUME NEW c \in ToSet(cols)
      PROVE  Old(c) \in Columns(t)
  <2>1. PICK i \in DOMAIN kept : New(kept[i]) = c
    BY DEF ToSet
  <2>2. kept[i] \in ToSet(kept)
    BY DEF ToSet
  <2> HIDE DEF New
  <2>3. Old(c) \in ToSet(kept)
    BY <2>1, <2>2
  <2>4. ToSet(kept) \subseteq Columns(t)
    BY <1>1 DEF ToSet
  <2> QED
    BY <2>3, <2>4
<1>8. rows \in Seq([ToSet(cols) -> V])
  <2>1. DOMAIN w = 1..Len(w) /\ Len(w) \in Nat /\ \A i \in 1..Len(w) : w[i] \in [Columns(t) -> V]
    BY <1>3
  <2> HIDE DEF Old, cols
  <2>2. \A i \in 1..Len(w) : [c \in ToSet(cols) |-> w[i][Old(c)]] \in [ToSet(cols) -> V]
    BY <2>1, <1>7
  <2> QED
    BY <2>1, <2>2
<1>9. Columns(u) = ToSet(cols)
  BY <1>5 DEF Columns
<1> QED
  BY <1>5, <1>6, <1>8, <1>9 DEF IsTable, u

LEMMA SameColumnsResolve ==
  ASSUME NEW t, NEW u, u.cols = t.cols, NEW c
  PROVE  Resolve(u, c) = Resolve(t, c)
BY DEF Resolve, Spellings, Columns

(* a column that is found is a column of the table *)
LEMMA ResolvedColumn ==
  ASSUME NEW t, NEW V, IsTable(t, V), NEW c, HasColumn(t, c)
  PROVE  Resolve(t, c) \in Columns(t) /\ ColumnKey(Resolve(t, c)) = ColumnKey(c)
<1> DEFINE S == Spellings(t, c)
<1>1. S \subseteq Nat /\ S # {} /\ \A i \in S : i \in DOMAIN t.cols /\ ColumnKey(t.cols[i]) = ColumnKey(c)
  BY DEF Spellings, HasColumn, IsTable
<1> HIDE DEF S
<1>2. \E i \in S : \A j \in S : i <= j
  BY <1>1, LeastNumber
<1> QED
  BY <1>1, <1>2 DEF Resolve, Columns, ToSet, S

(* the BY key of a row *)
LEMMA RowHasKey ==
  ASSUME NEW t, IsTable(t, Cells), NEW by, NEW n \in Nat, DOMAIN by = 1..n,
         \A i \in 1..n : HasColumn(t, by[i]), NEW r \in [Columns(t) -> Cells]
  PROVE  RowKey(t, by, r) \in [1..n -> Cells]
<1>1. \A i \in 1..n : Resolve(t, by[i]) \in Columns(t)
  BY ResolvedColumn
<1> QED
  BY <1>1 DEF RowKey


-----------------------------------------------------------------------------
(* The parts of a sequence of sequences, one after the other               *)

LEMMA TabulatedSequence ==
  ASSUME NEW V, NEW n \in Nat, NEW f, f = [p \in 1..n |-> f[p]], \A p \in 1..n : f[p] \in V
  PROVE  f \in Seq(V) /\ Len(f) = n
<1>1. f \in [1..n -> V]
  OBVIOUS
<1> QED
  BY <1>1

LEMMA JoinedInOrder ==
  ASSUME NEW V, NEW parts \in Seq(Seq(V))
  PROVE  /\ Joined(parts) \in Seq(V) /\ Len(Joined(parts)) = Cardinality(Places(parts))
         /\ DOMAIN Joined(parts) = 1..Cardinality(Places(parts))
         /\ IsFiniteSet(Places(parts)) /\ Cardinality(Places(parts)) \in Nat
         /\ DOMAIN PlacesInTurn(parts) = DOMAIN Joined(parts)
         /\ \A p \in DOMAIN Joined(parts) :
              LET at == PlacesInTurn(parts)[p]
              IN  /\ at = <<at[1], at[2]>> /\ at[1] \in DOMAIN parts /\ at[2] \in DOMAIN parts[at[1]]
                  /\ Joined(parts)[p] = parts[at[1]][at[2]]
         /\ \A k \in DOMAIN parts : \A n \in DOMAIN parts[k] :
              \E p \in DOMAIN Joined(parts) : PlacesInTurn(parts)[p] = <<k, n>>
         /\ \A p, q \in DOMAIN Joined(parts) : p < q =>
              <<PlacesInTurn(parts)[p], PlacesInTurn(parts)[q]>> \in InTurn(Places(parts))
<1> DEFINE P == Places(parts)
           L == PlacesInTurn(parts)
           J == Joined(parts)
           Own(k) == {<<k, n>> : n \in DOMAIN parts[k]}
<1>1. /\ DOMAIN parts = 1..Len(parts) /\ Len(parts) \in Nat
      /\ \A k \in DOMAIN parts : /\ parts[k] \in Seq(V)
                                 /\ DOMAIN parts[k] = 1..Len(parts[k]) /\ Len(parts[k]) \in Nat
  OBVIOUS
<1>2. IsFiniteSet(P)
  <2> DEFINE o == [k \in DOMAIN parts |-> Own(k)]
  <2>1. ASSUME NEW k \in DOMAIN parts
        PROVE  IsFiniteSet(Own(k))
    <3> DEFINE f == [n \in DOMAIN parts[k] |-> <<k, n>>]
    <3>1. IsFiniteSet(DOMAIN f)
      BY <1>1, FS_Interval
    <3>2. Own(k) = {f[n] : n \in DOMAIN f}
      OBVIOUS
    <3> HIDE DEF f
    <3> QED
      BY <3>1, <3>2, ImageIsFinite
  <2>2. IsFiniteSet(DOMAIN o)
    BY <1>1, FS_Interval
  <2> HIDE DEF Own
  <2>3. P = UNION {o[k] : k \in DOMAIN o}
    BY DEF Places, Own
  <2>4. \A T \in {o[k] : k \in DOMAIN o} : IsFiniteSet(T)
    BY <2>1
  <2> HIDE DEF o
  <2>5. IsFiniteSet({o[k] : k \in DOMAIN o})
    BY <2>2, ImageIsFinite
  <2> QED
    BY <2>3, <2>4, <2>5, FS_UNION
<1>3. /\ \A e \in P : /\ e[1] \in DOMAIN parts /\ e[2] \in DOMAIN parts[e[1]]
                      /\ e = <<e[1], e[2]>> /\ e[1] \in Int /\ e[2] \in Int
      /\ \A k \in DOMAIN parts : \A n \in DOMAIN parts[k] : <<k, n>> \in P
  BY <1>1 DEF Places
<1>4. Orders(InTurn(P), P)
  BY <1>3 DEF Orders, InTurn
<1>5. /\ L \in Seq(P) /\ Len(L) = Cardinality(P) /\ DOMAIN L = 1..Cardinality(P)
      /\ \A p \in DOMAIN L : L[p] \in P
      /\ \A x \in P : Rank(P, InTurn(P), x) + 1 \in DOMAIN L /\ L[Rank(P, InTurn(P), x) + 1] = x
      /\ \A p, q \in DOMAIN L : p < q => <<L[p], L[q]>> \in InTurn(P)
  <2>1. L = Listed(P, InTurn(P))
    BY DEF PlacesInTurn
  <2> HIDE DEF P, L
  <2> QED
    BY <1>2, <1>4, <2>1, ListedInOrder
<1>6. Cardinality(P) \in Nat
  BY <1>2, FS_CardinalityType
<1>7. J = [p \in DOMAIN L |-> parts[L[p][1]][L[p][2]]]
  BY DEF Joined
<1> HIDE DEF P, L, J
<1>8. \A p \in DOMAIN L : parts[L[p][1]][L[p][2]] \in V
  BY <1>1, <1>3, <1>5
<1>9. J \in Seq(V) /\ Len(J) = Cardinality(P) /\ DOMAIN J = DOMAIN L
  <2>1. J = [p \in 1..Cardinality(P) |-> J[p]] /\ DOMAIN J = DOMAIN L
    BY <1>5, <1>7
  <2>2. \A p \in 1..Cardinality(P) : J[p] \in V
    BY <1>5, <1>7, <1>8
  <2> QED
    BY <1>6, <2>1, <2>2, TabulatedSequence
<1> QED
  BY <1>2, <1>3, <1>5, <1>6, <1>7, <1>9 DEF P, L, J

LEMMA TurnsAreOrdered ==
  ASSUME NEW P, \A e \in P : e = <<e[1], e[2]>> /\ e[1] \in Int /\ e[2] \in Int
  PROVE  Orders(InTurn(P), P)
BY DEF Orders, InTurn

(* One part more is appended to what the parts before it make.             *)
LEMMA JoinedMore ==
  ASSUME NEW V, NEW parts \in Seq(Seq(V)), NEW more \in Seq(Seq(V)),
         Len(more) = Len(parts) + 1, \A k \in DOMAIN parts : more[k] = parts[k]
  PROVE  LET J == Joined(parts)
             A == Joined(more)
             s == more[Len(parts) + 1]
         IN  /\ Len(J) \in Nat /\ DOMAIN J = 1..Len(J) /\ DOMAIN A = 1..Len(A)
             /\ Len(A) = Len(J) + Len(s)
             /\ \A p \in DOMAIN J : A[p] = J[p]
             /\ \A n \in DOMAIN s : A[Len(J) + n] = s[n]
<1> DEFINE J == Joined(parts)
           A == Joined(more)
           K == Len(parts) + 1
           s == more[K]
           P == Places(parts)
           Q == Places(more)
           D == {<<K, n>> : n \in DOMAIN s}
           c == Cardinality(P)
           L == PlacesInTurn(parts)
           M == PlacesInTurn(more)
           First(n) == {<<K, i>> : i \in 1..n}
<1>1. /\ DOMAIN parts = 1..Len(parts) /\ Len(parts) \in Nat
      /\ DOMAIN more = 1..K /\ K \in DOMAIN more
      /\ \A k \in DOMAIN more : k \in DOMAIN parts \/ k = K
      /\ \A k \in DOMAIN parts : k \in DOMAIN more /\ k < K
  OBVIOUS
<1>2. s \in Seq(V) /\ DOMAIN s = 1..Len(s) /\ Len(s) \in Nat
  BY <1>1
<1>3. Q = P \cup D
  <2> HIDE DEF s
  <2>1. Q = UNION {{<<k, n>> : n \in DOMAIN more[k]} : k \in DOMAIN more}
    BY DEF Places
  <2>2. P = UNION {{<<k, n>> : n \in DOMAIN parts[k]} : k \in DOMAIN parts}
    BY DEF Places
  <2>3. \A e \in Q : e \in P \/ e \in D
    BY <1>1, <2>1, <2>2 DEF s
  <2>4. \A e \in P : e \in Q
    BY <1>1, <2>1, <2>2
  <2>5. \A e \in D : e \in Q
    BY <1>1, <2>1 DEF s
  <2> HIDE DEF P, Q, D
  <2> QED
    BY <2>3, <2>4, <2>5
<1>4. /\ IsFiniteSet(P) /\ c \in Nat /\ DOMAIN J = 1..c /\ Len(J) = c /\ DOMAIN L = 1..c
      /\ \A p \in DOMAIN J : /\ L[p] = <<L[p][1], L[p][2]>> /\ L[p][1] \in DOMAIN parts
                             /\ L[p][2] \in DOMAIN parts[L[p][1]]
                             /\ J[p] = parts[L[p][1]][L[p][2]]
  <2> HIDE DEF J, L, P
  <2> QED
    BY JoinedInOrder DEF J, L, P
<1>5. /\ IsFiniteSet(Q) /\ Cardinality(Q) \in Nat /\ DOMAIN A = 1..Cardinality(Q) /\ Len(A) = Cardinality(Q)
      /\ DOMAIN M = DOMAIN A
      /\ \A p \in DOMAIN A : A[p] = more[M[p][1]][M[p][2]]
  <2> HIDE DEF A, M, Q
  <2> QED
    BY JoinedInOrder DEF A, M, Q
<1>6. /\ \A e \in P : /\ e[1] \in DOMAIN parts /\ e[1] \in Int /\ e[2] \in Int /\ e[1] < K /\ e = <<e[1], e[2]>>
      /\ \A e \in D : e[1] = K /\ e[2] \in 1..Len(s) /\ e = <<e[1], e[2]>> /\ e[2] \in Int
  <2> HIDE DEF s
  <2>1. \A k \in DOMAIN parts : k \in Int /\ k < K /\ parts[k] \in Seq(V)
    BY <1>1
  <2>2. \A k \in DOMAIN parts : \A n \in DOMAIN parts[k] : n \in Int
    BY <2>1
  <2> QED
    BY <1>2, <2>1, <2>2 DEF Places
<1> HIDE DEF J, A, L, M
<1>7. Orders(InTurn(P), P) /\ Orders(InTurn(Q), Q)
  <2> HIDE DEF P, Q, D, s
  <2>1. K \in Int
    BY <1>1
  <2>2. Orders(InTurn(P), P)
    BY ONLY <1>6, TurnsAreOrdered
  <2>3. \A e \in Q : e[1] \in Int /\ e[2] \in Int /\ e = <<e[1], e[2]>>
    BY <1>3, <1>6, <2>1
  <2> QED
    BY ONLY <2>2, <2>3, TurnsAreOrdered
<1>8. /\ \A p \in DOMAIN L : L[p] \in P /\ Rank(P, InTurn(P), L[p]) = p - 1
      /\ \A x \in Q : Rank(Q, InTurn(Q), x) + 1 \in DOMAIN M /\ M[Rank(Q, InTurn(Q), x) + 1] = x
  <2>1. L = Listed(P, InTurn(P)) /\ M = Listed(Q, InTurn(Q))
    BY DEF PlacesInTurn, L, M
  <2> HIDE DEF P, Q, L, M
  <2> QED
    BY ONLY <1>4, <1>5, <1>7, <2>1, ListedInOrder
<1>9. ASSUME NEW x \in P PROVE Rank(Q, InTurn(Q), x) = Rank(P, InTurn(P), x)
  <2> HIDE DEF P, Q, D, s, K
  <2>1. K \in Int
    BY <1>1 DEF K
  <2>2. \A y \in P : <<y, x>> \in InTurn(Q) <=> <<y, x>> \in InTurn(P)
    BY <1>3 DEF InTurn
  <2>3. \A y \in D : <<y, x>> \notin InTurn(Q)
    BY <1>6, <2>1 DEF InTurn
  <2>4. Before(Q, InTurn(Q), x) = Before(P, InTurn(P), x)
    BY <1>3, <2>2, <2>3 DEF Before
  <2> QED
    BY <2>4 DEF Rank
<1>10. ASSUME NEW n \in 0..Len(s)
       PROVE  IsFiniteSet(First(n)) /\ Cardinality(P \cup First(n)) = c + n
  <2> DEFINE f == [i \in 1..n |-> <<K, i>>]
             F == First(n)
  <2>0. n \in Nat
    BY <1>2
  <2>1. IsFiniteSet(1..n) /\ Cardinality(1..n) = n /\ n \in Nat
    BY ONLY <2>0, CountOfInterval
  <2>2. f \in [1..n -> F] /\ (\A i, j \in 1..n : f[i] = f[j] => i = j) /\ (\A e \in F : \E i \in 1..n : f[i] = e)
    OBVIOUS
  <2>3. P \cap F = {}
    <3>1. \A e \in F : e[1] = K
      OBVIOUS
    <3>2. \A e \in P : e[1] # K
      <4>1. \A e \in P : e[1] < K /\ e[1] \in Int /\ K \in Int
        BY <1>1, <1>6
      <4> HIDE DEF P, K
      <4> QED
        BY ONLY <4>1
    <3> HIDE DEF P, F, K
    <3> QED
      BY ONLY <3>1, <3>2
  <2> HIDE DEF f, F, P
  <2>4. ExistsBijection(1..n, F)
    BY ONLY <2>2 DEF ExistsBijection, Bijection, Injection, Surjection, IsInjective
  <2>5. IsFiniteSet(F) /\ Cardinality(F) = n
    BY <2>1, <2>4, FS_Bijection
  <2>6. Cardinality(P \cup F) = Cardinality(P) + Cardinality(F) - Cardinality(P \cap F)
    BY <1>4, <2>5, FS_Union
  <2>7. Cardinality(P \cap F) = 0
    BY <2>3, FS_EmptySet
  <2> QED
    BY <1>4, <2>1, <2>5, <2>6, <2>7 DEF F
<1>11. ASSUME NEW n \in 1..Len(s)
       PROVE  <<K, n>> \in Q /\ Rank(Q, InTurn(Q), <<K, n>>) = c + n - 1
  <2> DEFINE x == <<K, n>>
             F == First(n - 1)
  <2>1. x \in D
    BY <1>2
  <2>2. n - 1 \in 0..Len(s) /\ n \in Int /\ K \in Int
    BY <1>1, <1>2
  <2>3. F \subseteq D /\ (\A e \in F : e[2] < n) /\ \A e \in D : e[2] < n => e \in F
    <3>1. \A i \in 1..(n - 1) : i \in DOMAIN s /\ i < n
      BY <1>2, <2>2
    <3>2. \A i \in DOMAIN s : i < n => i \in 1..(n - 1)
      BY <1>2, <2>2
    <3> HIDE DEF s, K
    <3> QED
      BY <3>1, <3>2
  <2> HIDE DEF P, Q, D, s, F
  <2>4. \A y \in P : <<y, x>> \in InTurn(Q)
    BY <1>3, <1>6, <2>1 DEF InTurn
  <2>5. \A y \in D : <<y, x>> \in InTurn(Q) <=> y[2] < n
    <3>1. x[1] = K /\ x[2] = n /\ x \in Q
      BY <1>3, <2>1
    <3> HIDE DEF x
    <3> SUFFICES ASSUME NEW y \in D PROVE <<y, x>> \in InTurn(Q) <=> y[2] < n
      OBVIOUS
    <3>2. y[1] = K /\ y \in Q
      BY <1>3, <1>6
    <3> HIDE DEF K
    <3> QED
      BY ONLY <2>2, <3>1, <3>2 DEF InTurn
  <2>6. Before(Q, InTurn(Q), x) = P \cup F
    BY <1>3, <2>3, <2>4, <2>5 DEF Before
  <2>7. Cardinality(P \cup F) = c + (n - 1)
    BY <1>10, <2>2 DEF F
  <2> QED
    BY <1>3, <1>4, <2>1, <2>2, <2>6, <2>7 DEF Rank
<1>12. Cardinality(Q) = c + Len(s)
  <2>1. D = First(Len(s))
    BY <1>2
  <2> HIDE DEF D, P, Q, s
  <2>2. Len(s) \in 0..Len(s)
    BY <1>2
  <2> QED
    BY <1>3, <1>10, <2>1, <2>2
<1> HIDE DEF P, Q, D, c, s, K
<1>13. ASSUME NEW p \in DOMAIN J PROVE A[p] = J[p]
  <2>1. L[p] \in P /\ Rank(P, InTurn(P), L[p]) = p - 1 /\ L[p] \in Q
    BY <1>3, <1>4, <1>8
  <2>2. Rank(Q, InTurn(Q), L[p]) = p - 1 /\ (p - 1) + 1 = p
    BY <1>4, <1>9, <2>1
  <2>3. p \in DOMAIN M /\ M[p] = L[p]
    BY <1>8, <2>1, <2>2
  <2> QED
    BY ONLY <1>1, <1>4, <1>5, <1>13, <2>3, \A k \in DOMAIN parts : more[k] = parts[k]
<1>14. ASSUME NEW n \in DOMAIN s PROVE A[c + n] = s[n]
  <2>1. n \in 1..Len(s) /\ n \in Int
    BY <1>2
  <2>2. <<K, n>> \in Q /\ Rank(Q, InTurn(Q), <<K, n>>) = c + n - 1 /\ (c + n - 1) + 1 = c + n
    BY <1>4, <1>11, <2>1
  <2>3. c + n \in DOMAIN M /\ M[c + n] = <<K, n>>
    BY <1>8, <2>2
  <2> QED
    BY ONLY <1>5, <2>3 DEF s
<1>15. DOMAIN A = 1..Len(A) /\ Len(A) = c + Len(s)
  BY <1>5, <1>12
<1> QED
  BY <1>4, <1>13, <1>14, <1>15 DEF J, A, s, K

-----------------------------------------------------------------------------
(* Lists                                                                   *)

LEMMA ListFacts ==
  ASSUME NEW s, IsList(s)
  PROVE  /\ DOMAIN s = 1..Len(s) /\ Len(s) \in Nat /\ IsFiniteSet(DOMAIN s)
         /\ \A i \in DOMAIN s : s[i] \in ToSet(s)
         /\ s = [i \in 1..Len(s) |-> s[i]]
<1>1. s \in Seq(ToSet(s))
  BY DEF IsList
<1>2. DOMAIN s = 1..Len(s) /\ Len(s) \in Nat /\ s = [i \in 1..Len(s) |-> s[i]]
  BY <1>1
<1> QED
  BY <1>2, FS_Interval DEF ToSet

LEMMA SequencesAreLists ==
  ASSUME NEW V, NEW s \in Seq(V)
  PROVE  IsList(s)
BY OwnElements DEF IsList

LEMMA MappedList ==
  ASSUME NEW n \in Nat, NEW s, s = [i \in 1..n |-> s[i]]
  PROVE  IsList(s) /\ Len(s) = n
<1>1. \A i \in 1..n : s[i] \in ToSet(s)
  BY DEF ToSet
<1> QED
  BY <1>1 DEF IsList

LEMMA JoinedLists ==
  ASSUME NEW a, NEW b, IsList(a), IsList(b)
  PROVE  LET c == a \o b
         IN  /\ IsList(c) /\ Len(c) = Len(a) + Len(b) /\ DOMAIN c = 1..(Len(a) + Len(b))
             /\ \A i \in DOMAIN a : c[i] = a[i]
             /\ \A i \in DOMAIN b : c[Len(a) + i] = b[i]
             /\ \A i \in DOMAIN c : IF i <= Len(a) THEN c[i] = a[i] ELSE c[i] = b[i - Len(a)]
             /\ ToSet(c) = ToSet(a) \cup ToSet(b)
<1> DEFINE V == ToSet(a) \cup ToSet(b)
           c == a \o b
<1>1. a \in Seq(V) /\ b \in Seq(V)
  <2>1. a \in Seq(ToSet(a)) /\ b \in Seq(ToSet(b))
    BY DEF IsList
  <2> HIDE DEF V
  <2>2. ToSet(a) \subseteq V /\ ToSet(b) \subseteq V
    BY DEF V
  <2> QED
    BY <2>1, <2>2
<1>2. DOMAIN a = 1..Len(a) /\ DOMAIN b = 1..Len(b) /\ Len(a) \in Nat /\ Len(b) \in Nat
  BY ListFacts
<1> HIDE DEF V
<1>3. /\ c \in Seq(V) /\ Len(c) = Len(a) + Len(b)
      /\ \A i \in 1..(Len(a) + Len(b)) : c[i] = IF i <= Len(a) THEN a[i] ELSE b[i - Len(a)]
  BY <1>1, ConcatProperties
<1>4. DOMAIN c = 1..(Len(a) + Len(b))
  BY <1>3
<1> HIDE DEF c
<1>5. IsList(c)
  BY <1>3, SequencesAreLists
<1>6. \A i \in DOMAIN b : Len(a) + i \in DOMAIN c /\ c[Len(a) + i] = b[i]
  <2> SUFFICES ASSUME NEW i \in DOMAIN b
               PROVE  Len(a) + i \in DOMAIN c /\ c[Len(a) + i] = b[i]
    OBVIOUS
  <2>1. i \in Nat /\ i >= 1 /\ i <= Len(b)
    BY <1>2
  <2>2. ~(Len(a) + i <= Len(a)) /\ (Len(a) + i) - Len(a) = i /\ Len(a) + i \in 1..(Len(a) + Len(b))
    BY <1>2, <2>1
  <2> QED
    BY <1>3, <1>4, <2>2
<1>7. \A i \in DOMAIN a : i \in DOMAIN c /\ c[i] = a[i]
  BY <1>2, <1>3, <1>4
<1>8. \A i \in DOMAIN c : IF i <= Len(a) THEN c[i] = a[i] /\ i \in DOMAIN a
                          ELSE c[i] = b[i - Len(a)] /\ i - Len(a) \in DOMAIN b
  BY <1>2, <1>3, <1>4
<1>9. ToSet(c) = ToSet(a) \cup ToSet(b)
  BY <1>6, <1>7, <1>8 DEF ToSet
<1> QED
  BY <1>3, <1>4, <1>5, <1>6, <1>7, <1>8, <1>9 DEF c

LEMMA SelectedList ==
  ASSUME NEW s, IsList(s), NEW I \in SUBSET DOMAIN s
  PROVE  LET c == Selected(s, I)
         IN  /\ IsList(c) /\ ToSet(c) = {s[i] : i \in I}
             /\ Numbered(I) \in [DOMAIN c -> I]
             /\ \A p \in DOMAIN c : c[p] = s[Numbered(I)[p]]
             /\ \A i \in I : \E p \in DOMAIN c : Numbered(I)[p] = i
             /\ \A p, q \in DOMAIN c : p < q => Numbered(I)[p] < Numbered(I)[q]
             /\ \A p, q \in DOMAIN c : p # q => Numbered(I)[p] # Numbered(I)[q]
<1> DEFINE c == Selected(s, I)
           L == Numbered(I)
<1>1. s \in Seq(ToSet(s))
  BY DEF IsList
<1>2. /\ c \in Seq(ToSet(s)) /\ DOMAIN c = 1..Cardinality(I) /\ Cardinality(I) \in Nat /\ IsFiniteSet(I)
      /\ \A p \in DOMAIN c : L[p] \in I /\ c[p] = s[L[p]]
      /\ \A i \in I : \E p \in DOMAIN c : L[p] = i
      /\ \A p, q \in DOMAIN c : p < q => L[p] < L[q]
  BY <1>1, SelectedInOrder
<1>3. I \subseteq Int
  <2>1. DOMAIN s = 1..Len(s) /\ Len(s) \in Nat
    BY ListFacts
  <2> QED
    BY <2>1
<1>4. L = [p \in 1..Cardinality(I) |-> L[p]]
  <2>1. L \in Seq(I) /\ DOMAIN L = 1..Cardinality(I)
    BY <1>2, <1>3, NumberedInOrder
  <2> HIDE DEF L
  <2> QED
    BY <2>1
<1> HIDE DEF c, L
<1>5. IsList(c)
  BY <1>2, SequencesAreLists
<1>6. ToSet(c) = {s[i] : i \in I}
  BY <1>2 DEF ToSet
<1>7. L \in [DOMAIN c -> I]
  BY <1>2, <1>4
<1>8. \A p, q \in DOMAIN c : p # q => L[p] # L[q]
  <2> SUFFICES ASSUME NEW p \in DOMAIN c, NEW q \in DOMAIN c, p # q PROVE L[p] # L[q]
    OBVIOUS
  <2>1. p < q \/ q < p
    BY <1>2
  <2>2. L[p] < L[q] \/ L[q] < L[p]
    BY <1>2, <2>1
  <2>3. L[p] \in Int /\ L[q] \in Int
    BY <1>2, <1>3
  <2> QED
    BY <2>2, <2>3
<1> QED
  BY <1>2, <1>5, <1>6, <1>7, <1>8 DEF c, L

(* Shaping looks at the columns and the rows only, and without options it  *)
(* leaves them as they are.                                                *)
LEMMA ShapeOfSame ==
  ASSUME NEW t, NEW u, NEW V, IsTable(t, V), IsTable(u, V), u.cols = t.cols, u.rows = t.rows, NEW o
  PROVE  Shape(u, o).cols = Shape(t, o).cols /\ Shape(u, o).rows = Shape(t, o).rows
<1>1. \A c : Resolve(u, c) = Resolve(t, c)
  BY SameColumnsResolve
<1> DEFINE kept(v) == Without(v, o.drop)
           held(v) == IF o.where = <<>> THEN v.rows
                      ELSE Selected(v.rows, {i \in DOMAIN v.rows : v.rows[i][Resolve(v, o.where[1])] \in o.where[2]})
           New(c) == IF o.rename # <<>> /\ ColumnKey(c) = ColumnKey(o.rename[1]) THEN o.rename[2] ELSE c
           cols(v) == [i \in DOMAIN kept(v) |-> New(kept(v)[i])]
           rows(v) == LET w == Window(held(v), o)
                      IN  [i \in DOMAIN w |-> [c \in ToSet(cols(v)) |->
                                               w[i][CHOOSE b \in ToSet(kept(v)) : New(b) = c]]]
<1>2. ASSUME NEW v, DOMAIN v = {"cols", "rows", "type"}
      PROVE  Shape(v, o).cols = cols(v) /\ Shape(v, o).rows = rows(v)
  BY <1>2 DEF Shape
<1>3. /\ Shape(t, o).cols = cols(t) /\ Shape(t, o).rows = rows(t)
      /\ Shape(u, o).cols = cols(u) /\ Shape(u, o).rows = rows(u)
  <2>1. DOMAIN t = {"cols", "rows", "type"} /\ DOMAIN u = {"cols", "rows", "type"}
    BY DEF IsTable
  <2> HIDE DEF cols, rows
  <2>2. Shape(t, o).cols = cols(t) /\ Shape(t, o).rows = rows(t)
    BY <1>2, <2>1, Zenon
  <2>3. Shape(u, o).cols = cols(u) /\ Shape(u, o).rows = rows(u)
    BY <1>2, <2>1, Zenon
  <2> QED
    BY <2>2, <2>3
<1>4. kept(u) = kept(t)
  BY DEF Without
<1>5. held(u) = held(t)
  <2> DEFINE I(v) == {i \in DOMAIN v.rows : v.rows[i][Resolve(v, o.where[1])] \in o.where[2]}
  <2>1. Resolve(u, o.where[1]) = Resolve(t, o.where[1])
    BY <1>1
  <2>2. I(u) = I(t)
    BY <2>1
  <2> HIDE DEF I
  <2>3. Selected(u.rows, I(u)) = Selected(t.rows, I(t))
    BY <2>2
  <2> QED
    BY <2>3 DEF I
<1> HIDE DEF kept, held, New
<1>6. cols(u) = cols(t)
  BY <1>4
<1> HIDE DEF cols
<1>7. rows(u) = rows(t)
  BY <1>4, <1>5, <1>6
<1> QED
  BY <1>3, <1>6, <1>7

LEMMA AllSelected ==
  ASSUME NEW s, IsList(s)
  PROVE  Selected(s, DOMAIN s) = s
<1> DEFINE D == DOMAIN s
<1>1. D = 1..Len(s) /\ Len(s) \in Nat /\ s = [i \in 1..Len(s) |-> s[i]] /\ IsFiniteSet(D)
  BY ListFacts
<1>2. \A i \in D : {j \in D : j < i} = 1..(i - 1) /\ i - 1 \in Nat
  BY <1>1
<1>3. \A i \in D : Cardinality({j \in D : j < i}) = i - 1
  BY <1>2, CountOfInterval
<1>4. Cardinality(D) = Len(s) /\ D \subseteq Int
  BY <1>1, CountOfInterval
<1>5. \A i \in D : Numbered(D)[i] = i
  <2>1. \A i \in D : LET p == Cardinality({j \in D : j < i}) + 1 IN Numbered(D)[p] = i
    BY <1>1, <1>4, NumberedInOrder
  <2>2. \A i \in D : (i - 1) + 1 = i
    BY <1>1
  <2> QED
    BY <1>3, <2>1, <2>2
<1>6. Selected(s, D) = [n \in 1..Len(s) |-> s[Numbered(D)[n]]]
  BY <1>4 DEF Selected
<1> QED
  BY <1>1, <1>5, <1>6

LEMMA ShapeByNothing ==
  ASSUME NEW t, NEW V, IsTable(t, V)
  PROVE  Shape(t, NoOptions).cols = t.cols /\ Shape(t, NoOptions).rows = t.rows
<1> DEFINE o == NoOptions
           kept == Without(t, o.drop)
           w == Window(t.rows, o)
<1>1. /\ IsList(t.cols) /\ IsList(t.rows) /\ t.rows \in Seq([Columns(t) -> V])
      /\ DOMAIN t = {"cols", "rows", "type"}
  <2>1. t.rows \in Seq([Columns(t) -> V])
    BY DEF IsTable
  <2> QED
    BY <2>1, SequencesAreLists DEF IsTable, IsList, Columns
<1>2. kept = t.cols
  <2>1. {i \in DOMAIN t.cols : ColumnKey(t.cols[i]) \notin o.drop} = DOMAIN t.cols
    BY DEF NoOptions
  <2> QED
    BY <1>1, <2>1, AllSelected DEF Without
<1>3. w = t.rows
  <2>1. w = SubSeq(t.rows, 1, Len(t.rows))
    BY DEF Window, NoOptions
  <2> HIDE DEF w
  <2> QED
    BY <1>1, <2>1
<1>4. o.where = <<>> /\ o.rename = <<>>
  BY DEF NoOptions
<1> DEFINE New(c) == IF o.rename # <<>> /\ ColumnKey(c) = ColumnKey(o.rename[1]) THEN o.rename[2] ELSE c
           cols == [i \in DOMAIN kept |-> New(kept[i])]
           Old(c) == CHOOSE b \in ToSet(kept) : New(b) = c
           rows == [i \in DOMAIN w |-> [c \in ToSet(cols) |-> w[i][Old(c)]]]
<1>5. Shape(t, o).cols = cols /\ Shape(t, o).rows = rows
  BY <1>1, <1>4 DEF Shape
<1>6. cols = t.cols
  BY <1>1, <1>2, <1>4, ListFacts
<1>7. \A c \in ToSet(kept) : Old(c) = c
  BY <1>4
<1>8. \A i \in DOMAIN t.rows : t.rows[i] = [c \in ToSet(t.cols) |-> t.rows[i][c]]
  BY <1>1 DEF Columns
<1> HIDE DEF kept, w, o
<1>9. rows = [i \in DOMAIN t.rows |-> t.rows[i]]
  <2> HIDE DEF cols, Old
  <2> QED
    BY <1>2, <1>3, <1>6, <1>7, <1>8
<1> QED
  BY <1>1, <1>5, <1>6, <1>9, ListFacts DEF o

(* one part alone is left as it is *)
LEMMA JoinedOne ==
  ASSUME NEW V, NEW s \in Seq(V)
  PROVE  Joined(<<s>>) = s
<1> DEFINE parts == <<s>>
           n == Len(s)
           P == Places(parts)
           L == PlacesInTurn(parts)
<1>1. DOMAIN parts = {1} /\ parts[1] = s /\ n \in Nat /\ DOMAIN s = 1..n /\ s = [i \in 1..n |-> s[i]]
  OBVIOUS
<1>2. P = {<<1, i>> : i \in 1..n}
  BY <1>1 DEF Places
<1> DEFINE One(A) == {<<1, i>> : i \in A}
<1>3. ASSUME NEW A \in SUBSET (1..n)
      PROVE  IsFiniteSet(One(A)) /\ Cardinality(One(A)) = Cardinality(A)
  <2> DEFINE f == [i \in A |-> <<1, i>>]
  <2>1. f \in [A -> One(A)] /\ (\A i, j \in A : f[i] = f[j] => i = j) /\ \A b \in One(A) : \E i \in A : f[i] = b
    OBVIOUS
  <2>2. f \in Bijection(A, One(A))
    <3> HIDE DEF f, One
    <3> QED
      BY <2>1 DEF Bijection, Injection, Surjection, IsInjective
  <2>3. ExistsBijection(A, One(A))
    BY <2>2 DEF ExistsBijection
  <2>4. IsFiniteSet(A)
    BY <1>1, CountOfInterval, FS_Subset
  <2> QED
    BY <2>3, <2>4, FS_Bijection
<1>4. Cardinality(P) = n /\ IsFiniteSet(P)
  <2>1. P = One(1..n)
    BY <1>2
  <2> QED
    BY <1>1, <1>3, <2>1, CountOfInterval
<1>5. Orders(InTurn(P), P)
  <2>1. \A e \in P : e = <<1, e[2]>> /\ e[1] = 1 /\ e[2] \in Int
    BY <1>1, <1>2
  <2> HIDE DEF P
  <2> QED
    BY <2>1 DEF Orders, InTurn
<1>6. ASSUME NEW i \in 1..n
      PROVE  Rank(P, InTurn(P), <<1, i>>) = i - 1
  <2>1. Before(P, InTurn(P), <<1, i>>) = One(1..(i - 1))
    <3>1. \A j \in 1..n : <<<<1, j>>, <<1, i>>>> \in InTurn(P) <=> j < i
      BY <1>2 DEF InTurn
    <3>2. \A j \in 1..n : j < i <=> j \in 1..(i - 1)
      BY <1>1
    <3>3. 1..(i - 1) \subseteq 1..n
      BY <1>1
    <3> HIDE DEF P
    <3> QED
      BY <1>2, <3>1, <3>2, <3>3 DEF Before
  <2>2. 1..(i - 1) \in SUBSET (1..n) /\ i - 1 \in Nat
    BY <1>1
  <2> HIDE DEF P, One
  <2> QED
    BY <1>3, <2>1, <2>2, CountOfInterval DEF Rank
<1>7. DOMAIN L = 1..n /\ \A i \in 1..n : L[i] = <<1, i>>
  <2>1. L = Listed(P, InTurn(P))
    BY DEF PlacesInTurn
  <2>2. \A i \in 1..n : <<1, i>> \in P /\ (i - 1) + 1 = i
    BY <1>1, <1>2
  <2> HIDE DEF P, L
  <2>3. /\ DOMAIN L = 1..n
        /\ \A x \in P : L[Rank(P, InTurn(P), x) + 1] = x
    BY <1>4, <1>5, <2>1, ListedInOrder
  <2>4. \A i \in 1..n : L[(i - 1) + 1] = <<1, i>>
    BY <1>6, <2>2, <2>3
  <2> QED
    BY <2>2, <2>3, <2>4
<1>8. Joined(parts) = [p \in DOMAIN L |-> parts[L[p][1]][L[p][2]]]
  BY DEF Joined
<1> HIDE DEF L, parts
<1> QED
  BY <1>1, <1>7, <1>8 DEF parts
=============================================================================
