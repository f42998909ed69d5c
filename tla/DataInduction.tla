--------------------------- MODULE DataInduction ---------------------------
(***************************************************************************)
(* Induction over data without an operator parameter: what is to be shown  *)
(* of every number is the membership in a set.  The proofs about recursive *)
(* functions and folds rest on these facts.                                *)
(***************************************************************************)
EXTENDS Integers, Sequences, FiniteSets, WellFoundedInduction, FiniteSetTheorems, TLAPS

LEMMA LessIsWellFounded ==
  \E R : IsWellFoundedOn(R, Nat) /\ \A x, y \in Nat : y < x => <<y, x>> \in R
<1>1. \A x, y \in Nat : y < x => <<y, x>> \in OpToRel(<, Nat)
  BY DEF OpToRel
<1> QED
  BY <1>1, NatLessThanWellFounded, Zenon

(* a set of numbers has a least one *)
LEMMA LeastNumber ==
  ASSUME NEW S, S \subseteq Nat, S # {}
  PROVE  \E m \in S : \A n \in S : m <= n
<1>1. PICK R : IsWellFoundedOn(R, Nat) /\ \A x, y \in Nat : y < x => <<y, x>> \in R
  BY LessIsWellFounded
<1>2. PICK x \in S : \A y \in S : ~(<<y, x>> \in R)
  BY <1>1, WFMin, Zenon
<1>3. ASSUME NEW y \in S
      PROVE  x <= y
  <2>1. x \in Nat /\ y \in Nat
    OBVIOUS
  <2>2. ~(y < x)
    BY <1>1, <1>2, <2>1, Zenon
  <2> QED
    BY <2>1, <2>2
<1> QED
  BY <1>3

(* induction *)
LEMMA Induct ==
  ASSUME NEW S, 0 \in S, \A n \in Nat : n \in S => n + 1 \in S
  PROVE  Nat \subseteq S
<1> SUFFICES ASSUME Nat \ S # {} PROVE FALSE
  OBVIOUS
<1>1. PICK m \in Nat \ S : \A n \in Nat \ S : m <= n
  BY LeastNumber
<1>2. m # 0
  OBVIOUS
<1>3. m - 1 \in Nat /\ m - 1 \in S
  BY <1>1, <1>2
<1>4. (m - 1) + 1 \in S
  BY <1>3
<1> QED
  BY <1>1, <1>4

(* f starts with a, and Step[k] makes its k-th value of the one before it.  *)
Follows(f, N, V, a, Step) ==
  f \in [0..N -> V] /\ f[0] = a /\ \A k \in 1..N : f[k] = Step[k][f[k - 1]]

(* A recursive definition by steps has a solution.                         *)
LEMMA Recursion ==
  ASSUME NEW N \in Nat, NEW V, NEW a \in V, NEW Step \in [1..N -> [V -> V]]
  PROVE  \E f : Follows(f, N, V, a, Step)
<1> DEFINE Solves(f, n) == f \in [0..n -> V] /\ f[0] = a /\ \A k \in 1..n : f[k] = Step[k][f[k - 1]]
           S == {n \in Nat : n <= N => \E f : Solves(f, n)}
<1>1. 0 \in S
  <2> DEFINE f == [k \in 0..0 |-> a]
  <2>1. Solves(f, 0)
    OBVIOUS
  <2> HIDE DEF f, Solves
  <2> QED
    BY <2>1
<1>2. ASSUME NEW n \in Nat, n \in S
      PROVE  n + 1 \in S
  <2>1. SUFFICES ASSUME n + 1 <= N
                 PROVE  \E f : Solves(f, n + 1)
    <3> HIDE DEF Solves
    <3> QED
      OBVIOUS
  <2>2. PICK f : Solves(f, n)
    <3> HIDE DEF Solves
    <3> QED
      BY <1>2, <2>1
  <2> DEFINE g == [k \in 0..(n + 1) |-> IF k <= n THEN f[k] ELSE Step[n + 1][f[n]]]
  <2>3. f[n] \in V /\ n + 1 \in 1..N
    BY <2>1, <2>2
  <2>4. Step[n + 1][f[n]] \in V
    BY <2>3
  <2>5. g \in [0..(n + 1) -> V] /\ g[0] = a
    BY <2>2, <2>4
  <2>6. ASSUME NEW k \in 1..(n + 1)
        PROVE  g[k] = Step[k][g[k - 1]]
    <3>1. CASE k <= n
      BY <2>2, <3>1
    <3>2. CASE k = n + 1
      BY <3>2
    <3> QED
      BY <3>1, <3>2
  <2>7. Solves(g, n + 1)
    BY <2>5, <2>6
  <2> HIDE DEF g, Solves
  <2> QED
    BY <2>7
<1>3. Nat \subseteq S
  <2> HIDE DEF S
  <2> QED
    BY <1>1, <1>2, Induct
<1>4. PICK f : Solves(f, N)
  <2> HIDE DEF Solves
  <2> QED
    BY <1>3
<1>5. Follows(f, N, V, a, Step)
  BY <1>4 DEF Follows
<1> QED
  BY <1>5

(* induction up to a bound *)
LEMMA InductTo ==
  ASSUME NEW N \in Nat, NEW S, 0 \in S, \A n \in 1..N : n - 1 \in S => n \in S
  PROVE  0..N \subseteq S
<1> DEFINE P == {n \in Nat : n <= N => n \in S}
<1>1. 0 \in P
  OBVIOUS
<1>2. ASSUME NEW n \in Nat, n \in P
      PROVE  n + 1 \in P
  <2>1. n + 1 <= N => n + 1 \in 1..N /\ (n + 1) - 1 = n /\ n \in S
    BY <1>2
  <2> QED
    BY <2>1
<1>3. Nat \subseteq P
  <2> HIDE DEF P
  <2> QED
    BY <1>1, <1>2, Induct
<1> QED
  BY <1>3

(* Two functions that start alike and go on alike are equal.               *)
LEMMA SameRecursion ==
  ASSUME NEW N \in Nat, NEW f, NEW g, f[0] = g[0],
         \A k \in 1..N : f[k - 1] = g[k - 1] => f[k] = g[k]
  PROVE  \A k \in 0..N : f[k] = g[k]
<1> DEFINE S == {k \in 0..N : f[k] = g[k]}
<1>1. 0 \in S
  OBVIOUS
<1>2. \A n \in 1..N : n - 1 \in S => n \in S
  OBVIOUS
<1>3. 0..N \subseteq S
  <2> HIDE DEF S
  <2> QED
    BY <1>1, <1>2, InductTo
<1> QED
  BY <1>3

LEMMA FollowsSteps ==
  ASSUME NEW N \in Nat, NEW V, NEW a, NEW Step, NEW f, Follows(f, N, V, a, Step)
  PROVE  /\ f \in [0..N -> V] /\ f[0] = a
         /\ \A k \in 1..N : f[k - 1] \in V /\ f[k] = Step[k][f[k - 1]]
BY DEF Follows

(* f holds the running totals of t.                                        *)
Totals(f, N, t) ==
  f \in [0..N -> Int] /\ f[0] = 0 /\ \A k \in 1..N : f[k] = f[k - 1] + t[k]

LEMMA RunningTotals ==
  ASSUME NEW N \in Nat, NEW t, \A k \in 1..N : t[k] \in Int
  PROVE  \E f : Totals(f, N, t)
<1> DEFINE Step == [k \in 1..N |-> [x \in Int |-> x + t[k]]]
<1>1. Step \in [1..N -> [Int -> Int]]
  OBVIOUS
<1>2. PICK f : Follows(f, N, Int, 0, Step)
  <2> HIDE DEF Step
  <2>1. 0 \in Int
    OBVIOUS
  <2> QED
    BY <1>1, <2>1, Recursion
<1>3. ASSUME NEW k \in 1..N
      PROVE  f[k] = f[k - 1] + t[k]
  <2>1. f[k - 1] \in Int /\ f[k] = Step[k][f[k - 1]]
    <3> HIDE DEF Step
    <3> QED
      BY <1>2 DEF Follows
  <2>2. Step[k] = [x \in Int |-> x + t[k]]
    OBVIOUS
  <2> HIDE DEF Step
  <2> QED
    BY <2>1, <2>2
<1>4. f \in [0..N -> Int] /\ f[0] = 0
  BY <1>2 DEF Follows
<1> QED
  BY <1>3, <1>4 DEF Totals

(* Whatever adds up the same numbers from 0 on holds the same totals.      *)
LEMMA TotalsAgree ==
  ASSUME NEW N \in Nat, NEW t, NEW f, Totals(f, N, t),
         NEW g, g = [k \in 0..N |-> g[k]], g[0] = 0, \A k \in 1..N : g[k] = g[k - 1] + t[k]
  PROVE  Totals(g, N, t) /\ \A k \in 0..N : g[k] = f[k]
<1>1. \A k \in 0..N : g[k] = f[k]
  <2>1. g[0] = f[0]
    BY DEF Totals
  <2>2. \A k \in 1..N : g[k - 1] = f[k - 1] => g[k] = f[k]
    BY DEF Totals
  <2> QED
    BY ONLY N \in Nat, <2>1, <2>2, SameRecursion
<1>2. \A k \in 0..N : g[k] \in Int
  BY <1>1 DEF Totals
<1>3. g \in [0..N -> Int]
  BY <1>2
<1> QED
  BY <1>1, <1>3 DEF Totals

-----------------------------------------------------------------------------
(* The end of a sequence                                                   *)

LEMMA WithoutLast ==
  ASSUME NEW S, NEW s \in Seq(S), s # <<>>
  PROVE  LET b == SubSeq(s, 1, Len(s) - 1)
         IN  /\ b \in Seq(S) /\ Len(b) = Len(s) - 1 /\ Len(s) \in Nat /\ Len(s) >= 1
             /\ \A k \in 1..(Len(s) - 1) : b[k] = s[k]
<1>1. Len(s) \in Nat /\ Len(s) >= 1 /\ \A k \in 1..Len(s) : s[k] \in S
  OBVIOUS
<1> DEFINE b == SubSeq(s, 1, Len(s) - 1)
           n == Len(s) - 1
<1>2. n \in Nat /\ b = [k \in 1..n |-> s[k]]
  BY <1>1
<1>3. \A k \in 1..n : s[k] \in S
  BY <1>1
<1> HIDE DEF b, n
<1>4. b \in Seq(S) /\ Len(b) = n /\ \A k \in 1..n : b[k] = s[k]
  BY <1>2, <1>3
<1> QED
  BY <1>1, <1>4 DEF b, n

LEMMA WithOneMore ==
  ASSUME NEW S, NEW s \in Seq(S), NEW e \in S
  PROVE  LET a == Append(s, e)
         IN  /\ a \in Seq(S) /\ Len(a) = Len(s) + 1 /\ Len(s) \in Nat
             /\ DOMAIN a = 1..(Len(s) + 1) /\ DOMAIN s = 1..Len(s)
             /\ a[Len(s) + 1] = e /\ \A k \in 1..Len(s) : a[k] = s[k]
OBVIOUS

=============================================================================
