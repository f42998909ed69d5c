------------------------------ MODULE Listings ------------------------------
(***************************************************************************)
(* Finite sets laid out as sequences, in an order that is a set of pairs.  *)
(* The member at place p has p - 1 members before it.  The operators of    *)
(* the community modules for this (SetToSortSeq, SortSeq, SelectSeq) are   *)
(* recursive underneath, and nothing can be proved from them.              *)
(***************************************************************************)
EXTENDS Integers, FiniteSets

(* R orders S: no two members come before each other, and of any two one   *)
(* does                                                                    *)
Orders(R, S) ==
  /\ \A x, y, z \in S : <<x, y>> \in R /\ <<y, z>> \in R => <<x, z>> \in R
  /\ \A x \in S : <<x, x>> \notin R
  /\ \A x, y \in S : x # y => <<x, y>> \in R \/ <<y, x>> \in R

Before(S, R, x) == {y \in S : <<y, x>> \in R}

(* the members of S in the order R *)
Listed(S, R) ==
  [p \in 1..Cardinality(S) |-> CHOOSE x \in S : Cardinality(Before(S, R, x)) = p - 1]

(* a set of numbers in ascending order *)
Numbered(I) == [p \in 1..Cardinality(I) |-> CHOOSE i \in I : Cardinality({j \in I : j < i}) = p - 1]

(* what a sequence has at the places in I *)
Selected(s, I) == LET at == Numbered(I) IN [n \in 1..Cardinality(I) |-> s[at[n]]]

(* the parts of a sequence of sequences, one after the other *)
Places(parts) == UNION {{<<k, n>> : n \in DOMAIN parts[k]} : k \in DOMAIN parts}
InTurn(P) == {e \in P \X P : e[1][1] < e[2][1] \/ (e[1][1] = e[2][1] /\ e[1][2] < e[2][2])}
PlacesInTurn(parts) == Listed(Places(parts), InTurn(Places(parts)))
Joined(parts) ==
  LET at == PlacesInTurn(parts)
  IN  [p \in DOMAIN at |-> parts[at[p][1]][at[p][2]]]
=============================================================================
