------------------------------ MODULE Greatest ------------------------------
(***************************************************************************)
(* The greatest and the least of some numbers, as the proofs need them:    *)
(* the last filter that matches, the last version of a file, the first     *)
(* mirror that was not started, a free slot of the pool, the next position *)
(* of an enumeration.                                                      *)
(***************************************************************************)
EXTENDS Integers, WellFoundedInduction, TLAPS

(* The greatest of some numbers up to n exists: it is the chosen one.      *)
THEOREM LastOf ==
  ASSUME NEW n \in Nat, NEW S, S \subseteq 1 .. n, S # {}
  PROVE  LET last == CHOOSE i \in S : \A j \in S : j <= i
         IN last \in S /\ \A j \in S : j <= last
<1> DEFINE T == {n - i : i \in S}
<1>1. T \subseteq Nat /\ T # {}
  <2>1. \A i \in S : n - i \in Nat
    OBVIOUS
  <2>2. PICK i \in S : TRUE
    OBVIOUS
  <2>3. n - i \in T
    BY <2>2
  <2> QED
    BY <2>1, <2>3
<1> DEFINE R == {pair \in Nat \X Nat : pair[1] < pair[2]}
<1>2. IsWellFoundedOn(R, Nat)
  BY NatLessThanWellFounded DEF OpToRel
<1>3. \A i \in S : n - i \in T
  OBVIOUS
<1>4. \A x \in T : \E i \in S : x = n - i
  OBVIOUS
<1> HIDE DEF R, T
<1>5. PICK x \in T : \A y \in T : ~ (<<y, x>> \in R)
  BY <1>1, <1>2, WFMin
<1>6. \A y \in T : ~(y < x)
  BY <1>1, <1>5 DEF R
<1>7. PICK i \in S : x = n - i
  BY <1>4, <1>5
<1>8. \A j \in S : j <= i
  <2> TAKE j \in S
  <2>1. n - j \in T /\ ~(n - j < n - i)
    BY <1>3, <1>6, <1>7
  <2>2. n - j \in Int /\ n - i \in Int /\ i \in Int /\ j \in Int /\ n \in Int
    OBVIOUS
  <2> QED
    BY <2>1, <2>2
<1> QED
  BY <1>8

(* The least of some numbers exists. *)
THEOREM FirstOf ==
  ASSUME NEW n \in Nat, NEW S, S \subseteq 1 .. n, S # {}
  PROVE  \E i \in S : \A j \in S : i <= j
<1> DEFINE R == {pair \in Nat \X Nat : pair[1] < pair[2]}
<1>1. IsWellFoundedOn(R, Nat)
  BY NatLessThanWellFounded DEF OpToRel
<1>2. S \subseteq Nat
  OBVIOUS
<1> HIDE DEF R
<1>3. PICK i \in S : \A j \in S : ~ (<<j, i>> \in R)
  BY <1>1, <1>2, WFMin
<1>4. \A j \in S : ~(j < i)
  BY <1>2, <1>3 DEF R
<1> QED
  BY <1>2, <1>4

=============================================================================
