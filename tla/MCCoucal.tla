------------------------------ MODULE MCCoucal ------------------------------
(***************************************************************************)
(* All keys share their first position, at 3 until the table has 16        *)
(* positions and at 11 then.  a and b share the second one too, which moves *)
(* at each doubling; c, d, e and f have no other position than the first,  *)
(* at any size, so that the stash fills up and overflows.                  *)
(***************************************************************************)
EXTENDS Coucal

CONSTANTS a, b, c, d, e, f

MCKeys == {a, b, c, d, e, f}
MCValues == 0 .. 1
MCHash1 == [k \in MCKeys |-> 11]
MCHash2 == [k \in MCKeys |-> IF k \in {a, b} THEN 14 ELSE 27]
MCBytes == a :> 3 @@ b :> 1 @@ [k \in {c, d, e, f} |-> 2]

Symmetry == Permutations({c, d, e, f})

=============================================================================
