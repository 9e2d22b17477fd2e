------------------------- MODULE MCContradictionReview -------------------------
(***************************************************************************)
(* Three claims about one slot that disagree: the system's and the owner's *)
(* are observed at the same time, a participant's later; the owner's claim *)
(* goes through the owner's ratification.                                  *)
(***************************************************************************)
EXTENDS ContradictionReview

CONSTANTS fa, fb, fc

ThreeClaims == {fa, fb, fc}
Stated == [f \in ThreeClaims |-> CASE f = fa -> "brief" [] f = fb -> "long" [] f = fc -> "any"]
Observed == [f \in ThreeClaims |-> IF f = fb THEN 2 ELSE 1]
Speakers == [f \in ThreeClaims |->
               CASE f = fa -> "system" [] f = fb -> "owner" [] f = fc -> "participant"]
=============================================================================
