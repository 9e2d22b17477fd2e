-------------------------- MODULE MCSessionContinuity --------------------------
(***************************************************************************)
(* Instances of SessionContinuity: checkpoints cp1 and cp2 of one thread,  *)
(* and cp3 of the same or of another.                                      *)
(***************************************************************************)
EXTENDS SessionContinuity, TLC

CONSTANTS cp1, cp2, cp3, caller1, caller2

TwoThreads == [x \in Checkpoints |-> IF x = cp3 THEN 2 ELSE 1]
OneThread == [x \in Checkpoints |-> 1]
\* No request names cp3 but the one for it.
NotThird ==
  {r \in Requests : \/ r.kind = "checkpoint" \/ r.cp = Unnamed
                   \/ (r.kind \in {"resume", "receipt"} /\ r.cp # cp3)}
Symmetric == Permutations(Callers) \cup Permutations({cp1, cp2})
=============================================================================
