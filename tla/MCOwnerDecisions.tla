---------------------------- MODULE MCOwnerDecisions ----------------------------
(***************************************************************************)
(* Instances of OwnerDecisions: proposals p1 and p2 to create a record in  *)
(* one slot, p3 and p4 to revise p1's record.                              *)
(***************************************************************************)
EXTENDS OwnerDecisions, TLC

CONSTANTS p1, p2, p3, p4, s1, s2

Operations == [p \in Proposals |-> IF p \in {p1, p2} THEN "create" ELSE "revise"]
TargetA == [p \in Proposals |-> p1]
OneSlot == [p \in Proposals |-> 1]
Considered ==
  [p \in Proposals |->
    CASE p = p1 -> {"ratify", "reject", "move_to_wiki"}
      [] p = p2 -> {"ratify", "subsume", "keep_maturing", "move_to_wiki"}
      [] OTHER -> {"ratify"}]
Hasty == {<<p1, "ratify">>, <<p1, "reject">>, <<p1, "move_to_wiki">>, <<p2, "move_to_wiki">>}
Callers == Permutations(Sessions)
=============================================================================
