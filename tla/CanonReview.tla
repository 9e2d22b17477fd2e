------------------------------- MODULE CanonReview -------------------------------
(***************************************************************************)
(* What the governed write path promises, with no files and no failures:   *)
(* each proposal is decided once, a proposal about the owner waits for the *)
(* owner, a review ends once, and a semantic slot has one canonical record.*)
(* ConversationStore implements it: the journal write is the step that     *)
(* changes an outcome.                                                     *)
(***************************************************************************)
CONSTANTS Flows, SlotOf, OwnerSubject

VARIABLE outcome  \* what has been decided about each proposal

Outcomes == {"unseen", "waiting", "canon", "refused", "expired"}

SlotFree(f) ==
  \A g \in Flows \ {f} : outcome[g] = "canon" => SlotOf[g] # SlotOf[f]

Init == outcome = [f \in Flows |-> "unseen"]

Admit(f) ==
  /\ outcome[f] = "unseen" /\ SlotFree(f)
  /\ outcome' = [outcome EXCEPT ![f] = "canon"]

Queue(f) ==
  /\ outcome[f] = "unseen" /\ f \in OwnerSubject
  /\ outcome' = [outcome EXCEPT ![f] = "waiting"]

Refuse(f) ==
  /\ outcome[f] = "unseen"
  /\ outcome' = [outcome EXCEPT ![f] = "refused"]

Ratify(f) ==
  /\ outcome[f] = "waiting" /\ SlotFree(f)
  /\ outcome' = [outcome EXCEPT ![f] = "canon"]

Close(f, end) ==
  /\ outcome[f] = "waiting"
  /\ outcome' = [outcome EXCEPT ![f] = end]

\* A refused proposal about the owner may be discarded and submitted again.
Discard(f) ==
  /\ outcome[f] = "refused" /\ f \in OwnerSubject
  /\ outcome' = [outcome EXCEPT ![f] = "unseen"]

Next == \E f \in Flows :
  \/ Admit(f) \/ Queue(f) \/ Refuse(f) \/ Ratify(f) \/ Discard(f)
  \/ Close(f, "refused") \/ Close(f, "expired")

Spec == Init /\ [][Next]_outcome
=============================================================================
