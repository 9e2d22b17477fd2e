--------------------------- MODULE MCConversationStore ---------------------------
(***************************************************************************)
(* Instances of ConversationStore: two flows that compete for one slot.    *)
(***************************************************************************)
EXTENDS ConversationStore

CONSTANTS a, b

OneSlot == [f \in Flows |-> 1]
TwoSlots == [f \in Flows |-> IF f = a THEN 1 ELSE 2]
SameStatement == [f \in Flows |-> 1]
TwoStatements == [f \in Flows |-> IF f = a THEN 1 ELSE 2]
Participants == [f \in Flows |-> {"participant"}]
OwnerWritesB == [f \in Flows |-> IF f = b THEN {"owner"} ELSE {"participant"}]
AnyOwnerOrParticipant == [f \in Flows |-> {"owner", "participant"}]
=============================================================================
