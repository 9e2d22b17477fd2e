----------------------------- MODULE OwnerDecisions -----------------------------
(***************************************************************************)
(* The owner's decisions on proposals that wait for one (owner-decisions.  *)
(* ts): ratify, subsume, keep maturing, move to the wiki, reject.          *)
(*                                                                         *)
(* A decision runs under a lock of its own proposal and action, so two     *)
(* decisions about one proposal, or about two proposals of one semantic    *)
(* slot, can overlap.  It replays its own journal, loads the store (one    *)
(* step here), journals what it will write, and writes it record by        *)
(* record.  A session is a caller; it can be abandoned between any two     *)
(* steps, by an I/O error (the lock is removed) or by a crash (it is not). *)
(*                                                                         *)
(* `orderly' says how the callers behave: one decision at a time, and one  *)
(* that failed is sent again before any other.                             *)
(***************************************************************************)
EXTENDS Naturals, Sequences, FiniteSets

CONSTANTS
  Proposals,    \* proposals that require owner ratification
  Operation,    \* [Proposals -> {"create", "revise", "supersede"}]
  Target,       \* [Proposals -> Proposals]: whose record a revise or supersede is for
  SlotOf,       \* [Proposals -> slots]: also names the wiki page of the proposal
  HasPacket,    \* proposals with a curation packet
  Offered,      \* [Proposals -> SUBSET Actions]: decisions the owner considers
  AtOnce,       \* the decisions callers take without waiting for their turn
  Sessions,     \* callers of applyOwnerDecision
  MaxFailures   \* bound on abandoned decisions and stolen locks

Actions == {"ratify", "subsume", "keep_maturing", "reject", "move_to_wiki"}
Decisions == {d \in Proposals \X Actions : d[2] \in Offered[d[1]]}
Slots == {SlotOf[p] : p \in Proposals}

ASSUME DecisionAssumption ==
  /\ Decisions # {} /\ HasPacket \subseteq Proposals
  /\ Operation \in [Proposals -> {"create", "revise", "supersede"}]
  /\ Target \in [Proposals -> Proposals]
  /\ Offered \in [Proposals -> SUBSET Actions]
  /\ AtOnce \subseteq Decisions
  /\ MaxFailures \in Nat

VARIABLES
  store,     \* the records: see StoreType
  journal,   \* the recovery journals, at most one for a proposal and action
  lock,      \* [Decisions -> "free", "dead" or the session that holds it]
  session,   \* what each caller is doing
  orderly,   \* whether the callers take turns and retry
  failures   \* decisions abandoned and live locks stolen so far

vars == <<store, journal, lock, session, orderly, failures>>

\* A canonical record is named after the proposal that created it (mem_<p>).
StoreType ==
  [proposal : [Proposals -> {"proposed", "rejected"}],
   rat      : SUBSET Decisions,
   canon    : [Proposals -> {"none", "ratified", "superseded"}],
   page     : [Slots -> SUBSET Proposals],
   claim    : SUBSET Proposals,
   packet   : [Proposals -> {"none", "pending", "applied", "answered"}],
   disp     : SUBSET Decisions]

\* A plan: the decision, and what it took from the store when it was loaded.
Plans == {[p |-> d[1], a |-> d[2], page |-> c, packet |-> b] :
            d \in Decisions, c \in SUBSET Proposals, b \in BOOLEAN}
Steps == {"idle", "lock", "unlock", "recover", "load", "journal", "write", "clear",
          "refresh"}
IdleSession == [step |-> "idle", plan |-> CHOOSE j \in Plans : TRUE, next |-> 1,
                own |-> FALSE]

Init ==
  /\ store = [proposal |-> [p \in Proposals |-> "proposed"],
              rat |-> {},
              canon |-> [p \in Proposals |-> "none"],
              page |-> [s \in Slots |-> {}],
              claim |-> {},
              packet |-> [p \in Proposals |-> IF p \in HasPacket THEN "pending" ELSE "none"],
              disp |-> {}]
  /\ journal = {}
  /\ lock = [d \in Decisions |-> "free"]
  /\ session = [s \in Sessions |-> IdleSession]
  /\ orderly \in BOOLEAN
  /\ failures = 0

-----------------------------------------------------------------------------
\* What a decision writes.

\* Mutants: the disposition goes first; the canonical record goes first.
PartsDispositionFirst(a) ==
  CASE a = "ratify" -> <<"disp", "rat", "created", "updated", "packet">>
    [] a = "subsume" -> <<"disp", "packet">>
    [] a = "keep_maturing" -> <<"disp", "rat", "packet">>
    [] a = "move_to_wiki" -> <<"disp", "page", "claim", "packet">>
    [] a = "reject" -> <<"disp", "proposal", "rat", "packet">>
PartsCanonFirst(a) ==
  CASE a = "ratify" -> <<"created", "updated", "rat", "packet", "disp">>
    [] a = "subsume" -> <<"packet", "disp">>
    [] a = "keep_maturing" -> <<"rat", "packet", "disp">>
    [] a = "move_to_wiki" -> <<"page", "claim", "packet", "disp">>
    [] a = "reject" -> <<"proposal", "rat", "packet", "disp">>

\* The records of each kind of decision, in the order they are written.
Parts(a) ==
  CASE a = "ratify" -> <<"rat", "created", "updated", "packet", "disp">>
    [] a = "subsume" -> <<"packet", "disp">>
    [] a = "keep_maturing" -> <<"rat", "packet", "disp">>
    [] a = "move_to_wiki" -> <<"page", "claim", "packet", "disp">>
    [] a = "reject" -> <<"proposal", "rat", "packet", "disp">>

\* applyApprovedCanonicalProposal creates a record, retires one, or both.
Creates(p) == Operation[p] \in {"create", "revise"}
Retires(p) == Operation[p] \in {"revise", "supersede"}

\* writeCoreRecord of one part of a plan: the store after it.
After(plan, part) ==
  LET p == plan.p
      d == <<plan.p, plan.a>>
  IN CASE part = "proposal" -> [store EXCEPT !.proposal[p] = "rejected"]
       [] part = "rat" -> [store EXCEPT !.rat = @ \cup {d}]
       [] part = "created" /\ Creates(p) -> [store EXCEPT !.canon[p] = "ratified"]
       [] part = "updated" /\ Retires(p) -> [store EXCEPT !.canon[Target[p]] = "superseded"]
       [] part = "page" -> [store EXCEPT !.page[SlotOf[p]] = plan.page]
       [] part = "claim" -> [store EXCEPT !.claim = @ \cup {p}]
       [] part = "packet" /\ plan.packet ->
            [store EXCEPT !.packet[p] = IF plan.a = "ratify" THEN "applied" ELSE "answered"]
       [] part = "disp" -> [store EXCEPT !.disp = @ \cup {d}]
       [] OTHER -> store

-----------------------------------------------------------------------------
\* What a decision reads.

SlotTaken(p) == \E q \in Proposals : store.canon[q] # "none" /\ SlotOf[q] = SlotOf[p]

\* requireProposal throws.
NotDecidable(p) == store.proposal[p] # "proposed"

\* Mutant: only the same decision repeated counts as applied.
AlreadyAppliedSameAction(p, a) == <<p, a>> \in store.disp

AlreadyApplied(p, a) ==
  \/ <<p, "ratify">> \in store.rat
  \/ <<p, "reject">> \in store.rat
  \/ <<p, a>> \in store.disp

\* Mutant: a create does not look at its slot.
ValidWithoutSlot(p, a) ==
  /\ a = "ratify" => Operation[p] = "create" \/ store.canon[Target[p]] # "none"
  /\ a = "subsume" => \E q \in Proposals : store.canon[q] # "none"

\* Neither of the branches that return rejected_by_validation is taken.
Valid(p, a) ==
  /\ a = "ratify" =>
       IF Operation[p] = "create" THEN ~SlotTaken(p) ELSE store.canon[Target[p]] # "none"
  /\ a = "subsume" => \E q \in Proposals : store.canon[q] # "none"

\* Mutant: the page is written anew.
PlanOfNewPage(p, a) ==
  [p |-> p, a |-> a, page |-> {p}, packet |-> store.packet[p] # "none"]

PlanOf(p, a) ==
  [p |-> p, a |-> a,
   page |-> store.page[SlotOf[p]] \cup {p},
   packet |-> store.packet[p] # "none"]

\* listOwnerDecisionRequests shows the proposal to the owner.
Listed(p) ==
  /\ store.proposal[p] = "proposed"
  /\ \A a \in Actions : <<p, a>> \notin store.disp
  /\ store.packet[p] \in {"none", "pending"}

JournalOf(p, a) == {j \in journal : j.p = p /\ j.a = a}

-----------------------------------------------------------------------------
\* withOwnerDecisionLock.

Decision(s) == <<session[s].plan.p, session[s].plan.a>>

At(s, step) == session[s].step = step

Goto(s, step, plan, own) ==
  session' = [session EXCEPT ![s] = [step |-> step, plan |-> plan, next |-> 1, own |-> own]]

InTurn(p, a) ==
  IF orderly THEN /\ \A t \in Sessions : At(t, "idle")
                  /\ \A j \in journal : j.p = p /\ j.a = a
  ELSE <<p, a>> \in AtOnce

\* applyOwnerDecision is called.
Start(s, p, a) ==
  /\ At(s, "idle") /\ a \in Offered[p] /\ InTurn(p, a)
  /\ Goto(s, "lock", [p |-> p, a |-> a, page |-> {}, packet |-> FALSE], FALSE)
  /\ UNCHANGED <<store, journal, lock, orderly, failures>>

Acquire(s) ==
  /\ At(s, "lock") /\ lock[Decision(s)] = "free"
  /\ lock' = [lock EXCEPT ![Decision(s)] = s]
  /\ Goto(s, "recover", session[s].plan, FALSE)
  /\ UNCHANGED <<store, journal, orderly, failures>>

\* ownerDecisionLockIsStale: the lock is older than two minutes.  Nothing renews
\* it, so its holder may be gone or only slow; a slow one counts as a failure.
FindStale(s) ==
  /\ At(s, "lock") /\ lock[Decision(s)] # "free"
  /\ IF lock[Decision(s)] = "dead" THEN failures' = failures
     ELSE failures < MaxFailures /\ failures' = failures + 1
  /\ Goto(s, "unlock", session[s].plan, FALSE)
  /\ UNCHANGED <<store, journal, lock, orderly>>

\* The stale lock is removed, whoever holds it by now.
RemoveStale(s) ==
  /\ At(s, "unlock")
  /\ lock' = [lock EXCEPT ![Decision(s)] = "free"]
  /\ Goto(s, "lock", session[s].plan, FALSE)
  /\ UNCHANGED <<store, journal, orderly, failures>>

\* The wait for the lock ends after ten seconds.
TimeOut(s) ==
  /\ At(s, "lock") /\ lock[Decision(s)] # "free"
  /\ session' = [session EXCEPT ![s] = IdleSession]
  /\ UNCHANGED <<store, journal, lock, orderly, failures>>

\* The lock is removed without a look at who holds it.
Release(s) ==
  /\ lock' = [lock EXCEPT ![Decision(s)] = "free"]
  /\ session' = [session EXCEPT ![s] = IdleSession]

-----------------------------------------------------------------------------
\* The decision itself.

\* recoverOwnerDecisionJournal finds the journal of this proposal and action.
FindJournal(s) ==
  /\ At(s, "recover")
  /\ \E j \in JournalOf(session[s].plan.p, session[s].plan.a) : Goto(s, "write", j, FALSE)
  /\ UNCHANGED <<store, journal, lock, orderly, failures>>

FindNoJournal(s) ==
  /\ At(s, "recover")
  /\ JournalOf(session[s].plan.p, session[s].plan.a) = {}
  /\ Goto(s, "load", session[s].plan, FALSE)
  /\ UNCHANGED <<store, journal, lock, orderly, failures>>

\* applyOwnerDecisionUnlocked throws or returns rejected_by_validation.
Refuse(s) ==
  LET p == session[s].plan.p
      a == session[s].plan.a
  IN /\ At(s, "load")
     /\ NotDecidable(p) \/ (~AlreadyApplied(p, a) /\ ~Valid(p, a))
     /\ Release(s)
     /\ UNCHANGED <<store, journal, orderly, failures>>

\* A dry run, or a subsume that names no canonical record.
ReturnUnchanged(s) ==
  /\ At(s, "load")
  /\ Release(s)
  /\ UNCHANGED <<store, journal, orderly, failures>>

\* already_applied
Repeat(s) ==
  LET p == session[s].plan.p
      a == session[s].plan.a
  IN /\ At(s, "load") /\ ~NotDecidable(p) /\ AlreadyApplied(p, a)
     /\ Goto(s, "refresh", session[s].plan, FALSE)
     /\ UNCHANGED <<store, journal, lock, orderly, failures>>

Decide(s) ==
  LET p == session[s].plan.p
      a == session[s].plan.a
  IN /\ At(s, "load")
     /\ ~NotDecidable(p) /\ ~AlreadyApplied(p, a) /\ Valid(p, a)
     /\ Goto(s, "journal", PlanOf(p, a), TRUE)
     /\ UNCHANGED <<store, journal, lock, orderly, failures>>

\* Mutant: the records are written without a journal.
WriteNoJournal(s) ==
  /\ At(s, "journal")
  /\ Goto(s, "write", session[s].plan, TRUE)
  /\ UNCHANGED <<store, journal, lock, orderly, failures>>

\* writeOwnerDecisionCoreRecords writes its journal over any there is.
WriteJournal(s) ==
  LET plan == session[s].plan
  IN /\ At(s, "journal")
     /\ journal' = (journal \ JournalOf(plan.p, plan.a)) \cup {plan}
     /\ Goto(s, "write", plan, TRUE)
     /\ UNCHANGED <<store, lock, orderly, failures>>

\* Mutant: the end of the list is missed.
WritePastTheEnd(s) ==
  /\ At(s, "write")
  /\ session' = [session EXCEPT ![s].next = @ + 1]
  /\ UNCHANGED <<store, journal, lock, orderly, failures>>

WriteRecord(s) ==
  LET plan == session[s].plan
      parts == Parts(plan.a)
  IN /\ At(s, "write")
     /\ store' = After(plan, parts[session[s].next])
     /\ IF session[s].next = Len(parts) THEN Goto(s, "clear", plan, session[s].own)
        ELSE session' = [session EXCEPT ![s].next = @ + 1]
     /\ UNCHANGED <<journal, lock, orderly, failures>>

ClearJournal(s) ==
  LET plan == session[s].plan
  IN /\ At(s, "clear")
     /\ journal' = journal \ JournalOf(plan.p, plan.a)
     /\ Goto(s, IF session[s].own THEN "refresh" ELSE "load", plan, FALSE)
     /\ UNCHANGED <<store, lock, orderly, failures>>

\* refreshOwnerDecisionProjection writes derived artifacts; the decision returns.
Finish(s) ==
  /\ At(s, "refresh")
  /\ Release(s)
  /\ UNCHANGED <<store, journal, orderly, failures>>

\* An I/O call throws: the lock is removed on the way out.
Throw(s) ==
  /\ session[s].step \notin {"idle", "lock", "unlock"}
  /\ failures < MaxFailures /\ failures' = failures + 1
  /\ Release(s)
  /\ UNCHANGED <<store, journal, orderly>>

\* The process dies: a lock it holds stays.
Crash(s) ==
  /\ ~At(s, "idle")
  /\ failures < MaxFailures /\ failures' = failures + 1
  /\ lock' = [d \in Decisions |-> IF lock[d] = s THEN "dead" ELSE lock[d]]
  /\ session' = [session EXCEPT ![s] = IdleSession]
  /\ UNCHANGED <<store, journal, orderly>>

Work(s) ==
  \/ Acquire(s) \/ RemoveStale(s) \/ FindJournal(s) \/ FindNoJournal(s)
  \/ Refuse(s) \/ Repeat(s) \/ Decide(s) \/ WriteJournal(s) \/ WriteRecord(s)
  \/ ClearJournal(s) \/ Finish(s)

Next ==
  \E s \in Sessions :
    \/ \E d \in Decisions : Start(s, d[1], d[2])
    \/ Work(s) \/ FindStale(s) \/ TimeOut(s) \/ ReturnUnchanged(s)
    \/ Throw(s) \/ Crash(s)

Spec == Init /\ [][Next]_vars
-----------------------------------------------------------------------------
TypeOK ==
  /\ store \in StoreType
  /\ journal \subseteq Plans
  /\ lock \in [Decisions -> {"free", "dead"} \cup Sessions]
  /\ session \in [Sessions -> [step : Steps, plan : Plans, next : 1 .. 5, own : BOOLEAN]]
  /\ orderly \in BOOLEAN
  /\ failures \in 0 .. MaxFailures

\* However decisions overlap, fail and replay, a canonical record one of them
\* created has its ratification record on file.
CanonRatified ==
  \A p \in Proposals : store.canon[p] # "none" => <<p, "ratify">> \in store.rat

\* However decisions overlap and fail, a proposal the owner's list no longer shows
\* has a recorded decision or a journal that will record it: none is lost from
\* sight between the packet's update and the disposition.
DecisionAccounted ==
  \A p \in Proposals : ~Listed(p) =>
    \/ \E a \in Actions : <<p, a>> \in store.disp
    \/ \E j \in journal : j.p = p

\* However decisions overlap and fail, a recorded decision is a whole one.
DispositionComplete ==
  \A d \in store.disp :
    /\ d[2] \in {"ratify", "reject", "keep_maturing"} => d \in store.rat
    /\ d[2] = "ratify" /\ Creates(d[1]) => store.canon[d[1]] # "none"
    /\ d[2] = "reject" => store.proposal[d[1]] = "rejected"
    /\ d[2] = "move_to_wiki" => d[1] \in store.claim
    /\ d[1] \in HasPacket => store.packet[d[1]] # "pending"

Quiet == journal = {} /\ \A s \in Sessions : At(s, "idle")

\* Callers that take turns never get a proposal both ratified and rejected.
OneEnd ==
  orderly =>
    \A p \in Proposals : ~({<<p, "ratify">>, <<p, "reject">>} \subseteq store.rat)

\* With callers that take turns the curation packet says, between decisions, whether
\* the proposal was ratified, answered otherwise, or still waits.
PacketTells ==
  orderly /\ Quiet => \A p \in HasPacket :
    LET decided == {a \in Actions : <<p, a>> \in store.disp}
    IN store.packet[p] = IF "ratify" \in decided THEN "applied"
                         ELSE IF decided # {} THEN "answered" ELSE "pending"

\* A record that was made by revising another one.
Revised(p) == Creates(p) /\ Retires(p) /\ store.canon[p] # "none"

\* With callers that take turns two ratified records share a slot only if a record
\* of the slot was revised twice, or one of another slot was revised into it.
SlotShared ==
  orderly /\ Quiet => \A p, q \in Proposals :
    p # q /\ store.canon[p] = "ratified" /\ store.canon[q] = "ratified"
      /\ SlotOf[p] = SlotOf[q]
    => \E r \in Proposals :
         /\ Revised(r)
         /\ \/ SlotOf[r] = SlotOf[p] /\ SlotOf[Target[r]] # SlotOf[p]
            \/ /\ SlotOf[Target[r]] = SlotOf[p]
               /\ \E t \in Proposals : t # r /\ Revised(t) /\ Target[t] = Target[r]

\* With callers that take turns no page loses a claim that was moved to it.
PageKeepsClaims ==
  orderly => \A p \in Proposals :
    <<p, "move_to_wiki">> \in store.disp => p \in store.page[SlotOf[p]]

\* Each slot has at most one ratified record between decisions.
SlotHasOneRatified ==
  orderly /\ Quiet => \A p, q \in Proposals :
    p # q /\ store.canon[p] = "ratified" /\ store.canon[q] = "ratified" => SlotOf[p] # SlotOf[q]
=============================================================================
