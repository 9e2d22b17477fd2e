---------------------------- MODULE ConversationStore ----------------------------
(***************************************************************************)
(* The governed write path of a conversation preference and the owner      *)
(* review of what it defers (workflow-engine/conversation-preference-      *)
(* store.ts): write, read-with-repair, ratify (from the queue entry and    *)
(* from the original input), reject and expire, with their recovery        *)
(* journals.                                                               *)
(*                                                                         *)
(* A flow is one proposal with the files it owns.  Every operation runs    *)
(* under the store write lock, which is taken to do its work: one runs at  *)
(* a time, and `run' is the one in progress.  Every file write, file       *)
(* removal, log append and journal write is a step, and an operation can   *)
(* be abandoned between any two: the process dies, or an I/O call throws.  *)
(* A request that throws before it changed anything is the step that ends  *)
(* its run.                                                                *)
(***************************************************************************)
EXTENDS Naturals, Sequences, FiniteSets

CONSTANTS
  Flows,          \* proposals
  SlotOf,         \* [Flows -> slots]: the semantic slot of the claim
  StatementOf,    \* [Flows -> statements]: the claim's normalised statement
  OwnerSubject,   \* flows whose subject_authority_role is "owner"
  ContradictionIds, \* flows whose input carries ids.contradiction(_resolution)
  Callers,        \* [Flows -> SUBSET Principals]: who writes and reads a flow
  LegacyRatified, \* flows ratified through the input-shaped API as well
  RetryFirst,     \* TRUE: after a failure, the failed operation is retried
                  \* before any other starts (the caller's discipline)
  MaxFailures     \* bound on abandoned operations

Principals == {"owner", "system", "participant"}
Operations ==
  {"write", "read", "ratify_queued", "ratify_deferred", "reject", "expire"}
Journals == {"write", "apply", "close"}

\* The files of a flow, grouped; the groups in the order they are written.
\* source: raw source, source record, observation, episode, entities, relation;
\* conflict: contradiction, its resolution and the manual review queue entry;
\* proposal: wiki page, wiki claim, proposal; rat: disposition and ratification.
FileOrder ==
  <<"source", "claim", "conflict", "proposal", "queue", "rat", "canon", "diag",
    "projection">>
ResetOrder ==
  <<"source", "claim", "proposal", "queue", "rat", "conflict", "diag", "canon",
    "projection">>
Files ==
  {"source", "claim", "conflict", "proposal", "queue", "rat", "canon", "diag",
   "projection"}
LastFile == 9

Decisions == {"approved", "deferred", "rejected", "expired"}
Statuses == {"pending", "applied", "answered", "expired"}
Contents == {"none", "present", "open", "gated"} \cup Decisions \cup Statuses
Phases == {"idle", "recover", "files", "log", "clear", "inspect", "reset", "decide"}

ASSUME FlowAssumption ==
  /\ Flows # {}
  /\ OwnerSubject \subseteq Flows
  /\ ContradictionIds \subseteq Flows
  /\ LegacyRatified \subseteq Flows
  /\ Callers \in [Flows -> SUBSET Principals]
ASSUME BoundAssumption == MaxFailures \in Nat /\ RetryFirst \in BOOLEAN

VARIABLES
  disk,     \* [Flows -> [Files -> Contents]]: what each file holds
  signer,   \* the authenticated principal of each ratification record
  journal,  \* [Flows -> [Journals -> Plans]]: recovery journals
  audit,    \* outcome the change log holds for each of a flow's entry ids
  run,      \* the operation that holds the store write lock
  failures  \* operations abandoned so far

vars == <<disk, signer, journal, audit, run, failures>>

\* What a journal lists: the content of each file it writes ("keep" for the
\* others) and the principal its ratification record carries.
Plans == [files : [Files -> Contents \cup {"keep"}], by : Principals \cup {"nobody"}]
NoPlan == [files |-> [p \in Files |-> "keep"], by |-> "nobody"]
NoFiles == [p \in Files |-> "none"]
Idle == [op |-> "none", flow |-> CHOOSE f \in Flows : TRUE, by |-> "nobody",
         phase |-> "idle", key |-> "write", next |-> 1, own |-> FALSE]

Init ==
  /\ disk = [f \in Flows |-> NoFiles]
  /\ signer = [f \in Flows |-> "nobody"]
  /\ journal = [f \in Flows |-> [k \in Journals |-> NoPlan]]
  /\ audit = [f \in Flows |-> [k \in Journals |-> "none"]]
  /\ run = Idle
  /\ failures = 0

-----------------------------------------------------------------------------
\* What the operations read from the store.

Present(f, p) == disk[f][p] # "none"

\* buildAuthorityReviewRequirement: a claim about the owner is gated unless the
\* owner makes it.
Promotion(f, by) == IF f \in OwnerSubject /\ by # "owner" THEN "gated" ELSE "open"

\* ratifyDeferred looks its flow up with authenticated_principal: undefined.
LookupPrincipal == IF run.op = "ratify_deferred" THEN "nobody" ELSE run.by

\* The files writeFlowBaselinePaths lists for the promotion the caller implies.
Baseline(f, promotion) ==
  {"source", "claim", "proposal", "rat"}
    \cup (IF promotion = "gated" THEN {"queue"} ELSE {})

\* findConflictingWorldClaim: an active claim of another flow says otherwise.
WorldConflict(f) ==
  \E g \in Flows \ {f} :
    /\ Present(g, "claim")
    /\ SlotOf[g] = SlotOf[f]
    /\ StatementOf[g] # StatementOf[f]

\* The conflict gate of a create: the slot has a ratified canonical record.
CanonConflict(f) == \E g \in Flows : Present(g, "canon") /\ SlotOf[g] = SlotOf[f]

\* evaluateCanonicalProposal: deferred only when the owner gate alone fails.
Decision(f, promotion) ==
  IF WorldConflict(f) \/ CanonConflict(f) THEN "rejected"
  ELSE IF promotion = "gated" THEN "deferred" ELSE "approved"

\* Mutants: a diagnostic is expected of exactly the flows not approved; of all.
PartialWithDiagnostic(f, promotion) ==
  /\ \E p \in Baseline(f, promotion) : Present(f, p)
  /\ \/ \E p \in Baseline(f, promotion) : ~Present(f, p)
     \/ (disk[f]["rat"] = "approved") # Present(f, "canon")
     \/ (disk[f]["rat"] = "approved") = Present(f, "diag")
PartialWithoutDiagnostic(f, promotion) ==
  /\ \E p \in Baseline(f, promotion) : Present(f, p)
  /\ \/ \E p \in Baseline(f, promotion) : ~Present(f, p)
     \/ (disk[f]["rat"] = "approved") # Present(f, "canon")
     \/ ~Present(f, "diag")

\* detectPartiallyMaterializedWriteFlow
Partial(f, promotion) ==
  /\ \E p \in Baseline(f, promotion) : Present(f, p)
  /\ \/ \E p \in Baseline(f, promotion) : ~Present(f, p)
     \/ (disk[f]["rat"] = "approved") # Present(f, "canon")
     \/ disk[f]["rat"] # "approved" /\ ~Present(f, "diag")

\* loadConversationPreferenceFlowFromOwnerRatificationQueue returns a flow.
Loadable(f) ==
  \A p \in {"source", "claim", "proposal", "queue", "rat", "projection"} : Present(f, p)

\* loadExistingFlow returns a flow to ratifyDeferred.
LoadsForRatification(f) ==
  /\ \A p \in Baseline(f, Promotion(f, "nobody")) : Present(f, p)
  /\ ~Partial(f, Promotion(f, "nobody"))
  /\ disk[f]["proposal"] = Promotion(f, "nobody")

-----------------------------------------------------------------------------
\* The plans the operations journal.

\* Mutant: the contradiction is left out of the files.
WritePlanWithoutConflict(f, by) ==
  LET promotion == Promotion(f, by)
      decision == Decision(f, promotion)
  IN [files |->
        [p \in Files |->
           CASE p \in {"source", "claim", "projection"} -> "present"
             [] p = "proposal" -> promotion
             [] p = "queue" -> IF decision = "deferred" THEN "pending" ELSE "keep"
             [] p = "rat" -> decision
             [] p = "canon" -> IF decision = "approved" THEN "present" ELSE "keep"
             [] p = "diag" -> IF decision = "approved" THEN "keep" ELSE "present"
             [] OTHER -> "keep"],
      by |-> by]

WritePlan(f, by) ==
  LET promotion == Promotion(f, by)
      decision == Decision(f, promotion)
  IN [files |->
        [p \in Files |->
           CASE p \in {"source", "claim", "projection"} -> "present"
             [] p = "conflict" -> IF WorldConflict(f) THEN "present" ELSE "keep"
             [] p = "proposal" -> promotion
             [] p = "queue" -> IF decision = "deferred" THEN "pending" ELSE "keep"
             [] p = "rat" -> decision
             [] p = "canon" -> IF decision = "approved" THEN "present" ELSE "keep"
             [] p = "diag" -> IF decision = "approved" THEN "keep" ELSE "present"],
      by |-> by]

ReviewPlan(status, decision, by) ==
  [files |->
     [p \in Files |->
        CASE p = "queue" -> status
          [] p = "rat" -> decision
          [] p = "canon" -> IF decision = "approved" THEN "present" ELSE "keep"
          [] p \in {"diag", "projection"} -> "present"
          [] OTHER -> "keep"],
   by |-> by]

ApplyPlan(by) == ReviewPlan("applied", "approved", by)

\* Mutant: an expiration leaves the queue entry as a rejection would.
ClosePlanAnswered(op, by) ==
  ReviewPlan("answered", IF op = "reject" THEN "rejected" ELSE "expired", by)

ClosePlan(op, by) ==
  IF op = "reject" THEN ReviewPlan("answered", "rejected", by)
  ELSE ReviewPlan("expired", "expired", by)

-----------------------------------------------------------------------------
\* Starting an operation.

Outstanding == {j \in Flows \X Journals : journal[j[1]][j[2]] # NoPlan}

FirstJournal(op) ==
  CASE op \in {"write", "read"} -> "write"
    [] op \in {"ratify_queued", "ratify_deferred"} -> "apply"
    [] op \in {"reject", "expire"} -> "close"

\* The journals an operation replays before it decides anything.
Recovers(op) ==
  IF op = "ratify_deferred" THEN {"apply", "write"} ELSE {FirstJournal(op)}

\* The caller of a failed operation retries it before another operation runs.
CallerMayStart(op, f) ==
  RetryFirst => \A j \in Outstanding : j[1] = f /\ j[2] \in Recovers(op)

Start(op, f, by) ==
  /\ run.phase = "idle"
  /\ CallerMayStart(op, f)
  /\ run' = [op |-> op, flow |-> f, by |-> by, phase |-> "recover",
             key |-> FirstJournal(op), next |-> 1, own |-> FALSE]
  /\ UNCHANGED <<disk, signer, journal, audit, failures>>

\* writeConversationPreferenceFlowToStore
Write(f, by) == by \in Callers[f] /\ Start("write", f, by)

\* readConversationPreferenceFlowResult, which repairs what it reads.
Read(f, by) == by \in Callers[f] /\ Start("read", f, by)

\* ratifyQueuedConversationPreferenceProposalToStore loads the flow from its
\* queue entry before it recovers anything.
RatifyQueued(f, by) == Loadable(f) /\ Start("ratify_queued", f, by)

\* ratifyDeferredConversationPreferenceProposalToStore
RatifyDeferred(f, by) == f \in LegacyRatified /\ Start("ratify_deferred", f, by)

\* rejectQueuedConversationPreferenceProposalToStore
Reject(f, by) == Start("reject", f, by)

\* expireQueuedConversationPreferenceProposalToStore
Expire(f, by) == Start("expire", f, by)

Begin ==
  \E f \in Flows, by \in Principals :
    \/ Write(f, by) \/ Read(f, by)
    \/ RatifyQueued(f, by) \/ RatifyDeferred(f, by)
    \/ Reject(f, by) \/ Expire(f, by)

-----------------------------------------------------------------------------
\* Recovery and materialisation.

\* The operation in progress goes to the start of a phase.
Goto(phase, key, own) ==
  [op |-> run.op, flow |-> run.flow, by |-> run.by, phase |-> phase,
   key |-> key, next |-> 1, own |-> own]

\* Where an operation goes once the journal it looked for is dealt with.
AfterRecovery(replayed) ==
  IF run.op = "ratify_deferred" /\ run.key = "apply" THEN Goto("recover", "write", FALSE)
  ELSE Goto(IF run.key = "write" /\ ~replayed THEN "inspect" ELSE "decide", run.key, FALSE)

\* recoverPendingJournal finds no journal.
NothingToRecover ==
  /\ run.phase = "recover"
  /\ journal[run.flow][run.key] = NoPlan
  /\ run' = AfterRecovery(FALSE)
  /\ UNCHANGED <<disk, signer, journal, audit, failures>>

\* Mutant: a journal that is found is dropped, not replayed.
DropJournal ==
  /\ run.phase = "recover"
  /\ journal[run.flow][run.key] # NoPlan
  /\ journal' = [journal EXCEPT ![run.flow][run.key] = NoPlan]
  /\ run' = AfterRecovery(TRUE)
  /\ UNCHANGED <<disk, signer, audit, failures>>

\* recoverPendingJournal replays what it finds, without checking it again.
StartReplay ==
  /\ run.phase = "recover"
  /\ journal[run.flow][run.key] # NoPlan
  /\ run' = Goto("files", run.key, FALSE)
  /\ UNCHANGED <<disk, signer, journal, audit, failures>>

\* Mutant: one file too many.
MaterializePastTheEnd ==
  /\ run.phase = "files"
  /\ run' = [run EXCEPT !.next = @ + 1]
  /\ UNCHANGED <<disk, signer, journal, audit, failures>>

\* materializeFiles writes the next file of the journal in hand.
MaterializeFile ==
  /\ run.phase = "files"
  /\ LET f == run.flow
         p == FileOrder[run.next]
         plan == journal[f][run.key]
     IN /\ disk' = IF plan.files[p] = "keep" THEN disk
                   ELSE [disk EXCEPT ![f][p] = plan.files[p]]
        /\ signer' = IF p = "rat" THEN [signer EXCEPT ![f] = plan.by] ELSE signer
  /\ run' = IF run.next = LastFile THEN Goto("log", run.key, run.own)
            ELSE [run EXCEPT !.next = @ + 1]
  /\ UNCHANGED <<journal, audit, failures>>

\* Mutant: a replay writes the files and forgets the log.
LogOwnEntriesOnly ==
  /\ run.phase = "log"
  /\ audit' = IF run.own
              THEN [audit EXCEPT ![run.flow][run.key] =
                      journal[run.flow][run.key].files["rat"]]
              ELSE audit
  /\ run' = Goto("clear", run.key, run.own)
  /\ UNCHANGED <<disk, signer, journal, failures>>

\* replayRecoveryJournalEntries: an entry id already in the log is not appended.
AppendLog ==
  /\ run.phase = "log"
  /\ LET f == run.flow
         outcome == journal[f][run.key].files["rat"]
     IN audit' = IF audit[f][run.key] = "none"
                 THEN [audit EXCEPT ![f][run.key] = outcome] ELSE audit
  /\ run' = Goto("clear", run.key, run.own)
  /\ UNCHANGED <<disk, signer, journal, failures>>

\* Mutant: a replayed journal stays.
ClearOwnJournalOnly ==
  /\ run.phase = "clear"
  /\ journal' = IF run.own THEN [journal EXCEPT ![run.flow][run.key] = NoPlan] ELSE journal
  /\ run' = IF run.own THEN Idle ELSE AfterRecovery(TRUE)
  /\ UNCHANGED <<disk, signer, audit, failures>>

\* The journal is removed; the operation returns, or goes on after recovery.
ClearJournal ==
  /\ run.phase = "clear"
  /\ journal' = [journal EXCEPT ![run.flow][run.key] = NoPlan]
  /\ run' = IF run.own THEN Idle ELSE AfterRecovery(TRUE)
  /\ UNCHANGED <<disk, signer, audit, failures>>

\* recoverOrResetWriteFlow takes the flow for complete, or absent.
InspectComplete ==
  /\ run.phase = "inspect"
  /\ ~Partial(run.flow, Promotion(run.flow, LookupPrincipal))
  /\ run' = Goto("decide", run.key, FALSE)
  /\ UNCHANGED <<disk, signer, journal, audit, failures>>

\* recoverOrResetWriteFlow takes the flow for partially materialised.
InspectPartial ==
  /\ run.phase = "inspect"
  /\ Partial(run.flow, Promotion(run.flow, LookupPrincipal))
  /\ run' = Goto("reset", run.key, FALSE)
  /\ UNCHANGED <<disk, signer, journal, audit, failures>>

\* resetPartiallyMaterializedWriteFlow removes the next file the flow owns; the
\* queue entry is one of them only when the caller's input implies review.
ResetFile ==
  /\ run.phase = "reset"
  /\ LET f == run.flow
         p == ResetOrder[run.next]
         owned == p # "queue" \/ Promotion(f, LookupPrincipal) = "gated"
     IN /\ disk' = IF owned THEN [disk EXCEPT ![f][p] = "none"] ELSE disk
        /\ signer' = IF p = "rat" THEN [signer EXCEPT ![f] = "nobody"] ELSE signer
  /\ run' = IF run.next = LastFile THEN Goto("decide", run.key, FALSE)
            ELSE [run EXCEPT !.next = @ + 1]
  /\ UNCHANGED <<journal, audit, failures>>

-----------------------------------------------------------------------------
\* Deciding.

Commit(key, plan) ==
  /\ journal' = [journal EXCEPT ![run.flow][key] = plan]
  /\ run' = Goto("files", key, TRUE)
  /\ UNCHANGED <<disk, signer, audit, failures>>

\* build_plan runs: nothing of the flow is stored and its canonical id is free.
WriteAccepted(f, by) ==
  /\ WorldConflict(f) => f \in ContradictionIds
  /\ \A p \in Baseline(f, Promotion(f, by)) : ~Present(f, p)
  /\ ~Present(f, "canon")

DecideWrite ==
  /\ run.phase = "decide" /\ run.op = "write"
  /\ WriteAccepted(run.flow, run.by)
  /\ Commit("write", WritePlan(run.flow, run.by))

\* Mutants: the conflict gate decided at write time is trusted; an expired review
\* can still be ratified; anyone may ratify.
RatificationWithoutGates(op, f, by) ==
  /\ Loadable(f)
  /\ disk[f]["queue"] = "pending" /\ disk[f]["rat"] = "deferred"
  /\ by = "owner" /\ disk[f]["proposal"] = "gated" /\ ~Present(f, "canon")
RatificationAfterExpiry(op, f, by) ==
  /\ Loadable(f)
  /\ disk[f]["rat"] \in {"deferred", "expired"}
  /\ by = "owner" /\ disk[f]["proposal"] = "gated" /\ ~Present(f, "canon")
  /\ ~WorldConflict(f) /\ ~CanonConflict(f)
RatificationByAnyone(op, f, by) ==
  /\ Loadable(f)
  /\ disk[f]["queue"] = "pending" /\ disk[f]["rat"] = "deferred"
  /\ disk[f]["proposal"] = "gated" /\ ~Present(f, "canon")
  /\ ~WorldConflict(f) /\ ~CanonConflict(f)

\* applyOwnerRatificationToExistingFlow reaches its journal.
RatificationAccepted(op, f, by) ==
  /\ IF op = "ratify_queued" THEN Loadable(f) ELSE LoadsForRatification(f)
  /\ disk[f]["queue"] \in {"none", "pending"}
  /\ disk[f]["rat"] = "deferred"
  /\ by = "owner"
  /\ disk[f]["proposal"] = "gated"
  /\ ~Present(f, "canon")
  /\ ~WorldConflict(f) /\ ~CanonConflict(f)

DecideRatify ==
  /\ run.phase = "decide" /\ run.op \in {"ratify_queued", "ratify_deferred"}
  /\ RatificationAccepted(run.op, run.flow, run.by)
  /\ Commit("apply", ApplyPlan(run.by))

\* Mutant: whether the review is still pending is not looked at.
ClosureOfAnyReview(op, f, by) ==
  /\ Loadable(f)
  /\ disk[f]["rat"] # "approved"
  /\ by \in (IF op = "reject" THEN {"owner"} ELSE {"owner", "system"})

\* closeOwnerReviewQueueToExistingFlow reaches its journal.
ClosureAccepted(op, f, by) ==
  /\ Loadable(f)
  /\ disk[f]["queue"] = "pending"
  /\ disk[f]["rat"] # "approved"
  /\ by \in (IF op = "reject" THEN {"owner"} ELSE {"owner", "system"})

DecideClose ==
  /\ run.phase = "decide" /\ run.op \in {"reject", "expire"}
  /\ ClosureAccepted(run.op, run.flow, run.by)
  /\ Commit("close", ClosePlan(run.op, run.by))

\* The operation returns the stored flow, or throws, and changes nothing more.
Finish ==
  /\ run.phase = "decide"
  /\ \/ run.op = "read"
     \/ run.op = "write" /\ ~WriteAccepted(run.flow, run.by)
     \/ /\ run.op \in {"ratify_queued", "ratify_deferred"}
        /\ ~RatificationAccepted(run.op, run.flow, run.by)
     \/ run.op \in {"reject", "expire"} /\ ~ClosureAccepted(run.op, run.flow, run.by)
  /\ run' = Idle
  /\ UNCHANGED <<disk, signer, journal, audit, failures>>

\* The process dies or an I/O call throws: what is on disk stays as it is.
Fail ==
  /\ run.phase # "idle"
  /\ failures < MaxFailures
  /\ failures' = failures + 1
  /\ run' = Idle
  /\ UNCHANGED <<disk, signer, journal, audit>>

-----------------------------------------------------------------------------
Progress ==
  \/ NothingToRecover \/ StartReplay \/ MaterializeFile \/ AppendLog \/ ClearJournal
  \/ InspectComplete \/ InspectPartial \/ ResetFile
  \/ DecideWrite \/ DecideRatify \/ DecideClose \/ Finish

Next == Begin \/ Progress \/ Fail

Spec == Init /\ [][Next]_vars
-----------------------------------------------------------------------------
\* Properties.

TypeOK ==
  /\ disk \in [Flows -> [Files -> Contents]]
  /\ signer \in [Flows -> Principals \cup {"nobody"}]
  /\ journal \in [Flows -> [Journals -> Plans]]
  /\ audit \in [Flows -> [Journals -> Decisions \cup {"none"}]]
  /\ run \in [op : Operations \cup {"none"}, flow : Flows,
             by : Principals \cup {"nobody"}, phase : Phases, key : Journals,
             next : 1 .. LastFile, own : BOOLEAN]
  /\ failures \in 0 .. MaxFailures

\* No operation runs and none that failed is waiting for its retry.
Quiet == run.phase = "idle" /\ Outstanding = {}

\* Two proposals about one semantic slot never both have a canonical record,
\* whatever interleaving of writes, ratifications, failures and replays.
SlotHasOneCanon ==
  \A f, g \in Flows :
    f # g /\ Present(f, "canon") /\ Present(g, "canon") => SlotOf[f] # SlotOf[g]

\* Between operations a flow has a canonical record exactly when its
\* ratification record is approved (loadExistingFlow throws otherwise).
CanonIffApproved ==
  Quiet => \A f \in Flows : Present(f, "canon") <=> disk[f]["rat"] = "approved"

\* Between operations the queue entry and the ratification record, which are
\* separate files, tell the same story about the review.
ReviewAgrees ==
  Quiet => \A f \in Flows : Present(f, "queue") =>
    <<disk[f]["queue"], disk[f]["rat"]>> \in
      {<<"pending", "deferred">>, <<"applied", "approved">>,
       <<"answered", "rejected">>, <<"expired", "expired">>}

\* Between operations the change log holds the transition that closed each
\* review, and no other: a replay appends nothing twice and nothing else.
ReviewAudited ==
  Quiet => \A f \in Flows :
    /\ disk[f]["queue"] = "applied" <=> audit[f]["apply"] = "approved"
    /\ disk[f]["queue"] = "answered" <=> audit[f]["close"] = "rejected"
    /\ disk[f]["queue"] = "expired" <=> audit[f]["close"] = "expired"

\* At every step, failures included: an approved ratification whose canonical
\* record is missing has a journal that will write the record.
ApprovedHasCanon ==
  \A f \in Flows : disk[f]["rat"] = "approved" /\ ~Present(f, "canon") =>
    \E k \in Journals : journal[f][k].files["canon"] = "present"

Ended == {"applied", "answered", "expired"}

\* A review that has ended stays as it ended: no retry, replay or later
\* operation reopens the queue entry or gives it a second end.
EndedReviewsStay ==
  [][\A f \in Flows : disk[f]["queue"] \in Ended =>
       disk'[f]["queue"] = disk[f]["queue"]]_vars

\* The canonical record of a claim about the owner is only ever written under
\* a ratification record the owner signed.
OwnerAuthority ==
  [][\A f \in OwnerSubject :
       ~Present(f, "canon") /\ disk'[f]["canon"] = "present" =>
         /\ signer[f] = "owner"
         /\ disk[f]["rat"] = "approved"]_vars

\* Nothing removes a canonical record, or the evidence under one.
CanonDurable ==
  [][\A f \in Flows : Present(f, "canon") =>
       \A p \in {"canon", "source", "claim", "proposal", "rat"} :
         disk'[f][p] # "none"]_vars

\* A flow that was stored to its last file keeps its raw evidence: no read,
\* retry or later operation discards it.
StoredWhole(f) == \A p \in {"source", "claim", "proposal", "rat", "projection"} : Present(f, p)

EvidenceKept ==
  [][\A f \in Flows : StoredWhole(f) => disk'[f]["source"] # "none"]_vars

\* Two stored claims that say different things about one slot never stand side
\* by side unnoticed: one of the flows carries the contradiction.
ContradictionRecorded ==
  Quiet => \A f, g \in Flows :
    /\ f # g /\ SlotOf[f] = SlotOf[g] /\ StatementOf[f] # StatementOf[g]
    /\ Present(f, "claim") /\ Present(g, "claim")
    => Present(f, "conflict") \/ Present(g, "conflict")

\* A proposal's review ends at most once: the change log never holds both an
\* owner ratification and a closure of the same proposal.
OneReviewEnd ==
  \A f \in Flows : audit[f]["apply"] = "none" \/ audit[f]["close"] = "none"

\* The abstract outcome: what the last journal written for a flow decides, and
\* what its ratification record says once that journal is gone.
DecidedBy(f) ==
  LET open == {k \in Journals : journal[f][k] # NoPlan}
  IN IF open = {} THEN disk[f]["rat"]
     ELSE journal[f][CHOOSE k \in open : TRUE].files["rat"]

OutcomeOf(decision) ==
  CASE decision = "none" -> "unseen"
    [] decision = "deferred" -> "waiting"
    [] decision = "approved" -> "canon"
    [] decision = "rejected" -> "refused"
    [] decision = "expired" -> "expired"

Review == INSTANCE CanonReview WITH outcome <- [f \in Flows |-> OutcomeOf(DecidedBy(f))]

\* The store implements the abstract review: between two journal writes no
\* proposal's outcome changes, and each journal write is one legal decision.
ImplementsReview == Review!Spec

\* The operation in progress is driven on, and a caller whose operation failed
\* sends it again.
FairSpec ==
  /\ Spec
  /\ WF_vars(Progress)
  /\ WF_vars(Outstanding # {} /\ Begin)

\* Every journal is eventually replayed and removed: no failure leaves an
\* operation neither done nor undone for ever.
RecoveryCompletes ==
  \A f \in Flows, k \in Journals : journal[f][k] # NoPlan ~> journal[f][k] = NoPlan
=============================================================================
