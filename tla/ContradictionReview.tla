-------------------------- MODULE ContradictionReview --------------------------
(***************************************************************************)
(* Contradictions between claims and their resolution (pipeline.ts,        *)
(* conversation-preference-store.ts).                                      *)
(*                                                                         *)
(* Flows are claims about one semantic slot, each with contradiction ids.  *)
(* A write that contradicts an active claim records a contradiction, a     *)
(* proposed resolution and, unless the claims were observed at different   *)
(* times, an entry for manual review.  Resolving a contradiction closes    *)
(* the claim that loses and promotes the one that wins into canon.         *)
(*                                                                         *)
(* Operations run one at a time under the store lock.  A resolution, a     *)
(* review or an expiry is a journal and then one step per file, log append *)
(* and journal removal, and may be abandoned between any two.  A write is  *)
(* one step here: ConversationStore has its steps and its failures.        *)
(***************************************************************************)
EXTENDS Naturals, Sequences, FiniteSets

CONSTANTS
  Flows,          \* claims about the slot
  StatementOf,    \* [Flows -> statements], normalised
  ObservedAt,     \* [Flows -> Nat]: valid_from of the claim
  WrittenBy,      \* [Flows -> Principals]
  Gated,          \* flows whose proposal needs the owner's ratification
  RetryFirst,     \* TRUE: a failed operation is retried before any other starts (the
                  \* caller's discipline)
  MaxFailures     \* bound on abandoned operations

Principals == {"owner", "system", "participant"}
Reviews == {"resolve", "apply", "expire"}
Strategies ==
  {"coexist_temporally", "supersede_existing", "supersede_candidate", "dismiss_contradiction"}

\* Records of a flow; those of the canonical follow-up are named after the resolution.
FollowUp == {"followProposal", "followQueue", "followRatification"}
Kinds == {"claim", "contradiction", "strategy", "resolution", "reviewQueue",
          "ratification", "canon"} \cup FollowUp

NoFlow == "none"

ASSUME ReviewAssumption ==
  /\ NoFlow \notin Flows
  /\ DOMAIN StatementOf = Flows
  /\ ObservedAt \in [Flows -> Nat]
  /\ WrittenBy \in [Flows -> Principals]
  /\ Gated \subseteq Flows
  /\ RetryFirst \in BOOLEAN /\ MaxFailures \in Nat

VARIABLES
  record,         \* [Kinds -> [Flows -> content]]
  against,        \* the existing claim a contradiction names (left_ref)
  journal,        \* [Reviews -> [Flows -> files to write]], <<>> for none
  review,         \* the operation in progress
  reviewLog,      \* reviews with entries in the change log
  failures,       \* abandoned operations
  discarded       \* flows whose files a read or a retry deleted

reviewVars ==
  <<record, against, journal, review, reviewLog, failures, discarded>>

NoReview == [op |-> "none", flow |-> NoFlow, by |-> "none", strategy |-> "none",
             step |-> "idle", todo |-> <<>>]

ReviewInit ==
  /\ record = [k \in Kinds |-> [f \in Flows |-> "none"]]
  /\ against = [f \in Flows |-> NoFlow]
  /\ journal = [o \in Reviews |-> [f \in Flows |-> <<>>]]
  /\ review = NoReview
  /\ reviewLog = {}
  /\ failures = 0 /\ discarded = {}

Content(kind, f) == record[kind][f]
Have(kind, f) == Content(kind, f) # "none"
ReviewIdle == review.step = "idle"
MayStart(o, f) ==
  /\ ReviewIdle
  /\ RetryFirst => \A r \in Reviews, g \in Flows : <<r, g>> = <<o, f>> \/ journal[r][g] = <<>>

-----------------------------------------------------------------------------
\* Writing a claim.

\* findConflictingWorldClaim: any of them may be the first in the directory.
Rivals(claims, f) ==
  {g \in Flows \ {f} : claims[g] = "active" /\ StatementOf[g] # StatementOf[f]}

\* proposeContradictionResolution.
ProposedStrategy(f, g) ==
  IF ObservedAt[f] # ObservedAt[g] THEN "coexist_temporally" ELSE "manual_review"

\* evaluateCanonicalProposal, of a proposal whose target, if any, is ratified.
Decision(blocked, f) ==
  IF blocked THEN "rejected" ELSE IF f \in Gated THEN "deferred" ELSE "approved"

ActiveCanonIn(canon) == {g \in Flows : canon[g] = "active"}

\* buildManualContradictionReviewQueuePacket: only a review by hand is queued.
ManualQueueEntry(strategy) == IF strategy = "manual_review" THEN "pending" ELSE "none"

\* The records of a new flow that contradicts the claim of g, if there is one.
NewRecords(f, base, g) ==
  LET conflict == g # NoFlow
      strategy == IF conflict THEN ProposedStrategy(f, g) ELSE "none"
      decision == Decision(conflict \/ ActiveCanonIn(base["canon"]) # {}, f)
  IN [claim |-> "active",
      contradiction |-> IF conflict THEN "open" ELSE "none",
      strategy |-> strategy,
      resolution |-> IF conflict THEN "proposed" ELSE "none",
      reviewQueue |-> ManualQueueEntry(strategy),
      ratification |-> decision,
      canon |-> IF decision = "approved" THEN "active" ELSE "none"]

\* The flow's files do not add up (detectPartiallyMaterializedWriteFlow): a gated
\* proposal without an owner queue entry, or a manual review queue entry beside a
\* resolution whose strategy is no longer manual_review.
LooksPartial(f) ==
  /\ Have("claim", f)
  /\ \/ f \in Gated /\ Content("ratification", f) # "deferred"
     \/ Have("resolution", f)
          /\ (Content("strategy", f) = "manual_review") # Have("reviewQueue", f)
     \/ ~Have("followProposal", f) /\ ~Have("followRatification", f)
          /\ (Content("ratification", f) = "approved") # Have("canon", f)

\* resetPartiallyMaterializedWriteFlow leaves the records of the follow-up.
Reset(f) ==
  [k \in Kinds |-> [record[k] EXCEPT ![f] = IF k \in FollowUp THEN @ ELSE "none"]]

\* The write, or a retry that finds the flow partial, deletes it and starts again.
WriteFlow(f) ==
  /\ MayStart("write", f)
  /\ ~Have("claim", f) \/ LooksPartial(f)
  /\ LET base == Reset(f)
         rivals == Rivals(base["claim"], f)
     IN \E g \in IF rivals = {} THEN {NoFlow} ELSE rivals :
          /\ record' = [k \in Kinds |-> IF k \in FollowUp THEN base[k]
                                      ELSE [base[k] EXCEPT ![f] = NewRecords(f, base, g)[k]]]
          /\ against' = [against EXCEPT ![f] = g]
  /\ discarded' = IF LooksPartial(f) THEN discarded \cup {f} ELSE discarded
  /\ UNCHANGED <<journal, review, reviewLog, failures>>

\* A read with repair of a flow it takes for partial.
ReadBack(f) ==
  /\ MayStart("read", f) /\ LooksPartial(f)
  /\ record' = Reset(f)
  /\ discarded' = discarded \cup {f}
  /\ UNCHANGED <<against, journal, review, reviewLog, failures>>

-----------------------------------------------------------------------------
\* What a resolution changes.

CandidateWins(strategy) == strategy \in {"coexist_temporally", "supersede_existing"}
ExistingWins(strategy) == strategy = "supersede_candidate"

\* The canonical record the winner would replace (findCanonicalTargetForResolution).
Target == IF ActiveCanonIn(record["canon"]) = {} THEN NoFlow
          ELSE CHOOSE g \in ActiveCanonIn(record["canon"]) : TRUE

PromotesWinner(f, strategy) ==
  /\ CandidateWins(strategy) /\ Content("claim", f) = "active"
  /\ Target # NoFlow => StatementOf[Target] # StatementOf[f]

\* buildResolutionCanonicalFollowup throws on two targets, and on a canonical record
\* that is there already.
CanFollowUp(f, strategy) ==
  /\ CandidateWins(strategy) => Cardinality(ActiveCanonIn(record["canon"])) <= 1
  /\ PromotesWinner(f, strategy) => ~Have("canon", f)

\* A third claim that disagrees with the winner blocks its promotion.
FollowUpDecision(f) ==
  Decision(Rivals([record["claim"] EXCEPT ![against[f]] = "historical"], f) # {}, f)

Put(kind, f, content) == <<[kind |-> kind, flow |-> f, content |-> content]>>
PutIf(condition, kind, f, content) == IF condition THEN Put(kind, f, content) ELSE <<>>

FollowUpDone(f, strategy, decision) ==
  PromotesWinner(f, strategy) /\ FollowUpDecision(f) = decision

\* The contradiction is settled (applyContradictionResolution).
SettledAs(strategy) ==
  IF strategy = "dismiss_contradiction" THEN "dismissed" ELSE "resolved"

CandidateFiles(f, strategy) ==
  Put("claim", f, IF ExistingWins(strategy) THEN "historical" ELSE Content("claim", f))

\* buildResolutionCanonicalProposal: the canonical record there is is revised.
FollowUpProposal(f) ==
  Put("followProposal", f, IF Target = NoFlow THEN "create" ELSE "revise")

\* The queue entry, if there is one, says what became of the review.
ClosedQueueEntry(f, status) == PutIf(Have("reviewQueue", f), "reviewQueue", f, status)

\* The resolution is accepted and applied with the strategy that was chosen.
AppliedResolution(f, strategy) ==
  Put("strategy", f, strategy) \o Put("resolution", f, "applied")

\* buildOwnerRatificationQueuePacket: a resolution has the path of a gated flow's queue
\* entry; a review by hand loads the flow without one, so that a follow-up it defers is
\* queued for nobody.
QueuesFollowUp(f, strategy) ==
  review.op = "resolve" /\ f \in Gated /\ FollowUpDone(f, strategy, "deferred")

GovernanceFiles(f, strategy) ==
  LET promoted == PromotesWinner(f, strategy)
  IN (IF promoted THEN FollowUpProposal(f) ELSE <<>>)
     \o ClosedQueueEntry(f, "applied")
     \o PutIf(QueuesFollowUp(f, strategy), "followQueue", f, "pending")
     \o PutIf(promoted, "followRatification", f, FollowUpDecision(f))

\* Mutant: the canonical record it replaces is left as it is.
CanonFilesAlone(f, strategy) ==
  PutIf(FollowUpDone(f, strategy, "approved"), "canon", f, "active")

CanonFiles(f, strategy) ==
  LET approved == FollowUpDone(f, strategy, "approved")
  IN PutIf(approved, "canon", f, "active")
     \o PutIf(approved /\ Target # NoFlow, "canon", Target, "superseded")

\* buildResolutionApplicationFiles, in the order they are written.
ApplicationFiles(f, strategy) ==
  CandidateFiles(f, strategy)
  \o Put("contradiction", f, SettledAs(strategy))
  \o AppliedResolution(f, strategy)
  \o GovernanceFiles(f, strategy)
  \o CanonFiles(f, strategy)
  \o Put("claim", against[f],
         IF CandidateWins(strategy) THEN "historical" ELSE Content("claim", against[f]))

\* buildManualContradictionReviewClosureFiles: the contradiction stays open.
ClosureFiles(f) == Put("resolution", f, "rejected") \o ClosedQueueEntry(f, "expired")

-----------------------------------------------------------------------------
\* The operations.

Authorized(by) == by \in {"owner", "system"}

\* A journal that is carried out, whoever asked for it.
Writing(o, f, files) ==
  [NoReview EXCEPT !.op = o, !.flow = f, !.step = "write", !.todo = files]

\* A journal that is there is replayed before anything else.
Begin(o, f, by, strategy) ==
  /\ MayStart(o, f)
  /\ Have("resolution", f) \/ journal[o][f] # <<>>
  /\ review' = IF journal[o][f] # <<>> THEN Writing(o, f, journal[o][f])
               ELSE [NoReview EXCEPT !.op = o, !.flow = f, !.by = by, !.strategy = strategy,
                                     !.step = "decide"]
  /\ UNCHANGED <<record, against, journal, reviewLog, failures, discarded>>

Resolving(f, by) == Begin("resolve", f, by, "coexist_temporally")
Reviewing(f, by, strategy) == Begin("apply", f, by, strategy)
Expiring(f, by) == Begin("expire", f, by, "manual_review")

\* Both claims are there and the contradiction can be settled.
Settles(f, strategy) ==
  /\ Have("claim", f) /\ record["claim"][against[f]] # "none"
  /\ Content("contradiction", f) = "open"
  /\ CanFollowUp(f, strategy)

\* applyConversationPreferenceResolutionToStore, for the principal who wrote the claim.
ResolveAllowed(f) ==
  /\ ~LooksPartial(f)
  /\ review.by = WrittenBy[f]
  /\ Content("strategy", f) = "coexist_temporally" /\ Content("resolution", f) = "proposed"
  /\ Settles(f, "coexist_temporally")

\* loadConversationPreferenceFlowFromManualContradictionReviewQueue: the flow that the
\* queue entry names is there, and its review is pending.
LoadsForReview(f) ==
  /\ Have("claim", f) /\ Have("contradiction", f) /\ Have("resolution", f)
  /\ Have("ratification", f)
  /\ Content("reviewQueue", f) = "pending"

\* applyManualContradictionReviewToExistingFlow.
ApplyAllowed(f) ==
  /\ LoadsForReview(f) /\ Content("strategy", f) = "manual_review"
  /\ Settles(f, review.strategy)

\* closeManualContradictionReviewQueueToExistingFlow.
ExpireAllowed(f) ==
  /\ LoadsForReview(f) /\ Content("strategy", f) = "manual_review"
  /\ record["claim"][against[f]] # "none"

Allowed ==
  LET f == review.flow
  IN /\ Authorized(review.by)
     /\ CASE review.op = "resolve" -> ResolveAllowed(f)
          [] review.op = "apply" -> ApplyAllowed(f)
          [] review.op = "expire" -> ExpireAllowed(f)

\* The journal with the new files is written before any of them.
Decide ==
  /\ review.step = "decide" /\ Allowed
  /\ LET files == IF review.op = "expire" THEN ClosureFiles(review.flow)
                  ELSE ApplicationFiles(review.flow, review.strategy)
     IN /\ journal' = [journal EXCEPT ![review.op][review.flow] = files]
        /\ review' = Writing(review.op, review.flow, files)
  /\ UNCHANGED <<record, against, reviewLog, failures, discarded>>

\* The request is refused, or was done before; a resolution reads with repair first.
Refuse ==
  /\ review.step = "decide" /\ ~Allowed
  /\ review' = NoReview
  /\ LET f == review.flow
     IN IF review.op = "resolve" /\ LooksPartial(f)
        THEN record' = Reset(f) /\ discarded' = discarded \cup {f}
        ELSE UNCHANGED <<record, discarded>>
  /\ UNCHANGED <<against, journal, reviewLog, failures>>

WriteReviewed ==
  /\ review.step = "write" /\ review.todo # <<>>
  /\ LET w == Head(review.todo)
     IN record' = [record EXCEPT ![w.kind][w.flow] = w.content]
  /\ review' = [review EXCEPT !.todo = Tail(@)]
  /\ UNCHANGED <<against, journal, reviewLog, failures, discarded>>

LogReview ==
  /\ review.step = "write" /\ review.todo = <<>>
  /\ reviewLog' = reviewLog \cup {<<review.op, review.flow>>}
  /\ review' = [review EXCEPT !.step = "clear"]
  /\ UNCHANGED <<record, against, journal, failures, discarded>>

\* Mutant: the journal is removed when it is about to be carried out.
ClearReviewEarly ==
  /\ review.step = "write" /\ journal[review.op][review.flow] # <<>>
  /\ journal' = [journal EXCEPT ![review.op][review.flow] = <<>>]
  /\ UNCHANGED <<record, against, review, reviewLog, failures, discarded>>

\* After a replay the operation finds its work done, and ends too.
ClearReview ==
  /\ review.step = "clear"
  /\ journal' = [journal EXCEPT ![review.op][review.flow] = <<>>]
  /\ review' = NoReview
  /\ UNCHANGED <<record, against, reviewLog, failures, discarded>>

\* The process dies, or an I/O call throws.
Abandon ==
  /\ ~ReviewIdle /\ failures < MaxFailures
  /\ failures' = failures + 1
  /\ review' = NoReview
  /\ UNCHANGED <<record, against, journal, reviewLog, discarded>>

ReviewNext ==
  \/ \E f \in Flows :
       \/ WriteFlow(f) \/ ReadBack(f)
       \/ \E by \in Principals :
            \/ Resolving(f, by) \/ Expiring(f, by)
            \/ \E s \in Strategies : Reviewing(f, by, s)
  \/ Decide \/ Refuse \/ WriteReviewed \/ LogReview \/ ClearReview
  \/ Abandon

\* Callers may rest.
ReviewRests == ReviewIdle /\ UNCHANGED reviewVars

ReviewSpec == ReviewInit /\ [][ReviewNext \/ ReviewRests]_reviewVars

-----------------------------------------------------------------------------
\* Properties.

ContentsOf == [
  claim |-> {"none", "active", "historical"},
  contradiction |-> {"none", "open", "resolved", "dismissed"},
  strategy |-> {"none", "manual_review"} \cup Strategies,
  resolution |-> {"none", "proposed", "applied", "rejected"},
  reviewQueue |-> {"none", "pending", "applied", "expired"},
  ratification |-> {"none", "approved", "deferred", "rejected"},
  canon |-> {"none", "active", "superseded"},
  followProposal |-> {"none", "create", "revise"},
  followQueue |-> {"none", "pending"},
  followRatification |-> {"none", "approved", "deferred", "rejected"}]

ReviewTypeOK ==
  /\ \A k \in Kinds : record[k] \in [Flows -> ContentsOf[k]]
  /\ against \in [Flows -> Flows \cup {NoFlow}]
  /\ review.op \in Reviews \cup {"none"}
  /\ review.step \in {"idle", "decide", "write", "clear"}
  /\ reviewLog \subseteq Reviews \X Flows
  /\ failures \in 0..MaxFailures
  /\ discarded \subseteq Flows

ReviewsDone == ReviewIdle /\ \A r \in Reviews, g \in Flows : journal[r][g] = <<>>
BeatenBy(f, g) ==
  against[g] = f /\ Content("resolution", g) = "applied" /\ CandidateWins(Content("strategy", g))

\* If callers retry first, then once no journal is left the records of a contradiction
\* tell one story, however often its review failed and was repeated: it is settled if
\* and only if its resolution was applied, the claim that lost is closed, a settled
\* claim has a canonical record if and only if its follow-up was approved, and the
\* queue and the change log say what was decided
\* (buildResolutionApplicationFiles, buildManualContradictionReviewClosureFiles).
ResolutionWhole ==
  ReviewsDone => \A f \in Flows \ discarded :
    LET applied == Content("resolution", f) = "applied"
    IN /\ applied = (Content("contradiction", f) \in {"resolved", "dismissed"})
       /\ Have("reviewQueue", f) =>
            /\ applied = (Content("reviewQueue", f) = "applied")
            /\ (Content("resolution", f) = "rejected") = (Content("reviewQueue", f) = "expired")
       /\ applied = (\E o \in {"resolve", "apply"} : <<o, f>> \in reviewLog)
       /\ (Content("resolution", f) = "rejected") = (<<"expire", f>> \in reviewLog)
       /\ \A g \in Flows \ discarded : BeatenBy(g, f) => Content("claim", g) = "historical"
       /\ applied => (Content("followRatification", f) = "approved") = Have("canon", f)

\* Canon follows what the world settled: the slot has one active canonical record, and
\* it states a claim that lost a contradiction only where governance did not approve
\* the winner, or where the winner has lost to a third claim
\* (buildResolutionCanonicalFollowup, executeCanonicalProposalWorkflow).
CanonFollowsWorld ==
  ReviewsDone /\ discarded = {} =>
    /\ Cardinality(ActiveCanonIn(record["canon"])) <= 1
    /\ \A f \in ActiveCanonIn(record["canon"]) : Content("claim", f) = "historical" =>
         \E g \in Flows :
           /\ BeatenBy(f, g)
           /\ \/ Content("followRatification", g) \in {"deferred", "rejected"}
              \/ Content("claim", g) = "historical"

\* A contradiction that was reviewed stays on record as it was decided, nothing having
\* failed (applyManualContradictionReviewToExistingFlow).
ReviewStands ==
  ReviewIdle /\ failures = 0 => \A f \in Flows :
    <<"apply", f>> \in reviewLog => Content("contradiction", f) \in {"resolved", "dismissed"}
=============================================================================
