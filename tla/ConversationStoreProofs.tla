------------------------- MODULE ConversationStoreProofs -------------------------
(***************************************************************************)
(* Proofs about ConversationStore for any flows, slots, callers and number *)
(* of failures.  In the first part, with no assumption on what runs after  *)
(* a failure: type correctness, that an approved ratification is never     *)
(* stranded without its canonical record, and that only the owner's        *)
(* signature lets a claim about the owner become canonical.                *)
(*                                                                         *)
(* The inductive invariant ties three places together: the journals (each  *)
(* plans a canonical record exactly when it approves, and for an owner's   *)
(* flow only if the owner signs), the files (what the operation in hand    *)
(* has written so far is what its journal says) and the operation's place  *)
(* in the file order (the ratification record is written before the        *)
(* canonical record and removed before it).                                *)
(*                                                                         *)
(* In the second part, what the owner review of a proposal comes to: its   *)
(* files agree, it ends once, the log says how, nothing canonical is       *)
(* removed, and the store implements CanonReview.  Two assumptions, and    *)
(* each is needed.  RetryFirst: the caller of an operation that failed     *)
(* retries it before anything else runs; without it a review ends twice.   *)
(* CallersAgree: those who write and read a flow imply the same promotion; *)
(* a caller who implies another one takes a whole flow for a torn one and  *)
(* removes it.  The invariant looks through the recovery journal.  At most *)
(* one is on disk, of one flow; what that flow's files and log entries     *)
(* will be once it is replayed does not change while it is, and it is a    *)
(* story a review can tell.                                                *)
(***************************************************************************)
EXTENDS ConversationStore, TLAPS

\* What holds of every plan a journal of kind k of flow f can hold.
GoodPlan(f, k, plan) ==
  /\ plan.files["rat"] \in Decisions
  /\ plan.files["canon"] \in {"keep", "present"}
  /\ plan.files["canon"] = "present" <=> plan.files["rat"] = "approved"
  /\ plan.files["canon"] = "present" /\ f \in OwnerSubject => plan.by = "owner"
  /\ k = "close" => plan.files["canon"] = "keep"

\* materializeFiles writes the ratification sixth and the canonical record seventh.
LEMMA FileOrderFacts ==
  \A i \in 1 .. LastFile :
    /\ FileOrder[i] \in Files
    /\ FileOrder[i] = "rat" <=> i = 6
    /\ FileOrder[i] = "canon" <=> i = 7
BY DEF LastFile, FileOrder, Files

\* The reset removes the ratification fifth and the canonical record eighth.
LEMMA ResetOrderFacts ==
  \A i \in 1 .. LastFile :
    /\ ResetOrder[i] \in Files
    /\ ResetOrder[i] = "rat" <=> i = 5
    /\ ResetOrder[i] = "canon" <=> i = 8
BY DEF LastFile, ResetOrder, Files

\* A write plan approves a claim about the owner only for the owner.
LEMMA WritePlanGood ==
  ASSUME NEW f \in Flows, NEW by \in Principals \cup {"nobody"}
  PROVE  WritePlan(f, by) \in Plans /\ GoodPlan(f, "write", WritePlan(f, by))
<1> DEFINE promotion == Promotion(f, by)
           decision == Decision(f, promotion)
<1>1. promotion \in {"open", "gated"} /\ (promotion = "open" /\ f \in OwnerSubject => by = "owner")
  BY DEF Promotion
<1>2. /\ decision \in {"approved", "deferred", "rejected"}
      /\ decision = "approved" => promotion # "gated"
  BY DEF Decision
<1> HIDE DEF promotion, decision
<1>3. WritePlan(f, by) \in Plans
  BY <1>1, <1>2 DEF WritePlan, Plans, promotion, decision, Contents, Decisions, Statuses, Files
<1>4. GoodPlan(f, "write", WritePlan(f, by))
  BY <1>1, <1>2 DEF WritePlan, GoodPlan, promotion, decision, Decisions, Files
<1> QED BY <1>3, <1>4

\* An owner's ratification plans a canonical record.
LEMMA ApplyPlanGood ==
  ASSUME NEW f \in Flows
  PROVE  ApplyPlan("owner") \in Plans /\ GoodPlan(f, "apply", ApplyPlan("owner"))
BY DEF ApplyPlan, ReviewPlan, Plans, GoodPlan, Contents, Decisions, Statuses, Files, Principals

\* A rejection or an expiration plans none.
LEMMA ClosePlanGood ==
  ASSUME NEW f \in Flows, NEW op \in {"reject", "expire"}, NEW by \in Principals
  PROVE  ClosePlan(op, by) \in Plans /\ GoodPlan(f, "close", ClosePlan(op, by))
BY DEF ClosePlan, ReviewPlan, Plans, GoodPlan, Contents, Decisions, Statuses, Files, Principals

-----------------------------------------------------------------------------
\* Every journal on disk is one an operation could have written.
JournalsOK ==
  \A f \in Flows, k \in Journals :
    journal[f][k] = NoPlan \/ GoodPlan(f, k, journal[f][k])

\* The journal the operation in progress is working on.
InHand == journal[run.flow][run.key]

\* While files are written from a journal, it is there.
ReplayOK ==
  run.phase \in {"files", "log", "clear"} => GoodPlan(run.flow, run.key, InHand)

\* The operation in progress is past file i of its journal.
Written(i) == (run.phase = "files" /\ run.next > i) \/ run.phase \in {"log", "clear"}
RatWritten == Written(6)
CanonWritten == Written(7)

\* What is written of the journal in hand is on disk as the journal says.
MaterialOK ==
  /\ RatWritten => /\ signer[run.flow] = InHand.by
                   /\ disk[run.flow]["rat"] = InHand.files["rat"]
  /\ CanonWritten /\ InHand.files["canon"] = "present" => Present(run.flow, "canon")

\* A reset past the ratification record has removed it.
ResetOK == (run.phase = "reset" /\ run.next > 5) => disk[run.flow]["rat"] = "none"

\* The inductive invariant.
IInv == TypeOK /\ JournalsOK /\ ReplayOK /\ MaterialOK /\ ResetOK /\ ApprovedHasCanon

-----------------------------------------------------------------------------
\* An absent journal plans nothing.
LEMMA NoPlanFacts ==
  /\ NoPlan \in Plans
  /\ NoPlan.files["rat"] = "keep" /\ NoPlan.files["canon"] = "keep"
  /\ \A f \in Flows, k \in Journals : ~GoodPlan(f, k, NoPlan)
BY DEF NoPlan, Plans, GoodPlan, Decisions, Files, Contents

\* The types of the fields of the operation in progress.
LEMMA RunFacts ==
  ASSUME TypeOK
  PROVE  /\ run.flow \in Flows /\ run.key \in Journals /\ run.next \in 1 .. LastFile
         /\ run.op \in Operations \cup {"none"} /\ run.by \in Principals \cup {"nobody"}
         /\ run.own \in BOOLEAN /\ run.phase \in Phases
         /\ InHand \in Plans /\ disk[run.flow] \in [Files -> Contents]
BY DEF TypeOK, InHand

\* The operations there can be.
Runs == [op : Operations \cup {"none"}, flow : Flows, by : Principals \cup {"nobody"},
         phase : Phases, key : Journals, next : 1 .. LastFile, own : BOOLEAN]

\* Goto yields an operation.
LEMMA GotoType ==
  ASSUME TypeOK, NEW phase \in Phases, NEW key \in Journals, NEW own \in BOOLEAN
  PROVE  /\ Goto(phase, key, own) \in Runs
         /\ Goto(phase, key, own).phase = phase /\ Goto(phase, key, own).next = 1
         /\ Goto(phase, key, own).flow = run.flow /\ Goto(phase, key, own).key = key
BY RunFacts DEF Goto, Runs, LastFile

\* AfterRecovery yields an operation that goes on recovering, inspects or decides.
LEMMA AfterRecoveryType ==
  ASSUME TypeOK, NEW replayed \in BOOLEAN
  PROVE  /\ AfterRecovery(replayed) \in Runs
         /\ AfterRecovery(replayed).phase \in {"recover", "inspect", "decide"}
         /\ AfterRecovery(replayed).flow = run.flow
<1>1. AfterRecovery(replayed) =
        IF run.op = "ratify_deferred" /\ run.key = "apply" THEN Goto("recover", "write", FALSE)
        ELSE IF run.key = "write" /\ ~replayed THEN Goto("inspect", run.key, FALSE)
        ELSE Goto("decide", run.key, FALSE)
  BY DEF AfterRecovery
<1> QED BY <1>1, RunFacts DEF Goto, Runs, Journals, Phases, LastFile

\* Idle is an operation.
LEMMA IdleType ==
  /\ Idle \in Runs
  /\ Idle.phase = "idle"
BY FlowAssumption DEF Idle, Runs, Journals, Phases, LastFile

\* An empty store satisfies the invariant.
LEMMA InitIInv == Init => IInv
<1> SUFFICES ASSUME Init PROVE IInv
  OBVIOUS
<1>1. TypeOK
  BY IdleType, NoPlanFacts, BoundAssumption
  DEF Init, TypeOK, Runs, NoFiles, Contents, Decisions, Files, Journals
<1>2. JournalsOK
  BY DEF Init, JournalsOK
<1>3. ReplayOK /\ MaterialOK /\ ResetOK
  BY IdleType DEF Init, ReplayOK, MaterialOK, ResetOK, RatWritten, CanonWritten, Written
<1>4. ApprovedHasCanon
  BY DEF Init, ApprovedHasCanon, NoFiles, Files
<1> QED BY <1>1, <1>2, <1>3, <1>4 DEF IInv
-----------------------------------------------------------------------------
\* A journal found on disk is a good one.
LEMMA ReplayedPlanGood ==
  ASSUME JournalsOK, TypeOK, InHand # NoPlan
  PROVE  GoodPlan(run.flow, run.key, InHand)
BY RunFacts DEF JournalsOK, InHand

\* Steps that change nothing but the operation in progress (and the failure
\* count): a phase with an obligation is entered at its first file only.
LEMMA RunOnlyStep ==
  ASSUME IInv, UNCHANGED <<disk, signer, journal, audit>>,
         run' \in Runs, failures' \in 0 .. MaxFailures,
         \/ run'.phase \in {"idle", "recover", "inspect", "decide"}
         \/ /\ run'.phase = "files" /\ run'.next = 1
            /\ GoodPlan(run.flow, run.key, InHand)
            /\ run'.flow = run.flow /\ run'.key = run.key
         \/ run'.phase = "reset" /\ run'.next = 1
  PROVE  IInv'
<1>1. TypeOK'
  BY DEF IInv, TypeOK, Runs
<1>2. JournalsOK'
  BY DEF IInv, JournalsOK
<1>3. ReplayOK'
  BY DEF ReplayOK, InHand
<1>4. MaterialOK' /\ ResetOK'
  BY DEF MaterialOK, ResetOK, RatWritten, CanonWritten, Written
<1>5. ApprovedHasCanon'
  BY DEF IInv, ApprovedHasCanon, Present
<1> QED BY <1>1, <1>2, <1>3, <1>4, <1>5 DEF IInv

\* Starting an operation keeps the invariant.
LEMMA BeginStep == IInv /\ Begin => IInv'
<1> SUFFICES ASSUME IInv, NEW op \in Operations, NEW f \in Flows, NEW by \in Principals,
                    Start(op, f, by)
             PROVE  IInv'
  BY DEF Begin, Write, Read, RatifyQueued, RatifyDeferred, Reject, Expire, Operations
<1>1. FirstJournal(op) \in Journals
  BY DEF FirstJournal, Journals, Operations
<1>2. run' \in Runs /\ run'.phase = "recover"
  BY <1>1 DEF Start, Runs, Phases, LastFile
<1> QED BY <1>2, RunOnlyStep DEF Start, IInv, TypeOK

\* So do the steps that only move the operation in progress, or abandon it.
LEMMA RunStep ==
  IInv /\ (NothingToRecover \/ StartReplay \/ InspectComplete \/ InspectPartial \/ Finish \/ Fail)
    => IInv'
<1> SUFFICES ASSUME IInv,
                    NothingToRecover \/ StartReplay \/ InspectComplete \/ InspectPartial
                      \/ Finish \/ Fail
             PROVE  IInv'
  OBVIOUS
<1>0. /\ TypeOK /\ run.key \in Journals
      /\ failures \in 0 .. MaxFailures /\ MaxFailures \in Nat
  BY RunFacts, BoundAssumption DEF IInv, TypeOK
<1>1. CASE NothingToRecover
  <2>1. run' \in Runs /\ run'.phase \in {"recover", "inspect", "decide"}
    BY <1>1, <1>0, AfterRecoveryType DEF NothingToRecover
  <2> QED BY <1>1, <1>0, <2>1, RunOnlyStep DEF NothingToRecover
<1>2. CASE StartReplay
  <2>1. GoodPlan(run.flow, run.key, InHand)
    BY <1>2, ReplayedPlanGood DEF StartReplay, InHand, IInv
  <2>2. run' \in Runs /\ run'.phase = "files" /\ run'.next = 1
        /\ run'.flow = run.flow /\ run'.key = run.key
    BY <1>2, <1>0, RunFacts DEF StartReplay, Goto, Runs, Phases, LastFile
  <2> QED BY <1>2, <1>0, <2>1, <2>2, RunOnlyStep DEF StartReplay
<1>3. CASE InspectComplete
  <2>1. run' \in Runs /\ run'.phase = "decide"
    BY <1>3, <1>0, GotoType DEF InspectComplete, Phases
  <2> QED BY <1>3, <1>0, <2>1, RunOnlyStep DEF InspectComplete
<1>4. CASE InspectPartial
  <2>1. run' \in Runs /\ run'.phase = "reset" /\ run'.next = 1
    BY <1>4, <1>0, GotoType DEF InspectPartial, Phases
  <2> QED BY <1>4, <1>0, <2>1, RunOnlyStep DEF InspectPartial
<1>5. CASE Finish
  BY <1>0, <1>5, IdleType, RunOnlyStep DEF Finish
<1>6. CASE Fail
  BY <1>0, <1>6, IdleType, RunOnlyStep DEF Fail
<1> QED BY <1>1, <1>2, <1>3, <1>4, <1>5, <1>6


\* Writing a file keeps the invariant: the approval comes with a journal that plans the record.
LEMMA MaterializeStep == IInv /\ MaterializeFile => IInv'
<1> SUFFICES ASSUME IInv, MaterializeFile PROVE IInv'
  OBVIOUS
<1> DEFINE f == run.flow
           i == run.next
           p == FileOrder[run.next]
           plan == InHand
<1>1. /\ TypeOK /\ run.phase = "files" /\ f \in Flows /\ i \in 1 .. LastFile
      /\ run.key \in Journals /\ plan \in Plans /\ p \in Files
      /\ p = "rat" <=> i = 6
      /\ p = "canon" <=> i = 7
      /\ GoodPlan(f, run.key, plan)
  BY RunFacts, FileOrderFacts DEF IInv, MaterializeFile, ReplayOK
<1>2. /\ disk' = IF plan.files[p] = "keep" THEN disk
                  ELSE [disk EXCEPT ![f][p] = plan.files[p]]
      /\ signer' = IF p = "rat" THEN [signer EXCEPT ![f] = plan.by] ELSE signer
      /\ UNCHANGED <<journal, audit, failures>>
  BY DEF MaterializeFile, InHand
<1>3. /\ run' \in Runs /\ run'.flow = f /\ run'.key = run.key
      /\ \/ run'.phase = "log" /\ i = LastFile
         \/ run'.phase = "files" /\ run'.next = i + 1
  <2>1. CASE i = LastFile
    BY <2>1, <1>1, GotoType DEF MaterializeFile, Phases, TypeOK
  <2>2. CASE i # LastFile
    <3>1. run' = [run EXCEPT !.next = i + 1] /\ run \in Runs
      BY <2>2, <1>1 DEF MaterializeFile, TypeOK, Runs
    <3>2. i + 1 \in 1 .. LastFile
      BY <2>2, <1>1 DEF LastFile
    <3> QED BY <3>1, <3>2, <1>1 DEF Runs
  <2> QED BY <2>1, <2>2
<1>4. /\ disk \in [Flows -> [Files -> Contents]]
      /\ signer \in [Flows -> Principals \cup {"nobody"}]
      /\ plan.files[p] \in Contents \cup {"keep"}
      /\ plan.by \in Principals \cup {"nobody"}
  BY <1>1 DEF TypeOK, Plans
<1> HIDE DEF f, i, p, plan
<1>5. TypeOK'
  BY <1>1, <1>2, <1>3, <1>4 DEF TypeOK, Runs
<1>6. JournalsOK'
  BY <1>2 DEF IInv, JournalsOK
<1>7. ReplayOK' /\ InHand' = plan
  BY <1>1, <1>2, <1>3 DEF ReplayOK, InHand, f, plan
<1>8. MaterialOK'
  <2>1. ASSUME RatWritten'
        PROVE  signer'[f] = plan.by /\ disk'[f]["rat"] = plan.files["rat"]
    <3>1. CASE i = 6
      BY <3>1, <1>1, <1>2, <1>4 DEF GoodPlan, Decisions, Files
    <3>2. CASE i # 6
      <4>1. RatWritten
        BY <2>1, <3>2, <1>1, <1>3 DEF RatWritten, Written, LastFile, i
      <4> QED BY <4>1, <3>2, <1>1, <1>2, <1>4 DEF IInv, MaterialOK, f, plan
    <3> QED BY <3>1, <3>2
  <2>2. ASSUME CanonWritten', plan.files["canon"] = "present"
        PROVE  disk'[f]["canon"] # "none"
    <3>1. CASE i = 7
      BY <3>1, <2>2, <1>1, <1>2, <1>4 DEF Files
    <3>2. CASE i # 7
      <4>1. CanonWritten
        BY <2>2, <3>2, <1>1, <1>3 DEF CanonWritten, Written, LastFile, i
      <4> QED BY <4>1, <2>2, <3>2, <1>1, <1>2, <1>4 DEF IInv, MaterialOK, Present, f, plan
    <3> QED BY <3>1, <3>2
  <2> QED BY <2>1, <2>2, <1>3, <1>7 DEF MaterialOK, Present
<1>9. ResetOK'
  BY <1>3 DEF ResetOK
<1>10. ApprovedHasCanon'
  <2> SUFFICES ASSUME NEW g \in Flows, disk'[g]["rat"] = "approved", ~Present(g, "canon")'
               PROVE  \E k \in Journals : journal'[g][k].files["canon"] = "present"
    BY DEF ApprovedHasCanon
  <2>1. CASE g = f /\ i = 6
    <3>1. plan.files["rat"] = "approved"
      BY <2>1, <1>1, <1>2, <1>4 DEF GoodPlan, Decisions, Files
    <3> QED BY <2>1, <3>1, <1>1, <1>2 DEF GoodPlan, InHand, plan, f
  <2>2. CASE ~(g = f /\ i = 6)
    <3>1. disk[g]["rat"] = "approved"
      BY <2>2, <1>1, <1>2, <1>4
    <3>2. ~Present(g, "canon")
      <4>1. CASE g = f /\ i = 7
        BY <4>1, <1>1, <1>2, <1>4 DEF GoodPlan, Present, Files
      <4>2. CASE ~(g = f /\ i = 7)
        BY <4>2, <1>1, <1>2, <1>4 DEF Present
      <4> QED BY <4>1, <4>2
    <3> QED BY <3>1, <3>2, <1>2 DEF IInv, ApprovedHasCanon
  <2> QED BY <2>1, <2>2
<1> QED BY <1>5, <1>6, <1>7, <1>8, <1>9, <1>10 DEF IInv


\* Appending to the change log keeps the invariant.
LEMMA LogStep == IInv /\ AppendLog => IInv'
<1> SUFFICES ASSUME IInv, AppendLog PROVE IInv'
  OBVIOUS
<1>1. /\ TypeOK /\ run.phase = "log" /\ run.flow \in Flows /\ run.key \in Journals
      /\ run.own \in BOOLEAN /\ GoodPlan(run.flow, run.key, InHand)
  BY RunFacts DEF IInv, AppendLog, ReplayOK
<1>2. run' \in Runs /\ run'.phase = "clear" /\ run'.flow = run.flow /\ run'.key = run.key
  BY <1>1, RunFacts DEF AppendLog, Goto, Runs, Phases, LastFile
<1>3. UNCHANGED <<disk, signer, journal, failures>>
  BY DEF AppendLog
<1>4. audit' \in [Flows -> [Journals -> Decisions \cup {"none"}]]
  <2>1. InHand.files["rat"] \in Decisions
    BY <1>1 DEF GoodPlan
  <2> QED BY <2>1, <1>1 DEF AppendLog, InHand, TypeOK
<1>5. TypeOK'
  BY <1>1, <1>2, <1>3, <1>4 DEF TypeOK, Runs
<1>6. JournalsOK' /\ ReplayOK' /\ ResetOK' /\ InHand' = InHand
  BY <1>1, <1>2, <1>3 DEF IInv, JournalsOK, ReplayOK, ResetOK, InHand
<1>7. RatWritten /\ CanonWritten
  BY <1>1 DEF RatWritten, CanonWritten, Written
<1>8. MaterialOK'
  BY <1>2, <1>3, <1>6, <1>7 DEF IInv, MaterialOK, Present
<1>9. ApprovedHasCanon'
  BY <1>3 DEF IInv, ApprovedHasCanon, Present
<1> QED BY <1>5, <1>6, <1>8, <1>9 DEF IInv

\* Removing a journal keeps the invariant: its canonical record is on disk by then.
LEMMA ClearStep == IInv /\ ClearJournal => IInv'
<1> SUFFICES ASSUME IInv, ClearJournal PROVE IInv'
  OBVIOUS
<1>1. /\ TypeOK /\ run.phase = "clear" /\ run.flow \in Flows /\ run.key \in Journals
      /\ UNCHANGED <<disk, signer, audit, failures>>
      /\ journal' = [journal EXCEPT ![run.flow][run.key] = NoPlan]
  BY RunFacts DEF IInv, ClearJournal
<1>2. run' \in Runs /\ run'.phase \in {"idle", "recover", "inspect", "decide"}
  BY <1>1, IdleType, AfterRecoveryType DEF ClearJournal
<1>3. journal' \in [Flows -> [Journals -> Plans]]
  BY <1>1, NoPlanFacts DEF TypeOK
<1>4. TypeOK'
  BY <1>1, <1>2, <1>3 DEF TypeOK, Runs
<1>5. JournalsOK'
  BY <1>1 DEF IInv, JournalsOK, TypeOK
<1>6. ReplayOK' /\ MaterialOK' /\ ResetOK'
  BY <1>2 DEF ReplayOK, MaterialOK, ResetOK, RatWritten, CanonWritten, Written
<1>7. ApprovedHasCanon'
  <2> SUFFICES ASSUME NEW g \in Flows, disk[g]["rat"] = "approved", ~Present(g, "canon")
               PROVE  \E k \in Journals : journal'[g][k].files["canon"] = "present"
    BY <1>1 DEF ApprovedHasCanon, Present
  <2>1. PICK k \in Journals : journal[g][k].files["canon"] = "present"
    BY DEF IInv, ApprovedHasCanon
  <2>2. CanonWritten
    BY <1>1 DEF CanonWritten, Written
  <2>3. ~(g = run.flow /\ k = run.key)
    BY <2>1, <2>2 DEF IInv, MaterialOK, InHand
  <2>4. journal'[g][k] = journal[g][k]
    BY <2>3, <1>1 DEF TypeOK
  <2> QED BY <2>1, <2>4
<1> QED BY <1>4, <1>5, <1>6, <1>7 DEF IInv

\* Removing a file keeps the invariant: the approval goes before the canonical record.
LEMMA ResetStep == IInv /\ ResetFile => IInv'
<1> SUFFICES ASSUME IInv, ResetFile PROVE IInv'
  OBVIOUS
<1> DEFINE f == run.flow
           p == ResetOrder[run.next]
           owned == p # "queue" \/ Promotion(f, LookupPrincipal) = "gated"
<1>1. /\ TypeOK /\ run.phase = "reset" /\ f \in Flows /\ run.next \in 1 .. LastFile
      /\ run.key \in Journals /\ p \in Files
      /\ p = "rat" <=> run.next = 5
      /\ p = "canon" <=> run.next = 8
  BY RunFacts, ResetOrderFacts DEF IInv, ResetFile
<1>2. /\ disk' = IF owned THEN [disk EXCEPT ![f][p] = "none"] ELSE disk
      /\ signer' = IF p = "rat" THEN [signer EXCEPT ![f] = "nobody"] ELSE signer
      /\ UNCHANGED <<journal, audit, failures>>
  BY DEF ResetFile
<1>3. /\ run' \in Runs /\ run'.flow = f
      /\ \/ run'.phase = "decide"
         \/ run'.phase = "reset" /\ run'.next = run.next + 1
  <2>1. CASE run.next = LastFile
    BY <2>1, <1>1, RunFacts DEF ResetFile, Goto, Runs, Phases, LastFile
  <2>2. CASE run.next # LastFile
    <3>1. run' = [run EXCEPT !.next = run.next + 1] /\ run \in Runs
      BY <2>2, <1>1 DEF ResetFile, TypeOK, Runs
    <3>2. run.next + 1 \in 1 .. LastFile
      BY <2>2, <1>1 DEF LastFile
    <3> QED BY <3>1, <3>2, <1>1 DEF Runs
  <2> QED BY <2>1, <2>2
<1>4. disk \in [Flows -> [Files -> Contents]] /\ "none" \in Contents
      /\ signer \in [Flows -> Principals \cup {"nobody"}]
  BY <1>1 DEF TypeOK, Contents
<1> HIDE DEF f, p, owned
<1>5. TypeOK'
  BY <1>1, <1>2, <1>3, <1>4 DEF TypeOK, Runs
<1>6. JournalsOK' /\ ReplayOK'
  BY <1>2, <1>3 DEF IInv, JournalsOK, ReplayOK
<1>7. MaterialOK'
  BY <1>3 DEF MaterialOK, RatWritten, CanonWritten, Written
<1>8. run.next >= 5 => disk'[f]["rat"] = "none"
  <2>1. CASE run.next = 5
    <3>1. owned
      BY <2>1, <1>1 DEF owned
    <3> QED BY <3>1, <2>1, <1>1, <1>2, <1>4 DEF Files
  <2>2. CASE run.next # 5
    <3>1. run.next >= 5 => disk[f]["rat"] = "none"
      BY <2>2, <1>1 DEF IInv, ResetOK, f, LastFile
    <3> QED BY <3>1, <2>2, <1>1, <1>2, <1>4
  <2> QED BY <2>1, <2>2
<1>9. ResetOK'
  BY <1>1, <1>3, <1>8 DEF ResetOK, LastFile
<1>10. ApprovedHasCanon'
  <2> SUFFICES ASSUME NEW g \in Flows, disk'[g]["rat"] = "approved", ~Present(g, "canon")'
               PROVE  \E k \in Journals : journal'[g][k].files["canon"] = "present"
    BY DEF ApprovedHasCanon
  <2>1. disk[g]["rat"] = "approved"
    BY <1>1, <1>2, <1>4
  <2>2. ~(g = f /\ p = "canon")
    BY <1>1, <1>8
  <2>3. ~Present(g, "canon")
    BY <2>2, <1>1, <1>2, <1>4 DEF Present
  <2> QED BY <2>1, <2>3, <1>2 DEF IInv, ApprovedHasCanon
<1> QED BY <1>5, <1>6, <1>7, <1>9, <1>10 DEF IInv


\* A journal write replaces the flow's journal of that kind: the one replaced
\* must not have been what accounts for a missing canonical record.
LEMMA CommitStep ==
  ASSUME IInv, NEW key \in Journals, NEW plan \in Plans, Commit(key, plan),
         GoodPlan(run.flow, key, plan),
         \/ disk[run.flow]["rat"] # "approved"
         \/ journal[run.flow][key].files["canon"] # "present"
  PROVE  IInv'
<1>1. TypeOK /\ run.flow \in Flows
  BY RunFacts DEF IInv
<1>2. /\ journal' = [journal EXCEPT ![run.flow][key] = plan]
      /\ UNCHANGED <<disk, signer, audit, failures>>
  BY DEF Commit
<1>3. /\ run' \in Runs /\ run'.phase = "files" /\ run'.next = 1
      /\ run'.flow = run.flow /\ run'.key = key
  BY <1>1, RunFacts DEF Commit, Goto, Runs, Phases, LastFile
<1>4. journal' \in [Flows -> [Journals -> Plans]] /\ journal'[run.flow][key] = plan
  BY <1>1, <1>2 DEF TypeOK
<1>5. TypeOK'
  BY <1>1, <1>2, <1>3, <1>4 DEF TypeOK, Runs
<1>6. JournalsOK'
  BY <1>1, <1>2, <1>4 DEF IInv, JournalsOK, TypeOK
<1>7. ReplayOK'
  BY <1>3, <1>4 DEF ReplayOK, InHand
<1>8. MaterialOK' /\ ResetOK'
  BY <1>3 DEF MaterialOK, ResetOK, RatWritten, CanonWritten, Written
<1>9. ApprovedHasCanon'
  <2> SUFFICES ASSUME NEW g \in Flows, disk[g]["rat"] = "approved", ~Present(g, "canon")
               PROVE  \E k \in Journals : journal'[g][k].files["canon"] = "present"
    BY <1>2 DEF ApprovedHasCanon, Present
  <2>1. PICK k \in Journals : journal[g][k].files["canon"] = "present"
    BY DEF IInv, ApprovedHasCanon
  <2>2. ~(g = run.flow /\ k = key)
    BY <2>1
  <2>3. journal'[g][k] = journal[g][k]
    BY <2>2, <1>1, <1>2 DEF TypeOK
  <2> QED BY <2>1, <2>3
<1> QED BY <1>5, <1>6, <1>7, <1>8, <1>9 DEF IInv

\* Each decision journals a good plan where none is still needed.
LEMMA DecideStep == IInv /\ (DecideWrite \/ DecideRatify \/ DecideClose) => IInv'
<1> SUFFICES ASSUME IInv, DecideWrite \/ DecideRatify \/ DecideClose PROVE IInv'
  OBVIOUS
<1>0. /\ TypeOK /\ run.flow \in Flows /\ run.by \in Principals \cup {"nobody"}
      /\ {"write", "apply", "close"} \subseteq Journals
  BY RunFacts DEF IInv, Journals
<1>1. CASE DecideWrite
  <2>1. disk[run.flow]["rat"] # "approved"
    BY <1>1 DEF DecideWrite, WriteAccepted, Baseline, Present
  <2>2. /\ WritePlan(run.flow, run.by) \in Plans
        /\ GoodPlan(run.flow, "write", WritePlan(run.flow, run.by))
        /\ Commit("write", WritePlan(run.flow, run.by))
    BY <1>0, <1>1, WritePlanGood DEF DecideWrite
  <2> QED BY <1>0, <2>1, <2>2, CommitStep
<1>2. CASE DecideRatify
  <2>1. disk[run.flow]["rat"] # "approved"
    BY <1>2 DEF DecideRatify, RatificationAccepted
  <2>2. /\ ApplyPlan("owner") \in Plans
        /\ GoodPlan(run.flow, "apply", ApplyPlan("owner"))
        /\ Commit("apply", ApplyPlan("owner"))
    BY <1>0, <1>2, ApplyPlanGood DEF DecideRatify, RatificationAccepted
  <2> QED BY <1>0, <2>1, <2>2, CommitStep
<1>3. CASE DecideClose
  <2>1. disk[run.flow]["rat"] # "approved"
    BY <1>3 DEF DecideClose, ClosureAccepted
  <2>2. run.op \in {"reject", "expire"} /\ run.by \in Principals
    BY <1>3 DEF DecideClose, ClosureAccepted, Principals
  <2>3. /\ ClosePlan(run.op, run.by) \in Plans
        /\ GoodPlan(run.flow, "close", ClosePlan(run.op, run.by))
        /\ Commit("close", ClosePlan(run.op, run.by))
    BY <1>0, <1>3, <2>2, ClosePlanGood DEF DecideClose
  <2> QED BY <1>0, <2>1, <2>3, CommitStep
<1> QED BY <1>1, <1>2, <1>3

-----------------------------------------------------------------------------
\* Every step keeps the invariant.
LEMMA StepIInv == IInv /\ [Next]_vars => IInv'
<1> SUFFICES ASSUME IInv, [Next]_vars PROVE IInv'
  OBVIOUS
<1>1. CASE Next
  BY <1>1, BeginStep, RunStep, MaterializeStep, LogStep, ClearStep, ResetStep, DecideStep
  DEF Next, Progress
<1>2. CASE UNCHANGED vars
  BY <1>2
  DEF vars, IInv, TypeOK, JournalsOK, ReplayOK, InHand, MaterialOK, RatWritten,
      CanonWritten, Written, ResetOK, ApprovedHasCanon, Present
<1> QED BY <1>1, <1>2

\* In every reachable state, for any flows, slots, callers and failures, the
\* inductive invariant holds.
THEOREM Invariance == Spec => []IInv
<1>1. Init => IInv
  BY InitIInv
<1>2. IInv /\ [Next]_vars => IInv'
  BY StepIInv
<1> QED BY <1>1, <1>2, PTL DEF Spec

\* Type correctness of the store.
THEOREM TypeCorrect == Spec => []TypeOK
<1>1. IInv => TypeOK
  BY DEF IInv
<1> QED BY <1>1, Invariance, PTL

\* An approved ratification is never stranded without its canonical record: the
\* record is on disk or in a journal, wherever the operation was abandoned and
\* whatever ran in between (materializeFiles, replayPendingJournal, the reset).
THEOREM ApprovedNeverStranded == Spec => []ApprovedHasCanon
<1>1. IInv => ApprovedHasCanon
  BY DEF IInv
<1> QED BY <1>1, Invariance, PTL

\* A canonical record of a claim about the owner only appears under a
\* ratification record the owner signed (evaluateCanonicalProposal, the
\* principal check of applyOwnerRatificationToExistingFlow, and every replay).
THEOREM OwnerAuthorized == Spec => OwnerAuthority
<1> DEFINE Guarded ==
      \A f \in OwnerSubject :
        ~Present(f, "canon") /\ disk'[f]["canon"] = "present" =>
          /\ signer[f] = "owner"
          /\ disk[f]["rat"] = "approved"
<1>1. IInv /\ [Next]_vars => [Guarded]_vars
  <2> SUFFICES ASSUME IInv, Next, NEW f \in OwnerSubject,
                      ~Present(f, "canon"), disk'[f]["canon"] = "present"
               PROVE  signer[f] = "owner" /\ disk[f]["rat"] = "approved"
    OBVIOUS
  <2>1. TypeOK /\ f \in Flows /\ run.flow \in Flows
    BY FlowAssumption, RunFacts DEF IInv
  <2>2. disk' # disk
    BY DEF Present
  <2>3. MaterializeFile \/ ResetFile
    BY <2>2 DEF Next, Begin, Write, Read, RatifyQueued, RatifyDeferred, Reject, Expire,
       Start, Progress, NothingToRecover, StartReplay, AppendLog, ClearJournal,
       InspectComplete, InspectPartial, DecideWrite, DecideRatify, DecideClose, Commit,
       Finish, Fail
  <2>4. ~ResetFile
    <3> SUFFICES ASSUME ResetFile PROVE FALSE
      OBVIOUS
    <3>1. \/ disk' = [disk EXCEPT ![run.flow][ResetOrder[run.next]] = "none"]
          \/ disk' = disk
      BY DEF ResetFile
    <3>2. ASSUME NEW p, disk' = [disk EXCEPT ![run.flow][p] = "none"]
          PROVE  FALSE
      BY <3>2, <2>1 DEF Present, TypeOK, Files
    <3> QED BY <3>1, <3>2, <2>2
  <2>5. MaterializeFile /\ run.next \in 1 .. LastFile
    BY <2>3, <2>4, <2>1, RunFacts
  <2>6. f = run.flow /\ run.next = 7 /\ InHand.files["canon"] = "present"
    <3>1. \/ disk' = [disk EXCEPT ![run.flow][FileOrder[run.next]] =
                                InHand.files[FileOrder[run.next]]]
          \/ disk' = disk
      BY <2>5 DEF MaterializeFile, InHand
    <3>2. ASSUME NEW p, NEW c, disk' = [disk EXCEPT ![run.flow][p] = c]
          PROVE  f = run.flow /\ p = "canon" /\ c = "present"
      BY <3>2, <2>1 DEF Present, TypeOK, Files
    <3>3. f = run.flow /\ FileOrder[run.next] = "canon"
          /\ InHand.files[FileOrder[run.next]] = "present"
      BY <3>1, <3>2, <2>2
    <3> QED BY <3>3, <2>5, FileOrderFacts
  <2>7. run.phase = "files" /\ GoodPlan(f, run.key, InHand)
    BY <2>5, <2>6 DEF MaterializeFile, IInv, ReplayOK
  <2>8. signer[f] = InHand.by /\ disk[f]["rat"] = InHand.files["rat"]
    BY <2>6, <2>7 DEF IInv, MaterialOK, RatWritten, Written
  <2> QED BY <2>6, <2>7, <2>8 DEF GoodPlan
<1>2. Spec => [][Guarded]_vars
  BY <1>1, Invariance, PTL DEF Spec
<1> QED BY <1>2 DEF OwnerAuthority
-----------------------------------------------------------------------------
(***************************************************************************)
(* Two flows that compete for one semantic slot never both get a canonical *)
(* record, provided the caller of an operation that failed retries it      *)
(* before anything else runs.  The discipline is needed: without it a      *)
(* journal is replayed after its conflict gate was evaluated against a     *)
(* store that has changed since.                                           *)
(***************************************************************************)

\* A flow has a canonical record, or a journal that will write one.
Planned(f) == \E k \in Journals : journal[f][k].files["canon"] = "present"
Claiming(f) == Present(f, "canon") \/ Planned(f)

\* Two flows that claim a slot claim different slots.
SlotInv ==
  \A f, g \in Flows : f # g /\ Claiming(f) /\ Claiming(g) => SlotOf[f] # SlotOf[g]

\* No journal is on disk.
NoneOutstanding == \A f \in Flows, k \in Journals : journal[f][k] = NoPlan

\* Only journals the operation in progress recovers are on disk.
OwnOutstandingOnly ==
  \A f \in Flows, k \in Journals :
    journal[f][k] # NoPlan => f = run.flow /\ k \in Recovers(run.op)

\* What RetryFirst makes true while an operation runs: it recovers every journal
\* there is before it decides.
Recovering ==
  run.phase = "recover" \/ (run.phase \in {"files", "log", "clear"} /\ ~run.own) =>
    /\ OwnOutstandingOnly
    /\ run.op \in Operations /\ run.key \in Recovers(run.op)
    /\ run.op = "ratify_deferred" /\ run.key = "write" =>
         journal[run.flow]["apply"] = NoPlan

\* By the time it inspects, resets or decides, none is left.
Deciding == run.phase \in {"inspect", "reset", "decide"} => NoneOutstanding

\* The inductive invariant for the slots.
SInv == IInv /\ Recovering /\ Deciding /\ SlotInv

-----------------------------------------------------------------------------
\* The journals each operation recovers, the first one first.
LEMMA RecoversFacts ==
  /\ \A op \in Operations : FirstJournal(op) \in Recovers(op)
  /\ \A op \in Operations : op # "ratify_deferred" => Recovers(op) = {FirstJournal(op)}
  /\ Recovers("ratify_deferred") = {"apply", "write"}
  /\ FirstJournal("ratify_deferred") = "apply"
BY DEF Recovers, FirstJournal, Operations

\* Once the journal in hand is gone, what AfterRecovery leads to is sound.
LEMMA Recovered ==
  ASSUME SInv, NEW replayed \in BOOLEAN,
         run.phase = "recover" \/ (run.phase = "clear" /\ ~run.own),
         run' = AfterRecovery(replayed),
         journal' = [journal EXCEPT ![run.flow][run.key] = NoPlan]
  PROVE  Recovering' /\ Deciding'
<1>1. TypeOK /\ run.flow \in Flows /\ run.key \in Journals
  BY RunFacts DEF SInv, IInv
<1>2. /\ OwnOutstandingOnly
      /\ run.op \in Operations /\ run.key \in Recovers(run.op)
      /\ run.op = "ratify_deferred" /\ run.key = "write" =>
           journal[run.flow]["apply"] = NoPlan
  BY DEF SInv, Recovering
<1>3. /\ journal'[run.flow][run.key] = NoPlan
      /\ \A f \in Flows, k \in Journals :
           journal'[f][k] # NoPlan =>
             journal[f][k] # NoPlan /\ ~(f = run.flow /\ k = run.key)
  BY <1>1 DEF TypeOK
<1>4. CASE run.op = "ratify_deferred" /\ run.key = "apply"
  <2>1. /\ run'.phase = "recover" /\ run'.key = "write" /\ run'.op = run.op
        /\ run'.flow = run.flow
    BY <1>4 DEF AfterRecovery, Goto
  <2> QED BY <2>1, <1>2, <1>3, <1>4, RecoversFacts
          DEF Recovering, Deciding, OwnOutstandingOnly, Operations
<1>5. CASE ~(run.op = "ratify_deferred" /\ run.key = "apply")
  <2>1. run'.phase \in {"inspect", "decide"}
    <3>1. run' = Goto(IF run.key = "write" /\ ~replayed THEN "inspect" ELSE "decide",
                      run.key, FALSE)
      BY <1>5 DEF AfterRecovery
    <3>2. CASE run.key = "write" /\ ~replayed
      BY <3>1, <3>2 DEF Goto
    <3>3. CASE ~(run.key = "write" /\ ~replayed)
      BY <3>1, <3>3 DEF Goto
    <3> QED BY <3>2, <3>3
  <2>2. NoneOutstanding'
    <3> SUFFICES ASSUME NEW f \in Flows, NEW k \in Journals, journal'[f][k] # NoPlan
                 PROVE  FALSE
      BY DEF NoneOutstanding
    <3>1. f = run.flow /\ k \in Recovers(run.op) /\ k # run.key /\ journal[f][k] # NoPlan
      BY <1>2, <1>3 DEF OwnOutstandingOnly
    <3> QED BY <3>1, <1>2, <1>5, RecoversFacts
  <2> QED BY <2>1, <2>2 DEF Recovering, Deciding
<1> QED BY <1>4, <1>5

\* A step that adds no canonical record and no journal that plans one keeps SlotInv.
LEMMA SlotsKept ==
  ASSUME SlotInv, \A f \in Flows : Claiming(f)' => Claiming(f)
  PROVE  SlotInv'
BY DEF SlotInv

\* An empty store satisfies the invariant.
LEMMA InitSInv == Init => SInv
<1> SUFFICES ASSUME Init PROVE SInv
  OBVIOUS
<1>1. Recovering /\ Deciding
  BY IdleType DEF Init, Recovering, Deciding
<1>2. \A f \in Flows : ~Claiming(f)
  BY NoPlanFacts DEF Init, Claiming, Planned, Present, NoFiles, Files
<1> QED BY <1>1, <1>2, InitIInv DEF SInv, SlotInv

-----------------------------------------------------------------------------
\* An operation starts only where it recovers all that is outstanding.
LEMMA BeginSlots == ASSUME RetryFirst PROVE SInv /\ Begin => SInv'
<1> SUFFICES ASSUME SInv, Begin PROVE SInv'
  OBVIOUS
<1>1. PICK op \in Operations, f \in Flows, by \in Principals : Start(op, f, by)
  BY DEF Begin, Write, Read, RatifyQueued, RatifyDeferred, Reject, Expire, Operations
<1>2. IInv'
  BY BeginStep DEF SInv
<1>3. /\ run'.phase = "recover" /\ run'.op = op /\ run'.flow = f
      /\ run'.key = FirstJournal(op) /\ UNCHANGED <<disk, journal>>
  BY <1>1 DEF Start
<1>4. \A g \in Flows, k \in Journals :
        journal[g][k] # NoPlan => g = f /\ k \in Recovers(op)
  <2> SUFFICES ASSUME NEW g \in Flows, NEW k \in Journals, journal[g][k] # NoPlan
               PROVE  g = f /\ k \in Recovers(op)
    OBVIOUS
  <2>1. <<g, k>> \in Outstanding
    BY DEF Outstanding
  <2> QED BY <1>1, <2>1 DEF Start, CallerMayStart
<1>5. Recovering'
  BY <1>3, <1>4, RecoversFacts DEF Recovering, OwnOutstandingOnly
<1>6. Deciding'
  BY <1>3 DEF Deciding
<1>7. SlotInv'
  BY <1>3, SlotsKept DEF SInv, Claiming, Planned, Present
<1> QED BY <1>2, <1>5, <1>6, <1>7 DEF SInv

\* Steps that only move the operation in progress keep the invariant.
LEMMA RunSlots ==
  SInv /\ (NothingToRecover \/ StartReplay \/ InspectComplete \/ InspectPartial \/ Finish \/ Fail)
    => SInv'
<1> SUFFICES ASSUME SInv,
                    NothingToRecover \/ StartReplay \/ InspectComplete \/ InspectPartial
                      \/ Finish \/ Fail
             PROVE  SInv'
  OBVIOUS
<1>0. IInv' /\ TypeOK /\ run.flow \in Flows /\ run.key \in Journals
  BY RunStep, RunFacts DEF SInv, IInv
<1>1. UNCHANGED <<disk, journal>>
  BY DEF NothingToRecover, StartReplay, InspectComplete, InspectPartial, Finish, Fail
<1>2. SlotInv'
  BY <1>1, SlotsKept DEF SInv, Claiming, Planned, Present
<1>3. Recovering' /\ Deciding'
  <2>1. CASE NothingToRecover
    <3>1. journal' = [journal EXCEPT ![run.flow][run.key] = NoPlan]
      BY <2>1, <1>0 DEF NothingToRecover, TypeOK
    <3> QED BY <2>1, <3>1, Recovered DEF NothingToRecover
  <2>2. CASE StartReplay
    BY <2>2 DEF StartReplay, Goto, SInv, Recovering, Deciding, OwnOutstandingOnly
  <2>3. CASE InspectComplete \/ InspectPartial
    <3>1. run'.phase \in {"decide", "reset"}
      BY <2>3 DEF InspectComplete, InspectPartial, Goto
    <3>2. NoneOutstanding
      BY <2>3 DEF InspectComplete, InspectPartial, SInv, Deciding
    <3> QED BY <3>1, <3>2, <1>1 DEF Recovering, Deciding, NoneOutstanding
  <2>4. CASE Finish \/ Fail
    BY <2>4, IdleType DEF Finish, Fail, Recovering, Deciding
  <2> QED BY <2>1, <2>2, <2>3, <2>4
<1> QED BY <1>0, <1>2, <1>3 DEF SInv

\* Materialising a file adds no claim the journal in hand did not make.
LEMMA MaterializeSlots == SInv /\ MaterializeFile => SInv'
<1> SUFFICES ASSUME SInv, MaterializeFile PROVE SInv'
  OBVIOUS
<1>0. /\ IInv' /\ TypeOK /\ run.phase = "files" /\ run.flow \in Flows /\ run.key \in Journals
      /\ run.next \in 1 .. LastFile /\ GoodPlan(run.flow, run.key, InHand)
  BY MaterializeStep, RunFacts DEF SInv, IInv, MaterializeFile, ReplayOK
<1>1. /\ run'.phase \in {"files", "log"} /\ run'.own = run.own
      /\ run'.op = run.op /\ run'.flow = run.flow /\ run'.key = run.key
  <2>1. CASE run.next = LastFile
    BY <2>1, <1>0 DEF MaterializeFile, Goto
  <2>2. CASE run.next # LastFile
    BY <2>2, <1>0 DEF MaterializeFile, TypeOK
  <2> QED BY <2>1, <2>2
<1>2. journal' = journal
  BY DEF MaterializeFile
<1>3. Recovering' /\ Deciding'
  BY <1>0, <1>1, <1>2 DEF SInv, Recovering, Deciding, OwnOutstandingOnly
<1>4. ASSUME NEW f \in Flows, Claiming(f)' PROVE Claiming(f)
  <2>1. CASE Planned(f)'
    BY <2>1, <1>2 DEF Planned, Claiming
  <2>2. CASE Present(f, "canon") \/ disk'[f]["canon"] = disk[f]["canon"]
    BY <2>2, <1>4, <1>2 DEF Claiming, Present, Planned
  <2>3. CASE ~Present(f, "canon") /\ disk'[f]["canon"] # disk[f]["canon"]
    <3>1. \/ disk' = [disk EXCEPT ![run.flow][FileOrder[run.next]] =
                                InHand.files[FileOrder[run.next]]]
             /\ InHand.files[FileOrder[run.next]] # "keep"
          \/ disk' = disk
      BY DEF MaterializeFile, InHand
    <3>2. ASSUME NEW p, NEW c, disk' = [disk EXCEPT ![run.flow][p] = c]
          PROVE  f = run.flow /\ p = "canon"
      BY <3>2, <2>3, <1>0 DEF TypeOK, Files
    <3>3. f = run.flow /\ InHand.files["canon"] # "keep"
      BY <3>1, <3>2, <2>3
    <3> QED BY <3>3, <1>0 DEF GoodPlan, InHand, Claiming, Planned
  <2> QED BY <2>1, <2>2, <2>3
<1> QED BY <1>0, <1>3, <1>4, SlotsKept DEF SInv

\* Appending to the change log keeps the invariant.
LEMMA LogSlots == SInv /\ AppendLog => SInv'
<1> SUFFICES ASSUME SInv, AppendLog PROVE SInv'
  OBVIOUS
<1>1. /\ IInv' /\ UNCHANGED <<disk, journal>> /\ run.phase = "log"
      /\ run'.phase = "clear" /\ run'.own = run.own
      /\ run'.op = run.op /\ run'.flow = run.flow /\ run'.key = run.key
  BY LogStep DEF SInv, AppendLog, Goto
<1>2. Recovering' /\ Deciding'
  BY <1>1 DEF SInv, Recovering, Deciding, OwnOutstandingOnly
<1> QED BY <1>1, <1>2, SlotsKept DEF SInv, Claiming, Planned, Present

\* Removing a journal adds no claim.
LEMMA ClearSlots == SInv /\ ClearJournal => SInv'
<1> SUFFICES ASSUME SInv, ClearJournal PROVE SInv'
  OBVIOUS
<1>1. /\ IInv' /\ TypeOK /\ run.flow \in Flows /\ run.key \in Journals
      /\ run.phase = "clear" /\ disk' = disk
      /\ journal' = [journal EXCEPT ![run.flow][run.key] = NoPlan]
  BY ClearStep, RunFacts DEF SInv, IInv, ClearJournal
<1>2. Recovering' /\ Deciding'
  <2>1. CASE run.own
    BY <2>1, IdleType DEF ClearJournal, Recovering, Deciding
  <2>2. CASE ~run.own
    BY <2>2, <1>1, Recovered DEF ClearJournal
  <2> QED BY <2>1, <2>2, RunFacts, <1>1
<1>3. ASSUME NEW f \in Flows, Claiming(f)' PROVE Claiming(f)
  BY <1>1, <1>3, NoPlanFacts DEF Claiming, Planned, Present, TypeOK
<1> QED BY <1>1, <1>2, <1>3, SlotsKept DEF SInv

\* Removing a file adds no claim.
LEMMA ResetSlots == SInv /\ ResetFile => SInv'
<1> SUFFICES ASSUME SInv, ResetFile PROVE SInv'
  OBVIOUS
<1>1. /\ IInv' /\ TypeOK /\ run.flow \in Flows /\ run.phase = "reset" /\ journal' = journal
      /\ NoneOutstanding
  BY ResetStep, RunFacts DEF SInv, IInv, ResetFile, Deciding
<1>2. run'.phase \in {"reset", "decide"}
  <2>1. CASE run.next = LastFile
    BY <2>1 DEF ResetFile, Goto
  <2>2. CASE run.next # LastFile
    BY <2>2, <1>1 DEF ResetFile, TypeOK
  <2> QED BY <2>1, <2>2
<1>3. Recovering' /\ Deciding'
  BY <1>1, <1>2 DEF Recovering, Deciding, NoneOutstanding
<1>4. ASSUME NEW f \in Flows, Claiming(f)' PROVE Claiming(f)
  <2>1. \/ disk' = [disk EXCEPT ![run.flow][ResetOrder[run.next]] = "none"]
        \/ disk' = disk
    BY DEF ResetFile
  <2>2. ASSUME NEW p, disk' = [disk EXCEPT ![run.flow][p] = "none"], Present(f, "canon")'
        PROVE  Present(f, "canon")
    BY <2>2, <1>1 DEF TypeOK, Present, Files
  <2> QED BY <2>1, <2>2, <1>1, <1>4 DEF Claiming, Planned, Present
<1> QED BY <1>1, <1>3, <1>4, SlotsKept DEF SInv


\* A decision is taken when no journal is outstanding, so the conflict gate sees
\* every claim there is.
LEMMA CommitSlots ==
  ASSUME SInv, NEW key \in Journals, NEW plan \in Plans, Commit(key, plan), IInv',
         run.phase = "decide",
         plan.files["canon"] = "present" => ~CanonConflict(run.flow)
  PROVE  SInv'
<1>1. /\ TypeOK /\ run.flow \in Flows /\ disk' = disk
      /\ journal' = [journal EXCEPT ![run.flow][key] = plan]
      /\ run'.phase = "files" /\ run'.own = TRUE
  BY RunFacts DEF SInv, IInv, Commit, Goto
<1>2. Recovering' /\ Deciding'
  BY <1>1 DEF Recovering, Deciding
<1>3. NoneOutstanding
  BY DEF SInv, Deciding
<1>4. ASSUME NEW g \in Flows, Claiming(g)'
      PROVE  Present(g, "canon") \/ (g = run.flow /\ plan.files["canon"] = "present")
  <2>1. CASE Present(g, "canon")'
    BY <2>1, <1>1 DEF Present
  <2>2. CASE Planned(g)'
    <3>1. PICK k \in Journals : journal'[g][k].files["canon"] = "present"
      BY <2>2 DEF Planned
    <3>2. CASE g = run.flow /\ k = key
      BY <3>1, <3>2, <1>1 DEF TypeOK
    <3>3. CASE ~(g = run.flow /\ k = key)
      <4>1. journal'[g][k] = NoPlan
        BY <3>3, <1>1, <1>3 DEF TypeOK, NoneOutstanding
      <4> QED BY <4>1, <3>1, NoPlanFacts
    <3> QED BY <3>2, <3>3
  <2> QED BY <2>1, <2>2, <1>4 DEF Claiming
<1>5. SlotInv'
  <2> SUFFICES ASSUME NEW f \in Flows, NEW g \in Flows, f # g, Claiming(f)', Claiming(g)'
               PROVE  SlotOf[f] # SlotOf[g]
    BY DEF SlotInv
  <2>1. CASE Present(f, "canon") /\ Present(g, "canon")
    BY <2>1 DEF SInv, SlotInv, Claiming
  <2>2. CASE ~Present(f, "canon")
    BY <2>2, <1>4 DEF CanonConflict
  <2>3. CASE ~Present(g, "canon")
    BY <2>3, <1>4 DEF CanonConflict
  <2> QED BY <2>1, <2>2, <2>3
<1> QED BY <1>2, <1>5 DEF SInv

\* The three decisions keep the invariant.
LEMMA DecideSlots == SInv /\ (DecideWrite \/ DecideRatify \/ DecideClose) => SInv'
<1> SUFFICES ASSUME SInv, DecideWrite \/ DecideRatify \/ DecideClose PROVE SInv'
  OBVIOUS
<1>0. /\ IInv' /\ run.flow \in Flows /\ run.by \in Principals \cup {"nobody"}
      /\ {"write", "apply", "close"} \subseteq Journals
  BY DecideStep, RunFacts DEF SInv, IInv, Journals
<1>1. CASE DecideWrite
  <2>1. /\ WritePlan(run.flow, run.by) \in Plans
        /\ GoodPlan(run.flow, "write", WritePlan(run.flow, run.by))
    BY <1>0, WritePlanGood
  <2>2. WritePlan(run.flow, run.by).files["rat"] =
          Decision(run.flow, Promotion(run.flow, run.by))
    BY DEF WritePlan, Files
  <2>3. WritePlan(run.flow, run.by).files["canon"] = "present" => ~CanonConflict(run.flow)
    BY <2>1, <2>2 DEF GoodPlan, Decision
  <2> QED BY <1>0, <1>1, <2>1, <2>3, CommitSlots DEF DecideWrite
<1>2. CASE DecideRatify
  <2>1. run.by = "owner" /\ ~CanonConflict(run.flow)
    BY <1>2 DEF DecideRatify, RatificationAccepted
  <2>2. ApplyPlan(run.by) \in Plans
    BY <1>0, <2>1, ApplyPlanGood
  <2> QED BY <1>0, <1>2, <2>1, <2>2, CommitSlots DEF DecideRatify
<1>3. CASE DecideClose
  <2>1. run.op \in {"reject", "expire"} /\ run.by \in Principals
    BY <1>3 DEF DecideClose, ClosureAccepted, Principals
  <2>2. /\ ClosePlan(run.op, run.by) \in Plans
        /\ ClosePlan(run.op, run.by).files["canon"] # "present"
    BY <1>0, <2>1, ClosePlanGood DEF GoodPlan
  <2> QED BY <1>0, <1>3, <2>2, CommitSlots DEF DecideClose
<1> QED BY <1>1, <1>2, <1>3

-----------------------------------------------------------------------------
\* If failed operations are retried before others run, the conflict gate of
\* evaluateCanonicalProposal gives each semantic slot one canonical record.
THEOREM OneCanonPerSlot == ASSUME RetryFirst PROVE Spec => []SlotHasOneCanon
<1>1. Init => SInv
  BY InitSInv
<1>2. SInv /\ [Next]_vars => SInv'
  <2> SUFFICES ASSUME SInv, [Next]_vars PROVE SInv'
    OBVIOUS
  <2>1. CASE Next
    BY <2>1, BeginSlots, RunSlots, MaterializeSlots, LogSlots, ClearSlots, ResetSlots,
       DecideSlots
    DEF Next, Progress
  <2>2. CASE UNCHANGED vars
    <3>1. IInv'
      BY <2>2, StepIInv DEF SInv
    <3>2. Recovering' /\ Deciding' /\ SlotInv'
      BY <2>2, SlotsKept DEF vars, SInv, Recovering, Deciding, OwnOutstandingOnly,
         NoneOutstanding, Claiming, Planned, Present
    <3> QED BY <3>1, <3>2 DEF SInv
  <2> QED BY <2>1, <2>2
<1>3. SInv => SlotHasOneCanon
  BY DEF SInv, SlotInv, Claiming, SlotHasOneCanon
<1> QED BY <1>1, <1>2, <1>3, PTL DEF Spec

-----------------------------------------------------------------------------
\* The owner review.


\* Writers and readers of a flow imply the same promotion, and so does its lookup with
\* no authenticated principal if the flow has one.
CallersAgree ==
  \A f \in OwnerSubject : "owner" \in Callers[f] =>
    Callers[f] = {"owner"} /\ f \notin LegacyRatified

\* The promotion all of them imply.
Gated(f) == f \in OwnerSubject /\ "owner" \notin Callers[f]
Implied(f) == IF Gated(f) THEN "gated" ELSE "open"

\* A write of the flow can be stored and refused: it says what another flow of its slot
\* says, or brings the ids to record a contradiction.
Refusable(f) ==
  \/ f \in ContradictionIds
  \/ \E g \in Flows \ {f} : SlotOf[g] = SlotOf[f] /\ StatementOf[g] = StatementOf[f]

\* The files of a flow, and its log entries, once a journal of kind k is replayed.
FilesAfter(d, plan) ==
  [p \in Files |-> IF plan.files[p] = "keep" THEN d[p] ELSE plan.files[p]]
LogAfter(a, k, plan) ==
  IF plan # NoPlan /\ a[k] = "none" THEN [a EXCEPT ![k] = plan.files["rat"]] ELSE a

\* Never stored, refused without a review, or on the way from there to nothing.
Unreviewed(f, d) ==
  /\ d["queue"] = "none" /\ d["canon"] = "none"
  /\ d["rat"] = "none" \/ (d["rat"] = "rejected" /\ Gated(f) /\ Refusable(f))

Stored(d) == \A p \in {"source", "claim", "proposal", "rat", "projection"} : d[p] # "none"

\* Decided when it was written.
DecidedAtOnce(f, d) ==
  /\ ~Gated(f) /\ Stored(d) /\ d["queue"] = "none"
  /\ \/ d["rat"] = "approved" /\ d["canon"] # "none"
     \/ d["rat"] = "rejected" /\ d["canon"] = "none" /\ d["diag"] # "none"

\* Under review, or reviewed: the queue entry, the ratification record, the canonical
\* record and the log tell one story.
Reviewed(f, d, a) ==
  /\ Gated(f) /\ Stored(d) /\ d["diag"] # "none"
  /\ \/ /\ d["queue"] = "pending" /\ d["rat"] = "deferred" /\ d["canon"] = "none"
        /\ a["apply"] = "none" /\ a["close"] = "none"
     \/ /\ d["queue"] = "applied" /\ d["rat"] = "approved" /\ d["canon"] # "none"
        /\ a["apply"] = "approved" /\ a["close"] = "none"
     \/ /\ d["queue"] = "answered" /\ d["rat"] = "rejected" /\ d["canon"] = "none"
        /\ a["apply"] = "none" /\ a["close"] = "rejected"
     \/ /\ d["queue"] = "expired" /\ d["rat"] = "expired" /\ d["canon"] = "none"
        /\ a["apply"] = "none" /\ a["close"] = "expired"

NoEnd(a) == a["apply"] = "none" /\ a["close"] = "none"

Story(f, d, a) ==
  \/ (Unreviewed(f, d) \/ DecidedAtOnce(f, d)) /\ NoEnd(a)
  \/ Reviewed(f, d, a)

-----------------------------------------------------------------------------
\* One journal at most.
OneJournal ==
  \A f, g \in Flows : \A k, l \in Journals :
    journal[f][k] # NoPlan /\ journal[g][l] # NoPlan => f = g /\ k = l

\* A flow with no journal tells a story; one with a journal will.
Tells(f) ==
  /\ (\A k \in Journals : journal[f][k] = NoPlan) => Story(f, disk[f], audit[f])
  /\ \A k \in Journals : journal[f][k] # NoPlan =>
       Story(f, FilesAfter(disk[f], journal[f][k]), LogAfter(audit[f], k, journal[f][k]))

\* A journal removes nothing, and ends a review only if it has not ended otherwise.
SoundPlan(f, plan) ==
  /\ \A p \in Files : plan.files[p] # "none"
  /\ plan.files["queue"] # "keep" =>
       disk[f]["queue"] \in {"none", "pending", plan.files["queue"]}
SoundPlans ==
  \A f \in Flows, k \in Journals : journal[f][k] # NoPlan => SoundPlan(f, journal[f][k])

\* The files before the next one are as the journal says; then all are, and its entry
\* is in the log.
Placed(p) == InHand.files[p] = "keep" \/ disk[run.flow][p] = InHand.files[p]
InPlace ==
  /\ run.phase = "files" => \A i \in 1 .. LastFile : i < run.next => Placed(FileOrder[i])
  /\ run.phase \in {"log", "clear"} => \A p \in Files : Placed(p)
  /\ run.phase = "clear" => audit[run.flow][run.key] # "none"

\* Only what was never reviewed is reset.
ResetUnreviewed == run.phase = "reset" => Unreviewed(run.flow, disk[run.flow])

\* Whose input an operation looks its flow up with.
KnownCaller ==
  /\ run.op \in {"write", "read"} => run.by \in Callers[run.flow]
  /\ run.op = "ratify_deferred" => run.flow \in LegacyRatified
  /\ run.phase = "inspect" => run.op \in {"write", "read", "ratify_deferred"}

\* The inductive invariant for the review.
RInv ==
  /\ SInv /\ OneJournal /\ (\A f \in Flows : Tells(f)) /\ SoundPlans
  /\ InPlace /\ ResetUnreviewed /\ KnownCaller

-----------------------------------------------------------------------------
\* What the lookups of a flow agree on.
LEMMA LookupImplied ==
  ASSUME CallersAgree, TypeOK, KnownCaller, run.op \in {"write", "read", "ratify_deferred"}
  PROVE  /\ Promotion(run.flow, LookupPrincipal) = Implied(run.flow)
         /\ run.op = "write" => Promotion(run.flow, run.by) = Implied(run.flow)
<1> DEFINE f == run.flow
<1>1. run.op # "ratify_deferred" => Promotion(f, run.by) = Implied(f)
  BY DEF CallersAgree, KnownCaller, Promotion, Implied, Gated
<1>2. run.op = "ratify_deferred" => Promotion(f, "nobody") = Implied(f)
  BY DEF CallersAgree, KnownCaller, Promotion, Implied, Gated
<1> QED BY <1>1, <1>2 DEF LookupPrincipal

\* A flow whose story is told is taken for a torn one only if it was never reviewed.
LEMMA TornUnreviewed ==
  ASSUME NEW f \in Flows, Story(f, disk[f], audit[f]), Partial(f, Implied(f))
  PROVE  Unreviewed(f, disk[f])
<1>1. ~DecidedAtOnce(f, disk[f])
  BY DEF Partial, Implied, Baseline, Present, DecidedAtOnce, Stored
<1>2. ~Reviewed(f, disk[f], audit[f])
  BY DEF Partial, Implied, Baseline, Present, Reviewed, Stored
<1> QED BY <1>1, <1>2 DEF Story

\* Steps that change nothing but the operation in progress.
LEMMA RunOnlyReview ==
  ASSUME RInv, SInv', UNCHANGED <<disk, journal, audit>>,
         InPlace', ResetUnreviewed', KnownCaller'
  PROVE  RInv'
BY DEF RInv, OneJournal, Tells, SoundPlans, SoundPlan

\* With no journal on disk every flow tells its story.
LEMMA AllTold ==
  ASSUME RInv, NoneOutstanding, NEW f \in Flows
  PROVE  Story(f, disk[f], audit[f])
BY DEF RInv, Tells, NoneOutstanding

\* An empty store satisfies the invariant.
LEMMA InitRInv == Init => RInv
<1> SUFFICES ASSUME Init PROVE RInv
  OBVIOUS
<1>1. SInv /\ OneJournal /\ SoundPlans
  BY InitSInv DEF Init, OneJournal, SoundPlans
<1>2. \A f \in Flows : Tells(f)
  BY DEF Init, Tells, Story, Unreviewed, NoEnd, NoFiles, Files, Journals
<1>3. InPlace /\ ResetUnreviewed /\ KnownCaller
  BY DEF Init, Idle, InPlace, ResetUnreviewed, KnownCaller
<1> QED BY <1>1, <1>2, <1>3 DEF RInv

\* Starting an operation keeps the invariant.
LEMMA BeginReview == ASSUME RetryFirst PROVE RInv /\ Begin => RInv'
<1> SUFFICES ASSUME RInv, Begin PROVE RInv'
  OBVIOUS
<1>1. SInv'
  BY BeginSlots DEF RInv
<1>2. PICK op \in Operations, f \in Flows, by \in Principals :
        /\ Start(op, f, by)
        /\ op \in {"write", "read"} => by \in Callers[f]
        /\ op = "ratify_deferred" => f \in LegacyRatified
  BY DEF Begin, Write, Read, RatifyQueued, RatifyDeferred, Reject, Expire, Operations
<1>3. /\ run'.phase = "recover" /\ run'.op = op /\ run'.flow = f /\ run'.by = by
      /\ UNCHANGED <<disk, journal, audit>>
  BY <1>2 DEF Start
<1>4. InPlace' /\ ResetUnreviewed' /\ KnownCaller'
  BY <1>2, <1>3 DEF InPlace, ResetUnreviewed, KnownCaller
<1> QED BY <1>1, <1>3, <1>4, RunOnlyReview

\* Where an operation goes after its recovery, its caller is known.
LEMMA AfterRecoveryKnown ==
  ASSUME RInv, NEW replayed \in BOOLEAN,
         run.phase = "recover" \/ (run.phase = "clear" /\ ~run.own),
         run' = AfterRecovery(replayed)
  PROVE  KnownCaller' /\ run'.phase \in {"recover", "inspect", "decide"}
<1>1. TypeOK /\ run.op \in Operations /\ run.key \in Recovers(run.op)
  BY DEF RInv, SInv, IInv, Recovering
<1>2. run'.op = run.op /\ run'.flow = run.flow /\ run'.by = run.by
  BY DEF AfterRecovery, Goto
<1>3. run'.phase \in {"recover", "inspect", "decide"}
  BY <1>1, AfterRecoveryType
<1>4. run'.phase = "inspect" => run.key = "write"
  BY DEF AfterRecovery, Goto
<1>5. run.key = "write" => run.op \in {"write", "read", "ratify_deferred"}
  BY <1>1 DEF Recovers, FirstJournal, Operations
<1> QED BY <1>2, <1>3, <1>4, <1>5 DEF RInv, KnownCaller

\* So do the steps that only move the operation in progress, or abandon it.
LEMMA RunReview ==
  ASSUME CallersAgree
  PROVE  RInv /\ (\/ NothingToRecover \/ StartReplay \/ InspectComplete \/ InspectPartial
                  \/ Finish \/ Fail) => RInv'
<1> SUFFICES ASSUME RInv, NothingToRecover \/ StartReplay \/ InspectComplete
                            \/ InspectPartial \/ Finish \/ Fail
             PROVE  RInv'
  OBVIOUS
<1>0. SInv' /\ TypeOK /\ run.flow \in Flows /\ UNCHANGED <<disk, journal, audit>>
  BY RunSlots, RunFacts
  DEF RInv, SInv, IInv, NothingToRecover, StartReplay, InspectComplete, InspectPartial,
      Finish, Fail
<1>1. InPlace' /\ ResetUnreviewed' /\ KnownCaller'
  <2>1. CASE NothingToRecover
    <3>1. KnownCaller' /\ run'.phase \in {"recover", "inspect", "decide"}
      BY <2>1, AfterRecoveryKnown DEF NothingToRecover
    <3> QED BY <3>1 DEF InPlace, ResetUnreviewed
  <2>2. CASE StartReplay
    <3>1. /\ run'.phase = "files" /\ run'.next = 1
          /\ run'.op = run.op /\ run'.flow = run.flow /\ run'.by = run.by
      BY <2>2 DEF StartReplay, Goto
    <3> QED BY <3>1 DEF RInv, InPlace, ResetUnreviewed, KnownCaller, LastFile
  <2>3. CASE InspectComplete
    <3>1. /\ run'.phase = "decide"
          /\ run'.op = run.op /\ run'.flow = run.flow /\ run'.by = run.by
      BY <2>3 DEF InspectComplete, Goto
    <3> QED BY <3>1 DEF RInv, InPlace, ResetUnreviewed, KnownCaller
  <2>4. CASE InspectPartial
    <3>1. /\ run'.phase = "reset"
          /\ run'.op = run.op /\ run'.flow = run.flow /\ run'.by = run.by
      BY <2>4 DEF InspectPartial, Goto
    <3>2. Partial(run.flow, Implied(run.flow))
      BY <2>4, <1>0, LookupImplied DEF InspectPartial, RInv, KnownCaller
    <3>3. Story(run.flow, disk[run.flow], audit[run.flow])
      BY <2>4, <1>0, AllTold DEF InspectPartial, RInv, SInv, Deciding
    <3>4. Unreviewed(run.flow, disk[run.flow])
      BY <1>0, <3>2, <3>3, TornUnreviewed
    <3> QED BY <3>1, <3>4, <1>0 DEF RInv, InPlace, ResetUnreviewed, KnownCaller, Unreviewed
  <2>5. CASE Finish \/ Fail
    <3>1. run'.phase = "idle" /\ run'.op = "none"
      BY <2>5 DEF Finish, Fail, Idle
    <3> QED BY <3>1 DEF InPlace, ResetUnreviewed, KnownCaller
  <2> QED BY <2>1, <2>2, <2>3, <2>4, <2>5
<1> QED BY <1>0, <1>1, RunOnlyReview

\* While files are written, the journal in hand is the only one.
LEMMA OnlyInHand ==
  ASSUME RInv, run.phase \in {"files", "log", "clear"}
  PROVE  /\ TypeOK /\ run.flow \in Flows /\ run.key \in Journals
         /\ InHand \in Plans /\ InHand.files["rat"] \in Decisions /\ InHand # NoPlan
         /\ \A f \in Flows, k \in Journals :
              journal[f][k] # NoPlan <=> f = run.flow /\ k = run.key
<1>1. TypeOK /\ GoodPlan(run.flow, run.key, InHand)
  BY DEF RInv, SInv, IInv, ReplayOK
<1>2. run.flow \in Flows /\ run.key \in Journals /\ InHand \in Plans /\ InHand # NoPlan
  BY <1>1, RunFacts, NoPlanFacts
<1>3. InHand.files["rat"] \in Decisions
  BY <1>1 DEF GoodPlan
<1> QED BY <1>1, <1>2, <1>3 DEF RInv, OneJournal, InHand

\* Every file has its place in the order.
LEMMA EveryFilePlaced == \A p \in Files : \E i \in 1 .. LastFile : FileOrder[i] = p
<1>1. /\ FileOrder[1] = "source" /\ FileOrder[2] = "claim" /\ FileOrder[3] = "conflict"
      /\ FileOrder[4] = "proposal" /\ FileOrder[5] = "queue" /\ FileOrder[6] = "rat"
      /\ FileOrder[7] = "canon" /\ FileOrder[8] = "diag" /\ FileOrder[9] = "projection"
  BY DEF FileOrder
<1>2. 1 .. LastFile = {1, 2, 3, 4, 5, 6, 7, 8, 9}
  BY DEF LastFile
<1> QED BY <1>1, <1>2 DEF Files

\* Writing the next file puts it in its place.
LEMMA MaterializeInPlace == IInv /\ InPlace /\ MaterializeFile => InPlace'
<1> SUFFICES ASSUME IInv, InPlace, MaterializeFile PROVE InPlace'
  OBVIOUS
<1> DEFINE f == run.flow
           p == FileOrder[run.next]
           plan == InHand
<1>1. /\ TypeOK /\ f \in Flows /\ run.phase = "files" /\ journal' = journal
      /\ p \in Files /\ run.next \in 1 .. LastFile
  BY RunFacts, FileOrderFacts DEF IInv, MaterializeFile
<1>2. /\ disk' = IF plan.files[p] = "keep" THEN disk
                  ELSE [disk EXCEPT ![f][p] = plan.files[p]]
      /\ run' = IF run.next = LastFile THEN Goto("log", run.key, run.own)
                ELSE [run EXCEPT !.next = run.next + 1]
  BY DEF MaterializeFile, InHand
<1>3. /\ run'.flow = f /\ run'.key = run.key
      /\ \/ run'.phase = "log" /\ run.next = LastFile
         \/ run'.phase = "files" /\ run'.next = run.next + 1
  BY <1>1, <1>2 DEF Goto, TypeOK
<1>4. disk \in [Flows -> [Files -> Contents]] /\ InHand' = plan
  BY <1>1, <1>3 DEF TypeOK, InHand
<1> HIDE DEF f, p, plan
<1>5. ASSUME NEW q \in Files, Placed(q) \/ q = p PROVE Placed(q)'
  <2>1. /\ q # p => disk'[f][q] = disk[f][q]
        /\ disk'[f][p] = IF plan.files[p] = "keep" THEN disk[f][p] ELSE plan.files[p]
    BY <1>1, <1>2, <1>4
  <2> QED BY <1>3, <1>4, <1>5, <2>1 DEF Placed, f, plan
<1>6. ASSUME NEW i \in 1 .. LastFile, i < run.next + 1 PROVE Placed(FileOrder[i])'
  <2>1. i < run.next \/ i = run.next
    BY <1>1, <1>6 DEF LastFile
  <2> QED BY <1>1, <1>5, <2>1, FileOrderFacts DEF InPlace, p
<1>7. run.next = LastFile => \A q \in Files : Placed(q)'
  <2> SUFFICES ASSUME run.next = LastFile, NEW q \in Files PROVE Placed(q)'
    OBVIOUS
  <2>1. PICK i \in 1 .. LastFile : FileOrder[i] = q
    BY EveryFilePlaced
  <2>2. i < run.next + 1
    BY DEF LastFile
  <2> QED BY <1>6, <2>1, <2>2
<1> QED BY <1>3, <1>6, <1>7 DEF InPlace

\* Logging moves no file, and leaves an entry in the log.
LEMMA LogInPlace == IInv /\ InPlace /\ AppendLog => InPlace'
<1> SUFFICES ASSUME IInv, InPlace, AppendLog PROVE InPlace'
  OBVIOUS
<1>1. /\ TypeOK /\ run.flow \in Flows /\ run.key \in Journals /\ run.phase = "log"
      /\ InHand.files["rat"] \in Decisions
  BY RunFacts DEF IInv, AppendLog, ReplayOK, GoodPlan
<1>2. /\ run'.phase = "clear" /\ run'.flow = run.flow /\ run'.key = run.key
      /\ UNCHANGED <<disk, journal>>
  BY DEF AppendLog, Goto
<1>3. \A q \in Files : Placed(q)'
  BY <1>1, <1>2 DEF InPlace, Placed, InHand
<1>4. audit'[run.flow][run.key] # "none"
  BY <1>1 DEF AppendLog, InHand, TypeOK, Decisions
<1> QED BY <1>2, <1>3, <1>4 DEF InPlace

\* Every step leaves the files before the next one as the journal says.
LEMMA StepInPlace == IInv /\ InPlace /\ [Next]_vars => InPlace'
<1> SUFFICES ASSUME IInv, InPlace, [Next]_vars PROVE InPlace'
  OBVIOUS
<1>1. CASE \/ run'.phase \notin {"files", "log", "clear"}
           \/ run'.phase = "files" /\ run'.next = 1
  BY <1>1 DEF InPlace, LastFile
<1>2. CASE UNCHANGED vars
  BY <1>2 DEF vars, InPlace, Placed, InHand
<1>3. CASE Next /\ ~(MaterializeFile \/ AppendLog)
  <2>1. TypeOK
    BY DEF IInv
  <2>2. CASE Begin
    BY <1>1, <2>2
    DEF Begin, Write, Read, RatifyQueued, RatifyDeferred, Reject, Expire, Start
  <2>3. CASE NothingToRecover \/ ClearJournal
    <3>1. \/ run' = Idle
          \/ \E replayed \in BOOLEAN : run' = AfterRecovery(replayed)
      BY <2>3 DEF NothingToRecover, ClearJournal
    <3> QED BY <1>1, <2>1, <3>1, IdleType, AfterRecoveryType
  <2>4. CASE ResetFile
    BY <1>1, <2>1, <2>4 DEF ResetFile, Goto, TypeOK
  <2>5. CASE StartReplay \/ DecideWrite \/ DecideRatify \/ DecideClose
    BY <1>1, <2>5 DEF StartReplay, DecideWrite, DecideRatify, DecideClose, Commit, Goto
  <2>6. CASE InspectComplete \/ InspectPartial \/ Finish \/ Fail
    BY <1>1, <2>6, IdleType DEF InspectComplete, InspectPartial, Finish, Fail, Goto
  <2> QED BY <1>3, <2>2, <2>3, <2>4, <2>5, <2>6 DEF Next, Progress
<1> QED BY <1>2, <1>3, MaterializeInPlace, LogInPlace

\* Writing the next file of a journal changes nothing of what its replay comes to.
LEMMA MaterializeReview == RInv /\ MaterializeFile => RInv'
<1> SUFFICES ASSUME RInv, MaterializeFile PROVE RInv'
  OBVIOUS
<1> DEFINE f == run.flow
           p == FileOrder[run.next]
           plan == InHand
<1>0. SInv' /\ run.phase = "files" /\ UNCHANGED <<journal, audit>>
  BY MaterializeSlots DEF RInv, MaterializeFile
<1>1. /\ TypeOK /\ f \in Flows /\ run.key \in Journals /\ plan \in Plans
      /\ \A g \in Flows, k \in Journals :
           journal[g][k] # NoPlan <=> g = f /\ k = run.key
  BY <1>0, OnlyInHand
<1>2. p \in Files /\ run.next \in 1 .. LastFile
  BY <1>1, RunFacts, FileOrderFacts
<1>3. /\ disk' = IF plan.files[p] = "keep" THEN disk
                  ELSE [disk EXCEPT ![f][p] = plan.files[p]]
      /\ run' = IF run.next = LastFile THEN Goto("log", run.key, run.own)
                ELSE [run EXCEPT !.next = run.next + 1]
  BY DEF MaterializeFile, InHand
<1>4. /\ run'.flow = f /\ run'.key = run.key /\ run'.op = run.op /\ run'.by = run.by
      /\ \/ run'.phase = "log" /\ run.next = LastFile
         \/ run'.phase = "files" /\ run'.next = run.next + 1
  BY <1>0, <1>1, <1>3 DEF Goto, TypeOK
<1>5. /\ disk \in [Flows -> [Files -> Contents]] /\ InHand' = plan
      /\ plan.files \in [Files -> Contents \cup {"keep"}]
  BY <1>0, <1>1, <1>4 DEF TypeOK, InHand, Plans
<1> HIDE DEF f, p, plan
<1>6. /\ \A g \in Flows \ {f} : disk'[g] = disk[g]
      /\ \A q \in Files \ {p} : disk'[f][q] = disk[f][q]
      /\ disk'[f][p] = IF plan.files[p] = "keep" THEN disk[f][p] ELSE plan.files[p]
  BY <1>1, <1>2, <1>3, <1>5
<1>7. FilesAfter(disk'[f], plan) = FilesAfter(disk[f], plan)
  BY <1>6 DEF FilesAfter
<1>8. OneJournal' /\ \A g \in Flows : Tells(g)'
  <2>1. OneJournal'
    BY <1>0 DEF RInv, OneJournal
  <2>2. ASSUME NEW g \in Flows \ {f} PROVE Tells(g)'
    BY <2>2, <1>0, <1>6 DEF RInv, Tells
  <2>3. ASSUME NEW g \in Flows, g = f PROVE Tells(g)'
    <3>1. plan = journal[f][run.key]
      BY DEF plan, InHand, f
    <3>2. Story(f, FilesAfter(disk[f], plan), LogAfter(audit[f], run.key, plan))
      BY <3>1, <1>1 DEF RInv, Tells
    <3>3. Story(f, FilesAfter(disk'[f], plan), LogAfter(audit'[f], run.key, plan))
      BY <3>2, <1>0, <1>7
    <3>4. \A k \in Journals : journal'[f][k] # NoPlan <=> k = run.key
      BY <1>0, <1>1
    <3>5. ASSUME NEW k \in Journals, journal'[f][k] # NoPlan
          PROVE  Story(f, FilesAfter(disk'[f], journal'[f][k]),
                       LogAfter(audit'[f], k, journal'[f][k]))
      <4>1. k = run.key /\ journal'[f][k] = plan
        BY <3>5, <3>1, <3>4, <1>0
      <4> QED BY <4>1, <3>3
    <3>6. ~\A k \in Journals : journal'[f][k] = NoPlan
      BY <3>4, <1>1
    <3> QED BY <2>3, <3>5, <3>6 DEF Tells
  <2> QED BY <2>1, <2>2, <2>3
<1>9. SoundPlans'
  <2> SUFFICES ASSUME NEW g \in Flows, NEW k \in Journals, journal[g][k] # NoPlan
               PROVE  SoundPlan(g, journal[g][k])'
    BY <1>0 DEF SoundPlans
  <2>1. g = f /\ journal[g][k] = plan /\ SoundPlan(f, plan)
    BY <1>1 DEF plan, InHand, f, RInv, SoundPlans
  <2>2. disk'[f]["queue"] \in {disk[f]["queue"], plan.files["queue"]}
    BY <1>6 DEF Files
  <2> QED BY <2>1, <2>2, <1>0 DEF SoundPlan
<1>10. InPlace'
  BY MaterializeInPlace DEF RInv, SInv
<1>11. ResetUnreviewed' /\ KnownCaller'
  BY <1>4 DEF ResetUnreviewed, KnownCaller, RInv, f
<1> QED BY <1>0, <1>8, <1>9, <1>10, <1>11 DEF RInv

\* So does appending its entry to the log.
LEMMA LogReview == RInv /\ AppendLog => RInv'
<1> SUFFICES ASSUME RInv, AppendLog PROVE RInv'
  OBVIOUS
<1> DEFINE f == run.flow
           plan == InHand
<1>0. SInv' /\ run.phase = "log" /\ UNCHANGED <<disk, journal>>
  BY LogSlots DEF RInv, AppendLog
<1>1. /\ TypeOK /\ f \in Flows /\ run.key \in Journals /\ plan # NoPlan
      /\ plan.files["rat"] \in Decisions
      /\ \A g \in Flows, k \in Journals :
           journal[g][k] # NoPlan <=> g = f /\ k = run.key
  BY <1>0, OnlyInHand
<1>2. /\ run'.phase = "clear" /\ run'.flow = f /\ run'.key = run.key /\ run'.op = run.op
      /\ run'.by = run.by
  BY DEF AppendLog, Goto
<1>3. audit' = IF audit[f][run.key] = "none"
               THEN [audit EXCEPT ![f][run.key] = plan.files["rat"]] ELSE audit
  BY DEF AppendLog, InHand
<1>4. plan = journal[f][run.key] /\ InHand' = InHand
  BY <1>0, <1>2 DEF InHand
<1> HIDE DEF f, plan
<1>5. /\ \A g \in Flows \ {f} : audit'[g] = audit[g]
      /\ audit'[f] = LogAfter(audit[f], run.key, plan)
      /\ audit'[f][run.key] # "none"
  BY <1>1, <1>3 DEF TypeOK, LogAfter, Decisions
<1>6. LogAfter(audit'[f], run.key, plan) = LogAfter(audit[f], run.key, plan)
  BY <1>5 DEF LogAfter
<1>7. OneJournal' /\ SoundPlans'
  BY <1>0 DEF RInv, OneJournal, SoundPlans, SoundPlan
<1>8. \A g \in Flows : Tells(g)'
  <2>1. ASSUME NEW g \in Flows \ {f} PROVE Tells(g)'
    BY <2>1, <1>0, <1>5 DEF RInv, Tells
  <2>2. ASSUME NEW g \in Flows, g = f PROVE Tells(g)'
    <3>1. Story(f, FilesAfter(disk[f], plan), LogAfter(audit[f], run.key, plan))
      BY <1>1, <1>4 DEF RInv, Tells
    <3>2. Story(f, FilesAfter(disk'[f], plan), LogAfter(audit'[f], run.key, plan))
      BY <3>1, <1>0, <1>6
    <3>3. \A k \in Journals : journal'[f][k] # NoPlan <=> k = run.key
      BY <1>0, <1>1
    <3>4. ASSUME NEW k \in Journals, journal'[f][k] # NoPlan
          PROVE  Story(f, FilesAfter(disk'[f], journal'[f][k]),
                       LogAfter(audit'[f], k, journal'[f][k]))
      <4>1. k = run.key /\ journal'[f][k] = plan
        BY <3>4, <1>4, <3>3, <1>0
      <4> QED BY <4>1, <3>2
    <3>5. ~\A k \in Journals : journal'[f][k] = NoPlan
      BY <3>3, <1>1
    <3> QED BY <2>2, <3>4, <3>5 DEF Tells
  <2> QED BY <2>1, <2>2
<1>9. InPlace'
  BY LogInPlace DEF RInv, SInv
<1>10. ResetUnreviewed' /\ KnownCaller'
  BY <1>2 DEF ResetUnreviewed, KnownCaller, RInv, f
<1> QED BY <1>0, <1>7, <1>8, <1>9, <1>10 DEF RInv

\* A journal goes when the files and the log are what it said they would be.
LEMMA ClearReview == RInv /\ ClearJournal => RInv'
<1> SUFFICES ASSUME RInv, ClearJournal PROVE RInv'
  OBVIOUS
<1> DEFINE f == run.flow
           plan == InHand
<1>0. /\ SInv' /\ run.phase = "clear" /\ UNCHANGED <<disk, audit>>
      /\ journal' = [journal EXCEPT ![f][run.key] = NoPlan]
  BY ClearSlots DEF RInv, ClearJournal
<1>1. /\ TypeOK /\ f \in Flows /\ run.key \in Journals /\ plan # NoPlan
      /\ \A g \in Flows, k \in Journals :
           journal[g][k] # NoPlan <=> g = f /\ k = run.key
  BY <1>0, OnlyInHand
<1>2. \A g \in Flows, k \in Journals : journal'[g][k] = NoPlan
  BY <1>0, <1>1 DEF TypeOK
<1>3. FilesAfter(disk[f], plan) = disk[f]
  <2>1. \A q \in Files : plan.files[q] = "keep" \/ disk[f][q] = plan.files[q]
    BY <1>0 DEF RInv, InPlace, Placed
  <2>2. disk[f] \in [Files -> Contents]
    BY <1>1, RunFacts
  <2> QED BY <2>1, <2>2 DEF FilesAfter
<1>4. LogAfter(audit[f], run.key, plan) = audit[f]
  BY <1>0 DEF RInv, InPlace, LogAfter
<1>5. \A g \in Flows : Tells(g)'
  <2>1. ASSUME NEW g \in Flows \ {f} PROVE Story(g, disk[g], audit[g])
    BY <2>1, <1>1 DEF RInv, Tells
  <2>2. Story(f, disk[f], audit[f])
    BY <1>1, <1>3, <1>4 DEF RInv, Tells, InHand
  <2> QED BY <2>1, <2>2, <1>0, <1>2 DEF Tells
<1>6. OneJournal' /\ SoundPlans'
  BY <1>2 DEF OneJournal, SoundPlans
<1>7. KnownCaller' /\ run'.phase \in {"idle", "recover", "inspect", "decide"}
  <2>1. CASE run.own
    BY <2>1 DEF ClearJournal, Idle, KnownCaller
  <2>2. CASE ~run.own
    BY <2>2, <1>0, AfterRecoveryKnown DEF ClearJournal
  <2> QED BY <2>1, <2>2
<1>8. InPlace' /\ ResetUnreviewed'
  BY <1>7 DEF InPlace, ResetUnreviewed
<1> QED BY <1>0, <1>5, <1>6, <1>7, <1>8 DEF RInv

\* A reset removes files of a flow that was never reviewed, and leaves it so.
LEMMA ResetReview == RInv /\ ResetFile => RInv'
<1> SUFFICES ASSUME RInv, ResetFile PROVE RInv'
  OBVIOUS
<1> DEFINE f == run.flow
           p == ResetOrder[run.next]
<1>0. SInv' /\ run.phase = "reset" /\ UNCHANGED <<journal, audit>> /\ NoneOutstanding
  BY ResetSlots DEF RInv, ResetFile, SInv, Deciding
<1>1. /\ TypeOK /\ f \in Flows /\ p \in Files /\ disk \in [Flows -> [Files -> Contents]]
  BY RunFacts, ResetOrderFacts DEF RInv, SInv, IInv, TypeOK
<1>2. disk' = disk \/ disk' = [disk EXCEPT ![f][p] = "none"]
  BY DEF ResetFile
<1>3. /\ run'.flow = f /\ run'.op = run.op /\ run'.by = run.by
      /\ run'.phase \in {"reset", "decide"}
  BY <1>0, <1>1 DEF ResetFile, Goto, TypeOK
<1> HIDE DEF f, p
<1>4. /\ \A g \in Flows \ {f} : disk'[g] = disk[g]
      /\ \A q \in Files : disk'[f][q] \in {disk[f][q], "none"}
  BY <1>1, <1>2
<1>5. Unreviewed(f, disk[f]) /\ NoEnd(audit[f])
  <2>1. Unreviewed(f, disk[f])
    BY <1>0 DEF RInv, ResetUnreviewed, f
  <2>2. Story(f, disk[f], audit[f])
    BY <1>0, <1>1, AllTold
  <2> QED BY <2>1, <2>2 DEF Story, Unreviewed, Reviewed
<1>6. Unreviewed(f, disk'[f])
  BY <1>4, <1>5 DEF Unreviewed, Files
<1>7. \A g \in Flows : Tells(g)'
  <2>1. ASSUME NEW g \in Flows PROVE Story(g, disk'[g], audit[g])
    BY <1>0, <1>4, <1>5, <1>6, AllTold DEF Story
  <2> QED BY <2>1, <1>0 DEF Tells, NoneOutstanding
<1>8. OneJournal' /\ SoundPlans'
  BY <1>0 DEF OneJournal, SoundPlans, NoneOutstanding
<1>9. InPlace' /\ ResetUnreviewed' /\ KnownCaller'
  BY <1>3, <1>6 DEF InPlace, ResetUnreviewed, RInv, KnownCaller, f
<1> QED BY <1>0, <1>7, <1>8, <1>9 DEF RInv

\* A decision may be journalled if its replay comes to a story.
LEMMA CommitReview ==
  ASSUME RInv, SInv', NEW key \in Journals, NEW plan \in Plans, Commit(key, plan),
         run.phase = "decide", plan.files["rat"] \in Decisions,
         SoundPlan(run.flow, plan),
         Story(run.flow, FilesAfter(disk[run.flow], plan),
               LogAfter(audit[run.flow], key, plan))
  PROVE  RInv'
<1> DEFINE f == run.flow
<1>1. /\ TypeOK /\ f \in Flows /\ UNCHANGED <<disk, audit>> /\ NoneOutstanding
      /\ journal' = [journal EXCEPT ![f][key] = plan]
      /\ run'.phase = "files" /\ run'.next = 1 /\ run'.flow = f
      /\ run'.op = run.op /\ run'.by = run.by
  BY RunFacts DEF RInv, SInv, IInv, Deciding, Commit, Goto
<1>2. plan # NoPlan
  BY NoPlanFacts DEF Decisions
<1>3. /\ journal'[f][key] = plan
      /\ \A g \in Flows, k \in Journals : ~(g = f /\ k = key) => journal'[g][k] = NoPlan
  BY <1>1 DEF TypeOK, NoneOutstanding
<1>4. OneJournal' /\ SoundPlans'
  BY <1>1, <1>3 DEF OneJournal, SoundPlans, SoundPlan
<1>5. ASSUME NEW g \in Flows PROVE Tells(g)'
  <2>1. CASE g = f
    BY <2>1, <1>1, <1>2, <1>3 DEF Tells
  <2>2. CASE g # f
    BY <2>2, <1>1, <1>3, AllTold DEF Tells
  <2> QED BY <2>1, <2>2
<1>6. InPlace' /\ ResetUnreviewed' /\ KnownCaller'
  BY <1>1 DEF InPlace, ResetUnreviewed, RInv, KnownCaller, LastFile
<1> QED BY <1>4, <1>5, <1>6 DEF RInv

\* A flow with a canonical record has its claim: one that says otherwise is seen.
LEMMA RefusalIsRefusable ==
  ASSUME RInv, NoneOutstanding, NEW f \in Flows, NEW by, WriteAccepted(f, by),
         WorldConflict(f) \/ CanonConflict(f)
  PROVE  Refusable(f)
<1>1. CASE WorldConflict(f)
  BY <1>1 DEF WriteAccepted, Refusable
<1>2. CASE ~WorldConflict(f)
  <2>1. PICK g \in Flows : Present(g, "canon") /\ SlotOf[g] = SlotOf[f]
    BY <1>2 DEF CanonConflict
  <2>2. g # f
    BY <2>1 DEF WriteAccepted
  <2>3. Present(g, "claim")
    <3>1. Story(g, disk[g], audit[g])
      BY AllTold
    <3> QED BY <2>1, <3>1 DEF Story, Unreviewed, DecidedAtOnce, Reviewed, Stored, Present
  <2> QED BY <1>2, <2>1, <2>2, <2>3 DEF WorldConflict, Refusable
<1> QED BY <1>1, <1>2

\* What an accepted write is journalled with comes to a story.
LEMMA WriteReview ==
  ASSUME CallersAgree, RInv, SInv', DecideWrite
  PROVE  RInv'
<1> DEFINE f == run.flow
           plan == WritePlan(f, run.by)
           decision == Decision(f, Implied(f))
           d == FilesAfter(disk[f], plan)
           a == LogAfter(audit[f], "write", plan)
<1>1. /\ TypeOK /\ f \in Flows /\ run.by \in Principals \cup {"nobody"}
      /\ NoneOutstanding /\ Promotion(f, run.by) = Implied(f) /\ WriteAccepted(f, run.by)
      /\ run.phase = "decide" /\ Commit("write", plan) /\ "write" \in Journals
  BY RunFacts, LookupImplied DEF DecideWrite, RInv, SInv, IInv, Deciding, Journals
<1>2. plan \in Plans /\ plan.files["rat"] \in Decisions
  BY <1>1, WritePlanGood DEF GoodPlan
<1>3. /\ disk[f]["rat"] = "none" /\ disk[f]["queue"] = "none" /\ disk[f]["canon"] = "none"
      /\ NoEnd(audit[f])
  <2>1. Story(f, disk[f], audit[f])
    BY <1>1, AllTold
  <2>2. disk[f]["rat"] = "none"
    BY <1>1 DEF WriteAccepted, Baseline, Present
  <2> QED BY <2>1, <2>2 DEF Story, Unreviewed, DecidedAtOnce, Reviewed, Stored
<1>4. /\ decision \in {"rejected", "deferred", "approved"}
      /\ decision = "rejected" => Refusable(f)
      /\ decision = "deferred" => Gated(f)
      /\ decision = "approved" => ~Gated(f)
  BY <1>1, RefusalIsRefusable DEF Decision, Implied
<1>5. /\ plan.files["queue"] = IF decision = "deferred" THEN "pending" ELSE "keep"
      /\ plan.files["canon"] = IF decision = "approved" THEN "present" ELSE "keep"
      /\ plan.files["diag"] = IF decision = "approved" THEN "keep" ELSE "present"
      /\ plan.files["rat"] = decision /\ plan.files["proposal"] = Implied(f)
      /\ \A p \in {"source", "claim", "projection"} : plan.files[p] = "present"
      /\ plan.files["conflict"] \in {"keep", "present"}
  BY <1>1 DEF WritePlan, Files
<1> HIDE DEF plan, decision
<1>6. /\ d["queue"] = IF decision = "deferred" THEN "pending" ELSE "none"
      /\ d["canon"] = IF decision = "approved" THEN "present" ELSE "none"
      /\ decision # "approved" => d["diag"] = "present"
      /\ d["rat"] = decision /\ d["proposal"] = Implied(f)
      /\ \A p \in {"source", "claim", "projection"} : d[p] = "present"
  BY <1>3, <1>4, <1>5 DEF FilesAfter, Files, Implied
<1>7. NoEnd(a)
  BY <1>1, <1>3 DEF LogAfter, NoEnd, TypeOK, Journals
<1> HIDE DEF d, a
<1>8. Stored(d)
  BY <1>4, <1>6 DEF Stored, Implied
<1>9. Story(f, d, a)
  <2>1. CASE decision = "deferred"
    BY <2>1, <1>4, <1>6, <1>7, <1>8 DEF Story, Reviewed, NoEnd
  <2>2. CASE decision = "approved"
    BY <2>2, <1>4, <1>6, <1>7, <1>8 DEF Story, DecidedAtOnce
  <2>3. CASE decision = "rejected" /\ Gated(f)
    BY <2>3, <1>4, <1>6, <1>7 DEF Story, Unreviewed
  <2>4. CASE decision = "rejected" /\ ~Gated(f)
    BY <2>4, <1>6, <1>7, <1>8 DEF Story, DecidedAtOnce
  <2> QED BY <2>1, <2>2, <2>3, <2>4, <1>4
<1>10. SoundPlan(f, plan)
  BY <1>3, <1>4, <1>5 DEF SoundPlan, Files, Implied
<1> QED BY <1>1, <1>2, <1>9, <1>10, CommitReview DEF d, a, f

\* A review that ends is pending when its end is journalled.
LEMMA PendingEnds ==
  ASSUME RInv, NoneOutstanding, NEW f \in Flows,
         disk[f]["queue"] = "pending" \/ disk[f]["rat"] = "deferred"
  PROVE  /\ Gated(f) /\ Stored(disk[f]) /\ disk[f]["queue"] = "pending"
         /\ disk[f]["rat"] = "deferred" /\ disk[f]["canon"] = "none" /\ NoEnd(audit[f])
<1>1. Story(f, disk[f], audit[f])
  BY AllTold
<1> QED BY <1>1 DEF Story, Unreviewed, DecidedAtOnce, Reviewed, NoEnd

\* What a ratification or a closure journals comes to a story.
LEMMA EndReview ==
  ASSUME RInv, SInv', DecideRatify \/ DecideClose
  PROVE  RInv'
<1> DEFINE f == run.flow
<1>1. /\ TypeOK /\ f \in Flows /\ NoneOutstanding /\ run.phase = "decide"
      /\ {"apply", "close"} \subseteq Journals
      /\ disk[f]["queue"] = "pending" \/ disk[f]["rat"] = "deferred"
  BY RunFacts DEF RInv, SInv, IInv, Deciding, Journals, DecideRatify, DecideClose,
     RatificationAccepted, ClosureAccepted
<1>2. /\ Gated(f) /\ Stored(disk[f]) /\ disk[f]["queue"] = "pending"
      /\ disk[f]["rat"] = "deferred" /\ disk[f]["canon"] = "none" /\ NoEnd(audit[f])
  BY <1>1, PendingEnds
<1>3. audit[f] \in [Journals -> Decisions \cup {"none"}]
  BY <1>1 DEF TypeOK
<1>4. CASE DecideRatify
  <2> DEFINE plan == ApplyPlan("owner")
             d == FilesAfter(disk[f], plan)
             a == LogAfter(audit[f], "apply", plan)
  <2>1. Commit("apply", plan) /\ plan \in Plans /\ plan.files["rat"] \in Decisions
    BY <1>1, <1>4, ApplyPlanGood DEF DecideRatify, RatificationAccepted, GoodPlan
  <2>2. /\ plan.files["queue"] = "applied" /\ plan.files["rat"] = "approved"
        /\ plan.files["canon"] = "present" /\ plan.files["diag"] = "present"
        /\ plan.files["projection"] = "present"
        /\ \A p \in {"source", "claim", "conflict", "proposal"} : plan.files[p] = "keep"
    BY DEF ApplyPlan, ReviewPlan, Files
  <2> HIDE DEF plan
  <2>3. Reviewed(f, d, a)
    <3>1. Stored(d) /\ d["queue"] = "applied" /\ d["rat"] = "approved"
          /\ d["canon"] = "present" /\ d["diag"] = "present"
      BY <1>2, <2>2 DEF Stored, FilesAfter, Files
    <3>2. a["apply"] = "approved" /\ a["close"] = "none"
      BY <1>1, <1>2, <1>3, <2>2, NoPlanFacts DEF LogAfter, NoEnd, Journals
    <3> QED BY <3>1, <3>2, <1>2 DEF Reviewed
  <2>4. SoundPlan(f, plan)
    BY <1>2, <2>2 DEF SoundPlan, Files
  <2> QED BY <1>1, <2>1, <2>3, <2>4, CommitReview DEF Story
<1>5. CASE DecideClose
  <2> DEFINE plan == ClosePlan(run.op, run.by)
             d == FilesAfter(disk[f], plan)
             a == LogAfter(audit[f], "close", plan)
  <2>1. run.op \in {"reject", "expire"} /\ run.by \in Principals /\ Commit("close", plan)
    BY <1>5 DEF DecideClose, ClosureAccepted, Principals
  <2>2. plan \in Plans /\ plan.files["rat"] \in Decisions
    BY <1>1, <2>1, ClosePlanGood DEF GoodPlan
  <2>3. /\ \/ plan.files["queue"] = "answered" /\ plan.files["rat"] = "rejected"
           \/ plan.files["queue"] = "expired" /\ plan.files["rat"] = "expired"
        /\ plan.files["canon"] = "keep" /\ plan.files["diag"] = "present"
        /\ plan.files["projection"] = "present"
        /\ \A p \in {"source", "claim", "conflict", "proposal"} : plan.files[p] = "keep"
    BY <2>1 DEF ClosePlan, ReviewPlan, Files
  <2> HIDE DEF plan
  <2>4. Reviewed(f, d, a)
    <3>1. /\ Stored(d) /\ d["queue"] = plan.files["queue"] /\ d["rat"] = plan.files["rat"]
          /\ d["canon"] = "none" /\ d["diag"] = "present"
      BY <1>2, <2>3 DEF Stored, FilesAfter, Files
    <3>2. a["apply"] = "none" /\ a["close"] = plan.files["rat"]
      BY <1>1, <1>2, <1>3, <2>3, NoPlanFacts DEF LogAfter, NoEnd, Journals
    <3> QED BY <3>1, <3>2, <1>2, <2>3 DEF Reviewed
  <2>5. SoundPlan(f, plan)
    BY <1>2, <2>3 DEF SoundPlan, Files
  <2> QED BY <1>1, <2>1, <2>2, <2>4, <2>5, CommitReview DEF Story
<1> QED BY <1>4, <1>5

\* Every step keeps the invariant for the slots.
LEMMA StepSInv == ASSUME RetryFirst PROVE SInv /\ [Next]_vars => SInv'
<1> SUFFICES ASSUME SInv, [Next]_vars PROVE SInv'
  OBVIOUS
<1>1. CASE Next
  BY <1>1, BeginSlots, RunSlots, MaterializeSlots, LogSlots, ClearSlots, ResetSlots,
     DecideSlots
  DEF Next, Progress
<1>2. CASE UNCHANGED vars
  <2>1. IInv'
    BY <1>2, StepIInv DEF SInv
  <2>2. Recovering' /\ Deciding' /\ SlotInv'
    BY <1>2, SlotsKept DEF vars, SInv, Recovering, Deciding, OwnOutstandingOnly,
       NoneOutstanding, Claiming, Planned, Present
  <2> QED BY <2>1, <2>2 DEF SInv
<1> QED BY <1>1, <1>2

\* Every step keeps the invariant.
LEMMA StepRInv == ASSUME RetryFirst, CallersAgree PROVE RInv /\ [Next]_vars => RInv'
<1> SUFFICES ASSUME RInv, [Next]_vars PROVE RInv'
  OBVIOUS
<1>1. CASE DecideWrite \/ DecideRatify \/ DecideClose
  BY <1>1, DecideSlots, WriteReview, EndReview DEF RInv
<1>2. CASE Next /\ ~(DecideWrite \/ DecideRatify \/ DecideClose)
  BY <1>2, BeginReview, RunReview, MaterializeReview, LogReview, ClearReview, ResetReview
  DEF Next, Progress
<1>3. CASE UNCHANGED vars
  <2>1. SInv'
    BY StepSInv DEF RInv
  <2>2. InPlace' /\ ResetUnreviewed' /\ KnownCaller'
    BY <1>3 DEF vars, RInv, InPlace, Placed, InHand, ResetUnreviewed, KnownCaller
  <2> QED BY <1>3, <2>1, <2>2, RunOnlyReview DEF vars
<1> QED BY <1>1, <1>2, <1>3

\* In every reachable state the invariant for the review holds.
THEOREM ReviewInvariance == ASSUME RetryFirst, CallersAgree PROVE Spec => []RInv
<1>1. Init => RInv
  BY InitRInv
<1>2. RInv /\ [Next]_vars => RInv'
  BY StepRInv
<1> QED BY <1>1, <1>2, PTL DEF Spec

-----------------------------------------------------------------------------
\* Between operations no journal is on disk.
LEMMA QuietNoneOutstanding == ASSUME Quiet PROVE NoneOutstanding
<1> SUFFICES ASSUME NEW g \in Flows, NEW k \in Journals, journal[g][k] # NoPlan
             PROVE  FALSE
  BY DEF NoneOutstanding
<1>1. <<g, k>> \in Outstanding
  BY DEF Outstanding
<1> QED BY <1>1 DEF Quiet

\* Between operations every flow tells its story as it stands.
LEMMA QuietTold ==
  ASSUME RInv, Quiet, NEW f \in Flows
  PROVE  Story(f, disk[f], audit[f])
BY QuietNoneOutstanding, AllTold

\* Between operations a flow has a canonical record exactly when its ratification record
\* is approved, whatever was written, ratified, closed, abandoned and replayed before.
THEOREM CanonMatchesRatification ==
  ASSUME RetryFirst, CallersAgree PROVE Spec => []CanonIffApproved
<1>1. RInv => CanonIffApproved
  <2> SUFFICES ASSUME RInv, Quiet, NEW f \in Flows
               PROVE  Present(f, "canon") <=> disk[f]["rat"] = "approved"
    BY DEF CanonIffApproved
  <2>1. Story(f, disk[f], audit[f])
    BY QuietTold
  <2> QED BY <2>1 DEF Story, Unreviewed, DecidedAtOnce, Reviewed, Present
<1> QED BY <1>1, ReviewInvariance, PTL

\* Between operations the queue entry and the ratification record say the same of the
\* review (applyOwnerRatificationToExistingFlow, closeOwnerReviewQueueToExistingFlow).
THEOREM QueueMatchesRatification ==
  ASSUME RetryFirst, CallersAgree PROVE Spec => []ReviewAgrees
<1>1. RInv => ReviewAgrees
  <2> SUFFICES ASSUME RInv, Quiet, NEW f \in Flows, Present(f, "queue")
               PROVE  <<disk[f]["queue"], disk[f]["rat"]>> \in
                        {<<"pending", "deferred">>, <<"applied", "approved">>,
                         <<"answered", "rejected">>, <<"expired", "expired">>}
    BY DEF ReviewAgrees
  <2>1. Story(f, disk[f], audit[f])
    BY QuietTold
  <2> QED BY <2>1 DEF Story, Unreviewed, DecidedAtOnce, Reviewed, Present
<1> QED BY <1>1, ReviewInvariance, PTL

\* Between operations the change log has the transition that ended each review, and no
\* other, however often its journal was replayed (replayRecoveryJournalEntries).
THEOREM LogMatchesReview ==
  ASSUME RetryFirst, CallersAgree PROVE Spec => []ReviewAudited
<1>1. RInv => ReviewAudited
  <2> SUFFICES ASSUME RInv, Quiet, NEW f \in Flows
               PROVE  /\ disk[f]["queue"] = "applied" <=> audit[f]["apply"] = "approved"
                      /\ disk[f]["queue"] = "answered" <=> audit[f]["close"] = "rejected"
                      /\ disk[f]["queue"] = "expired" <=> audit[f]["close"] = "expired"
    BY DEF ReviewAudited
  <2>1. Story(f, disk[f], audit[f])
    BY QuietTold
  <2> QED BY <2>1 DEF Story, Unreviewed, DecidedAtOnce, Reviewed, NoEnd
<1> QED BY <1>1, ReviewInvariance, PTL

\* At every moment the log has at most one end of a review; a run refutes it where
\* failed operations need not be retried first.
THEOREM ReviewEndsOnce == ASSUME RetryFirst, CallersAgree PROVE Spec => []OneReviewEnd
<1>1. RInv => OneReviewEnd
  <2> SUFFICES ASSUME RInv, NEW f \in Flows
               PROVE  audit[f]["apply"] = "none" \/ audit[f]["close"] = "none"
    BY DEF OneReviewEnd
  <2>0. audit[f] \in [Journals -> Decisions \cup {"none"}]
    BY DEF RInv, SInv, IInv, TypeOK
  <2>1. PICK d, a : /\ Story(f, d, a)
                    /\ \A k \in Journals : a[k] = "none" => audit[f][k] = "none"
    <3>1. CASE \A k \in Journals : journal[f][k] = NoPlan
      BY <3>1 DEF RInv, Tells
    <3>2. CASE \E k \in Journals : journal[f][k] # NoPlan
      <4>1. PICK k \in Journals : journal[f][k] # NoPlan
        BY <3>2
      <4> DEFINE a == LogAfter(audit[f], k, journal[f][k])
      <4>2. Story(f, FilesAfter(disk[f], journal[f][k]), a)
        BY <4>1 DEF RInv, Tells
      <4>3. \A l \in Journals : a[l] = "none" => audit[f][l] = "none"
        BY <2>0 DEF LogAfter
      <4> QED BY <4>2, <4>3
    <3> QED BY <3>1, <3>2
  <2> QED BY <2>1 DEF Story, Reviewed, NoEnd, Journals
<1> QED BY <1>1, ReviewInvariance, PTL

\* What a step does to a file: a journal in hand writes what it says, a reset removes
\* the file of a flow that was never reviewed.
LEMMA FileChanges ==
  ASSUME RInv, Next, NEW f \in Flows, NEW p \in Files, disk'[f][p] # disk[f][p]
  PROVE  /\ f = run.flow
         /\ \/ /\ run.phase = "files" /\ journal[f][run.key] # NoPlan
               /\ disk'[f][p] = journal[f][run.key].files[p]
               /\ journal[f][run.key].files[p] # "keep"
            \/ /\ run.phase = "reset" /\ NoneOutstanding
               /\ disk'[f][p] = "none" /\ p = ResetOrder[run.next]
<1>1. MaterializeFile \/ ResetFile
  BY DEF Next, Begin, Write, Read, RatifyQueued, RatifyDeferred, Reject, Expire, Start,
     Progress, NothingToRecover, StartReplay, AppendLog, ClearJournal, InspectComplete,
     InspectPartial, DecideWrite, DecideRatify, DecideClose, Commit, Finish, Fail
<1>2. TypeOK /\ run.flow \in Flows /\ disk \in [Flows -> [Files -> Contents]]
  BY RunFacts DEF RInv, SInv, IInv, TypeOK
<1>3. ASSUME NEW q, NEW c, disk' = [disk EXCEPT ![run.flow][q] = c]
      PROVE  f = run.flow /\ p = q /\ disk'[f][p] = c
  BY <1>2, <1>3
<1>4. CASE MaterializeFile
  <2>1. \/ disk' = [disk EXCEPT ![run.flow][FileOrder[run.next]] =
                      InHand.files[FileOrder[run.next]]]
           /\ InHand.files[FileOrder[run.next]] # "keep"
        \/ disk' = disk
    BY <1>4 DEF MaterializeFile, InHand
  <2>2. run.phase = "files" /\ InHand # NoPlan
    BY <1>4, OnlyInHand DEF MaterializeFile
  <2>3. f = run.flow /\ disk'[f][p] = InHand.files[p] /\ InHand.files[p] # "keep"
    BY <1>3, <2>1
  <2> QED BY <2>2, <2>3 DEF InHand
<1>5. CASE ResetFile
  <2>1. \/ disk' = [disk EXCEPT ![run.flow][ResetOrder[run.next]] = "none"]
        \/ disk' = disk
    BY <1>5 DEF ResetFile
  <2>2. run.phase = "reset" /\ NoneOutstanding
    BY <1>5 DEF ResetFile, RInv, SInv, Deciding
  <2> QED BY <1>3, <2>1, <2>2
<1> QED BY <1>1, <1>4, <1>5

\* A review that has ended stays as it ended.
THEOREM EndsStay == ASSUME RetryFirst, CallersAgree PROVE Spec => EndedReviewsStay
<1> DEFINE Stay == \A f \in Flows : disk[f]["queue"] \in Ended =>
                     disk'[f]["queue"] = disk[f]["queue"]
<1>1. RInv /\ [Next]_vars => [Stay]_vars
  <2> SUFFICES ASSUME RInv, Next, NEW f \in Flows, disk[f]["queue"] \in Ended,
                      disk'[f]["queue"] # disk[f]["queue"]
               PROVE  FALSE
    OBVIOUS
  <2>0. "queue" \in Files
    BY DEF Files
  <2>1. CASE /\ run.phase = "files" /\ journal[f][run.key] # NoPlan
             /\ disk'[f]["queue"] = journal[f][run.key].files["queue"]
             /\ journal[f][run.key].files["queue"] # "keep"
    <3>1. run.key \in Journals
      BY RunFacts DEF RInv, SInv, IInv
    <3> QED BY <2>1, <3>1 DEF RInv, SoundPlans, SoundPlan, Ended
  <2>2. CASE f = run.flow /\ run.phase = "reset"
    BY <2>2 DEF RInv, ResetUnreviewed, Unreviewed, Ended
  <2> QED BY <2>0, <2>1, <2>2, FileChanges
<1>2. Spec => [][Stay]_vars
  BY <1>1, ReviewInvariance, PTL DEF Spec
<1> QED BY <1>2 DEF EndedReviewsStay

\* A canonical record never stands without what it was derived from.
CanonRests ==
  \A f \in Flows : Present(f, "canon") =>
    \A p \in {"source", "claim", "proposal", "rat"} : Present(f, p)

\* The canonical record is written after them, and none of them is reset under it.
LEMMA StepCanonRests ==
  ASSUME RInv, CanonRests, [Next]_vars
  PROVE  /\ CanonRests'
         /\ \A f \in Flows : Present(f, "canon") => disk'[f]["canon"] # "none"
<1> SUFFICES ASSUME Next
             PROVE  /\ CanonRests'
                    /\ \A f \in Flows : Present(f, "canon") => disk'[f]["canon"] # "none"
  BY DEF vars, CanonRests, Present
<1>1. /\ TypeOK /\ run.key \in Journals /\ run.flow \in Flows /\ run.next \in 1 .. LastFile
  BY RunFacts DEF RInv, SInv, IInv
<1>2. ASSUME NEW f \in Flows, NEW p \in Files, Present(f, "canon"), Present(f, p)
      PROVE  disk'[f][p] # "none"
  <2>1. ~(f = run.flow /\ run.phase = "reset")
    BY <1>2 DEF RInv, ResetUnreviewed, Unreviewed, Present
  <2>2. CASE /\ run.phase = "files" /\ journal[f][run.key] # NoPlan
             /\ disk'[f][p] = journal[f][run.key].files[p]
    BY <1>1, <2>2 DEF RInv, SoundPlans, SoundPlan
  <2> QED BY <1>2, <2>1, <2>2, FileChanges DEF Present
<1>3. ASSUME NEW f \in Flows, Present(f, "canon")',
             NEW p \in {"source", "claim", "proposal", "rat"}
      PROVE  Present(f, p)'
  <2>0. p \in Files /\ "canon" \in Files
    BY DEF Files
  <2>1. CASE Present(f, "canon")
    BY <1>2, <2>0, <2>1 DEF CanonRests, Present
  <2>2. CASE ~Present(f, "canon")
    <3>1. /\ f = run.flow /\ run.phase = "files" /\ journal[f][run.key] # NoPlan
          /\ disk'[f]["canon"] = journal[f][run.key].files["canon"]
          /\ journal[f][run.key].files["canon"] # "keep"
      BY <1>3, <2>0, <2>2, FileChanges DEF Present
    <3> DEFINE plan == journal[f][run.key]
               d == FilesAfter(disk[f], plan)
    <3>2. Story(f, d, LogAfter(audit[f], run.key, plan)) /\ plan.files["canon"] # "none"
      BY <1>1, <2>0, <3>1 DEF RInv, Tells, SoundPlans, SoundPlan
    <3>3. Stored(d)
      <4>1. d["canon"] # "none"
        BY <2>0, <3>1, <3>2 DEF FilesAfter
      <4> QED BY <3>2, <4>1 DEF Story, Unreviewed, DecidedAtOnce, Reviewed
    <3>4. run.next = 7 /\ disk'[f][p] = disk[f][p]
      <4>1. MaterializeFile
        BY <1>3, <2>2, <3>1 DEF Present, Next, Begin, Write, Read, RatifyQueued,
           RatifyDeferred, Reject, Expire, Start, Progress, NothingToRecover, StartReplay,
           AppendLog, ClearJournal, InspectComplete, InspectPartial, ResetFile,
           DecideWrite, DecideRatify, DecideClose, Finish, Fail
      <4>2. \/ disk' = [disk EXCEPT ![f][FileOrder[run.next]] =
                                      plan.files[FileOrder[run.next]]]
            \/ disk' = disk
        BY <3>1, <4>1 DEF MaterializeFile
      <4>3. FileOrder[run.next] = "canon"
        <5>1. ASSUME NEW q, NEW c, disk' = [disk EXCEPT ![f][q] = c] PROVE q = "canon"
          BY <5>1, <1>1, <1>3, <2>2 DEF TypeOK, Present
        <5>2. disk' # disk
          BY <1>3, <2>2 DEF Present
        <5> QED BY <4>2, <5>1, <5>2
      <4> QED BY <1>1, <2>0, <4>2, <4>3, FileOrderFacts DEF TypeOK
    <3>5. PICK i \in 1 .. LastFile : i < 7 /\ FileOrder[i] = p
      <4>1. /\ FileOrder[1] = "source" /\ FileOrder[2] = "claim"
            /\ FileOrder[4] = "proposal" /\ FileOrder[6] = "rat"
        BY DEF FileOrder
      <4> QED BY <4>1 DEF LastFile
    <3>6. disk[f][p] = d[p]
      <4>1. Placed(p)
        BY <3>1, <3>4, <3>5 DEF RInv, InPlace
      <4> QED BY <2>0, <3>1, <4>1 DEF Placed, InHand, FilesAfter
    <3> QED BY <3>3, <3>4, <3>6 DEF Stored, Present
  <2> QED BY <2>1, <2>2
<1>4. \A f \in Flows : Present(f, "canon") => disk'[f]["canon"] # "none"
  BY <1>2 DEF Files
<1> QED BY <1>3, <1>4 DEF CanonRests

\* Nothing removes a canonical record, or the evidence under it: what a reset takes for
\* torn is never a flow that has one (detectPartiallyMaterializedWriteFlow).
THEOREM CanonStays == ASSUME RetryFirst, CallersAgree PROVE Spec => CanonDurable
<1> DEFINE Kept == \A f \in Flows : Present(f, "canon") =>
                     \A p \in {"canon", "source", "claim", "proposal", "rat"} :
                       disk'[f][p] # "none"
<1>1. Init => CanonRests
  BY DEF Init, CanonRests, Present, NoFiles, Files
<1>2. RInv /\ CanonRests /\ [Next]_vars => CanonRests'
  BY StepCanonRests
<1>3. RInv /\ CanonRests /\ [Next]_vars => [Kept]_vars
  <2> SUFFICES ASSUME RInv, CanonRests, Next, NEW f \in Flows, Present(f, "canon"),
                      NEW p \in {"canon", "source", "claim", "proposal", "rat"}
               PROVE  disk'[f][p] # "none"
    OBVIOUS
  <2>1. Present(f, "canon")' /\ CanonRests'
    BY StepCanonRests DEF Present
  <2> QED BY <2>1 DEF CanonRests, Present
<1>4. Spec => [][Kept]_vars
  BY <1>1, <1>2, <1>3, ReviewInvariance, PTL DEF Spec
<1> QED BY <1>4 DEF CanonDurable

\* Raw evidence of a flow that was stored to its last file is never removed, if no write
\* can be stored and refused without a review: only such a flow is taken for torn.
THEOREM EvidenceStays ==
  ASSUME RetryFirst, CallersAgree, \A f \in Flows : Gated(f) => ~Refusable(f)
  PROVE  Spec => EvidenceKept
<1> DEFINE Kept == \A f \in Flows : StoredWhole(f) => disk'[f]["source"] # "none"
<1>1. RInv /\ [Next]_vars => [Kept]_vars
  <2> SUFFICES ASSUME RInv, Next, NEW f \in Flows, StoredWhole(f),
                      disk'[f]["source"] = "none"
               PROVE  FALSE
    OBVIOUS
  <2>0. "source" \in Files /\ run.key \in Journals /\ disk[f]["source"] # "none"
    BY RunFacts DEF Files, RInv, SInv, IInv, StoredWhole, Present
  <2>1. CASE f = run.flow /\ run.phase = "reset"
    BY <2>1 DEF RInv, ResetUnreviewed, Unreviewed, StoredWhole, Present
  <2>2. CASE /\ run.phase = "files" /\ journal[f][run.key] # NoPlan
             /\ disk'[f]["source"] = journal[f][run.key].files["source"]
    BY <2>0, <2>2 DEF RInv, SoundPlans, SoundPlan
  <2> QED BY <2>0, <2>1, <2>2, FileChanges
<1>2. Spec => [][Kept]_vars
  BY <1>1, ReviewInvariance, PTL DEF Spec
<1> QED BY <1>2 DEF EvidenceKept

-----------------------------------------------------------------------------
\* A flow makes its claim, and records its contradiction, on disk or in a journal.
Claims(f) == Present(f, "claim") \/ \E k \in Journals : journal[f][k].files["claim"] # "keep"
Records(f) ==
  Present(f, "conflict") \/ \E k \in Journals : journal[f][k].files["conflict"] = "present"

\* Of two claims that contradict each other one records it.
PairsRecorded ==
  \A f, g \in Flows :
    f # g /\ SlotOf[f] = SlotOf[g] /\ StatementOf[f] # StatementOf[g]
      /\ Claims(f) /\ Claims(g) => Records(f) \/ Records(g)

\* No journal removes a contradiction.
ConflictPlans ==
  \A f \in Flows, k \in Journals : journal[f][k].files["conflict"] \in {"keep", "present"}

\* A reset removes the claim before the contradiction.
ClaimResetFirst == run.phase = "reset" /\ run.next > 2 => ~Present(run.flow, "claim")

\* The inductive invariant for contradictions.
CInv == SInv /\ InPlace /\ PairsRecorded /\ ConflictPlans /\ ClaimResetFirst

\* Steps that add no claim, and keep what records one.
LEMMA PairsKept ==
  ASSUME PairsRecorded, \A f \in Flows : Claims(f)' => Claims(f),
         \A f \in Flows : Records(f) /\ Claims(f)' => Records(f)'
  PROVE  PairsRecorded'
BY DEF PairsRecorded

\* Writing a file turns a planned claim or contradiction into a stored one.
LEMMA MaterializePairs ==
  ASSUME CInv, MaterializeFile PROVE PairsRecorded' /\ ConflictPlans' /\ ClaimResetFirst'
<1>1. /\ TypeOK /\ run.flow \in Flows /\ run.key \in Journals /\ journal' = journal
      /\ run.phase = "files"
  BY RunFacts DEF CInv, SInv, IInv, MaterializeFile
<1>2. \/ disk' = disk
      \/ /\ disk' = [disk EXCEPT ![run.flow][FileOrder[run.next]] =
                       InHand.files[FileOrder[run.next]]]
         /\ InHand.files[FileOrder[run.next]] # "keep"
  BY DEF MaterializeFile, InHand
<1>3. ASSUME NEW f \in Flows, NEW p \in Files, disk'[f][p] # disk[f][p]
      PROVE  /\ f = run.flow /\ disk'[f][p] = InHand.files[p] /\ InHand.files[p] # "keep"
  <2>1. ASSUME NEW q, NEW c, disk' = [disk EXCEPT ![run.flow][q] = c]
        PROVE  f = run.flow /\ p = q /\ disk'[f][p] = c
    BY <1>1, <1>3, <2>1 DEF TypeOK
  <2> QED BY <1>2, <1>3, <2>1
<1>4. \A f \in Flows : Claims(f)' => Claims(f)
  <2> SUFFICES ASSUME NEW f \in Flows, Present(f, "claim")', ~Present(f, "claim")
               PROVE  \E k \in Journals : journal[f][k].files["claim"] # "keep"
    BY <1>1 DEF Claims
  <2> QED BY <1>1, <1>3 DEF Present, Files, InHand
<1>5. \A f \in Flows : Records(f) => Records(f)'
  <2> SUFFICES ASSUME NEW f \in Flows, Present(f, "conflict"), ~Present(f, "conflict")'
               PROVE  FALSE
    BY <1>1 DEF Records
  <2> QED BY <1>1, <1>3 DEF Present, Files, InHand, CInv, ConflictPlans
<1>6. run'.phase # "reset"
  BY <1>1 DEF MaterializeFile, Goto, TypeOK
<1> QED BY <1>1, <1>4, <1>5, <1>6, PairsKept DEF CInv, ConflictPlans, ClaimResetFirst

\* A journal goes when its claim and its contradiction are stored.
LEMMA ClearPairs ==
  ASSUME CInv, ClearJournal PROVE PairsRecorded' /\ ConflictPlans' /\ ClaimResetFirst'
<1>1. /\ TypeOK /\ run.flow \in Flows /\ run.key \in Journals /\ disk' = disk
      /\ journal' = [journal EXCEPT ![run.flow][run.key] = NoPlan]
      /\ run.phase = "clear"
  BY RunFacts DEF CInv, SInv, IInv, ClearJournal
<1>2. NoPlan.files["claim"] = "keep" /\ NoPlan.files["conflict"] = "keep"
  BY DEF NoPlan, Files
<1>3. \A f \in Flows, k \in Journals :
        journal'[f][k] = IF f = run.flow /\ k = run.key THEN NoPlan ELSE journal[f][k]
  BY <1>1 DEF TypeOK
<1>4. \A f \in Flows : Claims(f)' => Claims(f)
  BY <1>1, <1>2, <1>3 DEF Claims, Present
<1>5. \A f \in Flows : Records(f) => Records(f)'
  <2> SUFFICES ASSUME NEW f \in Flows, NEW k \in Journals,
                      journal[f][k].files["conflict"] = "present"
               PROVE  Records(f)'
    BY <1>1 DEF Records, Present
  <2>1. CASE f = run.flow /\ k = run.key
    <3>1. Placed("conflict")
      BY <1>1 DEF CInv, InPlace, Files
    <3> QED BY <1>1, <2>1, <3>1 DEF Placed, InHand, Records, Present
  <2>2. CASE ~(f = run.flow /\ k = run.key)
    BY <1>3, <2>2 DEF Records
  <2> QED BY <2>1, <2>2
<1>6. run'.phase # "reset"
  BY <1>1, IdleType, AfterRecoveryType DEF ClearJournal
<1> QED BY <1>2, <1>3, <1>4, <1>5, <1>6, PairsKept DEF CInv, ConflictPlans, ClaimResetFirst

\* A reset removes the record of a contradiction only once the claim is gone.
LEMMA ResetPairs ==
  ASSUME CInv, ResetFile PROVE PairsRecorded' /\ ConflictPlans' /\ ClaimResetFirst'
<1> DEFINE f == run.flow
           p == ResetOrder[run.next]
<1>1. /\ TypeOK /\ f \in Flows /\ run.next \in 1 .. LastFile /\ journal' = journal
      /\ run.phase = "reset" /\ NoneOutstanding /\ p \in Files
  BY RunFacts, ResetOrderFacts DEF CInv, SInv, IInv, ResetFile, Deciding
<1>2. \/ disk' = [disk EXCEPT ![f][p] = "none"]
      \/ disk' = disk /\ p = "queue"
  BY DEF ResetFile
<1>3. /\ \A g \in Flows, q \in Files :
           disk'[g][q] # disk[g][q] => g = f /\ q = p /\ disk'[g][q] = "none"
      /\ p # "queue" => disk'[f][p] = "none"
  BY <1>1, <1>2 DEF TypeOK
<1>4. /\ run'.flow = f
      /\ \/ run'.phase = "decide"
         \/ run'.phase = "reset" /\ run'.next = run.next + 1
  <2>1. CASE run.next = LastFile
    BY <2>1 DEF ResetFile, Goto
  <2>2. CASE run.next # LastFile
    BY <2>2, <1>1 DEF ResetFile, TypeOK
  <2> QED BY <2>1, <2>2
<1>5. /\ p = "claim" <=> run.next = 2
      /\ p = "conflict" <=> run.next = 6
  BY <1>1 DEF LastFile, ResetOrder
<1> HIDE DEF f, p
<1>6. run.next >= 2 => disk'[f]["claim"] = "none"
  <2>1. CASE run.next = 2
    BY <1>3, <1>5, <2>1
  <2>2. CASE run.next > 2
    <3>1. disk[f]["claim"] = "none"
      BY <2>2, <1>1 DEF CInv, ClaimResetFirst, Present, f
    <3> QED BY <3>1, <1>1, <1>3 DEF Files
  <2> QED BY <2>1, <2>2, <1>1 DEF LastFile
<1>7. ClaimResetFirst'
  BY <1>1, <1>4, <1>6 DEF ClaimResetFirst, Present, LastFile
<1>8. \A g \in Flows : Claims(g)' => Claims(g)
  BY <1>1, <1>3 DEF Claims, Present, Files
<1>9. ASSUME NEW g \in Flows, Records(g), Claims(g)' PROVE Records(g)'
  <2>1. CASE disk'[g]["conflict"] = disk[g]["conflict"]
    BY <2>1, <1>1, <1>9 DEF Records, Present
  <2>2. CASE disk'[g]["conflict"] # disk[g]["conflict"]
    <3>1. g = f /\ run.next = 6
      BY <2>2, <1>3, <1>5 DEF Files
    <3>2. ~Claims(g)'
      <4>1. \A k \in Journals : journal'[g][k].files["claim"] = "keep"
        BY <1>1 DEF NoneOutstanding, NoPlan, Files
      <4> QED BY <3>1, <4>1, <1>6 DEF Claims, Present
    <3> QED BY <3>2, <1>9
  <2> QED BY <2>1, <2>2
<1> QED BY <1>1, <1>7, <1>8, <1>9, PairsKept DEF CInv, ConflictPlans

\* A decision is taken with no journal outstanding: a write sees every claim there is.
LEMMA CommitPairs ==
  ASSUME CInv, NEW key \in Journals, NEW plan, Commit(key, plan), run.phase = "decide",
         plan.files["conflict"] \in {"keep", "present"},
         plan.files["claim"] # "keep" /\ WorldConflict(run.flow) =>
           plan.files["conflict"] = "present"
  PROVE  PairsRecorded' /\ ConflictPlans' /\ ClaimResetFirst'
<1> DEFINE f == run.flow
<1>1. /\ TypeOK /\ f \in Flows /\ NoneOutstanding /\ disk' = disk
      /\ journal' = [journal EXCEPT ![f][key] = plan] /\ run'.phase = "files"
  BY RunFacts DEF CInv, SInv, IInv, Deciding, Commit, Goto
<1>2. \A g \in Flows, k \in Journals :
        journal'[g][k] = IF g = f /\ k = key THEN plan ELSE NoPlan
  BY <1>1 DEF TypeOK, NoneOutstanding
<1>3. NoPlan.files["claim"] = "keep" /\ NoPlan.files["conflict"] = "keep"
  BY DEF NoPlan, Files
<1>4. ConflictPlans' /\ ClaimResetFirst'
  BY <1>1, <1>2, <1>3 DEF ConflictPlans, ClaimResetFirst
<1>5. \A g \in Flows : Records(g) => Present(g, "conflict")
  BY <1>1, <1>3 DEF Records, NoneOutstanding
<1>6. \A g \in Flows : Claims(g)' => Present(g, "claim") \/ (g = f /\ plan.files["claim"] # "keep")
  BY <1>1, <1>2, <1>3 DEF Claims, Present
<1>7. ASSUME NEW g \in Flows, NEW h \in Flows,
             g # h, SlotOf[g] = SlotOf[h], StatementOf[g] # StatementOf[h],
             Claims(g)', Claims(h)'
      PROVE  Records(g)' \/ Records(h)'
  <2>1. CASE Present(g, "claim") /\ Present(h, "claim")
    <3>1. Records(g) \/ Records(h)
      BY <1>7, <2>1 DEF CInv, PairsRecorded, Claims
    <3> QED BY <3>1, <1>1, <1>5 DEF Records, Present
  <2>2. CASE ~Present(g, "claim") \/ ~Present(h, "claim")
    <3>1. (g = f \/ h = f) /\ plan.files["claim"] # "keep" /\ WorldConflict(f)
      BY <1>6, <1>7, <2>2 DEF WorldConflict
    <3>2. ASSUME NEW x \in Flows, x = f PROVE Records(x)'
      <4>1. journal'[x][key].files["conflict"] = "present"
        BY <1>1, <1>2, <3>1, <3>2
      <4> QED BY <4>1 DEF Records
    <3> QED BY <3>1, <3>2
  <2> QED BY <2>1, <2>2
<1> QED BY <1>4, <1>7 DEF PairsRecorded

\* The three decisions keep the invariant.
LEMMA DecidePairs ==
  ASSUME CInv, DecideWrite \/ DecideRatify \/ DecideClose
  PROVE  PairsRecorded' /\ ConflictPlans' /\ ClaimResetFirst'
<1>0. {"write", "apply", "close"} \subseteq Journals
  BY DEF Journals
<1>1. CASE DecideWrite
  <2>1. WritePlan(run.flow, run.by).files["conflict"] =
          IF WorldConflict(run.flow) THEN "present" ELSE "keep"
    BY DEF WritePlan, Files
  <2> QED BY <1>0, <1>1, <2>1, CommitPairs DEF DecideWrite
<1>2. CASE DecideRatify
  <2>1. /\ ApplyPlan(run.by).files["conflict"] = "keep"
        /\ ApplyPlan(run.by).files["claim"] = "keep"
    BY DEF ApplyPlan, ReviewPlan, Files
  <2> QED BY <1>0, <1>2, <2>1, CommitPairs DEF DecideRatify
<1>3. CASE DecideClose
  <2>1. /\ ClosePlan(run.op, run.by).files["conflict"] = "keep"
        /\ ClosePlan(run.op, run.by).files["claim"] = "keep"
    BY DEF ClosePlan, ReviewPlan, Files
  <2> QED BY <1>0, <1>3, <2>1, CommitPairs DEF DecideClose
<1> QED BY <1>1, <1>2, <1>3

\* Steps that only move the operation in progress, or append to the log.
LEMMA RunPairs ==
  ASSUME CInv, [Next]_vars,
         ~(\/ MaterializeFile \/ ClearJournal \/ ResetFile
           \/ DecideWrite \/ DecideRatify \/ DecideClose)
  PROVE  PairsRecorded' /\ ConflictPlans' /\ ClaimResetFirst'
<1>1. UNCHANGED <<disk, journal>> /\ (run' = run \/ run'.phase # "reset" \/ run'.next = 1)
  <2>0. TypeOK
    BY DEF CInv, SInv, IInv
  <2>1. CASE Begin
    BY <2>1 DEF Begin, Write, Read, RatifyQueued, RatifyDeferred, Reject, Expire, Start
  <2>2. CASE NothingToRecover
    BY <2>0, <2>2, AfterRecoveryType DEF NothingToRecover
  <2>3. CASE StartReplay \/ AppendLog \/ InspectComplete \/ InspectPartial \/ Finish \/ Fail
    BY <2>3, IdleType
    DEF StartReplay, AppendLog, InspectComplete, InspectPartial, Finish, Fail, Goto
  <2>4. CASE UNCHANGED vars
    BY <2>4 DEF vars
  <2> QED BY <2>1, <2>2, <2>3, <2>4 DEF Next, Progress
<1>2. PairsRecorded' /\ ConflictPlans'
  BY <1>1 DEF CInv, PairsRecorded, ConflictPlans, Claims, Records, Present
<1>3. ClaimResetFirst'
  BY <1>1 DEF CInv, ClaimResetFirst, Present
<1> QED BY <1>2, <1>3

\* Two stored claims that say different things about one slot never stand side by side
\* unnoticed: one of the flows has the contradiction (findConflictingWorldClaim and the
\* file list of the write journal). It takes no agreement of the callers.
THEOREM ContradictionsNoticed == ASSUME RetryFirst PROVE Spec => []ContradictionRecorded
<1>1. Init => CInv
  <2> SUFFICES ASSUME Init PROVE CInv
    OBVIOUS
  <2>1. SInv /\ InPlace /\ ClaimResetFirst
    BY InitSInv, IdleType DEF Init, InPlace, ClaimResetFirst
  <2>2. \A f \in Flows : ~Claims(f)
    BY DEF Init, Claims, Present, NoFiles, NoPlan, Files
  <2> QED BY <2>1, <2>2 DEF Init, CInv, PairsRecorded, ConflictPlans, NoPlan, Files
<1>2. CInv /\ [Next]_vars => CInv'
  <2> SUFFICES ASSUME CInv, [Next]_vars PROVE CInv'
    OBVIOUS
  <2>1. SInv' /\ InPlace'
    BY StepSInv, StepInPlace DEF CInv, SInv
  <2>2. PairsRecorded' /\ ConflictPlans' /\ ClaimResetFirst'
    BY MaterializePairs, ClearPairs, ResetPairs, DecidePairs, RunPairs
  <2> QED BY <2>1, <2>2 DEF CInv
<1>3. CInv => ContradictionRecorded
  <2> SUFFICES ASSUME CInv, Quiet, NEW f \in Flows, NEW g \in Flows,
                      f # g, SlotOf[f] = SlotOf[g], StatementOf[f] # StatementOf[g],
                      Present(f, "claim"), Present(g, "claim")
               PROVE  Present(f, "conflict") \/ Present(g, "conflict")
    BY DEF ContradictionRecorded
  <2>1. Records(f) \/ Records(g)
    BY DEF CInv, PairsRecorded, Claims
  <2>2. \A h \in Flows : Records(h) => Present(h, "conflict")
    <3>1. NoneOutstanding
      BY QuietNoneOutstanding
    <3> QED BY <3>1 DEF Records, NoneOutstanding, NoPlan, Files
  <2> QED BY <2>1, <2>2
<1> QED BY <1>1, <1>2, <1>3, PTL DEF Spec

-----------------------------------------------------------------------------
\* What has been decided about a flow is in its journal, or in its ratification record.
LEMMA DecidedWhere ==
  ASSUME RInv, NEW f \in Flows
  PROVE  /\ (\A k \in Journals : journal[f][k] = NoPlan) => DecidedBy(f) = disk[f]["rat"]
         /\ \A k \in Journals : journal[f][k] # NoPlan =>
              DecidedBy(f) = journal[f][k].files["rat"]
<1>1. (\A k \in Journals : journal[f][k] = NoPlan) => DecidedBy(f) = disk[f]["rat"]
  BY DEF DecidedBy
<1>2. ASSUME NEW k \in Journals, journal[f][k] # NoPlan
      PROVE  DecidedBy(f) = journal[f][k].files["rat"]
  <2>1. {l \in Journals : journal[f][l] # NoPlan} = {k}
    BY <1>2 DEF RInv, OneJournal
  <2> QED BY <2>1 DEF DecidedBy
<1> QED BY <1>1, <1>2

\* Where no journal is outstanding, only a flow with a canonical record is canonical.
LEMMA SlotFreeInReview ==
  ASSUME RInv, NoneOutstanding, NEW f \in Flows, ~CanonConflict(f)
  PROVE  Review!SlotFree(f)
<1> SUFFICES ASSUME NEW g \in Flows \ {f}, OutcomeOf(DecidedBy(g)) = "canon"
             PROVE  SlotOf[g] # SlotOf[f]
  BY DEF Review!SlotFree
<1>1. DecidedBy(g) = disk[g]["rat"] /\ Story(g, disk[g], audit[g])
  BY DecidedWhere, AllTold DEF NoneOutstanding
<1>2. disk[g]["rat"] \in {"none", "deferred", "approved", "rejected", "expired"}
  BY <1>1 DEF Story, Unreviewed, DecidedAtOnce, Reviewed
<1>3. disk[g]["rat"] = "approved"
  BY <1>1, <1>2 DEF OutcomeOf
<1>4. Present(g, "canon")
  BY <1>1, <1>3 DEF Story, Unreviewed, DecidedAtOnce, Reviewed, Present
<1> QED BY <1>4 DEF CanonConflict

\* A step that changes nobody's decision is a stutter of the review.
LEMMA ReviewStutters ==
  ASSUME \A f \in Flows : DecidedBy(f)' = DecidedBy(f)
  PROVE  UNCHANGED [f \in Flows |-> OutcomeOf(DecidedBy(f))]
<1>1. \A f \in Flows : OutcomeOf(DecidedBy(f))' = OutcomeOf(DecidedBy(f))
  BY Zenon DEF OutcomeOf
<1> QED BY <1>1

\* A step that changes one flow's decision changes one outcome.
LEMMA ReviewMoves ==
  ASSUME NEW f \in Flows, NEW decision, DecidedBy(f)' = decision,
         \A g \in Flows \ {f} : DecidedBy(g)' = DecidedBy(g)
  PROVE  [g \in Flows |-> OutcomeOf(DecidedBy(g))]' =
           [[g \in Flows |-> OutcomeOf(DecidedBy(g))] EXCEPT ![f] = OutcomeOf(decision)]
<1>1. \A g \in Flows \ {f} : OutcomeOf(DecidedBy(g))' = OutcomeOf(DecidedBy(g))
  BY Zenon DEF OutcomeOf
<1>2. OutcomeOf(DecidedBy(f))' = OutcomeOf(decision)
  BY Zenon DEF OutcomeOf
<1> QED BY <1>1, <1>2

\* Writing files, logging and removing a journal decide nothing.
LEMMA ReplayStutters ==
  ASSUME RInv, RInv', MaterializeFile \/ AppendLog \/ ClearJournal
  PROVE  \A f \in Flows : DecidedBy(f)' = DecidedBy(f)
<1> SUFFICES ASSUME NEW f \in Flows PROVE DecidedBy(f)' = DecidedBy(f)
  OBVIOUS
<1>1. /\ TypeOK /\ run.flow \in Flows /\ run.key \in Journals /\ InHand # NoPlan
      /\ InHand.files["rat"] \in Decisions
      /\ \A g \in Flows, k \in Journals :
           journal[g][k] # NoPlan <=> g = run.flow /\ k = run.key
      /\ \A g \in Flows \ {run.flow} : disk'[g] = disk[g]
  <2>1. run.phase \in {"files", "log", "clear"}
    BY DEF MaterializeFile, AppendLog, ClearJournal
  <2>2. TypeOK /\ run.flow \in Flows
    BY <2>1, OnlyInHand
  <2>3. \A g \in Flows \ {run.flow} : disk'[g] = disk[g]
    BY <2>2 DEF MaterializeFile, AppendLog, ClearJournal, TypeOK
  <2> QED BY <2>1, <2>3, OnlyInHand
<1>2. CASE f # run.flow
  <2>1. \A k \in Journals : journal[f][k] = NoPlan /\ journal'[f][k] = NoPlan
    BY <1>1, <1>2 DEF MaterializeFile, AppendLog, ClearJournal, TypeOK
  <2>2. DecidedBy(f) = disk[f]["rat"]
    BY <2>1, DecidedWhere
  <2>3. DecidedBy(f)' = disk'[f]["rat"]
    BY <2>1 DEF DecidedBy
  <2> QED BY <1>1, <1>2, <2>2, <2>3
<1>3. CASE f = run.flow /\ (MaterializeFile \/ AppendLog)
  <2>1. journal' = journal
    BY <1>3 DEF MaterializeFile, AppendLog
  <2>2. {k \in Journals : journal[f][k] # NoPlan} # {}
    BY <1>1, <1>3
  <2> QED BY <2>1, <2>2 DEF DecidedBy
<1>4. CASE f = run.flow /\ ClearJournal
  <2>1. DecidedBy(f) = InHand.files["rat"]
    BY <1>1, <1>4, DecidedWhere DEF InHand
  <2>2. DecidedBy(f)' = disk'[f]["rat"] /\ disk' = disk
    <3>1. \A k \in Journals : journal'[f][k] = NoPlan
      BY <1>1, <1>4 DEF ClearJournal, TypeOK
    <3> QED BY <1>4, <3>1 DEF DecidedBy, ClearJournal
  <2>3. Placed("rat")
    BY <1>4 DEF ClearJournal, RInv, InPlace, Files
  <2> QED BY <1>1, <1>4, <2>1, <2>2, <2>3 DEF Placed, Decisions
<1> QED BY <1>2, <1>3, <1>4

\* A journal write is the step that decides.
LEMMA CommitDecides ==
  ASSUME RInv, NoneOutstanding, NEW key \in Journals, NEW plan, Commit(key, plan),
         plan.files["rat"] \in Decisions
  PROVE  /\ run.flow \in Flows /\ DecidedBy(run.flow) = disk[run.flow]["rat"]
         /\ \A f \in Flows : f = run.flow => DecidedBy(f)' = plan.files["rat"]
         /\ \A f \in Flows \ {run.flow} : DecidedBy(f)' = DecidedBy(f)
<1>1. /\ TypeOK /\ run.flow \in Flows /\ disk' = disk
      /\ journal' = [journal EXCEPT ![run.flow][key] = plan]
  BY RunFacts DEF RInv, SInv, IInv, Commit
<1>2. \A f \in Flows : DecidedBy(f) = disk[f]["rat"]
  BY DecidedWhere DEF NoneOutstanding
<1>3. plan # NoPlan
  BY NoPlanFacts DEF Decisions
<1>4. ASSUME NEW f \in Flows, f = run.flow PROVE DecidedBy(f)' = plan.files["rat"]
  <2>1. {k \in Journals : journal'[f][k] # NoPlan} = {key} /\ journal'[f][key] = plan
    BY <1>1, <1>3, <1>4 DEF TypeOK, NoneOutstanding
  <2> QED BY <2>1 DEF DecidedBy
<1>5. ASSUME NEW f \in Flows \ {run.flow} PROVE DecidedBy(f)' = DecidedBy(f)
  <2>1. {k \in Journals : journal'[f][k] # NoPlan} = {}
    BY <1>1 DEF TypeOK, NoneOutstanding
  <2> QED BY <1>1, <1>2, <2>1 DEF DecidedBy
<1> QED BY <1>1, <1>2, <1>4, <1>5

\* A write that is accepted admits the proposal, queues it or refuses it.
LEMMA WriteDecides == ASSUME CallersAgree, RInv, DecideWrite PROVE Review!Next
<1> DEFINE plan == WritePlan(run.flow, run.by)
<1>1. /\ TypeOK /\ run.flow \in Flows /\ run.by \in Principals \cup {"nobody"}
      /\ NoneOutstanding /\ Promotion(run.flow, run.by) = Implied(run.flow)
      /\ WriteAccepted(run.flow, run.by) /\ Commit("write", plan) /\ "write" \in Journals
  BY RunFacts, LookupImplied DEF DecideWrite, RInv, SInv, IInv, Deciding, Journals
<1>2. /\ plan.files["rat"] \in Decisions
      /\ plan.files["rat"] = Decision(run.flow, Implied(run.flow))
  BY <1>1, WritePlanGood DEF GoodPlan, WritePlan, Files
<1>3. PICK f \in Flows : f = run.flow
  BY <1>1
<1>4. /\ DecidedBy(f) = "none" /\ DecidedBy(f)' = plan.files["rat"]
      /\ \A g \in Flows \ {f} : DecidedBy(g)' = DecidedBy(g)
  <2>1. disk[f]["rat"] = "none"
    BY <1>1, <1>3 DEF WriteAccepted, Baseline, Present
  <2> QED BY <1>1, <1>2, <1>3, <2>1, CommitDecides
<1>5. OutcomeOf(DecidedBy(f)) = "unseen"
  BY <1>4 DEF OutcomeOf
<1> HIDE DEF plan
<1>6. CASE plan.files["rat"] = "approved"
  <2>1. Review!SlotFree(f)
    BY <1>1, <1>2, <1>3, <1>6, SlotFreeInReview DEF Decision
  <2>2. Review!Admit(f)
    BY <1>4, <1>5, <1>6, <2>1, ReviewMoves DEF Review!Admit, OutcomeOf
  <2> QED BY <2>2 DEF Review!Next
<1>7. CASE plan.files["rat"] = "deferred"
  <2>1. f \in OwnerSubject
    BY <1>2, <1>3, <1>7 DEF Decision, Implied, Gated
  <2>2. Review!Queue(f)
    BY <1>4, <1>5, <1>7, <2>1, ReviewMoves DEF Review!Queue, OutcomeOf
  <2> QED BY <2>2 DEF Review!Next
<1>8. CASE plan.files["rat"] = "rejected"
  <2>1. Review!Refuse(f)
    BY <1>4, <1>5, <1>8, ReviewMoves DEF Review!Refuse, OutcomeOf
  <2> QED BY <2>1 DEF Review!Next
<1> QED BY <1>2, <1>6, <1>7, <1>8 DEF Decision

\* A ratification or a closure ends a review that is waiting.
LEMMA EndDecides == ASSUME RInv, DecideRatify \/ DecideClose PROVE Review!Next
<1>1. /\ TypeOK /\ run.flow \in Flows /\ NoneOutstanding /\ {"apply", "close"} \subseteq Journals
      /\ disk[run.flow]["queue"] = "pending" \/ disk[run.flow]["rat"] = "deferred"
  BY RunFacts DEF RInv, SInv, IInv, Deciding, Journals, DecideRatify, DecideClose,
     RatificationAccepted, ClosureAccepted
<1>2. PICK f \in Flows : f = run.flow
  BY <1>1
<1>3. DecidedBy(f) = "deferred" /\ OutcomeOf(DecidedBy(f)) = "waiting"
  <2>1. disk[f]["rat"] = "deferred"
    BY <1>1, <1>2, PendingEnds
  <2> QED BY <1>1, <2>1, DecidedWhere DEF NoneOutstanding, OutcomeOf
<1>4. CASE DecideRatify
  <2>1. Commit("apply", ApplyPlan("owner")) /\ ~CanonConflict(f)
    BY <1>2, <1>4 DEF DecideRatify, RatificationAccepted
  <2>2. ApplyPlan("owner").files["rat"] = "approved"
    BY DEF ApplyPlan, ReviewPlan, Files
  <2>3. /\ DecidedBy(f)' = "approved"
        /\ \A g \in Flows \ {f} : DecidedBy(g)' = DecidedBy(g)
    BY <1>1, <1>2, <2>1, <2>2, CommitDecides DEF Decisions
  <2>4. Review!Ratify(f)
    BY <1>1, <1>3, <2>1, <2>3, SlotFreeInReview, ReviewMoves DEF Review!Ratify, OutcomeOf
  <2> QED BY <2>4 DEF Review!Next
<1>5. CASE DecideClose
  <2> DEFINE plan == ClosePlan(run.op, run.by)
  <2>1. Commit("close", plan)
    BY <1>5 DEF DecideClose
  <2>2. plan.files["rat"] \in {"rejected", "expired"}
    BY <1>5 DEF DecideClose, ClosePlan, ReviewPlan, Files
  <2> HIDE DEF plan
  <2>3. /\ DecidedBy(f)' = plan.files["rat"]
        /\ \A g \in Flows \ {f} : DecidedBy(g)' = DecidedBy(g)
    BY <1>1, <1>2, <2>1, <2>2, CommitDecides DEF Decisions
  <2>4. \/ Review!Close(f, "refused")
        \/ Review!Close(f, "expired")
    BY <1>3, <2>2, <2>3, ReviewMoves DEF Review!Close, OutcomeOf
  <2> QED BY <2>4 DEF Review!Next
<1> QED BY <1>4, <1>5

\* A reset that removes a ratification record discards a refused proposal.
LEMMA ResetDecides ==
  ASSUME RInv, ResetFile
  PROVE  Review!Next \/ \A f \in Flows : DecidedBy(f)' = DecidedBy(f)
<1>1. /\ TypeOK /\ run.flow \in Flows /\ NoneOutstanding /\ journal' = journal
      /\ Unreviewed(run.flow, disk[run.flow]) /\ disk \in [Flows -> [Files -> Contents]]
  BY RunFacts DEF RInv, SInv, IInv, TypeOK, ResetFile, Deciding, ResetUnreviewed
<1>2. PICK f \in Flows : f = run.flow
  BY <1>1
<1>3. /\ \A g \in Flows \ {f} : disk'[g] = disk[g]
      /\ disk'[f]["rat"] \in {disk[f]["rat"], "none"}
  <2>1. disk' = disk \/ disk' = [disk EXCEPT ![f][ResetOrder[run.next]] = "none"]
    BY <1>2 DEF ResetFile
  <2> QED BY <1>1, <2>1 DEF Files
<1>4. \A g \in Flows : DecidedBy(g) = disk[g]["rat"]
  BY <1>1, DecidedWhere DEF NoneOutstanding
<1>5. \A g \in Flows : DecidedBy(g)' = disk'[g]["rat"]
  BY <1>1 DEF DecidedBy, NoneOutstanding
<1>6. CASE disk'[f]["rat"] = disk[f]["rat"]
  BY <1>3, <1>4, <1>5, <1>6
<1>7. CASE disk'[f]["rat"] # disk[f]["rat"]
  <2>1. disk[f]["rat"] = "rejected" /\ f \in OwnerSubject /\ disk'[f]["rat"] = "none"
    BY <1>1, <1>2, <1>3, <1>7 DEF Unreviewed, Gated
  <2>2. /\ DecidedBy(f) = "rejected" /\ DecidedBy(f)' = "none"
        /\ \A g \in Flows \ {f} : DecidedBy(g)' = DecidedBy(g)
    BY <1>3, <1>4, <1>5, <2>1
  <2>3. Review!Discard(f)
    BY <2>1, <2>2, ReviewMoves DEF Review!Discard, OutcomeOf
  <2> QED BY <2>3 DEF Review!Next
<1> QED BY <1>6, <1>7

\* The store implements the abstract review: no step but a journal write changes what is
\* decided about a proposal, except that a refused one may be discarded, and each journal
\* write is one decision the review allows.
THEOREM StoreImplementsReview ==
  ASSUME RetryFirst, CallersAgree PROVE Spec => ImplementsReview
<1>1. Init => Review!Init
  <2> SUFFICES ASSUME Init, NEW f \in Flows PROVE OutcomeOf(DecidedBy(f)) = "unseen"
    BY DEF Review!Init
  <2>1. DecidedBy(f) = "none"
    BY DEF Init, DecidedBy, NoFiles, Files
  <2> QED BY <2>1 DEF OutcomeOf
<1>2. RInv /\ [Next]_vars => [Review!Next]_[f \in Flows |-> OutcomeOf(DecidedBy(f))]
  <2> SUFFICES ASSUME RInv, [Next]_vars
               PROVE  Review!Next \/ \A f \in Flows : DecidedBy(f)' = DecidedBy(f)
    BY ReviewStutters
  <2>0. RInv'
    BY StepRInv
  <2>1. CASE DecideWrite \/ DecideRatify \/ DecideClose
    BY <2>1, WriteDecides, EndDecides
  <2>2. CASE ResetFile
    BY <2>2, ResetDecides
  <2>3. CASE MaterializeFile \/ AppendLog \/ ClearJournal
    BY <2>0, <2>3, ReplayStutters
  <2>4. CASE UNCHANGED <<disk, journal>>
    BY <2>4 DEF DecidedBy
  <2>5. \/ DecideWrite \/ DecideRatify \/ DecideClose \/ ResetFile
        \/ MaterializeFile \/ AppendLog \/ ClearJournal
        \/ UNCHANGED <<disk, journal>>
    BY DEF Next, Begin, Write, Read, RatifyQueued, RatifyDeferred, Reject, Expire, Start,
       Progress, NothingToRecover, StartReplay, InspectComplete, InspectPartial, Finish,
       Fail, vars
  <2> QED BY <2>1, <2>2, <2>3, <2>4, <2>5
<1> QED BY <1>1, <1>2, ReviewInvariance, PTL DEF Spec, ImplementsReview, Review!Spec
=============================================================================
