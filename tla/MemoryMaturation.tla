---------------------------- MODULE MemoryMaturation ----------------------------
(***************************************************************************)
(* Semantic maturation (memory-maturation.ts): the observations of the     *)
(* latest consolidation are compiled, with a model's answer, into          *)
(* candidate claims; claims that are corroborated enough reach canon       *)
(* without an owner, the others are kept as evidence, filed in the wiki or *)
(* queued for review; at the end candidates of earlier nights are promoted.*)
(*                                                                         *)
(* A run locks the consolidation it matures, a promotion locks its runtime *)
(* (one runtime here): runs of two nights, or a run and a promotion, work  *)
(* at the same time.  Every claim is a batch of files written one by one   *)
(* under a journal of its own, and whoever has taken any of the locks      *)
(* first replays all journals there are.                                   *)
(*                                                                         *)
(* Claims of one kind of memory are modelled, each filed under the page of *)
(* its slot; the raw file, the source record, the observation and the      *)
(* evaluation episode of a claim are its one piece of evidence.            *)
(***************************************************************************)
EXTENDS Integers, FiniteSets, Sequences, SequencesExt

CONSTANTS
  Notes,           \* runtime observations
  DayOf,           \* the day of each
  Nights,          \* number of consolidations
  ItemsOf,         \* the observations each consolidation proposes for maturation
  Slots, Topics,   \* semantic slots; ids of claims a model may answer with
  ClaimOf,         \* what each claim says: see ClaimRecords
  AnswersOf,       \* answers a model may give each night: sequences of claims
  Maturers,        \* processes that run maturation or promotion
  MaxClaims,       \* bound on the claims of an answer
  MaxWorks,        \* bound on runs and promotions
  MaxLapses        \* bound on crashes and slow holders

ClaimRecords ==
  [slot : Slots, support : SUBSET Notes, role : {"owner", "agent", "external"},
   risk : {"low", "medium", "high"}, confidence : {"low", "medium", "high"},
   state : {"inferred", "hypothesized", "disputed"}, operational : BOOLEAN,
   asks : SUBSET {"evidence_only", "world_update", "wiki_update", "proposal_for_canon",
                  "queued_review", "diagnostic_only"}]

ASSUME MaturationAssumption ==
  /\ Nights \in Nat \ {0} /\ MaxClaims \in Nat /\ MaxWorks \in Nat /\ MaxLapses \in Nat
  /\ DayOf \in [Notes -> Nat] /\ ItemsOf \in [1..Nights -> SUBSET Notes]
  /\ ClaimOf \in [Topics -> ClaimRecords]
  /\ \A n \in 1..Nights : AnswersOf[n] \subseteq UNION {[1..k -> Topics] : k \in 0..MaxClaims}
  /\ Maturers \cap {"free", "dead"} = {}

VARIABLES
  memory,          \* the files of each batch, by kind
  slotPage,        \* the wiki page of each slot: the batches it lists, or none
  matJournal,      \* the journals there are: the files of a batch, or a torn text
  matLock,         \* "free", "dead" or the holder of each lock
  mature,          \* what each process is doing
  night,           \* the latest consolidation, 0 for none
  mixed,           \* whether two processes ever worked under two locks at once, or
                   \* under one that was taken from a live holder
  reapplied,       \* batches applied again when they were in canon, before they were
                   \* replayed, or twice at once
  works, lapses    \* runs and promotions begun, crashes and slow holders so far

maturationVars == <<memory, slotPage, matJournal, matLock, mature, night, mixed, reapplied, works, lapses>>
maturationFiles == <<memory, slotPage, matJournal>>

MatureSteps == {"idle", "compile", "lock", "unlock", "list", "read", "replay", "look",
                "load", "journal", "torn", "write", "select", "release"}
NoMature == [step |-> "idle"]
\* A process at work.  night is 0 for a promotion of its own; phase tells which lock it
\* is at; claims are the compiled claims it applies, next the first that is left.
NewMature(n, evidence, step, phase) ==
  [step |-> step, phase |-> phase, night |-> n, evidence |-> evidence, clean |-> TRUE,
   claims |-> <<>>, next |-> 1, batch |-> <<>>, files |-> <<>>, pos |-> 0, todo |-> {}]

\* One lock for each consolidation and one, 0, for promotion.
MatLocks == 0..Nights
LockOf(m) == IF mature[m].phase = "promote" THEN 0 ELSE mature[m].night

NoPage == [written |-> FALSE, lists |-> {}]

MaturationInit ==
  /\ memory = << >> /\ matJournal = << >>
  /\ slotPage = [s \in Slots |-> NoPage]
  /\ matLock = [l \in MatLocks |-> "free"]
  /\ mature = [m \in Maturers |-> NoMature]
  /\ night = 0
  /\ mixed = FALSE /\ reapplied = {} /\ works = 0 /\ lapses = 0

MatureAt(m, step) == mature[m].step = step
MatureGo(m, step) == mature' = [mature EXCEPT ![m].step = step]
Stored(b, kind) == b \in DOMAIN memory /\ kind \in DOMAIN memory[b]
With(f, k, v) == [x \in DOMAIN f \cup {k} |-> IF x = k THEN v ELSE f[x]]
Without(f, k) == [x \in DOMAIN f \ {k} |-> f[x]]

-----------------------------------------------------------------------------
\* What the store tells of earlier nights.

\* The records of runs whose answer had no faults.
Matured == {b \in DOMAIN memory : Stored(b, "matured") /\ memory[b].matured.clean}

\* loadCompletedMemoryMaturationObservationRefs
Processed == UNION {memory[b].matured.evidence : b \in Matured}

\* loadMemoryMaturationSlotSummaries: the claims matured for a slot.
History(s) ==
  {e \in Matured \X (1..MaxClaims) : /\ e[2] <= Len(memory[e[1]].matured.topics)
                                    /\ ClaimOf[memory[e[1]].matured.topics[e[2]]].slot = s}
EntryTopic(e) == memory[e[1]].matured.topics[e[2]]
PastSupport(s) == UNION {ClaimOf[EntryTopic(e)].support : e \in History(s)}
Days(support) == {DayOf[o] : o \in support}

CanonOf(s) == {b \in DOMAIN memory : Stored(b, "canon") /\ memory[b].canon.slot = s}
ActiveCanon(s) == {b \in CanonOf(s) : memory[b].canon.active}

-----------------------------------------------------------------------------
\* compileMemoryMaturation: which dispositions a claim gets.

\* isLowRiskCanonEligible
AutoCanon(c, support, prior) ==
  /\ c.role # "owner" /\ c.risk = "low" /\ c.confidence # "low" /\ c.state = "inferred"
  /\ \/ Cardinality(support) >= 5
     \/ Cardinality(support) >= 3 /\ (Cardinality(Days(support)) >= 2 \/ prior >= 1)

\* shouldProposeReviewFromCorroboration
WantsReview(c, support) ==
  \/ c.role = "owner"
  \/ c.risk # "high" /\ (Cardinality(support) >= 5 \/ Cardinality(Days(support)) >= 3)

\* normalizeCandidate: a proposal that needs an owner is queued.
Normalized(c) ==
  IF "proposal_for_canon" \in c.asks
       /\ (c.role = "owner" \/ c.confidence # "high" \/ c.risk = "high")
  THEN c.asks \cup {"queued_review"} ELSE c.asks

\* applyCorroborationPolicy
CompiledClaim(t) ==
  LET c == ClaimOf[t]
      support == PastSupport(c.slot) \cup c.support
      prior == Cardinality(History(c.slot))
      auto == AutoCanon(c, support, prior)
      review == ~auto /\ WantsReview(c, support)
      raised == IF auto \/ review
                THEN (Normalized(c) \ {"evidence_only"})
                       \cup {"world_update", "wiki_update", "proposal_for_canon"}
                ELSE Normalized(c)
  IN [topic |-> t, support |-> support, prior |-> prior, auto |-> auto,
      asks |-> IF auto THEN raised \ {"queued_review"}
               ELSE IF review THEN raised \cup {"queued_review"} ELSE raised]

\* canSystemRatify
SystemRatifies(x) ==
  LET c == ClaimOf[x.topic]
  IN c.role # "owner" /\ ((c.confidence = "high" /\ c.risk # "high") \/ x.auto)

\* prepareMemoryMaturationEvidence
BeginMature(m) ==
  /\ MatureAt(m, "idle") /\ night > 0
  /\ works < MaxWorks /\ works' = works + 1
  /\ mature' = [mature EXCEPT ![m] =
                  NewMature(night, ItemsOf[night] \ Processed, "compile", "mature")]
  /\ UNCHANGED <<maturationFiles, matLock, mixed, reapplied, lapses>>

\* candidateDiagnostics: the support of a claim is what the model was shown.
WellFounded(m, t) ==
  ClaimOf[t].support # {} /\ ClaimOf[t].support \subseteq mature[m].evidence

\* The answer of the model: claims with unknown support are faults and are left out.
Compile(m) ==
  /\ MatureAt(m, "compile")
  /\ \E answer \in AnswersOf[mature[m].night] :
       LET kept == SelectSeq(answer, LAMBDA t : WellFounded(m, t))
       IN mature' = [mature EXCEPT
            ![m].step = "lock", ![m].clean = (kept = answer),
            ![m].claims = [i \in DOMAIN kept |-> CompiledClaim(kept[i])]]
  /\ UNCHANGED <<maturationFiles, matLock, mixed, reapplied, lapses>>

-----------------------------------------------------------------------------
\* promoteMemoryCanonCandidates: which claims of earlier nights are promoted.

\* The last claim matured for a slot, in the order the directory lists the records.
LatestTopics(s) ==
  {EntryTopic(e) : e \in {x \in History(s) : \A y \in History(s) : y[1] = x[1] => y[2] <= x[2]}}

\* finalizeCanonCandidateSummary: auto_canon_ready
Ready(s, t) ==
  LET c == ClaimOf[t]
      support == Cardinality(PastSupport(s))
  IN /\ ActiveCanon(s) = {}
     /\ \A e \in History(s) : ClaimOf[EntryTopic(e)].role # "owner"
     /\ c.risk = "low" /\ c.confidence # "low"
     /\ \/ support >= 5
        \/ support >= 3 /\ Cardinality(Days(PastSupport(s))) >= 2
        \/ support >= 3 /\ Cardinality(History(s)) >= 2

\* isOperationalSelfObservationSummary
SelfObservation(s, t) ==
  ClaimOf[t].operational /\ \A e \in History(s) : ClaimOf[EntryTopic(e)].role = "agent"

\* candidateFromSummary: what is promoted to canon, or only to the wiki.
Promoted(s, t) ==
  LET toWiki == SelfObservation(s, t)
  IN [topic |-> t, support |-> PastSupport(s), prior |-> Cardinality(History(s)),
      auto |-> ~toWiki,
      asks |-> {"world_update", "wiki_update"}
                 \cup IF toWiki THEN {} ELSE {"proposal_for_canon"}]

SlotOrder == SetToSeq(Slots)

\* The slots to promote are chosen before the lock is asked for.
SelectCandidates(m) ==
  /\ MatureAt(m, "select")
  /\ \E latest \in [Slots -> UNION {LatestTopics(s) : s \in Slots} \cup {"none"}] :
       LET chosen(s) == /\ latest[s] # "none" /\ Ready(s, latest[s])
                        /\ SelfObservation(s, latest[s]) => ~slotPage[s].written
           slots == SelectSeq(SlotOrder, chosen)
       IN /\ \A s \in Slots : IF LatestTopics(s) = {} THEN latest[s] = "none"
                              ELSE latest[s] \in LatestTopics(s)
          /\ mature' = [mature EXCEPT ![m] =
               IF slots = <<>>
               THEN IF @.night = 0 THEN NoMature ELSE [@ EXCEPT !.step = "release"]
               ELSE [@ EXCEPT
                 !.step = "lock", !.phase = "promote", !.next = 1,
                 !.claims = [i \in DOMAIN slots |-> Promoted(slots[i], latest[slots[i]])]]]
  /\ UNCHANGED <<maturationFiles, matLock, mixed, reapplied, lapses>>

BeginPromote(m) ==
  /\ MatureAt(m, "idle")
  /\ works < MaxWorks /\ works' = works + 1
  /\ mature' = [mature EXCEPT ![m] = NewMature(0, {}, "select", "promote")]
  /\ UNCHANGED <<maturationFiles, matLock, mixed, reapplied, lapses>>

-----------------------------------------------------------------------------
\* withMemoryMaturationLock

Holding(p) == \E l \in MatLocks : matLock[l] = p

TakeMatLock(m) ==
  /\ MatureAt(m, "lock") /\ matLock[LockOf(m)] = "free"
  /\ matLock' = [matLock EXCEPT ![LockOf(m)] = m]
  /\ mixed' = (mixed \/ \E p \in Maturers \ {m} : Holding(p))
  /\ MatureGo(m, "list")
  /\ UNCHANGED <<maturationFiles, reapplied, lapses>>

\* A lock is stale by its age alone: its holder is dead, or slow.
FindStaleMat(m) ==
  LET holder == matLock[LockOf(m)]
  IN /\ MatureAt(m, "lock") /\ holder # "free"
     /\ IF holder = "dead" THEN lapses' = lapses
        ELSE lapses < MaxLapses /\ lapses' = lapses + 1
     /\ MatureGo(m, "unlock")
     /\ UNCHANGED <<maturationFiles, matLock, mixed, reapplied>>

RemoveStaleMat(m) ==
  /\ MatureAt(m, "unlock")
  /\ matLock' = [matLock EXCEPT ![LockOf(m)] = "free"]
  /\ mixed' = (mixed \/ matLock[LockOf(m)] \in Maturers)
  /\ MatureGo(m, "lock")
  /\ UNCHANGED <<maturationFiles, reapplied, lapses>>

MatTimesOut(m) ==
  /\ MatureAt(m, "lock") /\ matLock[LockOf(m)] # "free"
  /\ mature' = [mature EXCEPT ![m] =
       IF @.phase = "promote" /\ @.night # 0 THEN [@ EXCEPT !.phase = "mature", !.step = "release"]
       ELSE NoMature]
  /\ UNCHANGED <<maturationFiles, matLock, mixed, reapplied, lapses>>

\* A promotion inside a run gives the lock of the run back next.
ReleaseMatLock(m) ==
  /\ MatureAt(m, "release")
  /\ matLock' = [matLock EXCEPT ![LockOf(m)] = "free"]
  /\ mixed' = (mixed \/ matLock[LockOf(m)] \in Maturers \ {m})
  /\ mature' = [mature EXCEPT ![m] =
       IF @.phase = "promote" /\ @.night # 0 THEN [@ EXCEPT !.phase = "mature"] ELSE NoMature]
  /\ UNCHANGED <<maturationFiles, reapplied, lapses>>

-----------------------------------------------------------------------------
\* recoverPendingMemoryMaturationJournals

ListJournals(m) ==
  /\ MatureAt(m, "list")
  /\ mature' = [mature EXCEPT ![m].step = "read", ![m].todo = DOMAIN matJournal]
  /\ UNCHANGED <<maturationFiles, matLock, mixed, reapplied, lapses>>

\* The next journal listed is read and its files are written again; one that is gone or
\* torn by now ends the run.
ReadJournal(m) ==
  /\ MatureAt(m, "read") /\ mature[m].todo # {}
  /\ \E b \in mature[m].todo :
       IF b \notin DOMAIN matJournal \/ matJournal[b].torn THEN MatureGo(m, "release")
       ELSE mature' = [mature EXCEPT ![m].step = "replay", ![m].batch = b,
                         ![m].files = matJournal[b].files, ![m].pos = 0,
                         ![m].todo = @ \ {b}]
  /\ UNCHANGED <<maturationFiles, matLock, mixed, reapplied, lapses>>

AllRecovered(m) ==
  /\ MatureAt(m, "read") /\ mature[m].todo = {}
  /\ MatureGo(m, IF mature[m].phase = "mature" THEN "look" ELSE "load")
  /\ UNCHANGED <<maturationFiles, matLock, mixed, reapplied, lapses>>

\* findCompletedMemoryMaturationSource: the same observations were matured already.
LookForCompleted(m) ==
  LET done == /\ mature[m].evidence # {}
              /\ \E b \in Matured : /\ b.night = mature[m].night
                                    /\ memory[b].matured.evidence = mature[m].evidence
  IN /\ MatureAt(m, "look")
     /\ MatureGo(m, IF done THEN "release" ELSE "load")
     /\ UNCHANGED <<maturationFiles, matLock, mixed, reapplied, lapses>>

-----------------------------------------------------------------------------
\* applyCandidate: the batch of a claim.

\* A run is named by a digest of its compiled claims, a batch for the run and the place
\* of its claim, or for the slot promoted.
Digest(claims) == [i \in DOMAIN claims |->
                     <<claims[i].topic, Cardinality(claims[i].support), claims[i].prior>>]
BatchOf(m, i) ==
  IF mature[m].phase = "promote"
  THEN [night |-> 0, run |-> <<>>, at |-> ClaimOf[mature[m].claims[i].topic].slot]
  ELSE [night |-> mature[m].night, run |-> Digest(mature[m].claims), at |-> i]

\* evaluateCanonicalProposal of a create.
Verdict(x) ==
  IF CanonOf(ClaimOf[x.topic].slot) # {} THEN "rejected"
  ELSE IF SystemRatifies(x) THEN "approved" ELSE "deferred"
\* A proposal that needs an owner as well as a free slot fails two gates: it is rejected.

\* Files are pairs of a kind and what is written.
ProposalFiles(x, verdict) ==
  LET c == ClaimOf[x.topic]
  IN <<<<"proposal", x.topic>>, <<"ratification", verdict>>>>
       \o (IF verdict = "approved" THEN <<>> ELSE <<<<"refusal", verdict>>>>)
       \o CASE verdict = "approved" ->
                 <<<<"canon", [slot |-> c.slot, topic |-> x.topic,
                               active |-> c.state # "disputed"]>>>>
            [] verdict = "deferred" -> <<<<"queue", c.slot>>>>
            [] OTHER -> <<>>

\* The page of the slot gains the batch, and a claim of its own.
WikiFiles(b, slot) ==
  <<<<"page", [slot |-> slot, lists |-> slotPage[slot].lists \cup {b}]>>, <<"note", slot>>>>

\* The last files of a batch.
ClosingFiles(x) ==
  (IF "diagnostic_only" \in x.asks THEN <<<<"diagnostic", x.topic>>>> ELSE <<>>)
    \o <<<<"disposition", x.asks>>>>

\* Mutant: canon is written before what ratifies it.
BatchFilesCanonFirst(b, x) ==
  LET verdict == IF "proposal_for_canon" \in x.asks THEN Verdict(x) ELSE "none"
  IN (IF verdict = "none" THEN <<>> ELSE Reverse(ProposalFiles(x, verdict)))
       \o <<<<"evidence", x.topic>>, <<"world", x.topic>>, <<"disposition", x.asks>>>>

BatchFiles(b, x) ==
  LET asks(d) == d \in x.asks
      if(files, cond) == IF cond THEN files ELSE <<>>
  IN <<<<"evidence", x.topic>>>>
       \o if(<<<<"world", x.topic>>>>,
              asks("world_update") \/ asks("wiki_update") \/ asks("proposal_for_canon"))
       \o if(WikiFiles(b, ClaimOf[x.topic].slot), asks("wiki_update"))
       \o (IF asks("proposal_for_canon") THEN ProposalFiles(x, Verdict(x)) ELSE <<>>)
       \o ClosingFiles(x)

\* The record of the run, written after its claims.
RecordBatch(m) ==
  [night |-> mature[m].night, run |-> Digest(mature[m].claims),
   at |-> IF mature[m].clean THEN 0 ELSE -1]
RecordFiles(m) ==
  LET r == mature[m]
  IN <<<<"matured", [evidence |-> r.evidence, clean |-> r.clean,
                     topics |-> [i \in DOMAIN r.claims |-> r.claims[i].topic]]>>>>

\* Claims are applied only if the answer had no faults.
ToApply(m) == IF mature[m].clean THEN mature[m].claims ELSE <<>>

\* A journal of the batch waits to be replayed.
JournalLeft(b) == b \in DOMAIN matJournal /\ ~matJournal[b].torn

\* Canon and wiki are read, and the files of the next claim are decided.
LoadNext(m) ==
  LET i == mature[m].next
      b == BatchOf(m, i)
  IN /\ MatureAt(m, "load") /\ i <= Len(ToApply(m))
     /\ mature' = [mature EXCEPT ![m].step = "journal", ![m].next = i + 1,
          ![m].batch = b, ![m].pos = 0, ![m].files = BatchFiles(b, ToApply(m)[i])]
     /\ reapplied' = IF \/ Stored(b, "canon") \/ JournalLeft(b)
                        \/ \E p \in Maturers \ {m} : mature[p].step # "idle" /\ mature[p].batch = b
                     THEN reapplied \cup {b} ELSE reapplied
     /\ UNCHANGED <<maturationFiles, matLock, mixed, lapses>>

\* After the last claim come the record of a run, and the promotion inside it.
NoneLeft(m) ==
  LET i == mature[m].next
      last == Len(ToApply(m))
  IN /\ MatureAt(m, "load") /\ i > last
     /\ IF mature[m].phase = "promote" THEN MatureGo(m, "release")
        ELSE IF i = last + 1
        THEN mature' = [mature EXCEPT ![m].step = "journal", ![m].next = i + 1,
               ![m].batch = RecordBatch(m), ![m].pos = 0, ![m].files = RecordFiles(m)]
        ELSE MatureGo(m, "select")
     /\ UNCHANGED <<maturationFiles, matLock, mixed, reapplied, lapses>>

\* writeMemoryMaturationRecoveryJournal: the file is not written atomically.
BeginJournal(m) ==
  /\ MatureAt(m, "journal")
  /\ matJournal' = With(matJournal, mature[m].batch, [torn |-> TRUE, files |-> <<>>])
  /\ MatureGo(m, "torn")
  /\ UNCHANGED <<memory, slotPage, matLock, mixed, reapplied, lapses>>

EndJournal(m) ==
  /\ MatureAt(m, "torn")
  /\ matJournal' = With(matJournal, mature[m].batch,
                        [torn |-> FALSE, files |-> mature[m].files])
  /\ MatureGo(m, "write")
  /\ UNCHANGED <<memory, slotPage, matLock, mixed, reapplied, lapses>>

\* writeRawJson, writeCoreRecord: the next file is written.
WriteMemory(m) ==
  LET i == mature[m].pos + 1
      b == mature[m].batch
      kind == mature[m].files[i][1]
      value == mature[m].files[i][2]
      before == IF b \in DOMAIN memory THEN memory[b] ELSE << >>
  IN /\ mature[m].step \in {"write", "replay"} /\ i <= Len(mature[m].files)
     /\ IF kind = "page"
        THEN /\ slotPage' = [slotPage EXCEPT ![value.slot] =
                               [written |-> TRUE, lists |-> value.lists]]
             /\ UNCHANGED memory
        ELSE memory' = With(memory, b, With(before, kind, value)) /\ UNCHANGED slotPage
     /\ mature' = [mature EXCEPT ![m].pos = i]
     /\ UNCHANGED <<matJournal, matLock, mixed, reapplied, lapses>>

\* Mutant: the journal goes after the first file, the others are not waited for.
ClearMatJournalEarly(m) ==
  /\ mature[m].step \in {"write", "replay"} /\ mature[m].pos > 0
  /\ matJournal' = Without(matJournal, mature[m].batch)
  /\ mature' = [mature EXCEPT ![m].step = IF @ = "write" THEN "load" ELSE "read",
                              ![m].batch = <<>>, ![m].files = <<>>, ![m].pos = 0]
  /\ UNCHANGED <<memory, slotPage, matLock, mixed, reapplied, lapses>>

ClearMatJournal(m) ==
  /\ mature[m].step \in {"write", "replay"} /\ mature[m].pos = Len(mature[m].files)
  /\ matJournal' = Without(matJournal, mature[m].batch)
  /\ mature' = [mature EXCEPT ![m].step = IF @ = "write" THEN "load" ELSE "read",
                              ![m].batch = <<>>, ![m].files = <<>>, ![m].pos = 0]
  /\ UNCHANGED <<memory, slotPage, matLock, mixed, reapplied, lapses>>

-----------------------------------------------------------------------------
\* A crash, and the next consolidation (memory-consolidation.ts).

MaturerDies(m) ==
  /\ ~MatureAt(m, "idle") /\ lapses < MaxLapses
  /\ lapses' = lapses + 1
  /\ matLock' = [l \in MatLocks |-> IF matLock[l] = m THEN "dead" ELSE matLock[l]]
  /\ mature' = [mature EXCEPT ![m] = NoMature]
  /\ UNCHANGED <<maturationFiles, mixed, reapplied>>

Consolidate ==
  /\ night < Nights
  /\ night' = night + 1
  /\ UNCHANGED <<maturationFiles, matLock, mature, mixed, reapplied, works, lapses>>

MaturationNext ==
  \/ /\ UNCHANGED night
     /\ \E m \in Maturers : BeginMature(m) \/ BeginPromote(m)
  \/ /\ UNCHANGED <<night, works>>
     /\ \E m \in Maturers :
          \/ Compile(m) \/ SelectCandidates(m)
          \/ TakeMatLock(m) \/ FindStaleMat(m) \/ RemoveStaleMat(m) \/ MatTimesOut(m)
          \/ ReleaseMatLock(m)
          \/ ListJournals(m) \/ ReadJournal(m) \/ AllRecovered(m) \/ LookForCompleted(m)
          \/ LoadNext(m) \/ NoneLeft(m) \/ BeginJournal(m) \/ EndJournal(m)
          \/ WriteMemory(m) \/ ClearMatJournal(m) \/ MaturerDies(m)
  \/ Consolidate

MaturationSpec == MaturationInit /\ [][MaturationNext]_maturationVars

-----------------------------------------------------------------------------
\* Properties.

MaturationTypeOK ==
  /\ \A b \in DOMAIN matJournal : matJournal[b].torn \in BOOLEAN
  /\ matLock \in [MatLocks -> Maturers \cup {"free", "dead"}]
  /\ \A m \in Maturers : mature[m].step \in MatureSteps
  /\ night \in 0..Nights /\ works \in 0..MaxWorks /\ lapses \in 0..MaxLapses

\* What a disposition says was done is on record: the evidence, the claim about the
\* world, the note in the wiki, the proposal and its ratification, the canonical record
\* of an approval, the queue entry of a deferral, the diagnostic of a refusal.
BatchWhole(b) ==
  LET asks == memory[b].disposition
      proposed == "proposal_for_canon" \in asks
      decision == memory[b].ratification
  IN /\ Stored(b, "evidence")
     /\ asks \cap {"world_update", "wiki_update", "proposal_for_canon"} # {} =>
          Stored(b, "world")
     /\ "wiki_update" \in asks => Stored(b, "note")
     /\ proposed => /\ Stored(b, "proposal") /\ Stored(b, "ratification")
                    /\ \/ b \in reapplied
                       \/ Stored(b, CASE decision = "approved" -> "canon"
                                      [] decision = "deferred" -> "queue"
                                      [] OTHER -> "refusal")

\* However runs, promotions, crashes and replays fall together, every disposition whose
\* journal is gone has all its records, and observations count as matured, and are
\* skipped by all later runs, only when every claim compiled from them was applied
\* (materializeMemoryMaturationBatch, recoverPendingMemoryMaturationJournals,
\* loadCompletedMemoryMaturationObservationRefs).
MaturationWhole ==
  /\ \A b \in DOMAIN memory : Stored(b, "disposition") /\ ~JournalLeft(b) => BatchWhole(b)
  /\ \A b \in Matured : \A i \in DOMAIN b.run : Stored([b EXCEPT !.at = i], "disposition")

\* Autonomous canon travels through proposal and ratification: what is canonical has its
\* evidence, its proposal and an approval on record, never rests on an owner's claim,
\* and as long as runs do not overlap is alone in its slot; the approval of a batch that
\* was applied again over its own canonical record, or over one not yet replayed, is
\* excepted (applyCandidate, canSystemRatify, evaluateCanonicalProposal).
CanonTraceable ==
  \A b \in DOMAIN memory : Stored(b, "canon") =>
    /\ Stored(b, "evidence") /\ Stored(b, "proposal") /\ Stored(b, "ratification")
    /\ memory[b].ratification = "approved" \/ b \in reapplied
    /\ ClaimOf[memory[b].canon.topic].role # "owner"
    /\ ~mixed => CanonOf(memory[b].canon.slot) = {b}
=============================================================================
