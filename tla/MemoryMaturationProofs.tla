-------------------------- MODULE MemoryMaturationProofs --------------------------
(***************************************************************************)
(* Proofs about the maturation of memory for any consolidations, claims,   *)
(* answers and processes, however many runs and promotions overlap, crash  *)
(* and replay each other's journals: what a disposition says was done is   *)
(* on record, observations count as matured when every claim compiled from *)
(* them was applied, and what is canonical can be traced.                  *)
(*                                                                         *)
(* The invariant has three ideas.  Files are only added, and every plan    *)
(* has its files in a good order (Plans, Records).  A batch that nobody    *)
(* applies twice has one plan, which its journal keeps until the files are *)
(* all there, so a verdict never lasts without what goes with it (OnePlan, *)
(* Verdicts).  And while runs do not mix, who plans canon is alone, finds  *)
(* no journal and a free slot (Exclusive, OneJournal, SlotsOwned).         *)
(***************************************************************************)
EXTENDS MemoryMaturation, SequenceTheorems, TLAPS

\* A process holds the plan of a batch: its files, decided or read from a journal.
Planned == {"journal", "torn", "write", "replay"}
Writes == {"write", "replay"}
AtWork(p, b) == mature[p].step \in Planned /\ mature[p].batch = b

\* The batch of a run's record, no claim's.
OfRecord(b) == b.night # 0 /\ b.at \in {0, -1}

Names(files, k) == \E i \in DOMAIN files : files[i][1] = k
Before(files, i, k) == \E j \in 1 .. i - 1 : files[j][1] = k

\* What has to be there for a disposition, and what goes with a verdict.
Needs(asks) ==
  {"evidence"}
    \cup (IF asks \cap {"world_update", "wiki_update", "proposal_for_canon"} # {}
          THEN {"world"} ELSE {})
    \cup (IF "wiki_update" \in asks THEN {"note"} ELSE {})
    \cup (IF "proposal_for_canon" \in asks THEN {"proposal", "ratification"} ELSE {})
Companion(verdict) ==
  CASE verdict = "approved" -> "canon" [] verdict = "deferred" -> "queue" [] OTHER -> "refusal"

\* Whatever the order of a batch's files has to keep.
GoodFiles(files) ==
  /\ Len(files) \in Nat /\ DOMAIN files = 1 .. Len(files)
  /\ \A i \in DOMAIN files :
       /\ files[i][1] = "disposition" => \A k \in Needs(files[i][2]) : Before(files, i, k)
       /\ files[i][1] = "ratification" =>
            /\ Names(files, Companion(files[i][2]))
            /\ \A j \in DOMAIN files : files[j][1] = "ratification" => files[j][2] = files[i][2]
       /\ files[i][1] = "canon" =>
            /\ Before(files, i, "evidence") /\ Before(files, i, "proposal")
            /\ Before(files, i, "ratification")
            /\ \A j \in DOMAIN files : files[j][1] = "ratification" => files[j][2] = "approved"
            /\ ClaimOf[files[i][2].topic].role # "owner"

\* Every claim of the run a record speaks of was applied.
Applied(b) == \A i \in DOMAIN b.run : Stored([b EXCEPT !.at = i], "disposition")

GoodPlan(b, files) ==
  /\ GoodFiles(files)
  /\ OfRecord(b) => \A i \in DOMAIN files : files[i][1] = "matured"
  /\ \A i \in DOMAIN files : files[i][1] = "matured" /\ files[i][2].clean => Applied(b)

-----------------------------------------------------------------------------
\* The inductive invariant.

IsWorker(r) ==
  /\ DOMAIN r = {"step", "phase", "night", "evidence", "clean", "claims", "next", "batch",
                 "files", "pos", "todo"}
  /\ r = [x \in DOMAIN r |-> r[x]]
  /\ r.step \in MatureSteps \ {"idle"} /\ r.phase \in {"mature", "promote"}
  /\ r.night \in MatLocks /\ (r.phase = "mature" => r.night # 0)
  /\ r.clean \in BOOLEAN /\ r.next \in Nat /\ r.next # 0 /\ r.pos \in Nat

Workers ==
  /\ mature = [m \in Maturers |-> mature[m]]
  /\ \A m \in Maturers : mature[m] = NoMature \/ IsWorker(mature[m])
  /\ matLock \in [MatLocks -> Maturers \cup {"free", "dead"}]
  /\ night \in MatLocks /\ works \in 0 .. MaxWorks /\ lapses \in 0 .. MaxLapses

\* The files up to a place are there.
SoFar(b, files, pos) ==
  pos <= Len(files) /\ \A i \in 1 .. pos : files[i][1] # "page" => Stored(b, files[i][1])

\* Plans are good ones, and what a process has written so far is there.
Plans ==
  /\ \A m \in Maturers : mature[m].step \in Planned =>
       /\ GoodPlan(mature[m].batch, mature[m].files)
       /\ mature[m].step \notin Writes => mature[m].pos = 0
       /\ SoFar(mature[m].batch, mature[m].files, mature[m].pos)
  /\ \A b \in DOMAIN matJournal : /\ matJournal[b].torn \in BOOLEAN
                                  /\ ~matJournal[b].torn => GoodPlan(b, matJournal[b].files)

\* Dispositions and canon come after the rest, the record of a run after its claims.
Records ==
  \A b \in DOMAIN memory :
    /\ Stored(b, "disposition") => \A k \in Needs(memory[b].disposition) : Stored(b, k)
    /\ Stored(b, "canon") => /\ Stored(b, "evidence") /\ Stored(b, "proposal")
                             /\ Stored(b, "ratification")
                             /\ ClaimOf[memory[b].canon.topic].role # "owner"
    /\ OfRecord(b) => DOMAIN memory[b] \subseteq {"matured"}
    /\ Stored(b, "matured") /\ memory[b].matured.clean => Applied(b)

\* The claims of a run before the next one have their dispositions, up to the one that
\* is being written.
ClaimBatch(r, i) == [night |-> r.night, run |-> Digest(r.claims), at |-> i]
InOrder(r) ==
  /\ r.step = "compile" => r.next = 1 /\ r.phase = "mature"
  /\ r.step \notin {"idle", "compile", "select", "release"} /\ r.phase = "mature" /\ r.clean =>
       /\ Len(r.claims) \in Nat /\ DOMAIN r.claims = 1 .. Len(r.claims)
       /\ \A i \in DOMAIN r.claims : i < r.next =>
            \/ Stored(ClaimBatch(r, i), "disposition")
            \/ /\ r.step \in {"journal", "torn", "write"} /\ r.batch = ClaimBatch(r, i)
               /\ Names(r.files, "disposition")
AppliesInOrder == \A m \in Maturers : InOrder(mature[m])

\* A batch that was not applied twice has one plan: whoever works at it has the plan its
\* journal has, as long as that is there, and afterwards all its files are.
OnlyPlan(p, b, files) ==
  /\ \A q \in Maturers : AtWork(q, b) => mature[q].files = files
  /\ mature[p].step \notin Writes =>
       ~JournalLeft(b) /\ \A q \in Maturers \ {p} : ~AtWork(q, b)
  /\ mature[p].step \in Writes =>
       IF JournalLeft(b) THEN matJournal[b].files = files
       ELSE \A i \in DOMAIN files : files[i][1] # "page" => Stored(b, files[i][1])
  /\ \A i \in 1 .. mature[p].pos :
       files[i][1] = "ratification" => memory[b].ratification = files[i][2]
OnePlan ==
  \A p \in Maturers :
    /\ mature[p].step \in Planned
    /\ mature[p].batch \notin reapplied /\ ~OfRecord(mature[p].batch)
    => OnlyPlan(p, mature[p].batch, mature[p].files)

Approving(files) == \A i \in DOMAIN files : files[i][1] = "ratification" => files[i][2] = "approved"

\* What a verdict comes with is there or in a journal; what is canonical stays approved.
Verdicts ==
  \A b \in DOMAIN memory :
    b \notin reapplied =>
      /\ Stored(b, "ratification") =>
           \/ Stored(b, Companion(memory[b].ratification))
           \/ JournalLeft(b) /\ Names(matJournal[b].files, "ratification")
      /\ Stored(b, "canon") =>
           /\ memory[b].ratification = "approved"
           /\ JournalLeft(b) => Approving(matJournal[b].files)
           /\ \A p \in Maturers : AtWork(p, b) => Approving(mature[p].files)

\* Of processes that do not mix one at a time works, under its locks,
UnderLocks == {"list", "read", "look", "load", "release"} \cup Planned
Entitled(m) ==
  /\ mature[m].step \in UnderLocks => matLock[LockOf(m)] = m
  /\ mature[m].step \in {"lock", "unlock"} \cup UnderLocks /\ mature[m].phase = "promote" =>
       mature[m].night = 0 \/ matLock[mature[m].night] = m
  /\ mature[m].step = "select" =>
       \/ mature[m].night = 0
       \/ mature[m].phase = "mature" /\ matLock[mature[m].night] = m
Exclusive ==
  /\ \A p, q \in Maturers : Holding(p) /\ Holding(q) => p = q
  /\ \A m \in Maturers : Entitled(m)

\* with no journal but that of the batch in hand,
OnlyItsOwn(m) ==
  /\ mature[m].step \in {"look", "load", "journal"} => DOMAIN matJournal = {}
  /\ mature[m].step \in {"torn", "write", "replay"} => DOMAIN matJournal = {mature[m].batch}
  /\ mature[m].step = "read" => DOMAIN matJournal \subseteq mature[m].todo
OneJournal ==
  /\ \A b, c \in DOMAIN matJournal : b = c
  /\ \A m \in Maturers : OnlyItsOwn(m)

\* and plans canon only for a slot that no other batch holds.
Vacant(b, files) ==
  \A i \in DOMAIN files : files[i][1] = "canon" => CanonOf(files[i][2].slot) \subseteq {b}
SlotsOwned ==
  /\ \A b, c \in DOMAIN memory :
       Stored(b, "canon") /\ Stored(c, "canon") /\ memory[b].canon.slot = memory[c].canon.slot
         => b = c
  /\ \A m \in Maturers :
       mature[m].step \in Planned => Vacant(mature[m].batch, mature[m].files)
  /\ \A b \in DOMAIN matJournal : ~matJournal[b].torn => Vacant(b, matJournal[b].files)

FileInv == Plans /\ Records /\ AppliesInOrder /\ OnePlan /\ Verdicts
AloneInv == Exclusive /\ OneJournal /\ SlotsOwned
MaturationInv == Workers /\ FileInv /\ (~mixed => AloneInv)

-----------------------------------------------------------------------------
\* The files of a batch.

LEMMA FilesAre ==
  ASSUME NEW files, GoodFiles(files)
  PROVE  Len(files) \in Nat /\ DOMAIN files = 1 .. Len(files)
BY DEF GoodFiles

\* Two sequences of files joined.
LEMMA KindsOfJoin ==
  ASSUME NEW S, NEW s \in Seq(S), NEW t \in Seq(S)
  PROVE  /\ s \o t \in Seq(S) /\ Len(s \o t) = Len(s) + Len(t)
         /\ Len(s) \in Nat /\ Len(t) \in Nat /\ DOMAIN (s \o t) = 1 .. Len(s \o t)
         /\ \A i \in 1 .. Len(s) : (s \o t)[i] = s[i]
         /\ \A i \in 1 .. Len(s \o t) : i > Len(s) => /\ i - Len(s) \in 1 .. Len(t)
                                                      /\ (s \o t)[i] = t[i - Len(s)]
         /\ \A k : Names(s, k) \/ Names(t, k) => Names(s \o t, k)
         /\ \A i \in 1 .. Len(s) : \A k : Before(s, i, k) => Before(s \o t, i, k)
         /\ \A i \in 1 .. Len(t) : \A k : Names(s, k) \/ Before(t, i, k) => Before(s \o t, Len(s) + i, k)
<1> DEFINE u == s \o t
<1>1. /\ u \in Seq(S) /\ Len(u) = Len(s) + Len(t)
      /\ \A i \in 1 .. Len(s) : u[i] = s[i]
      /\ \A i \in 1 .. Len(u) : i > Len(s) => u[i] = t[i - Len(s)]
  BY ConcatProperties
<1>2. /\ Len(s) \in Nat /\ Len(t) \in Nat /\ DOMAIN s = 1 .. Len(s) /\ DOMAIN t = 1 .. Len(t)
      /\ DOMAIN u = 1 .. Len(u)
  BY <1>1, LenProperties
<1> HIDE DEF u
<1>3. \A i \in 1 .. Len(t) : Len(s) + i \in 1 .. Len(u) /\ u[Len(s) + i] = t[i]
  <2> TAKE i \in 1 .. Len(t)
  <2> DEFINE j == Len(s) + i
  <2>1. j \in 1 .. Len(u) /\ j > Len(s) /\ j - Len(s) = i
    BY <1>1, <1>2
  <2> HIDE DEF j
  <2>2. u[j] = t[i]
    BY <1>1, <2>1
  <2> QED BY <2>1, <2>2 DEF j
<1>4. \A i \in 1 .. Len(u) : i > Len(s) => i - Len(s) \in 1 .. Len(t)
  BY <1>1, <1>2
<1>5. ASSUME NEW k, Names(s, k) \/ Names(t, k)
      PROVE  Names(u, k)
  <2>1. CASE Names(s, k)
    BY <1>1, <1>2, <2>1 DEF Names
  <2>2. CASE Names(t, k)
    BY <1>2, <1>3, <2>2 DEF Names
  <2> QED BY <1>5, <2>1, <2>2
<1>6. ASSUME NEW i \in 1 .. Len(s), NEW k, Before(s, i, k)
      PROVE  Before(u, i, k)
  BY <1>1, <1>2, <1>6 DEF Before
<1>7. ASSUME NEW i \in 1 .. Len(t), NEW k, Names(s, k) \/ Before(t, i, k)
      PROVE  Before(u, Len(s) + i, k)
  <2>1. CASE Names(s, k)
    BY <1>1, <1>2, <2>1 DEF Names, Before
  <2>2. CASE Before(t, i, k)
    <3>1. PICK j \in 1 .. i - 1 : t[j][1] = k
      BY <2>2 DEF Before
    <3>2. /\ Len(s) + j \in 1 .. (Len(s) + i) - 1 /\ u[Len(s) + j] = t[j]
      BY <1>2, <1>3
    <3> QED BY <3>1, <3>2 DEF Before
  <2> QED BY <1>7, <2>1, <2>2
<1> QED BY <1>1, <1>2, <1>3, <1>4, <1>5, <1>6, <1>7 DEF u

\* Short sequences joined.
LEMMA ShortJoins ==
  ASSUME NEW a, NEW b, NEW c, NEW d
  PROVE  /\ <<a, b>> \o <<>> = <<a, b>>
         /\ <<a, b>> \o <<c>> = <<a, b, c>>
         /\ <<a, b, c>> \o <<>> = <<a, b, c>>
         /\ <<a, b, c>> \o <<d>> = <<a, b, c, d>>
<1> DEFINE S == {a, b, c, d}
<1>1. /\ <<a, b>> \in Seq(S) /\ <<a, b, c>> \in Seq(S) /\ <<a, b, c, d>> \in Seq(S)
      /\ <<c>> \in Seq(S) /\ <<d>> \in Seq(S)
  OBVIOUS
<1>2. <<a, b>> \o <<>> = <<a, b>> /\ <<a, b, c>> \o <<>> = <<a, b, c>>
  BY <1>1, ConcatEmptySeq
<1>3. <<a, b>> \o <<c>> = <<a, b, c>>
  <2> DEFINE u == <<a, b>> \o <<c>>
  <2>1. u \in Seq(S) /\ Len(u) = 3 /\ u[1] = a /\ u[2] = b /\ u[3] = c
    BY <1>1, ConcatProperties
  <2> HIDE DEF u, S
  <2>2. \A i \in 1 .. Len(u) : u[i] = <<a, b, c>>[i]
    BY <2>1
  <2> QED BY <1>1, <2>1, <2>2, SeqEqual DEF u
<1>4. <<a, b, c>> \o <<d>> = <<a, b, c, d>>
  <2> DEFINE u == <<a, b, c>> \o <<d>>
  <2>1. u \in Seq(S) /\ Len(u) = 4 /\ u[1] = a /\ u[2] = b /\ u[3] = c /\ u[4] = d
    BY <1>1, ConcatProperties
  <2> HIDE DEF u, S
  <2>2. \A i \in 1 .. Len(u) : u[i] = <<a, b, c, d>>[i]
    BY <2>1
  <2> QED BY <1>1, <2>1, <2>2, SeqEqual DEF u
<1> QED BY <1>2, <1>3, <1>4

\* What a proposal adds to a batch.
LEMMA ProposalPart ==
  ASSUME NEW x, NEW v \in {"approved", "deferred", "rejected"}
  PROVE  LET p == ProposalFiles(x, v)
         IN /\ p[1] = <<"proposal", x.topic>> /\ p[2] = <<"ratification", v>>
            /\ v = "approved" => /\ Len(p) = 3 /\ p[3][1] = "canon"
                                 /\ p[3][2].slot = ClaimOf[x.topic].slot
                                 /\ p[3][2].topic = x.topic
            /\ v = "deferred" => Len(p) = 4 /\ p[3][1] = "refusal" /\ p[4][1] = "queue"
            /\ v = "rejected" => Len(p) = 3 /\ p[3][1] = "refusal"
            /\ p \in Seq({p[1], p[2], p[3], p[4]})
<1> DEFINE p == ProposalFiles(x, v)
           e1 == <<"proposal", x.topic>>
           e2 == <<"ratification", v>>
           refusal == <<"refusal", v>>
           queue == <<"queue", ClaimOf[x.topic].slot>>
           c == [slot |-> ClaimOf[x.topic].slot, topic |-> x.topic,
                 active |-> ClaimOf[x.topic].state # "disputed"]
           canon == <<"canon", c>>
<1>1. /\ v = "approved" => p = (<<e1, e2>> \o <<>>) \o <<canon>>
      /\ v = "deferred" => p = (<<e1, e2>> \o <<refusal>>) \o <<queue>>
      /\ v = "rejected" => p = (<<e1, e2>> \o <<refusal>>) \o <<>>
  BY DEF ProposalFiles
<1>2. /\ e1 = <<"proposal", x.topic>> /\ e2 = <<"ratification", v>> /\ refusal[1] = "refusal"
      /\ queue[1] = "queue" /\ canon[1] = "canon" /\ canon[2].slot = ClaimOf[x.topic].slot
      /\ canon[2].topic = x.topic
  OBVIOUS
<1> HIDE DEF p, e1, e2, refusal, queue, canon, c
<1>3. CASE v = "approved"
  <2>1. p = <<e1, e2, canon>>
    BY <1>1, <1>3, ShortJoins
  <2> QED BY <1>2, <1>3, <2>1 DEF p
<1>4. CASE v = "deferred"
  <2>1. p = <<e1, e2, refusal>> \o <<queue>>
    BY <1>1, <1>4, ShortJoins
  <2>2. p = <<e1, e2, refusal, queue>>
    BY <2>1, ShortJoins
  <2>3. Len(p) = 4 /\ p[1] = e1 /\ p[2] = e2 /\ p[3] = refusal /\ p[4] = queue
    BY <2>2
  <2>4. p \in Seq({p[1], p[2], p[3], p[4]})
    BY <2>2, <2>3
  <2> QED BY <1>2, <1>4, <2>3, <2>4 DEF p
<1>5. CASE v = "rejected"
  <2>1. p = <<e1, e2, refusal>>
    BY <1>1, <1>5, ShortJoins
  <2> QED BY <1>2, <1>5, <2>1 DEF p
<1> QED BY <1>3, <1>4, <1>5

\* The files of a claim's batch.
LEMMA BatchFilesGood ==
  ASSUME NEW b, NEW x
  PROVE  LET f == BatchFiles(b, x)
         IN /\ GoodFiles(f) /\ Names(f, "disposition")
            /\ \A i \in DOMAIN f : /\ f[i][1] # "matured"
                                   /\ f[i][1] = "canon" => CanonOf(f[i][2].slot) = {}
<1> DEFINE asked(d) == d \in x.asks
           v == Verdict(x)
           tells == asked("world_update") \/ asked("wiki_update") \/ asked("proposal_for_canon")
           slot == ClaimOf[x.topic].slot
           evidence == <<"evidence", x.topic>>
           world == <<"world", x.topic>>
           page == <<"page", [slot |-> slot, lists |-> slotPage[slot].lists \cup {b}]>>
           note == <<"note", slot>>
           diagnostic == <<"diagnostic", x.topic>>
           disposition == <<"disposition", x.asks>>
           A == <<evidence>>
           W == IF tells THEN <<world>> ELSE <<>>
           K == IF asked("wiki_update") THEN <<page, note>> ELSE <<>>
           p == ProposalFiles(x, v)
           P == IF asked("proposal_for_canon") THEN p ELSE <<>>
           C == (IF asked("diagnostic_only") THEN <<diagnostic>> ELSE <<>>) \o <<disposition>>
           S == {evidence, world, page, note, diagnostic, disposition, p[1], p[2], p[3], p[4]}
           f1 == A \o W
           f2 == f1 \o K
           f3 == f2 \o P
           f == f3 \o C
<1>1. BatchFiles(b, x) = f
  BY DEF BatchFiles, WikiFiles, ClosingFiles
<1>2. v \in {"approved", "deferred", "rejected"}
  BY DEF Verdict
<1>3. v = "approved" => CanonOf(slot) = {} /\ ClaimOf[x.topic].role # "owner"
  BY DEF Verdict, SystemRatifies
<1> HIDE DEF v
<1>4. /\ p[1] = <<"proposal", x.topic>> /\ p[2] = <<"ratification", v>>
      /\ v = "approved" => /\ Len(p) = 3 /\ p[3][1] = "canon" /\ p[3][2].slot = slot
                           /\ p[3][2].topic = x.topic
      /\ v = "deferred" => Len(p) = 4 /\ p[3][1] = "refusal" /\ p[4][1] = "queue"
      /\ v = "rejected" => Len(p) = 3 /\ p[3][1] = "refusal"
      /\ p \in Seq({p[1], p[2], p[3], p[4]})
  BY <1>2, ProposalPart
<1>5. /\ evidence[1] = "evidence" /\ world[1] = "world" /\ page[1] = "page" /\ note[1] = "note"
      /\ diagnostic[1] = "diagnostic" /\ disposition[1] = "disposition"
      /\ disposition[2] = x.asks
  OBVIOUS
<1> HIDE DEF slot, evidence, world, page, note, diagnostic, disposition, p
<1>6. A \in Seq(S) /\ Len(A) = 1 /\ A[1] = evidence
  OBVIOUS
<1>7. W \in Seq(S) /\ IF tells THEN Len(W) = 1 /\ W[1] = world ELSE Len(W) = 0
  <2>1. <<world>> \in Seq(S) /\ <<>> \in Seq(S)
    OBVIOUS
  <2> QED BY <2>1
<1>8. K \in Seq(S) /\ IF asked("wiki_update") THEN Len(K) = 2 /\ K[1] = page /\ K[2] = note
                      ELSE Len(K) = 0
  <2>1. <<page, note>> \in Seq(S) /\ <<>> \in Seq(S)
    OBVIOUS
  <2> QED BY <2>1
<1>9. P \in Seq(S) /\ IF asked("proposal_for_canon") THEN P = p ELSE Len(P) = 0
  <2>1. p \in Seq(S)
    BY <1>4, SeqMonotonic, {p[1], p[2], p[3], p[4]} \subseteq S
  <2> QED BY <2>1
<1>10. /\ C \in Seq(S) /\ Len(C) \in {1, 2} /\ C[Len(C)] = disposition
       /\ Len(C) = 2 => C[1] = diagnostic
  <2>1. <<>> \o <<disposition>> = <<disposition>>
    BY ConcatEmptySeq, <<disposition>> \in Seq({disposition})
  <2>2. CASE asked("diagnostic_only")
    <3> DEFINE c == <<diagnostic>> \o <<disposition>>
    <3>1. <<diagnostic>> \in Seq(S) /\ <<disposition>> \in Seq(S)
      OBVIOUS
    <3>2. c \in Seq(S) /\ Len(c) = 2 /\ c[1] = diagnostic /\ c[2] = disposition
      BY <3>1, ConcatProperties
    <3> QED BY <2>2, <3>2
  <2>3. CASE ~asked("diagnostic_only")
    BY <2>1, <2>3
  <2> QED BY <2>2, <2>3
<1> HIDE DEF S, A, W, K, P, C
<1>11. /\ f1 \in Seq(S) /\ Len(f1) \in Nat /\ DOMAIN f1 = 1 .. Len(f1)
       /\ Names(f1, "evidence") /\ (tells => Names(f1, "world"))
       /\ \A i \in 1 .. Len(f1) : f1[i][1] \in {"evidence", "world"}
  <2>1. /\ DOMAIN A = 1 .. Len(A) /\ DOMAIN W = 1 .. Len(W)
        /\ Names(A, "evidence") /\ (tells => Names(W, "world"))
    BY <1>5, <1>6, <1>7, LenProperties DEF Names
  <2>2. \A i \in 1 .. Len(f1) : IF i <= Len(A) THEN f1[i] = A[i]
                                ELSE i - Len(A) \in 1 .. Len(W) /\ f1[i] = W[i - Len(A)]
    BY <1>6, <1>7, KindsOfJoin
  <2>3. f1 \in Seq(S) /\ Len(f1) = Len(A) + Len(W) /\ DOMAIN f1 = 1 .. Len(f1)
    BY <1>6, <1>7, KindsOfJoin
  <2>4. Names(f1, "evidence") /\ (tells => Names(f1, "world"))
    BY <1>6, <1>7, <2>1, KindsOfJoin
  <2>5. ASSUME NEW i \in 1 .. Len(f1)
        PROVE  f1[i][1] \in {"evidence", "world"}
    BY <1>5, <1>6, <1>7, <2>2, <2>3
  <2> QED BY <1>6, <1>7, <2>3, <2>4, <2>5
<1> HIDE DEF f1
<1>12. /\ f2 \in Seq(S) /\ Len(f2) \in Nat /\ DOMAIN f2 = 1 .. Len(f2)
       /\ Names(f2, "evidence") /\ (tells => Names(f2, "world"))
       /\ asked("wiki_update") => Names(f2, "note")
       /\ \A i \in 1 .. Len(f2) : f2[i][1] \in {"evidence", "world", "page", "note"}
  <2>1. DOMAIN K = 1 .. Len(K) /\ (asked("wiki_update") => Names(K, "note"))
    BY <1>5, <1>8, LenProperties DEF Names
  <2>2. \A i \in 1 .. Len(f2) : IF i <= Len(f1) THEN f2[i] = f1[i]
                                ELSE i - Len(f1) \in 1 .. Len(K) /\ f2[i] = K[i - Len(f1)]
    BY <1>8, <1>11, KindsOfJoin
  <2>3. f2 \in Seq(S) /\ Len(f2) = Len(f1) + Len(K) /\ DOMAIN f2 = 1 .. Len(f2)
    BY <1>8, <1>11, KindsOfJoin
  <2>4. /\ Names(f2, "evidence") /\ (tells => Names(f2, "world"))
        /\ asked("wiki_update") => Names(f2, "note")
    BY <1>8, <1>11, <2>1, KindsOfJoin
  <2>5. ASSUME NEW i \in 1 .. Len(f2)
        PROVE  f2[i][1] \in {"evidence", "world", "page", "note"}
    BY <1>5, <1>8, <1>11, <2>2, <2>3
  <2> QED BY <1>8, <1>11, <2>3, <2>4, <2>5
<1> HIDE DEF f2
<1>13. /\ f3 \in Seq(S) /\ Len(f3) \in Nat /\ DOMAIN f3 = 1 .. Len(f3)
       /\ Names(f3, "evidence") /\ (tells => Names(f3, "world"))
       /\ asked("wiki_update") => Names(f3, "note")
       /\ asked("proposal_for_canon") =>
            Names(f3, "proposal") /\ Names(f3, "ratification") /\ Names(f3, Companion(v))
       /\ \A i \in 1 .. Len(f3) :
            /\ f3[i][1] \notin {"disposition", "matured"}
            /\ f3[i][1] = "ratification" => asked("proposal_for_canon") /\ f3[i][2] = v
            /\ f3[i][1] = "canon" => /\ v = "approved" /\ f3[i][2].slot = slot
                                     /\ f3[i][2].topic = x.topic
                                     /\ Before(f3, i, "evidence") /\ Before(f3, i, "proposal")
                                     /\ Before(f3, i, "ratification")
  <2>1. CASE asked("proposal_for_canon")
    <3>1. /\ DOMAIN P = 1 .. Len(P) /\ Len(P) \in {3, 4} /\ Names(P, "proposal")
          /\ Names(P, "ratification") /\ Names(P, Companion(v))
      BY <1>2, <1>4, <1>9, <2>1, LenProperties DEF Names, Companion
    <3>2. \A i \in 1 .. Len(f3) : IF i <= Len(f2) THEN f3[i] = f2[i]
                                  ELSE i - Len(f2) \in 1 .. Len(P) /\ f3[i] = P[i - Len(f2)]
      BY <1>9, <1>12, KindsOfJoin
    <3>3. f3 \in Seq(S) /\ Len(f3) = Len(f2) + Len(P) /\ DOMAIN f3 = 1 .. Len(f3)
      BY <1>9, <1>12, KindsOfJoin
    <3>4. /\ Names(f3, "evidence") /\ (tells => Names(f3, "world"))
          /\ asked("wiki_update") => Names(f3, "note")
          /\ Names(f3, "proposal") /\ Names(f3, "ratification") /\ Names(f3, Companion(v))
      BY <1>9, <1>12, <3>1, KindsOfJoin
    <3>5. \A i \in 1 .. Len(P) :
            /\ P[i][1] \in {"proposal", "ratification", "canon", "refusal", "queue"}
            /\ P[i][1] = "ratification" => P[i][2] = v
            /\ P[i][1] = "canon" => /\ v = "approved" /\ P[i][2].slot = slot
                                    /\ P[i][2].topic = x.topic
                                    /\ Before(P, i, "proposal") /\ Before(P, i, "ratification")
      BY <1>2, <1>4, <1>9, <2>1 DEF Before
    <3>6. ASSUME NEW i \in 1 .. Len(f3)
          PROVE  /\ f3[i][1] \notin {"disposition", "matured"}
                 /\ f3[i][1] = "ratification" => f3[i][2] = v
                 /\ f3[i][1] = "canon" => /\ v = "approved" /\ f3[i][2].slot = slot
                                          /\ f3[i][2].topic = x.topic
                                          /\ Before(f3, i, "evidence") /\ Before(f3, i, "proposal")
                                          /\ Before(f3, i, "ratification")
      <4>1. CASE i <= Len(f2)
        BY <1>12, <3>2, <4>1
      <4>2. CASE ~(i <= Len(f2))
        <5> DEFINE j == i - Len(f2)
        <5>1. j \in 1 .. Len(P) /\ f3[i] = P[j] /\ Len(f2) + j = i
          BY <1>12, <3>2, <3>3, <4>2
        <5> HIDE DEF j
        <5>2. \A k : Names(f2, k) \/ Before(P, j, k) => Before(f3, i, k)
          BY <1>9, <1>12, <5>1, KindsOfJoin
        <5> QED BY <1>12, <3>5, <5>1, <5>2
      <4> QED BY <4>1, <4>2
    <3> QED BY <1>9, <1>12, <2>1, <3>1, <3>3, <3>4, <3>6
  <2>2. CASE ~asked("proposal_for_canon")
    <3>1. P = <<>>
      BY <2>2 DEF P
    <3>2. f3 = f2
      BY <1>12, <3>1, ConcatEmptySeq
    <3> QED BY <1>12, <2>2, <3>2
  <2> QED BY <2>1, <2>2
<1> HIDE DEF f3
<1>14. f \in Seq(S) /\ Len(f) = Len(f3) + Len(C) /\ DOMAIN f = 1 .. Len(f) /\ Len(f) \in Nat
  BY <1>10, <1>13, KindsOfJoin
<1>15. DOMAIN C = 1 .. Len(C) /\ Names(C, "disposition")
  BY <1>5, <1>10, LenProperties DEF Names
<1>16. /\ \A k : Names(f3, k) => Names(f, k)
       /\ Names(f, "disposition")
  BY <1>10, <1>13, <1>15, KindsOfJoin
<1>17. \A k \in Needs(x.asks) : Names(f3, k)
  BY <1>13 DEF Needs
<1>18. ASSUME NEW i \in 1 .. Len(f)
       PROVE  /\ f[i][1] # "matured"
              /\ f[i][1] = "disposition" => /\ f[i][2] = x.asks
                                            /\ \A k \in Needs(x.asks) : Before(f, i, k)
              /\ f[i][1] = "ratification" => asked("proposal_for_canon") /\ f[i][2] = v
              /\ f[i][1] = "canon" => /\ v = "approved" /\ f[i][2].slot = slot
                                      /\ f[i][2].topic = x.topic
                                      /\ Before(f, i, "evidence") /\ Before(f, i, "proposal")
                                      /\ Before(f, i, "ratification")
  <2>1. CASE i <= Len(f3)
    <3>1. i \in 1 .. Len(f3) /\ f[i] = f3[i] /\ \A k : Before(f3, i, k) => Before(f, i, k)
      BY <1>10, <1>13, <2>1, KindsOfJoin
    <3> QED BY <1>13, <3>1
  <2>2. CASE ~(i <= Len(f3))
    <3> DEFINE j == i - Len(f3)
    <3>1. j \in 1 .. Len(C) /\ f[i] = C[j] /\ Len(f3) + j = i
      BY <1>10, <1>13, <1>14, <2>2, KindsOfJoin
    <3> HIDE DEF j
    <3>2. \A k : Names(f3, k) => Before(f, i, k)
      BY <1>10, <1>13, <3>1, KindsOfJoin
    <3>3. f[i] \in {diagnostic, disposition}
      BY <1>10, <3>1
    <3> QED BY <1>5, <1>17, <3>2, <3>3
  <2> QED BY <2>1, <2>2
<1> HIDE DEF f
<1>19. GoodFiles(f)
  <2>1. ASSUME NEW i \in DOMAIN f, f[i][1] = "disposition"
        PROVE  \A k \in Needs(f[i][2]) : Before(f, i, k)
    BY <1>14, <1>18, <2>1
  <2>2. ASSUME NEW i \in DOMAIN f, f[i][1] = "ratification"
        PROVE  /\ Names(f, Companion(f[i][2]))
               /\ \A j \in DOMAIN f : f[j][1] = "ratification" => f[j][2] = f[i][2]
    BY <1>13, <1>14, <1>16, <1>18, <2>2
  <2>3. ASSUME NEW i \in DOMAIN f, f[i][1] = "canon"
        PROVE  /\ Before(f, i, "evidence") /\ Before(f, i, "proposal")
               /\ Before(f, i, "ratification")
               /\ \A j \in DOMAIN f : f[j][1] = "ratification" => f[j][2] = "approved"
               /\ ClaimOf[f[i][2].topic].role # "owner"
    BY <1>3, <1>14, <1>18, <2>3
  <2> QED BY <1>14, <2>1, <2>2, <2>3 DEF GoodFiles
<1>20. \A i \in DOMAIN f : /\ f[i][1] # "matured"
                           /\ f[i][1] = "canon" => CanonOf(f[i][2].slot) = {}
  BY <1>3, <1>14, <1>18
<1> QED BY <1>1, <1>16, <1>19, <1>20

-----------------------------------------------------------------------------
\* What a step does to the processes.

\* One process goes on, the others stay.
LEMMA OneGoes ==
  ASSUME Workers, NEW m \in Maturers, NEW r, mature' = [mature EXCEPT ![m] = r]
  PROVE  /\ mature' = [p \in Maturers |-> mature'[p]]
         /\ mature'[m] = r /\ \A p \in Maturers \ {m} : mature'[p] = mature[p]
BY DEF Workers

Others(m) == /\ mature' = [p \in Maturers |-> mature'[p]]
             /\ \A p \in Maturers \ {m} : mature'[p] = mature[p]
SameRun(r, q) == /\ q.phase = r.phase /\ q.night = r.night /\ q.clean = r.clean
                 /\ q.claims = r.claims /\ q.evidence = r.evidence

LEMMA BusyIsWorker ==
  ASSUME Workers, NEW m \in Maturers
  PROVE  /\ mature[m].step # "idle" => IsWorker(mature[m])
         /\ mature[m].step = "idle" => mature[m] = NoMature
BY DEF Workers, IsWorker, NoMature

MatureInside == MatureSteps \ {"idle"}

\* Only the step of a process changes.
LEMMA StepGoes ==
  ASSUME Workers, NEW m \in Maturers, mature[m].step # "idle",
         NEW st \in MatureInside, MatureGo(m, st)
  PROVE  LET r == mature[m]
             q == mature'[m]
         IN IsWorker(q) /\ Others(m) /\ q.step = st /\ SameRun(r, q)
            /\ q.next = r.next /\ q.batch = r.batch
            /\ q.files = r.files /\ q.pos = r.pos /\ q.todo = r.todo
<1> DEFINE r == mature[m]
           q == [r EXCEPT !.step = st]
<1>1. IsWorker(r)
  BY BusyIsWorker
<1>2. mature' = [mature EXCEPT ![m] = q]
  BY DEF Workers, MatureGo
<1>3. mature'[m] = q /\ Others(m)
  BY <1>2, OneGoes DEF Others
<1> HIDE DEF r
<1>4. IsWorker(q) /\ q.step = st /\ SameRun(r, q)
            /\ q.next = r.next /\ q.batch = r.batch
            /\ q.files = r.files /\ q.pos = r.pos /\ q.todo = r.todo
  BY <1>1 DEF IsWorker, SameRun, MatureInside
<1> HIDE DEF q
<1> QED BY <1>3, <1>4 DEF r

\* The journals are listed.
LEMMA ListGoes ==
  ASSUME Workers, NEW m \in Maturers, mature[m].step # "idle", NEW todo,
         mature' = [mature EXCEPT ![m].step = "read", ![m].todo = todo]
  PROVE  LET r == mature[m]
             q == mature'[m]
         IN IsWorker(q) /\ Others(m) /\ q.step = "read" /\ SameRun(r, q)
            /\ q.next = r.next /\ q.batch = r.batch
            /\ q.files = r.files /\ q.pos = r.pos /\ q.todo = todo
<1> DEFINE r == mature[m]
           q == [r EXCEPT !.step = "read", !.todo = todo]
<1>1. IsWorker(r)
  BY BusyIsWorker
<1>2. mature' = [mature EXCEPT ![m] = q]
  BY DEF Workers
<1>3. mature'[m] = q /\ Others(m)
  BY <1>2, OneGoes DEF Others
<1> HIDE DEF r
<1>4. IsWorker(q) /\ q.step = "read" /\ SameRun(r, q)
            /\ q.next = r.next /\ q.batch = r.batch
            /\ q.files = r.files /\ q.pos = r.pos /\ q.todo = todo
  BY <1>1 DEF IsWorker, SameRun, MatureSteps
<1> QED BY <1>3, <1>4 DEF r

\* A journal is read.
Replays(m, b, files) ==
  mature' = [mature EXCEPT ![m].step = "replay", ![m].batch = b, ![m].files = files,
                           ![m].pos = 0, ![m].todo = @ \ {b}]

LEMMA ReplayGoes ==
  ASSUME Workers, NEW m \in Maturers, mature[m].step # "idle", NEW b, NEW files,
         Replays(m, b, files)
  PROVE  LET r == mature[m]
             q == mature'[m]
         IN IsWorker(q) /\ Others(m) /\ q.step = "replay" /\ SameRun(r, q)
            /\ q.next = r.next /\ q.batch = b /\ q.files = files /\ q.pos = 0 /\ q.todo = r.todo \ {b}
<1> DEFINE r == mature[m]
           q == [r EXCEPT !.step = "replay", !.batch = b, !.files = files, !.pos = 0, !.todo = @ \ {b}]
<1>1. IsWorker(r)
  BY BusyIsWorker
<1>2. mature' = [mature EXCEPT ![m] = q]
  BY DEF Workers, Replays
<1>3. mature'[m] = q /\ Others(m)
  BY <1>2, OneGoes DEF Others
<1> HIDE DEF r
<1>4. IsWorker(q) /\ q.step = "replay" /\ SameRun(r, q)
            /\ q.next = r.next /\ q.batch = b /\ q.files = files /\ q.pos = 0 /\ q.todo = r.todo \ {b}
  BY <1>1 DEF IsWorker, SameRun, MatureSteps
<1> QED BY <1>3, <1>4 DEF r

\* The files of a batch are decided.
TakesPlan(m, b, files) ==
  mature' = [mature EXCEPT ![m].step = "journal", ![m].next = mature[m].next + 1,
                           ![m].batch = b, ![m].pos = 0, ![m].files = files]

LEMMA PlanGoes ==
  ASSUME Workers, NEW m \in Maturers, mature[m].step # "idle", NEW b, NEW files,
         TakesPlan(m, b, files)
  PROVE  LET r == mature[m]
             q == mature'[m]
         IN IsWorker(q) /\ Others(m) /\ q.step = "journal" /\ SameRun(r, q)
            /\ q.next = r.next + 1 /\ q.batch = b /\ q.files = files /\ q.pos = 0 /\ q.todo = r.todo
<1> DEFINE r == mature[m]
           n == r.next + 1
           q == [r EXCEPT !.step = "journal", !.next = n, !.batch = b, !.pos = 0, !.files = files]
<1>1. IsWorker(r) /\ n \in Nat /\ n # 0
  <2>1. IsWorker(r)
    BY BusyIsWorker
  <2> QED BY <2>1 DEF IsWorker
<1>2. mature' = [mature EXCEPT ![m] = q]
  BY DEF Workers, TakesPlan
<1>3. mature'[m] = q /\ Others(m)
  BY <1>2, OneGoes DEF Others
<1> HIDE DEF r
<1>4. IsWorker(q) /\ q.step = "journal" /\ SameRun(r, q)
            /\ q.next = r.next + 1 /\ q.batch = b /\ q.files = files /\ q.pos = 0 /\ q.todo = r.todo
  BY <1>1 DEF IsWorker, SameRun, MatureSteps
<1> QED BY <1>3, <1>4 DEF r

\* A file is written.
LEMMA WriteGoes ==
  ASSUME Workers, NEW m \in Maturers, mature[m].step # "idle", NEW i \in Nat,
         mature' = [mature EXCEPT ![m].pos = i]
  PROVE  LET r == mature[m]
             q == mature'[m]
         IN IsWorker(q) /\ Others(m) /\ q.step = r.step /\ SameRun(r, q)
            /\ q.next = r.next /\ q.batch = r.batch /\ q.files = r.files /\ q.pos = i /\ q.todo = r.todo
<1> DEFINE r == mature[m]
           q == [r EXCEPT !.pos = i]
<1>1. IsWorker(r)
  BY BusyIsWorker
<1>2. mature' = [mature EXCEPT ![m] = q]
  BY DEF Workers
<1>3. mature'[m] = q /\ Others(m)
  BY <1>2, OneGoes DEF Others
<1> HIDE DEF r
<1>4. IsWorker(q) /\ q.step = r.step /\ SameRun(r, q)
            /\ q.next = r.next /\ q.batch = r.batch /\ q.files = r.files /\ q.pos = i /\ q.todo = r.todo
  BY <1>1 DEF IsWorker, SameRun
<1> HIDE DEF q
<1> QED BY <1>3, <1>4 DEF r

\* A journal is removed.
LEMMA ClearGoes ==
  ASSUME Workers, NEW m \in Maturers, mature[m].step # "idle", ClearMatJournal(m)
  PROVE  LET r == mature[m]
             q == mature'[m]
         IN IsWorker(q) /\ Others(m) /\ SameRun(r, q) /\ q.next = r.next
            /\ q.step = (IF r.step = "write" THEN "load" ELSE "read")
            /\ q.batch = <<>> /\ q.files = <<>> /\ q.pos = 0 /\ q.todo = r.todo
<1> DEFINE r == mature[m]
           q == [r EXCEPT !.step = IF @ = "write" THEN "load" ELSE "read",
                      !.batch = <<>>, !.files = <<>>, !.pos = 0]
<1>1. IsWorker(r)
  BY BusyIsWorker
<1>2. mature' = [mature EXCEPT ![m] = q]
  BY DEF Workers, ClearMatJournal
<1>3. mature'[m] = q /\ Others(m)
  BY <1>2, OneGoes DEF Others
<1> HIDE DEF r
<1>4. IsWorker(q) /\ SameRun(r, q) /\ q.next = r.next
            /\ q.step = (IF r.step = "write" THEN "load" ELSE "read")
            /\ q.batch = <<>> /\ q.files = <<>> /\ q.pos = 0 /\ q.todo = r.todo
  BY <1>1 DEF IsWorker, SameRun, MatureSteps
<1> QED BY <1>3, <1>4 DEF r

\* A process begins.
LEMMA NewIsWorker ==
  ASSUME NEW n \in MatLocks, NEW evidence, NEW st \in MatureInside, NEW phase \in {"mature", "promote"},
         phase = "mature" => n # 0
  PROVE  LET r == NewMature(n, evidence, st, phase)
         IN IsWorker(r) /\ r.step = st /\ r.phase = phase /\ r.night = n /\ r.next = 1
<1>1. 1 \in Nat /\ 0 \in Nat /\ 1 # 0
  OBVIOUS
<1> QED BY <1>1 DEF NewMature, IsWorker, MatureInside

\* The answer is compiled; if it had no faults there is a claim for each of its parts.
LEMMA CompileGoes ==
  ASSUME Workers, MaturationAssumption, NEW m \in Maturers, mature[m].step # "idle", Compile(m)
  PROVE  LET r == mature[m]
             q == mature'[m]
         IN /\ IsWorker(q) /\ Others(m) /\ r.step = "compile" /\ q.step = "lock"
            /\ q.phase = r.phase /\ q.night = r.night /\ q.next = r.next
            /\ q.phase = "mature" /\ q.clean =>
                 Len(q.claims) \in Nat /\ DOMAIN q.claims = 1 .. Len(q.claims)
<1> DEFINE r == mature[m]
<1>1. IsWorker(r) /\ r.step = "compile"
  BY BusyIsWorker DEF Compile, MatureAt
<1>2. PICK answer \in AnswersOf[r.night] :
        LET kept == SelectSeq(answer, LAMBDA t : WellFounded(m, t))
        IN mature' = [mature EXCEPT
             ![m].step = "lock", ![m].clean = (kept = answer),
             ![m].claims = [i \in DOMAIN kept |-> CompiledClaim(kept[i])]]
  BY DEF Compile
<1> DEFINE kept == SelectSeq(answer, LAMBDA t : WellFounded(m, t))
           claims == [i \in DOMAIN kept |-> CompiledClaim(kept[i])]
           clean == kept = answer
           q == [r EXCEPT !.step = "lock", !.clean = clean, !.claims = claims]
<1>3. mature' = [mature EXCEPT ![m] = q]
  BY <1>2 DEF Workers
<1>4. mature'[m] = q /\ Others(m)
  BY <1>3, OneGoes DEF Others
<1>5. clean \in BOOLEAN
  OBVIOUS
<1> HIDE DEF kept
<1>6. r.phase = "mature" /\ clean => Len(claims) \in Nat /\ DOMAIN claims = 1 .. Len(claims)
  <2> SUFFICES ASSUME r.phase = "mature", kept = answer
               PROVE  Len(claims) \in Nat /\ DOMAIN claims = 1 .. Len(claims)
    OBVIOUS
  <2>1. r.night \in 1 .. Nights
    BY <1>1 DEF IsWorker, MatLocks, MaturationAssumption
  <2>2. answer \in UNION {[1 .. k -> Topics] : k \in 0 .. MaxClaims}
    BY <2>1 DEF MaturationAssumption
  <2>3. PICK k \in 0 .. MaxClaims : answer \in [1 .. k -> Topics]
    BY <2>2
  <2>4. k \in Nat /\ DOMAIN kept = 1 .. k /\ \A i \in 1 .. k : kept[i] \in Topics
    BY <2>3 DEF MaturationAssumption
  <2> DEFINE S == {CompiledClaim(t) : t \in Topics}
             n == k
  <2>5. claims \in [1 .. n -> S] /\ n \in Nat
    BY <2>4
  <2> HIDE DEF S, claims, n
  <2>6. claims \in Seq(S)
    BY <2>5, SMTT(30)
  <2> QED BY <2>6, LenProperties
<1> HIDE DEF r, claims, clean
<1>7. /\ IsWorker(q) /\ q.step = "lock" /\ q.phase = r.phase /\ q.night = r.night
      /\ q.next = r.next /\ q.clean = clean /\ q.claims = claims
  BY <1>1, <1>5, ZenonT(60) DEF IsWorker, MatureSteps
<1> HIDE DEF q
<1> QED BY <1>1, <1>4, <1>6, <1>7 DEF r

\* The slots to promote are chosen, if there are any.
LEMMA SelectGoes ==
  ASSUME Workers, NEW m \in Maturers, SelectCandidates(m)
  PROVE  LET r == mature[m]
             q == mature'[m]
         IN /\ Others(m) /\ IsWorker(r) /\ r.step = "select"
            /\ \/ r.night = 0 /\ q = NoMature
               \/ IsWorker(q) /\ r.night # 0 /\ q.step = "release" /\ SameRun(r, q)
               \/ IsWorker(q) /\ q.step = "lock" /\ q.phase = "promote" /\ q.night = r.night
<1> DEFINE r == mature[m]
<1>1. IsWorker(r) /\ r.step = "select"
  BY BusyIsWorker DEF SelectCandidates, MatureAt
<1> DEFINE Goes(empty, claims) ==
             mature' = [mature EXCEPT ![m] =
               IF empty THEN IF r.night = 0 THEN NoMature ELSE [r EXCEPT !.step = "release"]
               ELSE [r EXCEPT !.step = "lock", !.phase = "promote", !.next = 1, !.claims = claims]]
<1>2. PICK claims : \E empty \in BOOLEAN : Goes(empty, claims)
  <2>1. PICK latest \in [Slots -> UNION {LatestTopics(s) : s \in Slots} \cup {"none"}] :
          LET chosen(s) == /\ latest[s] # "none" /\ Ready(s, latest[s])
                           /\ SelfObservation(s, latest[s]) => ~slotPage[s].written
              slots == SelectSeq(SlotOrder, chosen)
          IN mature' = [mature EXCEPT ![m] =
               IF slots = <<>>
               THEN IF @.night = 0 THEN NoMature ELSE [@ EXCEPT !.step = "release"]
               ELSE [@ EXCEPT
                 !.step = "lock", !.phase = "promote", !.next = 1,
                 !.claims = [i \in DOMAIN slots |-> Promoted(slots[i], latest[slots[i]])]]]
    BY DEF SelectCandidates
  <2> DEFINE chosen(s) == /\ latest[s] # "none" /\ Ready(s, latest[s])
                          /\ SelfObservation(s, latest[s]) => ~slotPage[s].written
             slots == SelectSeq(SlotOrder, chosen)
             c == [i \in DOMAIN slots |-> Promoted(slots[i], latest[slots[i]])]
             none == slots = <<>>
  <2>2. Goes(none, c)
    BY <2>1
  <2>3. none \in BOOLEAN
    OBVIOUS
  <2> HIDE DEF none, c, Goes
  <2> QED BY <2>2, <2>3
<1>3. PICK empty \in BOOLEAN : Goes(empty, claims)
  BY <1>2
<1> DEFINE q1 == [r EXCEPT !.step = "release"]
           q2 == [r EXCEPT !.step = "lock", !.phase = "promote", !.next = 1, !.claims = claims]
           q == IF empty THEN IF r.night = 0 THEN NoMature ELSE q1 ELSE q2
<1>4. mature'[m] = q /\ Others(m)
  BY <1>3, OneGoes DEF Others
<1> HIDE DEF r, Goes
<1>5. IsWorker(q1) /\ q1.step = "release" /\ SameRun(r, q1)
  BY <1>1 DEF IsWorker, SameRun, MatureSteps
<1>6. IsWorker(q2) /\ q2.step = "lock" /\ q2.phase = "promote" /\ q2.night = r.night
  <2>1. 1 \in Nat /\ 1 # 0
    OBVIOUS
  <2> QED BY <1>1, <2>1 DEF IsWorker, MatureSteps
<1> HIDE DEF q1, q2
<1> QED BY <1>1, <1>4, <1>5, <1>6 DEF r

\* A process gives up waiting for a lock, or is done under one.
LEMMA TimesOutGoes ==
  ASSUME Workers, NEW m \in Maturers, MatTimesOut(m)
  PROVE  LET r == mature[m]
             q == mature'[m]
         IN /\ Others(m) /\ IsWorker(r) /\ r.step = "lock"
            /\ \/ q = NoMature
               \/ IsWorker(q) /\ r.phase = "promote" /\ r.night # 0 /\ q.night = r.night
                    /\ q.phase = "mature" /\ q.step = "release"
<1> DEFINE r == mature[m]
           q1 == [r EXCEPT !.phase = "mature", !.step = "release"]
           q == IF r.phase = "promote" /\ r.night # 0 THEN q1 ELSE NoMature
<1>1. IsWorker(r) /\ r.step = "lock"
  BY BusyIsWorker DEF MatTimesOut, MatureAt
<1>2. mature'[m] = q /\ Others(m)
  BY OneGoes DEF Others, MatTimesOut
<1> HIDE DEF r
<1>3. r.night # 0 => IsWorker(q1) /\ q1.night = r.night /\ q1.phase = "mature" /\ q1.step = "release"
  BY <1>1 DEF IsWorker, MatureSteps
<1> HIDE DEF q1
<1> QED BY <1>1, <1>2, <1>3 DEF r

LEMMA ReleaseGoes ==
  ASSUME Workers, NEW m \in Maturers, ReleaseMatLock(m)
  PROVE  LET r == mature[m]
             q == mature'[m]
         IN /\ Others(m) /\ IsWorker(r) /\ r.step = "release"
            /\ \/ q = NoMature /\ ~(r.phase = "promote" /\ r.night # 0)
               \/ IsWorker(q) /\ r.phase = "promote" /\ r.night # 0 /\ q.night = r.night
                    /\ q.phase = "mature" /\ q.step = "release"
<1> DEFINE r == mature[m]
           q1 == [r EXCEPT !.phase = "mature"]
           q == IF r.phase = "promote" /\ r.night # 0 THEN q1 ELSE NoMature
<1>1. IsWorker(r) /\ r.step = "release"
  BY BusyIsWorker DEF ReleaseMatLock, MatureAt
<1>2. mature'[m] = q /\ Others(m)
  BY OneGoes DEF Others, ReleaseMatLock
<1> HIDE DEF r
<1>3. r.night # 0 => IsWorker(q1) /\ q1.night = r.night /\ q1.phase = "mature" /\ q1.step = r.step
  BY <1>1 DEF IsWorker
<1> HIDE DEF q1
<1> QED BY <1>1, <1>2, <1>3 DEF r

LEMMA WorkersKept ==
  ASSUME Workers, NEW m \in Maturers, Others(m), mature'[m] = NoMature \/ IsWorker(mature'[m]),
         matLock' \in [MatLocks -> Maturers \cup {"free", "dead"}], night' \in MatLocks,
         works' \in 0 .. MaxWorks, lapses' \in 0 .. MaxLapses
  PROVE  Workers'
BY DEF Workers, Others

LEMMA LockIs ==
  ASSUME MaturationAssumption, Workers, NEW m \in Maturers, mature[m].step # "idle"
  PROVE  LockOf(m) \in MatLocks
<1>1. mature[m].night \in MatLocks
  BY BusyIsWorker DEF IsWorker
<1>2. 0 \in MatLocks
  BY DEF MatLocks, MaturationAssumption
<1> QED BY <1>1, <1>2 DEF LockOf

\* When no claim is left: the end of a promotion, the record of a run, its promotion.
LEMMA NoneLeftIs ==
  ASSUME NEW m \in Maturers, NoneLeft(m)
  PROVE  \/ MatureGo(m, "release") \/ MatureGo(m, "select")
         \/ /\ mature[m].phase # "promote" /\ mature[m].next = Len(ToApply(m)) + 1
            /\ TakesPlan(m, RecordBatch(m), RecordFiles(m))
BY DEF NoneLeft, TakesPlan

\* The next claim that is left.
LEMMA LoadNextIs ==
  ASSUME NEW m \in Maturers, LoadNext(m)
  PROVE  LET b == BatchOf(m, mature[m].next)
         IN TakesPlan(m, b, BatchFiles(b, ToApply(m)[mature[m].next]))
BY DEF LoadNext, TakesPlan

\* The next journal.
LEMMA ReadJournalIs ==
  ASSUME NEW m \in Maturers, ReadJournal(m)
  PROVE  \/ MatureGo(m, "release")
         \/ \E b \in DOMAIN matJournal :
              /\ b \in mature[m].todo /\ ~matJournal[b].torn
              /\ Replays(m, b, matJournal[b].files)
BY DEF ReadJournal, Replays

\* What a process does between its beginning and its end: about locks, about files.
AtLocks(m) ==
  \/ Compile(m) \/ SelectCandidates(m) \/ TakeMatLock(m) \/ FindStaleMat(m)
  \/ RemoveStaleMat(m) \/ MatTimesOut(m) \/ ReleaseMatLock(m) \/ MaturerDies(m)
AtFiles(m) ==
  \/ ListJournals(m) \/ ReadJournal(m) \/ AllRecovered(m) \/ LookForCompleted(m)
  \/ LoadNext(m) \/ NoneLeft(m) \/ BeginJournal(m) \/ EndJournal(m)
  \/ WriteMemory(m) \/ ClearMatJournal(m)

LEMMA NextIs ==
  MaturationNext =>
    \/ UNCHANGED night /\ \E m \in Maturers : BeginMature(m) \/ BeginPromote(m)
    \/ Consolidate
    \/ /\ UNCHANGED <<night, works>>
       /\ \E m \in Maturers : mature[m].step # "idle" /\ (AtLocks(m) \/ AtFiles(m))
<1>1. ASSUME NEW m \in Maturers, AtLocks(m)
      PROVE  mature[m].step # "idle"
  BY <1>1 DEF AtLocks, Compile, SelectCandidates, TakeMatLock, FindStaleMat, RemoveStaleMat,
     MatTimesOut, ReleaseMatLock, MaturerDies, MatureAt
<1>2. ASSUME NEW m \in Maturers, AtFiles(m)
      PROVE  mature[m].step # "idle"
  BY <1>2 DEF AtFiles, ListJournals, ReadJournal, AllRecovered, LookForCompleted, LoadNext,
     NoneLeft, BeginJournal, EndJournal, WriteMemory, ClearMatJournal, MatureAt
<1>3. MaturationNext =>
        \/ UNCHANGED night /\ \E m \in Maturers : BeginMature(m) \/ BeginPromote(m)
        \/ Consolidate
        \/ /\ UNCHANGED <<night, works>>
           /\ \E m \in Maturers : AtLocks(m) \/ AtFiles(m)
  BY DEF MaturationNext, AtLocks, AtFiles
<1> QED BY <1>1, <1>2, <1>3

LEMMA WorkersStep ==
  ASSUME MaturationAssumption, Workers, [MaturationNext]_maturationVars
  PROVE  Workers'
<1> USE DEF MatureAt, MatureSteps, MatureInside
<1>0. CASE UNCHANGED maturationVars
  BY <1>0 DEF maturationVars, Workers, IsWorker
<1> SUFFICES ASSUME MaturationNext
             PROVE  Workers'
  BY <1>0
<1>1. ASSUME UNCHANGED night, NEW m \in Maturers, BeginMature(m)
      PROVE  Workers'
  <2> DEFINE e == ItemsOf[night] \ Processed
             r == NewMature(night, e, "compile", "mature")
  <2>1. night \in MatLocks /\ night # 0
    BY <1>1 DEF BeginMature, Workers, MatLocks, MaturationAssumption
  <2>2. IsWorker(r)
    <3> HIDE DEF e
    <3> QED BY <2>1, NewIsWorker
  <2>3. mature'[m] = r /\ Others(m)
    BY <1>1, OneGoes DEF BeginMature, Others
  <2> HIDE DEF r
  <2>4. works' \in 0 .. MaxWorks
    BY <1>1 DEF BeginMature, Workers, MaturationAssumption
  <2> QED BY <1>1, <2>2, <2>3, <2>4, WorkersKept DEF BeginMature, Workers
<1>2. ASSUME UNCHANGED night, NEW m \in Maturers, BeginPromote(m)
      PROVE  Workers'
  <2> DEFINE r == NewMature(0, {}, "select", "promote")
  <2>1. 0 \in MatLocks
    BY DEF MatLocks, MaturationAssumption
  <2>2. IsWorker(r)
    BY <2>1, NewIsWorker
  <2>3. mature'[m] = r /\ Others(m)
    BY <1>2, OneGoes DEF BeginPromote, Others
  <2> HIDE DEF r
  <2>4. works' \in 0 .. MaxWorks
    BY <1>2 DEF BeginPromote, Workers, MaturationAssumption
  <2> QED BY <1>2, <2>2, <2>3, <2>4, WorkersKept DEF BeginPromote, Workers
<1>3. ASSUME Consolidate
      PROVE  Workers'
  <2>1. night' \in MatLocks
    BY <1>3 DEF Consolidate, Workers, MatLocks, MaturationAssumption
  <2> QED BY <1>3, <2>1 DEF Consolidate, Workers, IsWorker
<1>4. ASSUME UNCHANGED <<night, works>>, NEW m \in Maturers,
             mature[m].step # "idle", AtLocks(m)
      PROVE  Workers'
  <2>0. LockOf(m) \in MatLocks
    BY <1>4, LockIs
  <2> DEFINE Locked == /\ matLock' \in [MatLocks -> Maturers \cup {"free", "dead"}]
                       /\ lapses' \in 0 .. MaxLapses
             Goes == Others(m) /\ (mature'[m] = NoMature \/ IsWorker(mature'[m]))
  <2>1. ASSUME Compile(m)
        PROVE  Goes /\ Locked
    BY <1>4, <2>1, CompileGoes DEF Compile, Workers
  <2>2. ASSUME SelectCandidates(m)
        PROVE  Goes /\ Locked
    BY <2>2, SelectGoes DEF SelectCandidates, Workers
  <2>3. ASSUME TakeMatLock(m)
        PROVE  Goes /\ Locked
    <3>1. Goes
      BY <1>4, <2>3, StepGoes DEF TakeMatLock
    <3> QED BY <2>0, <2>3, <3>1 DEF TakeMatLock, Workers
  <2>4. ASSUME FindStaleMat(m)
        PROVE  Goes /\ Locked
    <3>1. Goes
      BY <1>4, <2>4, StepGoes DEF FindStaleMat
    <3> QED BY <2>4, <3>1 DEF FindStaleMat, Workers, MaturationAssumption
  <2>5. ASSUME RemoveStaleMat(m)
        PROVE  Goes /\ Locked
    <3>1. Goes
      BY <1>4, <2>5, StepGoes DEF RemoveStaleMat
    <3> QED BY <2>0, <2>5, <3>1 DEF RemoveStaleMat, Workers
  <2>6. ASSUME MatTimesOut(m)
        PROVE  Goes /\ Locked
    BY <2>6, TimesOutGoes DEF MatTimesOut, Workers
  <2>7. ASSUME ReleaseMatLock(m)
        PROVE  Goes /\ Locked
    <3>1. Goes
      BY <2>7, ReleaseGoes
    <3> QED BY <2>0, <2>7, <3>1 DEF ReleaseMatLock, Workers
  <2>8. ASSUME MaturerDies(m)
        PROVE  Goes /\ Locked
    <3>1. Goes
      BY <2>8, OneGoes DEF MaturerDies, Others
    <3> QED BY <2>8, <3>1 DEF MaturerDies, Workers, MaturationAssumption
  <2>9. Goes /\ Locked
    BY <1>4, <2>1, <2>2, <2>3, <2>4, <2>5, <2>6, <2>7, <2>8 DEF AtLocks
  <2> QED BY <1>4, <2>9, WorkersKept DEF Workers
<1>5. ASSUME UNCHANGED <<night, works>>, NEW m \in Maturers, mature[m].step # "idle",
             AtFiles(m)
      PROVE  Workers'
  <2> DEFINE Goes == Others(m) /\ IsWorker(mature'[m])
  <2>0. mature[m].next \in Nat /\ mature[m].pos \in Nat
    BY <1>5, BusyIsWorker DEF IsWorker
  <2>1. ASSUME ListJournals(m)
        PROVE  Goes
    BY <1>5, <2>1, ListGoes DEF ListJournals
  <2>2. ASSUME ReadJournal(m)
        PROVE  Goes
    <3>1. CASE MatureGo(m, "release")
      BY <1>5, <3>1, StepGoes
    <3>2. CASE ~MatureGo(m, "release")
      BY <1>5, <2>2, <3>2, ReadJournalIs, ReplayGoes
    <3> QED BY <3>1, <3>2
  <2>3. ASSUME AllRecovered(m)
        PROVE  Goes
    BY <1>5, <2>3, StepGoes DEF AllRecovered
  <2>4. ASSUME LookForCompleted(m)
        PROVE  Goes
    BY <1>5, <2>4, StepGoes DEF LookForCompleted
  <2>5. ASSUME LoadNext(m)
        PROVE  Goes
    BY <1>5, <2>5, LoadNextIs, PlanGoes
  <2>6. ASSUME NoneLeft(m)
        PROVE  Goes
    <3>1. CASE MatureGo(m, "release") \/ MatureGo(m, "select")
      BY <1>5, <3>1, StepGoes
    <3>2. CASE ~(MatureGo(m, "release") \/ MatureGo(m, "select"))
      BY <1>5, <2>6, <3>2, NoneLeftIs, PlanGoes
    <3> QED BY <3>1, <3>2
  <2>7. ASSUME BeginJournal(m) \/ EndJournal(m)
        PROVE  Goes
    BY <1>5, <2>7, StepGoes DEF BeginJournal, EndJournal
  <2>8. ASSUME WriteMemory(m)
        PROVE  Goes
    <3> DEFINE n == mature[m].pos + 1
    <3>1. mature' = [mature EXCEPT ![m].pos = n] /\ n \in Nat
      BY <2>0, <2>8 DEF WriteMemory
    <3> HIDE DEF n
    <3> QED BY <1>5, <3>1, WriteGoes
  <2>9. ASSUME ClearMatJournal(m)
        PROVE  Goes
    BY <1>5, <2>9, ClearGoes
  <2>10. Goes
    BY <1>5, <2>1, <2>2, <2>3, <2>4, <2>5, <2>6, <2>7, <2>8, <2>9 DEF AtFiles
  <2>11. UNCHANGED <<matLock, lapses>>
    BY <1>5 DEF AtFiles, ListJournals, ReadJournal, AllRecovered, LookForCompleted, LoadNext,
                NoneLeft, BeginJournal, EndJournal, WriteMemory, ClearMatJournal
  <2> HIDE DEF Goes
  <2> QED BY <1>5, <2>10, <2>11, WorkersKept DEF Workers, Goes
<1> QED
  BY <1>1, <1>2, <1>3, <1>4, <1>5, NextIs
-----------------------------------------------------------------------------
\* Steps that write nothing.

Grows == \A b, k : Stored(b, k) => Stored(b, k)'

LEMMA AppliedStays ==
  ASSUME NEW b, Grows, Applied(b)
  PROVE  Applied(b)'
BY DEF Applied, Grows

LEMMA PlanStays ==
  ASSUME NEW b, NEW files, Grows, GoodPlan(b, files)
  PROVE  GoodPlan(b, files)'
BY AppliedStays DEF GoodPlan

\* The plans of the others stay good.
LEMMA PlansOfOthers ==
  ASSUME Plans, NEW m \in Maturers, Others(m), Grows,
         NEW p \in Maturers \ {m}, mature'[p].step \in Planned
  PROVE  /\ GoodPlan(mature[p].batch, mature[p].files)'
         /\ mature'[p].step \notin Writes => mature'[p].pos = 0
         /\ SoFar(mature[p].batch, mature[p].files, mature[p].pos)'
<1>1. mature'[p] = mature[p]
  BY DEF Others
<1>2. GoodPlan(mature[p].batch, mature[p].files)
  BY <1>1 DEF Plans
<1> QED BY <1>1, <1>2, PlanStays DEF Plans, SoFar, Grows

LEMMA PlansOfJournals ==
  ASSUME Plans, Grows, UNCHANGED matJournal, NEW b \in DOMAIN matJournal'
  PROVE  /\ matJournal'[b].torn \in BOOLEAN
         /\ ~matJournal'[b].torn => GoodPlan(b, matJournal[b].files)'
BY PlanStays DEF Plans

\* What has to be shown of the process that goes on.
LEMMA PlansAfter ==
  ASSUME Plans, NEW m \in Maturers, Others(m), Grows, UNCHANGED matJournal, NEW b, NEW files,
         mature'[m].step \in Planned =>
           /\ mature'[m].batch = b /\ mature'[m].files = files
           /\ GoodPlan(b, files)
           /\ mature'[m].step \notin Writes => mature'[m].pos = 0
           /\ SoFar(b, files, mature[m].pos)'
  PROVE  Plans'
<1>1. mature'[m].step \in Planned =>
        /\ GoodPlan(mature[m].batch, mature[m].files)'
        /\ SoFar(mature[m].batch, mature[m].files, mature[m].pos)'
  BY PlanStays DEF SoFar
<1>2. \A p \in Maturers : mature'[p].step \in Planned =>
        /\ GoodPlan(mature[p].batch, mature[p].files)'
        /\ mature'[p].step \notin Writes => mature'[p].pos = 0
        /\ SoFar(mature[p].batch, mature[p].files, mature[p].pos)'
  BY <1>1, PlansOfOthers
<1> QED BY <1>2, PlansOfJournals DEF Plans

LEMMA QuietPlans ==
  ASSUME Plans, NEW m \in Maturers, Others(m), mature'[m].step \notin Planned,
         UNCHANGED <<memory, matJournal>>
  PROVE  Plans'
<1>1. \A b, k : Stored(b, k)' <=> Stored(b, k)
  BY DEF Stored
<1>2. Grows
  BY <1>1 DEF Grows
<1> QED BY <1>2, PlansOfOthers, PlansOfJournals DEF Plans

LEMMA QuietRecords ==
  ASSUME Records, UNCHANGED memory
  PROVE  Records'
BY DEF Records, Stored, Applied

LEMMA QuietOnePlan ==
  ASSUME OnePlan, NEW m \in Maturers, Others(m), mature'[m].step \notin Planned,
         UNCHANGED <<memory, matJournal, reapplied>>
  PROVE  OnePlan'
<1>1. \A b, k : Stored(b, k)' <=> Stored(b, k)
  BY DEF Stored
<1>2. \A b : JournalLeft(b)' <=> JournalLeft(b)
  BY DEF JournalLeft
<1>3. \A p \in Maturers : \A b : AtWork(p, b)' => AtWork(p, b) /\ p # m
  BY DEF AtWork, Others
<1>4. \A p \in Maturers : mature'[p].step \in Planned => mature'[p] = mature[p]
  BY DEF Others
<1> QED BY <1>1, <1>2, <1>3, <1>4 DEF OnePlan, OnlyPlan, Others

LEMMA QuietVerdicts ==
  ASSUME Verdicts, NEW m \in Maturers, Others(m), mature'[m].step \notin Planned,
         UNCHANGED <<memory, matJournal, reapplied>>
  PROVE  Verdicts'
<1>1. \A b, k : Stored(b, k)' <=> Stored(b, k)
  BY DEF Stored
<1>2. \A b : JournalLeft(b)' <=> JournalLeft(b)
  BY DEF JournalLeft
<1>3. \A p \in Maturers : \A b : AtWork(p, b)' => AtWork(p, b) /\ mature'[p] = mature[p]
  BY DEF AtWork, Others
<1> QED BY <1>1, <1>2, <1>3 DEF Verdicts

LEMMA OrderKept ==
  ASSUME AppliesInOrder, NEW m \in Maturers, Others(m), Grows, InOrder(mature[m])'
  PROVE  AppliesInOrder'
<1>1. ASSUME NEW p \in Maturers \ {m}
      PROVE  InOrder(mature[p])'
  BY DEF AppliesInOrder, InOrder, ClaimBatch, Others, Grows
<1> QED BY <1>1 DEF AppliesInOrder

LEMMA QuietStep ==
  ASSUME FileInv, NEW m \in Maturers, Others(m), mature'[m].step \notin Planned,
         UNCHANGED <<memory, matJournal, reapplied>>, InOrder(mature[m])'
  PROVE  FileInv'
<1>1. Grows
  BY DEF Grows, Stored
<1> QED BY <1>1, QuietPlans, QuietRecords, QuietOnePlan, QuietVerdicts, OrderKept DEF FileInv

\* A process goes on with the same claim to come next.
LEMMA StillInOrder ==
  ASSUME NEW m \in Maturers, InOrder(mature[m]), Grows, SameRun(mature[m], mature'[m]),
         mature'[m].next = mature[m].next, mature'[m].step # "compile",
         mature[m].step \notin {"idle", "compile", "select", "release", "journal", "torn", "write"}
  PROVE  InOrder(mature[m])'
BY DEF InOrder, SameRun, ClaimBatch, Grows

\* A process is done, waits for a promotion's lock, or is about to give a lock back.
LEMMA OutOfOrder ==
  ASSUME NEW m \in Maturers,
         \/ mature'[m] = NoMature
         \/ mature'[m].step \in {"select", "release"}
         \/ mature'[m].step # "compile" /\ mature'[m].phase = "promote"
  PROVE  InOrder(mature[m])'
BY DEF InOrder, NoMature

LEMMA LocksQuiet ==
  ASSUME MaturationAssumption, Workers, FileInv, NEW m \in Maturers, mature[m].step # "idle",
         AtLocks(m)
  PROVE  FileInv'
<1>1. UNCHANGED <<memory, matJournal, reapplied>>
  BY DEF AtLocks, Compile, SelectCandidates, TakeMatLock, FindStaleMat, RemoveStaleMat,
     MatTimesOut, ReleaseMatLock, MaturerDies, maturationFiles
<1>2. Grows /\ InOrder(mature[m])
  BY <1>1 DEF Grows, Stored, FileInv, AppliesInOrder
<1> DEFINE Done == Others(m) /\ mature'[m].step \notin Planned /\ InOrder(mature[m])'
<1> USE DEF MatureAt, Planned
<1>3. ASSUME Compile(m)
      PROVE  Done
  <2>1. LET q == mature'[m]
        IN /\ Others(m) /\ q.step = "lock" /\ q.next = 1
           /\ q.phase = "mature" /\ q.clean =>
                Len(q.claims) \in Nat /\ DOMAIN q.claims = 1 .. Len(q.claims)
    BY <1>2, <1>3, CompileGoes DEF InOrder
  <2> QED BY <2>1 DEF InOrder
<1>4. ASSUME SelectCandidates(m)
      PROVE  Done
  BY <1>4, SelectGoes, OutOfOrder DEF NoMature
<1>5. ASSUME TakeMatLock(m)
      PROVE  Done
  <2>1. /\ Others(m) /\ SameRun(mature[m], mature'[m]) /\ mature'[m].next = mature[m].next
        /\ mature'[m].step = "list" /\ mature[m].step = "lock"
    BY <1>5, StepGoes DEF TakeMatLock, MatureInside, MatureSteps
  <2> QED BY <1>2, <2>1, StillInOrder
<1>6. ASSUME FindStaleMat(m)
      PROVE  Done
  <2>1. /\ Others(m) /\ SameRun(mature[m], mature'[m]) /\ mature'[m].next = mature[m].next
        /\ mature'[m].step = "unlock" /\ mature[m].step = "lock"
    BY <1>6, StepGoes DEF FindStaleMat, MatureInside, MatureSteps
  <2> QED BY <1>2, <2>1, StillInOrder
<1>7. ASSUME RemoveStaleMat(m)
      PROVE  Done
  <2>1. /\ Others(m) /\ SameRun(mature[m], mature'[m]) /\ mature'[m].next = mature[m].next
        /\ mature'[m].step = "lock" /\ mature[m].step = "unlock"
    BY <1>7, StepGoes DEF RemoveStaleMat, MatureInside, MatureSteps
  <2> QED BY <1>2, <2>1, StillInOrder
<1>8. ASSUME MatTimesOut(m)
      PROVE  Done
  BY <1>8, TimesOutGoes, OutOfOrder DEF NoMature
<1>9. ASSUME ReleaseMatLock(m)
      PROVE  Done
  BY <1>9, ReleaseGoes, OutOfOrder DEF NoMature
<1>10. ASSUME MaturerDies(m)
       PROVE  Done
  BY <1>10, OneGoes, OutOfOrder DEF MaturerDies, Others, NoMature
<1>11. Done
  BY <1>3, <1>4, <1>5, <1>6, <1>7, <1>8, <1>9, <1>10 DEF AtLocks
<1> QED BY <1>1, <1>11, QuietStep

LEMMA BeginsQuiet ==
  ASSUME MaturationAssumption, Workers, FileInv, NEW m \in Maturers,
         BeginMature(m) \/ BeginPromote(m)
  PROVE  FileInv'
<1>1. UNCHANGED <<memory, matJournal, reapplied>>
  BY DEF BeginMature, BeginPromote, maturationFiles
<1> DEFINE e == ItemsOf[night] \ Processed
           r1 == NewMature(night, e, "compile", "mature")
           r2 == NewMature(0, {}, "select", "promote")
<1>2. /\ r1.step = "compile" /\ r1.next = 1 /\ r1.phase = "mature"
      /\ r2.step = "select"
  BY DEF NewMature
<1>3. CASE BeginMature(m)
  <2>1. Others(m) /\ mature'[m] = r1
    BY <1>3, OneGoes DEF BeginMature, Others
  <2> QED BY <1>1, <1>2, <2>1, QuietStep DEF Planned, InOrder
<1>4. CASE BeginPromote(m)
  <2>1. Others(m) /\ mature'[m] = r2
    BY <1>4, OneGoes DEF BeginPromote, Others
  <2> QED BY <1>1, <1>2, <2>1, QuietStep DEF Planned, InOrder
<1> QED BY <1>3, <1>4

LEMMA NothingQuiet ==
  ASSUME FileInv, UNCHANGED <<memory, matJournal, reapplied, mature>>
  PROVE  FileInv'
<1>1. \A b, k : Stored(b, k)' <=> Stored(b, k)
  BY DEF Stored
<1>2. \A b : JournalLeft(b)' <=> JournalLeft(b)
  BY DEF JournalLeft
<1>3. \A b, files : GoodPlan(b, files)' <=> GoodPlan(b, files)
  BY <1>1 DEF GoodPlan, Applied
<1>4. Plans'
  BY <1>1, <1>3 DEF FileInv, Plans, SoFar
<1>5. Records'
  BY QuietRecords DEF FileInv
<1>6. AppliesInOrder'
  BY <1>1 DEF FileInv, AppliesInOrder, InOrder, ClaimBatch
<1>7. \A p \in Maturers : \A b : AtWork(p, b)' <=> AtWork(p, b)
  BY DEF AtWork
<1>8. OnePlan' /\ Verdicts'
  BY <1>1, <1>2, <1>7 DEF FileInv, OnePlan, OnlyPlan, Verdicts
<1> QED BY <1>4, <1>5, <1>6, <1>8 DEF FileInv

\* The steps of recovery that read, and the ends.
LEMMA ReadingQuiet ==
  ASSUME Workers, FileInv, NEW m \in Maturers, mature[m].step # "idle",
         UNCHANGED <<memory, matJournal, reapplied>>,
         \/ ListJournals(m) \/ AllRecovered(m) \/ LookForCompleted(m)
         \/ (ReadJournal(m) \/ NoneLeft(m)) /\ MatureGo(m, "release")
         \/ NoneLeft(m) /\ MatureGo(m, "select")
  PROVE  FileInv'
<1>1. Grows /\ InOrder(mature[m])
  BY DEF Grows, Stored, FileInv, AppliesInOrder
<1> DEFINE Done == Others(m) /\ mature'[m].step \notin Planned /\ InOrder(mature[m])'
           Same == Others(m) /\ SameRun(mature[m], mature'[m]) /\ mature'[m].next = mature[m].next
<1> USE DEF MatureAt, Planned
<1>2. ASSUME ListJournals(m)
      PROVE  Done
  <2>1. Same /\ mature[m].step = "list" /\ mature'[m].step = "read"
    BY <1>2, ListGoes DEF ListJournals
  <2> QED BY <1>1, <2>1, StillInOrder
<1>3. ASSUME AllRecovered(m)
      PROVE  Done
  <2>1. Same /\ mature[m].step = "read" /\ mature'[m].step \in {"look", "load"}
    BY <1>3, StepGoes DEF AllRecovered, MatureInside, MatureSteps
  <2> QED BY <1>1, <2>1, StillInOrder
<1>4. ASSUME LookForCompleted(m)
      PROVE  Done
  <2>1. Same /\ mature[m].step = "look" /\ mature'[m].step \in {"release", "load"}
    BY <1>4, StepGoes DEF LookForCompleted, MatureInside, MatureSteps
  <2> QED BY <1>1, <2>1, StillInOrder
<1>5. ASSUME MatureGo(m, "release") \/ MatureGo(m, "select")
      PROVE  Done
  <2>1. Same /\ mature'[m].step \in {"release", "select"}
    BY <1>5, StepGoes DEF MatureInside, MatureSteps
  <2> QED BY <1>1, <2>1, OutOfOrder
<1>6. Done
  BY <1>2, <1>3, <1>4, <1>5
<1> QED BY <1>6, QuietStep

-----------------------------------------------------------------------------
\* Steps that get a plan, write it and clear it.

\* A journal is read.
LEMMA ReplayStep ==
  ASSUME Workers, FileInv, NEW m \in Maturers, mature[m].step = "read", NEW b \in DOMAIN matJournal,
         ~matJournal[b].torn, UNCHANGED <<memory, matJournal, reapplied>>,
         NEW files, files = matJournal[b].files, Replays(m, b, files)
  PROVE  FileInv'
<1>1. mature[m].step # "idle" /\ Replays(m, b, files)
  OBVIOUS
<1>2. files = matJournal[b].files
  OBVIOUS
<1>3. /\ Others(m) /\ SameRun(mature[m], mature'[m]) /\ mature'[m].next = mature[m].next
      /\ mature'[m].step = "replay" /\ mature'[m].batch = b /\ mature'[m].files = files
      /\ mature'[m].pos = 0
  BY <1>1, ReplayGoes
<1>4. JournalLeft(b)
  BY DEF JournalLeft
<1>5. (\A c, k : Stored(c, k)' <=> Stored(c, k)) /\ (\A c : JournalLeft(c)' <=> JournalLeft(c))
  BY DEF Stored, JournalLeft
<1>6. Grows
  BY <1>5 DEF Grows
<1>7. AppliesInOrder'
  BY <1>3, <1>6, StillInOrder, OrderKept DEF FileInv, AppliesInOrder
<1>8. GoodPlan(b, files) /\ Len(files) \in Nat
  <2>1. GoodPlan(b, files)
    BY <1>2 DEF FileInv, Plans
  <2> QED BY <2>1, FilesAre DEF GoodPlan
<1>9. Plans'
  <2>1. SoFar(b, files, mature[m].pos)'
    BY <1>3, <1>8 DEF SoFar
  <2>2. Plans
    BY DEF FileInv
  <2> QED BY <1>3, <1>6, <1>8, <2>1, <2>2, PlansAfter
<1>10. Records'
  BY QuietRecords DEF FileInv
<1>11. \A p \in Maturers : \A c : AtWork(p, c)' <=> IF p = m THEN c = b ELSE AtWork(p, c)
  BY <1>3 DEF AtWork, Others, Planned
<1>12. ASSUME NEW p \in Maturers \ {m}, AtWork(p, b), b \notin reapplied, ~OfRecord(b)
       PROVE  mature[p].files = files /\ mature[p].step \in Writes
  BY <1>2, <1>4, <1>12 DEF FileInv, OnePlan, OnlyPlan, AtWork
<1>13. OnePlan'
  <2>1. ASSUME b \notin reapplied, ~OfRecord(b)
        PROVE  OnlyPlan(m, b, files)'
    BY <1>2, <1>3, <1>4, <1>5, <1>11, <1>12, <2>1 DEF OnlyPlan, Writes, Others
  <2>2. ASSUME NEW p \in Maturers \ {m}, mature[p].step \in Planned,
               mature[p].batch \notin reapplied, ~OfRecord(mature[p].batch)
        PROVE  OnlyPlan(p, mature[p].batch, mature[p].files)'
    <3>1. OnlyPlan(p, mature[p].batch, mature[p].files) /\ mature'[p] = mature[p]
      BY <1>3, <2>2 DEF FileInv, OnePlan, Others
    <3>2. mature[p].batch = b => mature[p].files = files /\ mature[p].step \in Writes
      BY <1>12, <2>2 DEF AtWork
    <3> QED BY <1>3, <1>5, <1>11, <3>1, <3>2 DEF OnlyPlan, Others
  <2> QED BY <1>2, <1>3, <2>1, <2>2 DEF OnePlan, Others
<1>14. Verdicts'
  <2>1. Stored(b, "canon") /\ b \notin reapplied => Approving(files)
    BY <1>2, <1>4 DEF FileInv, Verdicts, Stored
  <2> QED BY <1>3, <1>5, <1>11, <2>1 DEF FileInv, Verdicts, Others
<1> QED BY <1>7, <1>9, <1>10, <1>13, <1>14 DEF FileInv

\* The files of a batch are decided.  A claim's batch is marked if it is applied again.
LEMMA PlanStep ==
  ASSUME Workers, FileInv, NEW m \in Maturers, mature[m].step = "load",
         UNCHANGED <<memory, matJournal>>, NEW b, NEW files, TakesPlan(m, b, files),
         GoodPlan(b, files), reapplied \subseteq reapplied', InOrder(mature[m])',
         \/ OfRecord(b) \/ b \in reapplied'
         \/ /\ ~Stored(b, "canon") /\ ~JournalLeft(b)
            /\ \A p \in Maturers \ {m} : ~AtWork(p, b)
  PROVE  FileInv'
<1>1. mature[m].step # "idle"
  OBVIOUS
<1>2. /\ Others(m) /\ mature'[m].step = "journal" /\ mature'[m].batch = b
      /\ mature'[m].files = files /\ mature'[m].pos = 0
  BY <1>1, PlanGoes
<1>3. (\A c, k : Stored(c, k)' <=> Stored(c, k)) /\ (\A c : JournalLeft(c)' <=> JournalLeft(c))
  BY DEF Stored, JournalLeft
<1>4. Grows
  BY <1>3 DEF Grows
<1>5. AppliesInOrder'
  BY <1>2, <1>4, OrderKept DEF FileInv
<1>6. Plans'
  <2>1. Len(files) \in Nat
    BY FilesAre DEF GoodPlan
  <2>2. SoFar(b, files, mature[m].pos)'
    BY <1>2, <2>1 DEF SoFar
  <2>3. Plans
    BY DEF FileInv
  <2> QED BY <1>2, <1>4, <2>2, <2>3, PlansAfter
<1>7. Records'
  BY QuietRecords DEF FileInv
<1>8. \A p \in Maturers : \A c : AtWork(p, c)' <=> IF p = m THEN c = b ELSE AtWork(p, c)
  BY <1>2 DEF AtWork, Others, Planned
<1>9. OnePlan'
  <2>1. ASSUME b \notin reapplied', ~OfRecord(b)
        PROVE  OnlyPlan(m, b, files)'
    BY <1>2, <1>3, <1>8, <2>1 DEF OnlyPlan, Writes, Others
  <2>2. ASSUME NEW p \in Maturers \ {m}, mature[p].step \in Planned,
               mature[p].batch \notin reapplied', ~OfRecord(mature[p].batch)
        PROVE  OnlyPlan(p, mature[p].batch, mature[p].files)'
    <3>1. OnlyPlan(p, mature[p].batch, mature[p].files) /\ mature'[p] = mature[p]
      BY <1>2, <2>2 DEF FileInv, OnePlan, Others
    <3>2. mature[p].batch # b
      BY <2>2 DEF AtWork
    <3> DEFINE c == mature[p].batch
    <3>3. \A q \in Maturers : AtWork(q, c)' => q # m /\ AtWork(q, c) /\ mature'[q] = mature[q]
      BY <1>2, <1>8, <3>1, <3>2 DEF Others
    <3> QED BY <1>3, <3>1, <3>3 DEF OnlyPlan
  <2> QED BY <1>2, <2>1, <2>2 DEF OnePlan, Others
<1>10. Verdicts'
  <2>1. b \notin reapplied' => ~Stored(b, "canon")
    BY DEF FileInv, Records, Stored
  <2> QED BY <1>2, <1>3, <1>8, <2>1 DEF FileInv, Verdicts, Others, Stored
<1> QED BY <1>5, <1>6, <1>7, <1>9, <1>10 DEF FileInv

\* The next claim's batch.
LEMMA LoadNextStep ==
  ASSUME Workers, FileInv, NEW m \in Maturers, LoadNext(m)
  PROVE  FileInv'
<1> DEFINE r == mature[m]
<1>1. PICK b : b = BatchOf(m, r.next)
  OBVIOUS
<1>2. PICK files : files = BatchFiles(b, ToApply(m)[r.next])
  OBVIOUS
<1>3. /\ r.step = "load" /\ r.next <= Len(ToApply(m)) /\ UNCHANGED <<memory, matJournal>>
      /\ TakesPlan(m, b, files)
      /\ reapplied' = IF \/ Stored(b, "canon") \/ JournalLeft(b)
                         \/ \E p \in Maturers \ {m} : mature[p].step # "idle" /\ mature[p].batch = b
                      THEN reapplied \cup {b} ELSE reapplied
  BY <1>1, <1>2, LoadNextIs DEF LoadNext, MatureAt, maturationFiles
<1>4. r.step # "idle" /\ IsWorker(r)
  BY <1>3, BusyIsWorker
<1>5. r.clean /\ r.next \in Nat /\ r.next # 0
  BY <1>3, <1>4 DEF IsWorker, ToApply
<1>6. ~OfRecord(b) /\ (r.phase = "mature" => b = ClaimBatch(r, r.next))
  BY <1>1, <1>4, <1>5 DEF BatchOf, ClaimBatch, OfRecord, IsWorker
<1>7. /\ GoodFiles(files) /\ Names(files, "disposition")
      /\ \A i \in DOMAIN files : files[i][1] # "matured"
  BY <1>2, BatchFilesGood
<1>8. GoodPlan(b, files)
  BY <1>6, <1>7 DEF GoodPlan
<1>9. /\ SameRun(r, r') /\ r'.next = r.next + 1 /\ r'.batch = b /\ r'.files = files
      /\ r'.step = "journal"
  BY <1>3, <1>4, PlanGoes
<1>10. \A c, k : Stored(c, k)' <=> Stored(c, k)
  BY <1>3 DEF Stored
<1>11. InOrder(r)'
  <2>1. ASSUME r.phase = "mature"
        PROVE  /\ Len(r.claims) \in Nat /\ DOMAIN r.claims = 1 .. Len(r.claims)
               /\ \A i \in DOMAIN r.claims : i < r.next => Stored(ClaimBatch(r, i), "disposition")
    BY <1>3, <1>5, <2>1 DEF FileInv, AppliesInOrder, InOrder
  <2>2. \A i : ClaimBatch(r, i)' = ClaimBatch(r, i)
    BY <1>9 DEF ClaimBatch, SameRun
  <2> QED BY <1>5, <1>6, <1>7, <1>9, <1>10, <2>1, <2>2 DEF InOrder, SameRun
<1>12. \/ b \in reapplied'
       \/ /\ ~Stored(b, "canon") /\ ~JournalLeft(b)
          /\ \A p \in Maturers \ {m} : ~AtWork(p, b)
  BY <1>3 DEF AtWork, Planned
<1> HIDE DEF r
<1> QED BY <1>3, <1>8, <1>11, <1>12, PlanStep DEF r

\* The record of a run, when its claims are all applied.
LEMMA RecordStep ==
  ASSUME Workers, FileInv, NEW m \in Maturers, NoneLeft(m), mature[m].phase # "promote",
         mature[m].next = Len(ToApply(m)) + 1, TakesPlan(m, RecordBatch(m), RecordFiles(m))
  PROVE  FileInv'
<1> DEFINE r == mature[m]
<1>1. PICK b : b = RecordBatch(m)
  OBVIOUS
<1>2. PICK files : files = RecordFiles(m)
  OBVIOUS
<1>3. /\ r.step = "load" /\ UNCHANGED <<memory, matJournal, reapplied>>
      /\ TakesPlan(m, b, files)
  BY <1>1, <1>2 DEF NoneLeft, MatureAt, maturationFiles
<1>4. r.step # "idle" /\ IsWorker(r) /\ r.phase = "mature"
  <2>1. r.step # "idle" /\ IsWorker(r)
    BY <1>3, BusyIsWorker
  <2> QED BY <2>1 DEF IsWorker
<1>5. r.next \in Nat /\ r.night # 0
  BY <1>4 DEF IsWorker
<1>6. OfRecord(b) /\ b.run = Digest(r.claims) /\ \A i : [b EXCEPT !.at = i] = ClaimBatch(r, i)
  BY <1>1, <1>5 DEF RecordBatch, OfRecord, ClaimBatch
<1>7. ASSUME r.clean
      PROVE  /\ DOMAIN r.claims = 1 .. Len(r.claims) /\ Len(r.claims) \in Nat
             /\ \A i \in DOMAIN r.claims : Stored(ClaimBatch(r, i), "disposition")
  <2>1. /\ DOMAIN r.claims = 1 .. Len(r.claims) /\ Len(r.claims) \in Nat
        /\ \A i \in DOMAIN r.claims : i < r.next => Stored(ClaimBatch(r, i), "disposition")
    BY <1>3, <1>4, <1>7 DEF FileInv, AppliesInOrder, InOrder
  <2>2. r.next = Len(r.claims) + 1
    BY <1>7 DEF ToApply
  <2> QED BY <2>1, <2>2
<1>8. r.clean => Applied(b)
  BY <1>6, <1>7 DEF Applied, Digest
<1>9. PICK v : files = <<<<"matured", v>>>> /\ v.clean = r.clean
  BY <1>2 DEF RecordFiles
<1>10. Len(files) = 1 /\ DOMAIN files = 1 .. 1 /\ files[1][1] = "matured" /\ files[1][2] = v
  BY <1>9
<1>11. GoodPlan(b, files)
  <2>1. \A i \in DOMAIN files : files[i][1] = "matured" /\ files[i][2] = v
    BY <1>10
  <2>2. GoodFiles(files)
    BY <1>10, <2>1 DEF GoodFiles
  <2> QED BY <1>8, <1>9, <2>1, <2>2 DEF GoodPlan
<1>12. /\ SameRun(r, r') /\ r'.next = r.next + 1 /\ r'.step = "journal"
  BY <1>3, <1>4, PlanGoes
<1>13. InOrder(r)'
  <2>1. \A i : ClaimBatch(r, i)' = ClaimBatch(r, i)
    BY <1>12 DEF ClaimBatch, SameRun
  <2>2. \A c, k : Stored(c, k)' <=> Stored(c, k)
    BY <1>3 DEF Stored
  <2> QED BY <1>7, <1>12, <2>1, <2>2 DEF InOrder, SameRun
<1> HIDE DEF r
<1> QED BY <1>3, <1>6, <1>11, <1>13, PlanStep DEF r

\* The journal of the batch in hand is begun, then finished.
LEMMA JournalStep ==
  ASSUME Workers, FileInv, NEW m \in Maturers, mature[m].step \in {"journal", "torn"},
         NEW b, NEW files, b = mature[m].batch, files = mature[m].files,
         UNCHANGED <<memory, reapplied>>, NEW v, matJournal' = With(matJournal, b, v),
         NEW st \in {"torn", "write"}, MatureGo(m, st), v.torn \in BOOLEAN,
         v.torn <=> st = "torn", st = "write" => v.files = files
  PROVE  FileInv'
<1>1. /\ Others(m) /\ SameRun(mature[m], mature'[m]) /\ mature'[m].next = mature[m].next
      /\ mature'[m].step = st /\ mature'[m].batch = b /\ mature'[m].files = files
      /\ mature'[m].pos = mature[m].pos
  <2>1. mature[m].step # "idle" /\ st \in MatureInside
    BY DEF MatureInside, MatureSteps
  <2> QED BY <2>1, StepGoes
<1>2. \A c, k : Stored(c, k)' <=> Stored(c, k)
  BY DEF Stored
<1>3. Grows
  BY <1>2 DEF Grows
<1>4. /\ \A c : c \in DOMAIN matJournal' <=> c = b \/ c \in DOMAIN matJournal
      /\ matJournal'[b] = v
      /\ \A c \in DOMAIN matJournal : c # b => matJournal'[c] = matJournal[c]
  BY DEF With
<1>5. \A c : JournalLeft(c)' <=> IF c = b THEN ~v.torn ELSE JournalLeft(c)
  BY <1>4 DEF JournalLeft
<1>6. /\ GoodPlan(b, files) /\ mature[m].pos = 0 /\ Len(files) \in Nat
      /\ AtWork(m, b)
  <2>1. GoodPlan(b, files) /\ mature[m].pos = 0
    BY DEF FileInv, Plans, Planned, Writes
  <2>2. AtWork(m, b)
    BY DEF AtWork, Planned
  <2> QED BY <2>1, <2>2, FilesAre DEF GoodPlan
<1>7. b \notin reapplied /\ ~OfRecord(b) => ~JournalLeft(b) /\ \A p \in Maturers \ {m} : ~AtWork(p, b)
  BY DEF FileInv, OnePlan, OnlyPlan, Planned, Writes
<1>8. AppliesInOrder'
  <2>1. ~(mature[m].step \in {"idle", "compile", "select", "release"})
    OBVIOUS
  <2>2. InOrder(mature[m])
    BY DEF FileInv, AppliesInOrder
  <2>3. InOrder(mature[m])'
    BY <1>1, <1>2, <2>1, <2>2 DEF InOrder, SameRun, ClaimBatch
  <2> QED BY <1>1, <1>3, <2>3, OrderKept DEF FileInv
<1>9. Plans'
  <2>1. GoodPlan(b, files)'
    BY <1>3, <1>6, PlanStays
  <2>2. SoFar(b, files, 0)'
    BY <1>6 DEF SoFar
  <2>3. ASSUME NEW c \in DOMAIN matJournal'
        PROVE  (/\ matJournal[c].torn \in BOOLEAN
                /\ ~matJournal[c].torn => GoodPlan(c, matJournal[c].files))'
    <3>1. CASE c = b
      BY <1>4, <2>1, <3>1
    <3>2. CASE c # b
      <4> DEFINE g == matJournal[c].files
      <4>1. c \in DOMAIN matJournal /\ matJournal'[c] = matJournal[c]
        BY <1>4, <3>2
      <4>2. /\ matJournal[c].torn \in BOOLEAN
            /\ ~matJournal[c].torn => GoodPlan(c, matJournal[c].files)
        BY <4>1 DEF FileInv, Plans
      <4>3. PICK f : f = matJournal[c].files
        OBVIOUS
      <4>4. ~matJournal[c].torn => GoodPlan(c, f)'
        BY <1>3, <4>2, <4>3, PlanStays
      <4> QED BY <4>1, <4>2, <4>3, <4>4
    <3> QED BY <3>1, <3>2
  <2>4. Plans
    BY DEF FileInv
  <2>5. \A p \in Maturers \ {m} : mature'[p].step \in Planned =>
          /\ GoodPlan(mature[p].batch, mature[p].files)'
          /\ mature'[p].step \notin Writes => mature'[p].pos = 0
          /\ SoFar(mature[p].batch, mature[p].files, mature[p].pos)'
    BY <1>1, <1>3, <2>4, PlansOfOthers
  <2> QED BY <1>1, <1>6, <2>1, <2>2, <2>3, <2>5 DEF Plans
<1>10. Records'
  BY QuietRecords DEF FileInv
<1>11. \A p \in Maturers : \A c : AtWork(p, c)' <=> AtWork(p, c)
  BY <1>1 DEF AtWork, Others, Planned
<1>12. OnePlan'
  <2>1. ASSUME b \notin reapplied, ~OfRecord(b)
        PROVE  OnlyPlan(m, b, files)'
    BY <1>1, <1>4, <1>5, <1>6, <1>7, <1>11, <2>1 DEF OnlyPlan, Writes, Others
  <2>2. ASSUME NEW p \in Maturers \ {m}, mature[p].step \in Planned,
               mature[p].batch \notin reapplied, ~OfRecord(mature[p].batch)
        PROVE  OnlyPlan(p, mature[p].batch, mature[p].files)'
    <3>1. OnlyPlan(p, mature[p].batch, mature[p].files) /\ mature'[p] = mature[p]
      BY <1>1, <2>2 DEF FileInv, OnePlan, Others
    <3>2. mature[p].batch # b
      BY <1>7, <2>2 DEF AtWork
    <3> DEFINE c == mature[p].batch
    <3>3. \A q \in Maturers : AtWork(q, c)' => q # m /\ AtWork(q, c) /\ mature'[q] = mature[q]
      BY <1>1, <1>11, <3>1, <3>2 DEF Others, AtWork
    <3>4. /\ JournalLeft(c)' <=> JournalLeft(c)
          /\ JournalLeft(c) => matJournal'[c] = matJournal[c]
      BY <1>4, <1>5, <3>1, <3>2 DEF JournalLeft
    <3> QED BY <1>2, <3>1, <3>3, <3>4 DEF OnlyPlan
  <2> QED BY <1>1, <2>1, <2>2 DEF OnePlan, Others
<1>13. Verdicts'
  <2>1. b \notin reapplied =>
          /\ Stored(b, "ratification") \/ Stored(b, "canon") => ~JournalLeft(b)
          /\ Stored(b, "canon") => Approving(files)
    BY <1>6, <1>7 DEF FileInv, Records, Verdicts, Stored
  <2>2. \A p \in Maturers : \A c : AtWork(p, c)' => AtWork(p, c) /\ mature'[p].files = mature[p].files
    BY <1>1, <1>11 DEF Others
  <2>3. ASSUME NEW c \in DOMAIN memory, c \notin reapplied, c # b
        PROVE  /\ JournalLeft(c)' <=> JournalLeft(c)
               /\ JournalLeft(c) => matJournal'[c] = matJournal[c]
    BY <1>4, <1>5, <2>3 DEF JournalLeft
  <2> QED BY <1>2, <1>4, <1>5, <2>1, <2>2, <2>3 DEF FileInv, Verdicts
<1> QED BY <1>8, <1>9, <1>10, <1>12, <1>13 DEF FileInv

\* What is in memory after a file was written.
FileAdded(b, kind, value) ==
  IF kind = "page" THEN UNCHANGED memory
  ELSE LET before == IF b \in DOMAIN memory THEN memory[b] ELSE << >>
       IN memory' = With(memory, b, With(before, kind, value))

LEMMA WriteIs ==
  ASSUME NEW b, NEW kind, NEW value, FileAdded(b, kind, value)
  PROVE  /\ \A c, k : Stored(c, k)' <=> Stored(c, k) \/ (c = b /\ k = kind /\ kind # "page")
         /\ kind # "page" => memory'[b][kind] = value
         /\ \A c, k : Stored(c, k) /\ ~(c = b /\ k = kind) => memory'[c][k] = memory[c][k]
         /\ \A c \in DOMAIN memory' : c # b => c \in DOMAIN memory /\ memory'[c] = memory[c]
<1>1. CASE kind = "page"
  BY <1>1 DEF Stored, FileAdded
<1>2. CASE kind # "page"
  <2> DEFINE before == IF b \in DOMAIN memory THEN memory[b] ELSE << >>
             after == With(before, kind, value)
  <2>1. memory' = With(memory, b, after)
    BY <1>2 DEF FileAdded
  <2>2. /\ \A k : k \in DOMAIN before <=> Stored(b, k)
        /\ \A k : Stored(b, k) => before[k] = memory[b][k]
    BY DEF Stored
  <2> HIDE DEF before
  <2>3. /\ \A k : k \in DOMAIN after <=> k = kind \/ Stored(b, k)
        /\ after[kind] = value
        /\ \A k : Stored(b, k) /\ k # kind => after[k] = memory[b][k]
    BY <2>2 DEF With
  <2> HIDE DEF after
  <2>4. /\ \A c : c \in DOMAIN memory' <=> c = b \/ c \in DOMAIN memory
        /\ memory'[b] = after
        /\ \A c \in DOMAIN memory : c # b => memory'[c] = memory[c]
    BY <2>1 DEF With
  <2> QED BY <1>2, <2>3, <2>4 DEF Stored
<1> QED BY <1>1, <1>2

\* The next file of a batch is written.
LEMMA WriteStep ==
  ASSUME Workers, FileInv, NEW m \in Maturers, WriteMemory(m),
         NEW b, NEW files, NEW i, b = mature[m].batch, files = mature[m].files,
         i = mature[m].pos + 1
  PROVE  FileInv'
<1>1. PICK kind : kind = files[i][1]
  OBVIOUS
<1>2. PICK value : value = files[i][2]
  OBVIOUS
<1>3. /\ mature[m].step \in Writes /\ i <= Len(files) /\ UNCHANGED <<matJournal, reapplied>>
      /\ mature' = [mature EXCEPT ![m].pos = i]
      /\ FileAdded(b, kind, value)
  BY <1>1, <1>2 DEF WriteMemory, Writes, FileAdded
<1>4. /\ mature[m].step # "idle" /\ mature[m].step \in Planned /\ i \in Nat /\ i # 0
      /\ mature[m].pos = i - 1
  <2>1. mature[m].step # "idle" /\ mature[m].step \in Planned
    BY <1>3 DEF Writes, Planned
  <2>2. mature[m].pos \in Nat
    BY <2>1, BusyIsWorker DEF IsWorker
  <2> QED BY <2>1, <2>2
<1>5. /\ Others(m) /\ SameRun(mature[m], mature'[m]) /\ mature'[m].next = mature[m].next
      /\ mature'[m].step = mature[m].step /\ mature'[m].batch = b /\ mature'[m].files = files
      /\ mature'[m].pos = i
  BY <1>3, <1>4, WriteGoes
<1>6. /\ \A c, k : Stored(c, k)' <=> Stored(c, k) \/ (c = b /\ k = kind /\ kind # "page")
      /\ kind # "page" => memory'[b][kind] = value
      /\ \A c, k : Stored(c, k) /\ ~(c = b /\ k = kind) => memory'[c][k] = memory[c][k]
      /\ \A c \in DOMAIN memory' : c # b => c \in DOMAIN memory /\ memory'[c] = memory[c]
  BY <1>3, WriteIs
<1>7. Grows
  BY <1>6 DEF Grows
<1>8. /\ GoodPlan(b, files) /\ GoodFiles(files) /\ SoFar(b, files, mature[m].pos)
      /\ i \in DOMAIN files /\ Len(files) \in Nat
  <2>1. GoodPlan(b, files) /\ SoFar(b, files, mature[m].pos)
    BY <1>4 DEF FileInv, Plans
  <2> QED BY <1>3, <1>4, <2>1, FilesAre DEF GoodPlan
<1>9. \A k : Before(files, i, k) /\ k # "page" => Stored(b, k)
  BY <1>4, <1>8 DEF Before, SoFar
<1>10. Plans'
  <2>1. \A j \in 1 .. i : files[j][1] # "page" => Stored(b, files[j][1])'
    <3> TAKE j \in 1 .. i
    <3>1. CASE j = i
      BY <1>1, <1>6, <3>1
    <3>2. CASE j # i
      <4>1. j \in 1 .. i - 1
        BY <1>4, <3>2
      <4> QED BY <1>4, <1>7, <1>8, <4>1 DEF SoFar, Grows
    <3> QED BY <3>1, <3>2
  <2>2. Plans
    BY DEF FileInv
  <2>3. mature'[m].step \in Writes
    BY <1>3, <1>5
  <2>4. SoFar(b, files, mature[m].pos)'
    BY <1>3, <1>5, <2>1 DEF SoFar
  <2> QED BY <1>3, <1>5, <1>7, <1>8, <2>2, <2>3, <2>4, PlansAfter
<1>11. AppliesInOrder'
  <2>1. InOrder(mature[m])
    BY DEF FileInv, AppliesInOrder
  <2>2. InOrder(mature[m])'
    BY <1>4, <1>5, <1>7, <2>1 DEF InOrder, SameRun, ClaimBatch, Grows
  <2> QED BY <1>5, <1>7, <2>2, OrderKept DEF FileInv
<1>12. Records'
  <2>1. ASSUME NEW c, Stored(c, "disposition")'
        PROVE  \A k \in Needs(memory'[c].disposition) : Stored(c, k)'
    <3>1. CASE c = b /\ kind = "disposition"
      <4>1. \A k \in Needs(value) : Before(files, i, k)
        BY <1>1, <1>2, <1>8, <3>1 DEF GoodFiles
      <4>2. \A k \in Needs(value) : k # "page"
        BY DEF Needs
      <4>3. memory'[c].disposition = value
        BY <1>6, <3>1
      <4> QED BY <1>6, <1>9, <3>1, <4>1, <4>2, <4>3
    <3>2. CASE ~(c = b /\ kind = "disposition")
      <4>1. Stored(c, "disposition") /\ memory'[c].disposition = memory[c].disposition
        BY <1>6, <2>1, <3>2
      <4>2. \A k \in Needs(memory[c].disposition) : Stored(c, k)
        BY <4>1 DEF FileInv, Records, Stored
      <4> QED BY <1>6, <4>1, <4>2
    <3> QED BY <3>1, <3>2
  <2>2. ASSUME NEW c, Stored(c, "canon")'
        PROVE  /\ Stored(c, "evidence")' /\ Stored(c, "proposal")' /\ Stored(c, "ratification")'
               /\ ClaimOf[memory'[c].canon.topic].role # "owner"
    <3>1. CASE c = b /\ kind = "canon"
      <4>1. /\ Before(files, i, "evidence") /\ Before(files, i, "proposal")
            /\ Before(files, i, "ratification") /\ ClaimOf[value.topic].role # "owner"
        BY <1>1, <1>2, <1>8, <3>1 DEF GoodFiles
      <4>2. memory'[c].canon = value
        BY <1>6, <3>1
      <4> QED BY <1>6, <1>9, <3>1, <4>1, <4>2
    <3>2. CASE ~(c = b /\ kind = "canon")
      <4>1. Stored(c, "canon") /\ memory'[c].canon = memory[c].canon
        BY <1>6, <2>2, <3>2
      <4> QED BY <1>6, <4>1 DEF FileInv, Records, Stored
    <3> QED BY <3>1, <3>2
  <2>3. ASSUME NEW c \in DOMAIN memory', OfRecord(c)
        PROVE  DOMAIN memory'[c] \subseteq {"matured"}
    <3>1. ASSUME NEW k \in DOMAIN memory'[c]
          PROVE  k = "matured"
      <4>1. Stored(c, k) \/ (c = b /\ k = kind)
        BY <1>6, <3>1 DEF Stored
      <4>2. ASSUME Stored(c, k)
            PROVE  k = "matured"
        BY <2>3, <4>2 DEF FileInv, Records, Stored
      <4>3. ASSUME c = b, k = kind
            PROVE  k = "matured"
        BY <1>1, <1>8, <2>3, <4>3 DEF GoodPlan
      <4> QED BY <4>1, <4>2, <4>3
    <3> QED BY <3>1
  <2>4. ASSUME NEW c, Stored(c, "matured")', memory'[c].matured.clean
        PROVE  Applied(c)'
    <3>1. CASE c = b /\ kind = "matured"
      <4>1. memory'[c].matured = value
        BY <1>6, <3>1
      <4>2. Applied(c)
        BY <1>1, <1>2, <1>8, <2>4, <3>1, <4>1 DEF GoodPlan
      <4> QED BY <1>7, <4>2, AppliedStays
    <3>2. CASE ~(c = b /\ kind = "matured")
      <4>1. Stored(c, "matured") /\ memory'[c].matured = memory[c].matured
        BY <1>6, <2>4, <3>2
      <4>2. Applied(c)
        BY <2>4, <4>1 DEF FileInv, Records, Stored
      <4> QED BY <1>7, <4>2, AppliedStays
    <3> QED BY <3>1, <3>2
  <2> QED BY <2>1, <2>2, <2>3, <2>4 DEF Records
<1>13. \A p \in Maturers : \A c : AtWork(p, c)' <=> AtWork(p, c)
  BY <1>5 DEF AtWork, Others
<1>14. AtWork(m, b)
  BY <1>4 DEF AtWork
<1>15. ASSUME b \notin reapplied, ~OfRecord(b)
       PROVE  OnlyPlan(m, b, files)
  BY <1>4, <1>15 DEF FileInv, OnePlan
<1>16. \A j, k \in DOMAIN files : files[j][1] = "ratification" /\ files[k][1] = "ratification"
         => files[j][2] = files[k][2]
  BY <1>8 DEF GoodFiles
<1>17. ASSUME NEW p \in Maturers, mature[p].step \in Planned, NEW c, NEW g,
              c = mature[p].batch, g = mature[p].files, c \notin reapplied, ~OfRecord(c)
       PROVE  /\ OnlyPlan(p, c, g) /\ SoFar(c, g, mature[p].pos) /\ (c = b => g = files)
              /\ \A j \in 1 .. mature[p].pos : j \in DOMAIN g
  <2>1. OnlyPlan(p, c, g) /\ SoFar(c, g, mature[p].pos) /\ GoodFiles(g)
    BY <1>17 DEF FileInv, OnePlan, Plans, GoodPlan
  <2>2. c = b => g = files
    BY <1>14, <1>17, <2>1 DEF OnlyPlan
  <2>3. mature[p].pos \in Nat
    BY <1>17, BusyIsWorker DEF Planned, IsWorker
  <2> QED BY <2>1, <2>2, <2>3, FilesAre DEF SoFar
<1>18. OnePlan'
  <2> SUFFICES ASSUME NEW p \in Maturers, mature[p].step \in Planned, NEW c, NEW g,
                      c = mature[p].batch, g = mature[p].files, c \notin reapplied, ~OfRecord(c)
               PROVE  OnlyPlan(p, c, g)'
    <3>1. \A p \in Maturers : /\ mature'[p].step = mature[p].step
                              /\ mature'[p].batch = mature[p].batch
                              /\ mature'[p].files = mature[p].files
      BY <1>5 DEF Others
    <3> QED BY <1>3, <3>1 DEF OnePlan
  <2>1. /\ OnlyPlan(p, c, g) /\ SoFar(c, g, mature[p].pos) /\ (c = b => g = files)
        /\ \A j \in 1 .. mature[p].pos : j \in DOMAIN g
    BY <1>17
  <2>2. \A q \in Maturers : /\ mature'[q].step = mature[q].step
                            /\ mature'[q].files = mature[q].files
    BY <1>5 DEF Others
  <2>3. ASSUME NEW j \in 1 .. mature[p].pos, g[j][1] = "ratification"
        PROVE  memory'[c].ratification = g[j][2]
    <3>1. Stored(c, "ratification") /\ memory[c].ratification = g[j][2]
      BY <2>1, <2>3 DEF OnlyPlan, SoFar
    <3>2. CASE c = b /\ kind = "ratification"
      <4>1. memory'[c].ratification = value
        BY <1>6, <3>2
      <4>2. j \in DOMAIN files /\ files[j][1] = "ratification" /\ files[i][1] = "ratification"
        BY <1>1, <2>1, <2>3, <3>2
      <4> QED BY <1>2, <1>8, <1>16, <2>1, <3>2, <4>1, <4>2
    <3>3. CASE ~(c = b /\ kind = "ratification")
      BY <1>6, <3>1, <3>3
    <3> QED BY <3>2, <3>3
  <2>4. \A j \in 1 .. mature'[p].pos : g[j][1] = "ratification" => memory'[c].ratification = g[j][2]
    <3>1. CASE p # m
      BY <1>5, <2>3, <3>1 DEF Others
    <3>2. CASE p = m
      <4>1. c = b /\ g = files /\ mature'[p].pos = i
        BY <1>5, <3>2
      <4>2. files[i][1] = "ratification" => memory'[c].ratification = files[i][2]
        BY <1>1, <1>2, <1>6, <4>1
      <4>3. \A j \in 1 .. i : j = i \/ j \in 1 .. i - 1
        BY <1>4
      <4>4. mature[p].pos = i - 1
        BY <1>4, <3>2
      <4> QED BY <2>3, <4>1, <4>2, <4>3, <4>4
    <3> QED BY <3>1, <3>2
  <2>5. JournalLeft(c)' <=> JournalLeft(c)
    BY <1>3 DEF JournalLeft
  <2> QED BY <1>3, <1>6, <1>13, <2>1, <2>2, <2>4, <2>5 DEF OnlyPlan
<1>19. \A c : JournalLeft(c)' <=> JournalLeft(c)
  BY <1>3 DEF JournalLeft
<1>20. OfRecord(b) => ~Stored(b, "ratification")' /\ ~Stored(b, "canon")'
  <2>1. OfRecord(b) => kind = "matured"
    BY <1>1, <1>8 DEF GoodPlan
  <2>2. OfRecord(b) => ~Stored(b, "ratification") /\ ~Stored(b, "canon")
    BY DEF FileInv, Records, Stored
  <2> QED BY <1>6, <2>1, <2>2
<1>21. \A v : Companion(v) # "page"
  BY DEF Companion
<1>22. ASSUME b \notin reapplied, Stored(b, "ratification")', NEW v, v = memory'[b].ratification
       PROVE  \/ Stored(b, Companion(v))'
              \/ JournalLeft(b) /\ Names(matJournal[b].files, "ratification")
  <2>1. OnlyPlan(m, b, files)
    BY <1>15, <1>20, <1>22
  <2>2. CASE kind = "ratification"
    <3>1. v = value
      BY <1>6, <1>22, <2>2
    <3>2. Names(files, Companion(v))
      BY <1>1, <1>2, <1>8, <2>2, <3>1 DEF GoodFiles
    <3>3. CASE JournalLeft(b)
      BY <1>1, <1>3, <1>8, <2>1, <2>2, <3>3 DEF OnlyPlan, Names
    <3>4. CASE ~JournalLeft(b)
      <4>1. PICK j \in DOMAIN files : files[j][1] = Companion(v)
        BY <3>2 DEF Names
      <4>2. files[j][1] # "page"
        BY <1>21, <4>1
      <4>3. Stored(b, files[j][1])
        BY <1>3, <2>1, <3>4, <4>2 DEF OnlyPlan
      <4> QED BY <1>6, <4>1, <4>3
    <3> QED BY <3>3, <3>4
  <2>3. CASE kind # "ratification"
    <3>1. Stored(b, "ratification") /\ v = memory[b].ratification
      BY <1>6, <1>22, <2>3
    <3>2. \/ Stored(b, Companion(v))
          \/ JournalLeft(b) /\ Names(matJournal[b].files, "ratification")
      BY <1>22, <3>1 DEF FileInv, Verdicts, Stored
    <3> QED BY <1>6, <3>1, <3>2
  <2> QED BY <2>2, <2>3
<1>23. ASSUME b \notin reapplied, Stored(b, "canon")'
       PROVE  /\ memory'[b].ratification = "approved"
              /\ JournalLeft(b) => Approving(matJournal[b].files)
              /\ Approving(files)
  <2>1. OnlyPlan(m, b, files)
    BY <1>15, <1>20, <1>23
  <2>2. CASE kind = "canon"
    <3>1. Approving(files) /\ Before(files, i, "ratification")
      BY <1>1, <1>8, <2>2 DEF GoodFiles, Approving
    <3>2. PICK j \in 1 .. i - 1 : files[j][1] = "ratification"
      BY <3>1 DEF Before
    <3>3. Stored(b, "ratification")
      BY <1>9, <3>1
    <3>4. j \in 1 .. mature[m].pos /\ j \in DOMAIN files
      BY <1>3, <1>4, <1>8, <3>2, FilesAre
    <3>5. memory[b].ratification = "approved"
      BY <2>1, <3>1, <3>2, <3>4 DEF OnlyPlan, Approving
    <3>6. JournalLeft(b) => matJournal[b].files = files
      BY <1>3, <2>1 DEF OnlyPlan
    <3> QED BY <1>6, <2>2, <3>1, <3>3, <3>5, <3>6
  <2>3. CASE kind # "canon"
    <3>1. Stored(b, "canon")
      BY <1>6, <1>23, <2>3
    <3>2. /\ Stored(b, "ratification") /\ memory[b].ratification = "approved"
          /\ JournalLeft(b) => Approving(matJournal[b].files)
          /\ Approving(files)
      BY <1>14, <1>23, <3>1 DEF FileInv, Verdicts, Records, Stored
    <3>3. memory'[b].ratification = "approved"
      <4>1. CASE kind = "ratification"
        <5>1. value = "approved"
          BY <1>1, <1>2, <1>8, <3>2, <4>1 DEF Approving
        <5> QED BY <1>6, <4>1, <5>1
      <4>2. CASE kind # "ratification"
        BY <1>6, <3>2, <4>2
      <4> QED BY <4>1, <4>2
    <3> QED BY <3>2, <3>3
  <2> QED BY <2>2, <2>3
<1>24. Verdicts'
  <2>1. \A p \in Maturers : mature'[p].files = mature[p].files
    BY <1>5 DEF Others
  <2> SUFFICES ASSUME NEW c \in DOMAIN memory', c \notin reapplied,
                      NEW v, v = memory'[c].ratification
               PROVE  /\ Stored(c, "ratification")' =>
                           \/ Stored(c, Companion(v))'
                           \/ JournalLeft(c) /\ Names(matJournal[c].files, "ratification")
                      /\ Stored(c, "canon")' =>
                           /\ memory'[c].ratification = "approved"
                           /\ JournalLeft(c) => Approving(matJournal[c].files)
                           /\ \A p \in Maturers : AtWork(p, c) => Approving(mature[p].files)
    BY <1>3, <1>13, <1>19, <2>1 DEF Verdicts
  <2>2. CASE c = b
    <3>1. Stored(b, "canon")' => \A p \in Maturers : AtWork(p, b) => mature[p].files = files
      BY <1>15, <1>20, <2>2 DEF OnlyPlan
    <3> QED BY <1>22, <1>23, <2>2, <3>1
  <2>3. CASE c # b
    <3>1. c \in DOMAIN memory /\ memory'[c] = memory[c]
      BY <1>6, <2>3
    <3>2. \A k : Stored(c, k)' <=> Stored(c, k)
      BY <1>6, <2>3
    <3> QED BY <3>1, <3>2 DEF FileInv, Verdicts
  <2> QED BY <2>2, <2>3
<1> QED BY <1>10, <1>11, <1>12, <1>18, <1>24 DEF FileInv

\* The journal goes when all its files are written.
LEMMA ClearStep ==
  ASSUME Workers, FileInv, NEW m \in Maturers, ClearMatJournal(m),
         NEW b, NEW files, b = mature[m].batch, files = mature[m].files
  PROVE  FileInv'
<1> DEFINE r == mature[m]
<1>1. /\ r.step \in Writes /\ r.pos = Len(files) /\ UNCHANGED <<memory, reapplied>>
      /\ matJournal' = Without(matJournal, b)
  BY DEF ClearMatJournal, Writes
<1>2. r.step # "idle" /\ r.step \in Planned
  BY <1>1 DEF Writes, Planned
<1>3. /\ Others(m) /\ SameRun(r, r') /\ r'.next = r.next
      /\ r'.step = (IF r.step = "write" THEN "load" ELSE "read")
  BY <1>2, ClearGoes
<1>4. /\ \A c, k : Stored(c, k)' <=> Stored(c, k)
      /\ Grows
  BY <1>1 DEF Stored, Grows
<1>5. \A c : c \in DOMAIN matJournal' => c # b /\ c \in DOMAIN matJournal /\ matJournal'[c] = matJournal[c]
  BY <1>1 DEF Without
<1>6. \A c : c # b /\ c \in DOMAIN matJournal => c \in DOMAIN matJournal'
  BY <1>1 DEF Without
<1>7. \A c : JournalLeft(c)' <=> c # b /\ JournalLeft(c)
  BY <1>5, <1>6 DEF JournalLeft
<1>8. GoodPlan(b, files) /\ GoodFiles(files) /\ SoFar(b, files, r.pos)
  BY <1>2 DEF FileInv, Plans, GoodPlan
<1>9. \A j \in DOMAIN files : j \in 1 .. r.pos /\ (files[j][1] # "page" => Stored(b, files[j][1]))
  BY <1>1, <1>8, FilesAre DEF SoFar
<1>10. AppliesInOrder'
  <2>1. InOrder(r)
    BY DEF FileInv, AppliesInOrder
  <2>2. Names(files, "disposition") => Stored(b, "disposition")
    BY <1>9 DEF Names
  <2>3. r'.step \notin {"idle", "compile", "select", "release", "journal", "torn", "write"}
    BY <1>3
  <2>4. r.step \notin {"idle", "compile", "select", "release"}
    BY <1>1 DEF Writes
  <2>5. ASSUME r.phase = "mature", r.clean
        PROVE  /\ Len(r.claims) \in Nat /\ DOMAIN r.claims = 1 .. Len(r.claims)
               /\ \A i \in DOMAIN r.claims : i < r.next => Stored(ClaimBatch(r, i), "disposition")
    BY <2>1, <2>2, <2>4, <2>5 DEF InOrder
  <2>6. \A i : ClaimBatch(r, i)' = ClaimBatch(r, i)
    BY <1>3 DEF ClaimBatch, SameRun
  <2>7. InOrder(r)'
    BY <1>3, <1>4, <2>3, <2>5, <2>6 DEF InOrder, SameRun
  <2> HIDE DEF r
  <2> QED BY <1>3, <1>4, <2>7, OrderKept DEF FileInv, r
<1>11. r'.step \notin Planned
  BY <1>3 DEF Planned
<1>12. \A p \in Maturers : \A c : AtWork(p, c)' => p # m /\ AtWork(p, c) /\ mature'[p] = mature[p]
  BY <1>3, <1>11 DEF AtWork, Others
<1>13. Plans'
  <2>1. Plans
    BY DEF FileInv
  <2>2. ASSUME NEW c \in DOMAIN matJournal', NEW g, g = matJournal[c].files
        PROVE  /\ matJournal'[c].torn \in BOOLEAN /\ matJournal'[c].files = g
               /\ ~matJournal'[c].torn => GoodPlan(c, g)'
    <3>1. c \in DOMAIN matJournal /\ matJournal'[c] = matJournal[c]
      BY <1>5
    <3>2. /\ matJournal[c].torn \in BOOLEAN
          /\ ~matJournal[c].torn => GoodPlan(c, g)
      BY <2>1, <2>2, <3>1 DEF Plans
    <3> QED BY <1>4, <2>2, <3>1, <3>2, PlanStays
  <2>3. \A p \in Maturers \ {m} : mature'[p].step \in Planned =>
          /\ GoodPlan(mature[p].batch, mature[p].files)'
          /\ mature'[p].step \notin Writes => mature'[p].pos = 0
          /\ SoFar(mature[p].batch, mature[p].files, mature[p].pos)'
    BY <1>3, <1>4, <2>1, PlansOfOthers
  <2>4. ASSUME NEW c \in DOMAIN matJournal'
        PROVE  (/\ matJournal[c].torn \in BOOLEAN
                /\ ~matJournal[c].torn => GoodPlan(c, matJournal[c].files))'
    BY <2>2
  <2> QED BY <1>11, <2>3, <2>4 DEF Plans
<1>14. Records'
  BY <1>1, QuietRecords DEF FileInv
<1>15. ASSUME b \notin reapplied, ~OfRecord(b)
       PROVE  OnlyPlan(m, b, files)
  BY <1>2, <1>15 DEF FileInv, OnePlan
<1>16. OnePlan'
  <2> SUFFICES ASSUME NEW p \in Maturers, p # m, mature[p].step \in Planned, NEW c, NEW g,
                      c = mature[p].batch, g = mature[p].files, c \notin reapplied, ~OfRecord(c)
               PROVE  OnlyPlan(p, c, g)'
    BY <1>1, <1>3, <1>11 DEF OnePlan, Others
  <2>1. OnlyPlan(p, c, g) /\ mature'[p] = mature[p] /\ AtWork(p, c) /\ AtWork(m, b)
    BY <1>2, <1>3 DEF FileInv, OnePlan, Others, AtWork
  <2>2. CASE c = b
    <3>1. g = files /\ mature[p].step \in Writes
      BY <1>2, <2>1, <2>2 DEF OnlyPlan
    <3> QED BY <1>1, <1>4, <1>7, <1>9, <1>12, <2>1, <2>2, <3>1 DEF OnlyPlan
  <2>3. CASE c # b
    <3>1. JournalLeft(c)' <=> JournalLeft(c)
      BY <1>7, <2>3
    <3>2. JournalLeft(c)' => matJournal'[c] = matJournal[c]
      BY <1>5 DEF JournalLeft
    <3> QED BY <1>1, <1>4, <1>12, <2>1, <3>1, <3>2 DEF OnlyPlan
  <2> QED BY <2>2, <2>3
<1>17. Verdicts'
  <2>1. ASSUME NEW v, v = memory[b].ratification, b \notin reapplied, Stored(b, "ratification")
        PROVE  Stored(b, Companion(v))
    <3>1. ~OfRecord(b)
      BY <2>1 DEF FileInv, Records, Stored
    <3>2. OnlyPlan(m, b, files)
      BY <1>15, <2>1, <3>1
    <3>3. CASE Names(files, "ratification")
      <4>1. PICK j \in DOMAIN files : files[j][1] = "ratification"
        BY <3>3 DEF Names
      <4>2. v = files[j][2]
        BY <1>9, <2>1, <3>2, <4>1 DEF OnlyPlan
      <4>3. Names(files, Companion(v))
        BY <1>8, <4>1, <4>2 DEF GoodFiles
      <4>4. PICK k \in DOMAIN files : files[k][1] = Companion(v)
        BY <4>3 DEF Names
      <4>5. files[k][1] # "page"
        BY <4>4 DEF Companion
      <4>6. Stored(b, files[k][1])
        BY <1>9, <4>5
      <4> QED BY <4>4, <4>6
    <3>4. CASE ~Names(files, "ratification")
      <4>1. ~(JournalLeft(b) /\ Names(matJournal[b].files, "ratification"))
        BY <1>1, <3>2, <3>4 DEF OnlyPlan
      <4>2. b \in DOMAIN memory
        BY <2>1 DEF Stored
      <4> QED BY <2>1, <4>1, <4>2 DEF FileInv, Verdicts
    <3> QED BY <3>3, <3>4
  <2> SUFFICES ASSUME NEW c \in DOMAIN memory, c \notin reapplied, NEW v, v = memory[c].ratification
               PROVE  /\ Stored(c, "ratification") =>
                           \/ Stored(c, Companion(v))
                           \/ JournalLeft(c)' /\ Names(matJournal'[c].files, "ratification")
                      /\ Stored(c, "canon") =>
                           /\ v = "approved"
                           /\ JournalLeft(c)' => Approving(matJournal'[c].files)
                           /\ \A p \in Maturers : AtWork(p, c)' => Approving(mature'[p].files)
    BY <1>1, <1>4 DEF Verdicts
  <2>2. /\ Stored(c, "ratification") =>
             \/ Stored(c, Companion(v))
             \/ JournalLeft(c) /\ Names(matJournal[c].files, "ratification")
        /\ Stored(c, "canon") =>
             /\ v = "approved"
             /\ JournalLeft(c) => Approving(matJournal[c].files)
             /\ \A p \in Maturers : AtWork(p, c) => Approving(mature[p].files)
    BY DEF FileInv, Verdicts
  <2>3. /\ JournalLeft(c)' => JournalLeft(c) /\ matJournal'[c] = matJournal[c]
        /\ \A p \in Maturers : AtWork(p, c)' => AtWork(p, c) /\ mature'[p] = mature[p]
    BY <1>5, <1>7, <1>12 DEF JournalLeft
  <2>4. c # b => (JournalLeft(c)' <=> JournalLeft(c))
    BY <1>7
  <2>5. c # b /\ JournalLeft(c) => matJournal'[c] = matJournal[c]
    BY <2>3, <2>4
  <2> QED BY <2>1, <2>2, <2>3, <2>4, <2>5
<1> QED BY <1>10, <1>13, <1>14, <1>16, <1>17 DEF FileInv

\* All together.
LEMMA FilesStep ==
  ASSUME MaturationAssumption, Workers, FileInv, [MaturationNext]_maturationVars
  PROVE  FileInv'
<1>1. CASE UNCHANGED maturationVars
  BY <1>1, NothingQuiet DEF maturationVars
<1>2. ASSUME NEW m \in Maturers, BeginMature(m) \/ BeginPromote(m)
      PROVE  FileInv'
  BY <1>2, BeginsQuiet
<1>3. CASE Consolidate
  BY <1>3, NothingQuiet DEF Consolidate, maturationFiles
<1>4. ASSUME NEW m \in Maturers, mature[m].step # "idle", AtLocks(m)
      PROVE  FileInv'
  BY <1>4, LocksQuiet
<1>5. ASSUME NEW m \in Maturers, mature[m].step # "idle", AtFiles(m)
      PROVE  FileInv'
  <2>1. CASE ListJournals(m) \/ AllRecovered(m) \/ LookForCompleted(m)
    <3>1. UNCHANGED <<memory, matJournal, reapplied>>
      BY <2>1 DEF ListJournals, AllRecovered, LookForCompleted, maturationFiles
    <3> QED BY <1>5, <2>1, <3>1, ReadingQuiet
  <2>2. CASE ReadJournal(m)
    <3>1. UNCHANGED <<memory, matJournal, reapplied>> /\ mature[m].step = "read"
      BY <2>2 DEF ReadJournal, maturationFiles, MatureAt
    <3>2. CASE MatureGo(m, "release")
      BY <1>5, <2>2, <3>1, <3>2, ReadingQuiet
    <3>3. CASE ~MatureGo(m, "release")
      <4>1. PICK b \in DOMAIN matJournal : ~matJournal[b].torn /\ Replays(m, b, matJournal[b].files)
        BY <2>2, <3>3, ReadJournalIs
      <4>2. PICK files : files = matJournal[b].files
        OBVIOUS
      <4>3. Replays(m, b, files)
        BY <4>1, <4>2
      <4> QED BY <3>1, <4>1, <4>2, <4>3, ReplayStep
    <3> QED BY <3>2, <3>3
  <2>3. CASE LoadNext(m)
    BY <2>3, LoadNextStep
  <2>4. CASE NoneLeft(m)
    <3>1. UNCHANGED <<memory, matJournal, reapplied>>
      BY <2>4 DEF NoneLeft, maturationFiles
    <3>2. CASE MatureGo(m, "release") \/ MatureGo(m, "select")
      BY <1>5, <2>4, <3>1, <3>2, ReadingQuiet
    <3>3. CASE ~(MatureGo(m, "release") \/ MatureGo(m, "select"))
      BY <2>4, <3>3, NoneLeftIs, RecordStep
    <3> QED BY <3>2, <3>3
  <2> DEFINE b == mature[m].batch
             files == mature[m].files
  <2>5. PICK c : c = b
    OBVIOUS
  <2>6. PICK g : g = files
    OBVIOUS
  <2>7. CASE BeginJournal(m)
    <3> DEFINE v == [torn |-> TRUE, files |-> <<>>]
    <3>1. v.torn = TRUE
      OBVIOUS
    <3>2. /\ mature[m].step \in {"journal", "torn"} /\ UNCHANGED <<memory, reapplied>>
          /\ matJournal' = With(matJournal, c, v) /\ MatureGo(m, "torn")
      BY <2>5, <2>7 DEF BeginJournal, MatureAt
    <3> HIDE DEF v
    <3> QED BY <2>5, <2>6, <3>1, <3>2, JournalStep
  <2>8. CASE EndJournal(m)
    <3> DEFINE v == [torn |-> FALSE, files |-> g]
    <3>1. v.torn = FALSE /\ v.files = g
      OBVIOUS
    <3>2. /\ mature[m].step \in {"journal", "torn"} /\ UNCHANGED <<memory, reapplied>>
          /\ matJournal' = With(matJournal, c, v) /\ MatureGo(m, "write")
      BY <2>5, <2>6, <2>8 DEF EndJournal, MatureAt
    <3> HIDE DEF v
    <3> QED BY <2>5, <2>6, <3>1, <3>2, JournalStep
  <2>9. CASE WriteMemory(m)
    <3>1. PICK i : i = mature[m].pos + 1
      OBVIOUS
    <3> QED BY <2>5, <2>6, <2>9, <3>1, WriteStep
  <2>10. CASE ClearMatJournal(m)
    BY <2>5, <2>6, <2>10, ClearStep
  <2> QED BY <1>5, <2>1, <2>2, <2>3, <2>4, <2>7, <2>8, <2>9, <2>10 DEF AtFiles
<1> QED BY <1>1, <1>2, <1>3, <1>4, <1>5, NextIs

LEMMA FilesInit ==
  ASSUME MaturationAssumption, MaturationInit
  PROVE  Workers /\ FileInv
<1> USE DEF MaturationInit, NoMature
<1>1. Workers
  BY DEF Workers, MatLocks, MaturationAssumption
<1>2. Plans /\ OnePlan
  BY DEF Plans, OnePlan, Planned
<1>3. Records /\ Verdicts
  BY DEF Records, Verdicts
<1>4. AppliesInOrder
  BY DEF AppliesInOrder, InOrder
<1> QED BY <1>1, <1>2, <1>3, <1>4 DEF FileInv

-----------------------------------------------------------------------------
\* Processes that do not mix.

\* Who is under its lock is alone.
LEMMA OthersRest ==
  ASSUME MaturationAssumption, Workers, Exclusive, NEW m \in Maturers, NEW p \in Maturers,
         mature[m].step \in UnderLocks, mature[p].step \in UnderLocks
  PROVE  p = m
<1>1. mature[m].step # "idle" /\ mature[p].step # "idle"
  BY DEF UnderLocks, Planned
<1>2. LockOf(m) \in MatLocks /\ LockOf(p) \in MatLocks
  BY <1>1, LockIs
<1>3. matLock[LockOf(m)] = m /\ matLock[LockOf(p)] = p
  BY DEF Exclusive, Entitled
<1> QED BY <1>2, <1>3 DEF Exclusive, Holding

LEMMA SameLocks ==
  ASSUME Exclusive, NEW m \in Maturers, Others(m), UNCHANGED matLock, Entitled(m)'
  PROVE  Exclusive'
<1>1. \A p \in Maturers : Holding(p)' <=> Holding(p)
  BY DEF Holding
<1>2. \A p \in Maturers \ {m} : Entitled(p)'
  BY DEF Exclusive, Entitled, Others, LockOf
<1> QED BY <1>1, <1>2 DEF Exclusive

LEMMA SameJournals ==
  ASSUME OneJournal, NEW m \in Maturers, Others(m), UNCHANGED matJournal, OnlyItsOwn(m)'
  PROVE  OneJournal'
<1>1. \A p \in Maturers \ {m} : OnlyItsOwn(p)'
  BY DEF OneJournal, OnlyItsOwn, Others
<1> QED BY <1>1 DEF OneJournal

LEMMA SameSlots ==
  ASSUME SlotsOwned, NEW m \in Maturers, Others(m), UNCHANGED <<memory, matJournal>>,
         NEW b, NEW files,
         mature'[m].step \in Planned =>
           mature'[m].batch = b /\ mature'[m].files = files /\ Vacant(b, files)
  PROVE  SlotsOwned'
<1>1. \A c, k : Stored(c, k)' <=> Stored(c, k)
  BY DEF Stored
<1>2. \A s : CanonOf(s)' = CanonOf(s)
  BY <1>1 DEF CanonOf
<1>3. \A c, g : Vacant(c, g)' <=> Vacant(c, g)
  BY <1>2 DEF Vacant
<1>4. \A p \in Maturers : mature'[p].step \in Planned =>
        Vacant(mature'[p].batch, mature'[p].files)
  BY DEF SlotsOwned, Others
<1>5. \A p \in Maturers : mature'[p].step \in Planned =>
        Vacant(mature[p].batch, mature[p].files)'
  BY <1>3, <1>4
<1>6. \A c \in DOMAIN matJournal' : ~matJournal'[c].torn => Vacant(c, matJournal[c].files)'
  BY <1>3 DEF SlotsOwned
<1> QED BY <1>1, <1>5, <1>6 DEF SlotsOwned

\* Steps that leave the files and the plans alone.
LEMMA RestsAlone ==
  ASSUME OneJournal, SlotsOwned, NEW m \in Maturers, Others(m), UNCHANGED <<memory, matJournal>>,
         mature'[m].step \in {"idle", "compile", "select", "lock", "unlock", "list", "release"}
  PROVE  OneJournal' /\ SlotsOwned'
<1>1. OnlyItsOwn(m)' /\ mature'[m].step \notin Planned
  BY DEF OnlyItsOwn, Planned
<1>2. PICK b : b = mature[m].batch
  OBVIOUS
<1>3. SlotsOwned'
  BY <1>1, SameSlots
<1> QED BY <1>1, <1>3, SameJournals

\* A process that goes nowhere keeps what its locks entitle it to.
LEMMA StillEntitled ==
  ASSUME MaturationAssumption, Workers, NEW p \in Maturers, Entitled(p), mature'[p] = mature[p],
         \A k \in MatLocks : matLock[k] = p => matLock'[k] = p
  PROVE  Entitled(p)'
<1>1. mature[p].step # "idle" => LockOf(p) \in MatLocks /\ mature[p].night \in MatLocks
  BY LockIs, BusyIsWorker DEF IsWorker
<1>2. LockOf(p)' = LockOf(p)
  BY DEF LockOf
<1>3. "idle" \notin {"lock", "unlock", "select"} \cup UnderLocks
  BY DEF UnderLocks, Planned
<1> QED BY <1>1, <1>2, <1>3 DEF Entitled

LEMMA LocksAlone ==
  ASSUME MaturationAssumption, Workers, FileInv, AloneInv, NEW m \in Maturers,
         mature[m].step # "idle", AtLocks(m), ~mixed'
  PROVE  AloneInv'
<1> USE DEF MatureAt
<1> DEFINE Rests == /\ Others(m)
                    /\ mature'[m].step \in {"idle", "lock", "unlock", "list", "release"}
           l == LockOf(m)
<1>1. UNCHANGED <<memory, matJournal>>
  BY DEF AtLocks, Compile, SelectCandidates, TakeMatLock, FindStaleMat, RemoveStaleMat,
     MatTimesOut, ReleaseMatLock, MaturerDies, maturationFiles
<1>2. l \in MatLocks
  BY LockIs
<1>3. /\ Entitled(m) /\ \A p \in Maturers : Entitled(p)
      /\ \A p, q \in Maturers : Holding(p) /\ Holding(q) => p = q
  BY DEF AloneInv, Exclusive
<1>4. matLock \in [MatLocks -> Maturers \cup {"free", "dead"}]
  BY DEF Workers
<1>5. \A p \in Maturers : p # "free" /\ p # "dead"
  BY DEF MaturationAssumption
<1>6. ASSUME Compile(m)
      PROVE  Rests /\ Exclusive'
  <2>1. /\ Others(m) /\ mature'[m].step = "lock" /\ mature'[m].phase = "mature"
        /\ UNCHANGED matLock
    BY <1>6, CompileGoes DEF Compile, FileInv, AppliesInOrder, InOrder
  <2>2. Entitled(m)'
    BY <2>1 DEF Entitled, UnderLocks, Planned
  <2> QED BY <2>1, <2>2, SameLocks DEF AloneInv
<1>7. ASSUME SelectCandidates(m)
      PROVE  Rests /\ Exclusive'
  <2> DEFINE r == mature[m]
             q == mature'[m]
  <2>1. /\ Others(m) /\ IsWorker(r) /\ r.step = "select" /\ UNCHANGED matLock
        /\ \/ r.night = 0 /\ q = NoMature
           \/ IsWorker(q) /\ r.night # 0 /\ q.step = "release" /\ SameRun(r, q)
           \/ IsWorker(q) /\ q.step = "lock" /\ q.phase = "promote" /\ q.night = r.night
    BY <1>7, SelectGoes DEF SelectCandidates
  <2>2. r.night = 0 \/ (r.phase = "mature" /\ matLock[r.night] = m)
    BY <1>3, <2>1 DEF Entitled
  <2>3. Rests
    BY <2>1 DEF NoMature
  <2>4. Entitled(m)'
    BY <2>1, <2>2 DEF Entitled, UnderLocks, Planned, NoMature, SameRun, LockOf
  <2> QED BY <2>1, <2>3, <2>4, SameLocks DEF AloneInv
<1>8. ASSUME FindStaleMat(m)
      PROVE  Rests /\ Exclusive'
  <2>1. /\ Others(m) /\ SameRun(mature[m], mature'[m]) /\ mature[m].step = "lock"
        /\ mature'[m].step = "unlock" /\ UNCHANGED matLock
    BY <1>8, StepGoes DEF FindStaleMat, MatureInside, MatureSteps
  <2>2. Entitled(m)'
    BY <1>3, <2>1 DEF Entitled, UnderLocks, Planned, SameRun
  <2> QED BY <2>1, <2>2, SameLocks DEF AloneInv
<1>9. ASSUME MatTimesOut(m)
      PROVE  Rests /\ Exclusive'
  <2> DEFINE r == mature[m]
             q == mature'[m]
  <2>1. /\ Others(m) /\ r.step = "lock" /\ UNCHANGED matLock
        /\ \/ q = NoMature
           \/ IsWorker(q) /\ r.phase = "promote" /\ r.night # 0 /\ q.night = r.night
                /\ q.phase = "mature" /\ q.step = "release"
    BY <1>9, TimesOutGoes DEF MatTimesOut
  <2>2. Rests
    BY <2>1 DEF NoMature
  <2>3. Entitled(m)'
    BY <1>3, <2>1 DEF Entitled, UnderLocks, Planned, NoMature, LockOf
  <2> QED BY <2>1, <2>2, <2>3, SameLocks DEF AloneInv
<1>10. ASSUME TakeMatLock(m)
       PROVE  Rests /\ Exclusive'
  <2>1. /\ Others(m) /\ SameRun(mature[m], mature'[m]) /\ mature[m].step = "lock"
        /\ mature'[m].step = "list" /\ matLock' = [matLock EXCEPT ![l] = m]
        /\ matLock[l] = "free"
        /\ \A p \in Maturers \ {m} : ~Holding(p)
    BY <1>10, StepGoes DEF TakeMatLock, MatureInside, MatureSteps
  <2>2. LockOf(m)' = l
    BY <2>1 DEF LockOf, SameRun
  <2>3. matLock'[l] = m /\ \A k \in MatLocks : matLock[k] = m => matLock'[k] = m
    BY <1>2, <1>4, <2>1
  <2>4. Entitled(m)'
    BY <1>3, <1>4, <2>1, <2>2, <2>3, BusyIsWorker DEF Entitled, SameRun, IsWorker
  <2>5. \A p \in Maturers \ {m} : ~Holding(p)'
    BY <1>2, <1>4, <2>1 DEF Holding
  <2>6. ASSUME NEW p \in Maturers \ {m}
        PROVE  Entitled(p)'
    <3>1. mature'[p] = mature[p] /\ Entitled(p)
      BY <1>3, <2>1 DEF Others
    <3>2. \A k \in MatLocks : matLock[k] # p
      BY <2>1 DEF Holding
    <3> QED BY <3>1, <3>2, StillEntitled
  <2> QED BY <2>1, <2>4, <2>5, <2>6 DEF Exclusive
<1>11. ASSUME RemoveStaleMat(m)
       PROVE  Rests /\ Exclusive'
  <2>1. /\ Others(m) /\ SameRun(mature[m], mature'[m]) /\ mature[m].step = "unlock"
        /\ mature'[m].step = "lock" /\ matLock' = [matLock EXCEPT ![l] = "free"]
        /\ matLock[l] \notin Maturers
    BY <1>11, StepGoes DEF RemoveStaleMat, MatureInside, MatureSteps
  <2>2. \A p \in Maturers, k \in MatLocks : matLock'[k] = p <=> matLock[k] = p
    BY <1>2, <1>4, <1>5, <2>1
  <2>3. mature[m].night \in MatLocks
    BY BusyIsWorker DEF IsWorker
  <2>4. Entitled(m)'
    BY <1>3, <2>1, <2>2, <2>3 DEF Entitled, SameRun, UnderLocks, Planned
  <2>5. ASSUME NEW p \in Maturers \ {m}
        PROVE  Entitled(p)'
    <3>1. mature'[p] = mature[p] /\ Entitled(p)
      BY <1>3, <2>1 DEF Others
    <3>2. \A k \in MatLocks : matLock[k] = p => matLock'[k] = p
      BY <2>2
    <3> QED BY <3>1, <3>2, StillEntitled
  <2>6. \A p \in Maturers : Holding(p)' <=> Holding(p)
    BY <2>2 DEF Holding
  <2> QED BY <1>3, <2>1, <2>4, <2>5, <2>6 DEF Exclusive
<1>12. ASSUME ReleaseMatLock(m)
       PROVE  Rests /\ Exclusive'
  <2> DEFINE r == mature[m]
             q == mature'[m]
  <2>1. /\ Others(m) /\ IsWorker(r) /\ r.step = "release"
        /\ matLock' = [matLock EXCEPT ![l] = "free"]
        /\ \/ q = NoMature /\ ~(r.phase = "promote" /\ r.night # 0)
           \/ IsWorker(q) /\ r.phase = "promote" /\ r.night # 0 /\ q.night = r.night
                /\ q.phase = "mature" /\ q.step = "release"
    BY <1>12, ReleaseGoes DEF ReleaseMatLock
  <2>2. matLock[l] = m
    BY <1>3, <2>1 DEF Entitled, UnderLocks
  <2>3. \A p \in Maturers \ {m}, k \in MatLocks : matLock'[k] = p <=> matLock[k] = p
    BY <1>2, <1>4, <1>5, <2>1, <2>2
  <2>4. Entitled(m)'
    <3>1. CASE q = NoMature
      BY <3>1 DEF Entitled, NoMature, UnderLocks, Planned
    <3>2. CASE q # NoMature
      <4>1. l = 0 /\ r.night \in MatLocks /\ matLock[r.night] = m
        BY <1>3, <2>1, <3>2 DEF LockOf, Entitled, UnderLocks, IsWorker
      <4>2. matLock'[r.night] = m /\ LockOf(m)' = r.night
        BY <1>2, <1>4, <2>1, <3>2, <4>1 DEF LockOf
      <4>3. mature'[m].step = "release" /\ mature'[m].phase = "mature" /\ mature'[m].night = r.night
        BY <2>1, <3>2
      <4> QED BY <4>2, <4>3 DEF Entitled, UnderLocks, Planned
    <3> QED BY <3>1, <3>2
  <2>5. ASSUME NEW p \in Maturers \ {m}
        PROVE  Entitled(p)'
    <3>1. mature'[p] = mature[p] /\ Entitled(p)
      BY <1>3, <2>1 DEF Others
    <3>2. \A k \in MatLocks : matLock[k] = p => matLock'[k] = p
      BY <2>3
    <3> QED BY <3>1, <3>2, StillEntitled
  <2>6. \A p \in Maturers : Holding(p)' => Holding(p)
    BY <1>2, <2>2, <2>3 DEF Holding
  <2>7. Rests
    BY <2>1 DEF NoMature
  <2> QED BY <1>3, <2>4, <2>5, <2>6, <2>7 DEF Exclusive
<1>13. ASSUME MaturerDies(m)
       PROVE  Rests /\ Exclusive'
  <2>1. /\ Others(m) /\ mature'[m] = NoMature
        /\ matLock' = [k \in MatLocks |-> IF matLock[k] = m THEN "dead" ELSE matLock[k]]
    BY <1>13, OneGoes DEF MaturerDies, Others
  <2>2. \A p \in Maturers \ {m}, k \in MatLocks : matLock'[k] = p <=> matLock[k] = p
    BY <1>4, <1>5, <2>1
  <2>3. ~Holding(m)'
    BY <1>4, <1>5, <2>1 DEF Holding
  <2>4. Entitled(m)'
    BY <2>1 DEF Entitled, NoMature, UnderLocks, Planned
  <2>5. ASSUME NEW p \in Maturers \ {m}
        PROVE  Entitled(p)'
    <3>1. mature'[p] = mature[p] /\ Entitled(p)
      BY <1>3, <2>1 DEF Others
    <3>2. \A k \in MatLocks : matLock[k] = p => matLock'[k] = p
      BY <2>2
    <3> QED BY <3>1, <3>2, StillEntitled
  <2>6. \A p \in Maturers : Holding(p)' => Holding(p)
    BY <2>2, <2>3 DEF Holding
  <2>7. Rests
    BY <2>1 DEF NoMature
  <2> QED BY <1>3, <2>4, <2>5, <2>6, <2>7 DEF Exclusive
<1>14. Rests /\ Exclusive'
  BY <1>6, <1>7, <1>8, <1>9, <1>10, <1>11, <1>12, <1>13 DEF AtLocks
<1> QED BY <1>1, <1>14, RestsAlone DEF AloneInv

\* Steps on files stay under the lock they are under.
LEMMA FilesUnderLock ==
  ASSUME Workers, Exclusive, NEW m \in Maturers, UNCHANGED matLock, Others(m),
         SameRun(mature[m], mature'[m]), mature[m].step \in UnderLocks,
         \/ mature'[m].step \in UnderLocks
         \/ mature'[m].step = "select" /\ mature[m].phase = "mature"
  PROVE  Exclusive'
<1>1. Entitled(m)
  BY DEF Exclusive
<1>2. LockOf(m)' = LockOf(m)
  BY DEF LockOf, SameRun
<1>3. "select" \notin UnderLocks
  BY DEF UnderLocks, Planned
<1>4. mature[m].phase = "mature" => LockOf(m) = mature[m].night
  BY DEF LockOf
<1>5. Entitled(m)'
  BY <1>1, <1>2, <1>3, <1>4 DEF Entitled, SameRun
<1> QED BY <1>5, SameLocks

\* Reading recovers, ends or looks for the next claim.
LEMMA ReadingAlone ==
  ASSUME MaturationAssumption, Workers, AloneInv, NEW m \in Maturers, mature[m].step # "idle",
         UNCHANGED <<memory, matJournal, matLock>>,
         \/ ListJournals(m) \/ AllRecovered(m) \/ LookForCompleted(m)
         \/ (ReadJournal(m) \/ NoneLeft(m)) /\ MatureGo(m, "release")
         \/ NoneLeft(m) /\ MatureGo(m, "select") /\ mature[m].phase # "promote"
  PROVE  AloneInv'
<1> DEFINE Goes == /\ Others(m) /\ SameRun(mature[m], mature'[m]) /\ mature[m].step \in UnderLocks
                   /\ \/ mature'[m].step \in UnderLocks \ Planned
                      \/ mature'[m].step = "select" /\ mature[m].phase = "mature"
                   /\ OnlyItsOwn(m)'
<1> USE DEF MatureAt
<1>1. OnlyItsOwn(m) /\ \A b, c \in DOMAIN matJournal : b = c
  BY DEF AloneInv, OneJournal
<1>2. ASSUME ListJournals(m)
      PROVE  Goes
  <2>1. /\ Others(m) /\ SameRun(mature[m], mature'[m]) /\ mature[m].step = "list"
        /\ mature'[m].step = "read" /\ mature'[m].todo = DOMAIN matJournal
    BY <1>2, ListGoes DEF ListJournals
  <2> QED BY <2>1 DEF OnlyItsOwn, UnderLocks, Planned
<1>3. ASSUME AllRecovered(m)
      PROVE  Goes
  <2>1. /\ Others(m) /\ SameRun(mature[m], mature'[m]) /\ mature[m].step = "read"
        /\ mature'[m].step \in {"look", "load"} /\ mature[m].todo = {}
    BY <1>3, StepGoes DEF AllRecovered, MatureInside, MatureSteps
  <2>2. DOMAIN matJournal = {}
    BY <1>1, <2>1 DEF OnlyItsOwn
  <2> QED BY <2>1, <2>2 DEF OnlyItsOwn, UnderLocks, Planned
<1>4. ASSUME LookForCompleted(m)
      PROVE  Goes
  <2>1. /\ Others(m) /\ SameRun(mature[m], mature'[m]) /\ mature[m].step = "look"
        /\ mature'[m].step \in {"release", "load"}
    BY <1>4, StepGoes DEF LookForCompleted, MatureInside, MatureSteps
  <2> QED BY <1>1, <2>1 DEF OnlyItsOwn, UnderLocks, Planned
<1>5. ASSUME (ReadJournal(m) \/ NoneLeft(m)) /\ MatureGo(m, "release")
      PROVE  Goes
  <2>1. /\ Others(m) /\ SameRun(mature[m], mature'[m]) /\ mature[m].step \in {"read", "load"}
        /\ mature'[m].step = "release"
    BY <1>5, StepGoes DEF ReadJournal, NoneLeft, MatureInside, MatureSteps
  <2> QED BY <2>1 DEF OnlyItsOwn, UnderLocks, Planned
<1>6. ASSUME NoneLeft(m) /\ MatureGo(m, "select") /\ mature[m].phase # "promote"
      PROVE  Goes
  <2>1. /\ Others(m) /\ SameRun(mature[m], mature'[m]) /\ mature[m].step = "load"
        /\ mature'[m].step = "select"
    BY <1>6, StepGoes DEF NoneLeft, MatureInside, MatureSteps
  <2>2. mature[m].phase = "mature"
    BY <1>6, BusyIsWorker DEF IsWorker
  <2> QED BY <2>1, <2>2 DEF OnlyItsOwn, UnderLocks, Planned
<1>7. Goes
  BY <1>2, <1>3, <1>4, <1>5, <1>6
<1>8. Exclusive'
  BY <1>7, FilesUnderLock DEF AloneInv
<1>9. OneJournal'
  BY <1>7, SameJournals DEF AloneInv
<1>10. mature'[m].step \notin Planned
  BY <1>7 DEF Planned
<1>11. SlotsOwned'
  <2>1. PICK b : b = mature[m].batch
    OBVIOUS
  <2> QED BY <1>7, <1>10, SameSlots DEF AloneInv
<1> QED BY <1>8, <1>9, <1>11 DEF AloneInv

\* A plan is taken from a journal or made for the next claim.
LEMMA ReplayAlone ==
  ASSUME MaturationAssumption, Workers, AloneInv, NEW m \in Maturers, mature[m].step = "read",
         UNCHANGED <<memory, matJournal, matLock>>, NEW b \in DOMAIN matJournal,
         ~matJournal[b].torn, NEW files, files = matJournal[b].files, Replays(m, b, files)
  PROVE  AloneInv'
<1>1. mature[m].step # "idle"
  OBVIOUS
<1>2. /\ Others(m) /\ SameRun(mature[m], mature'[m])
      /\ mature'[m].step = "replay" /\ mature'[m].batch = b /\ mature'[m].files = files
  BY <1>1, ReplayGoes
<1>3. Exclusive'
  BY <1>2, FilesUnderLock DEF AloneInv, UnderLocks, Planned
<1>4. DOMAIN matJournal = {b}
  BY DEF AloneInv, OneJournal
<1>5. OnlyItsOwn(m)'
  BY <1>2, <1>4 DEF OnlyItsOwn
<1>6. Vacant(b, files)
  BY DEF AloneInv, SlotsOwned
<1>7. OneJournal' /\ SlotsOwned'
  BY <1>2, <1>5, <1>6, SameJournals, SameSlots DEF AloneInv
<1> QED BY <1>3, <1>7 DEF AloneInv

LEMMA PlanAlone ==
  ASSUME MaturationAssumption, Workers, AloneInv, NEW m \in Maturers, mature[m].step = "load",
         UNCHANGED <<memory, matJournal, matLock>>, NEW b, NEW files, TakesPlan(m, b, files),
         \A i \in DOMAIN files : files[i][1] = "canon" => CanonOf(files[i][2].slot) = {}
  PROVE  AloneInv'
<1>1. mature[m].step # "idle"
  OBVIOUS
<1>2. /\ Others(m) /\ SameRun(mature[m], mature'[m])
      /\ mature'[m].step = "journal" /\ mature'[m].batch = b /\ mature'[m].files = files
  BY <1>1, PlanGoes
<1>3. Exclusive'
  BY <1>2, FilesUnderLock DEF AloneInv, UnderLocks, Planned
<1>4. OnlyItsOwn(m)'
  BY <1>2 DEF OnlyItsOwn, AloneInv, OneJournal
<1>5. Vacant(b, files)
  BY DEF Vacant
<1>6. OneJournal' /\ SlotsOwned'
  BY <1>2, <1>4, <1>5, SameJournals, SameSlots DEF AloneInv
<1> QED BY <1>3, <1>6 DEF AloneInv

\* The journal of the batch in hand.
LEMMA JournalAlone ==
  ASSUME MaturationAssumption, Workers, AloneInv, NEW m \in Maturers,
         mature[m].step \in {"journal", "torn"}, UNCHANGED <<memory, matLock>>,
         NEW b, NEW files, b = mature[m].batch, files = mature[m].files,
         NEW v, matJournal' = With(matJournal, b, v),
         NEW st \in {"torn", "write"}, MatureGo(m, st), ~v.torn => v.files = files
  PROVE  AloneInv'
<1>1. /\ Others(m) /\ SameRun(mature[m], mature'[m])
      /\ mature'[m].step = st /\ mature'[m].batch = b /\ mature'[m].files = files
  <2>1. mature[m].step # "idle" /\ st \in MatureInside
    BY DEF MatureInside, MatureSteps
  <2> QED BY <2>1, StepGoes
<1>2. mature[m].step \in UnderLocks \cap Planned /\ st \in UnderLocks \cap Planned
  BY DEF UnderLocks, Planned
<1>3. Exclusive'
  BY <1>1, <1>2, FilesUnderLock DEF AloneInv
<1>4. DOMAIN matJournal \subseteq {b}
  BY DEF AloneInv, OneJournal, OnlyItsOwn
<1>5. DOMAIN matJournal' = {b} /\ matJournal'[b] = v
  BY <1>4 DEF With
<1>6. \A p \in Maturers \ {m} : mature'[p] = mature[p] /\ mature[p].step \notin UnderLocks
  BY <1>1, <1>2, OthersRest DEF AloneInv, Others
<1>7. OneJournal'
  <2>1. ASSUME NEW p \in Maturers \ {m}
        PROVE  OnlyItsOwn(p)'
    BY <1>6 DEF OnlyItsOwn, UnderLocks, Planned
  <2>2. OnlyItsOwn(m)'
    BY <1>1, <1>5 DEF OnlyItsOwn
  <2> QED BY <1>5, <2>1, <2>2 DEF OneJournal
<1>8. /\ \A c, k : Stored(c, k)' <=> Stored(c, k)
      /\ \A s : CanonOf(s)' = CanonOf(s)
  BY DEF Stored, CanonOf
<1>9. Vacant(b, files)' /\ Vacant(b, files)
  BY <1>2, <1>8 DEF AloneInv, SlotsOwned, Vacant
<1>10. SlotsOwned'
  <2>1. \A p \in Maturers : mature'[p].step \in Planned => Vacant(mature[p].batch, mature[p].files)'
    BY <1>1, <1>6, <1>9 DEF UnderLocks
  <2>2. ASSUME NEW c \in DOMAIN matJournal', ~matJournal'[c].torn
        PROVE  Vacant(c, matJournal[c].files)'
    BY <1>5, <1>9, <2>2
  <2> QED BY <1>8, <2>1, <2>2 DEF AloneInv, SlotsOwned
<1> QED BY <1>3, <1>7, <1>10 DEF AloneInv

LEMMA ClearAlone ==
  ASSUME MaturationAssumption, Workers, AloneInv, NEW m \in Maturers, ClearMatJournal(m)
  PROVE  AloneInv'
<1>1. /\ mature[m].step \in {"write", "replay"} /\ UNCHANGED <<memory, matLock>>
      /\ matJournal' = Without(matJournal, mature[m].batch)
  BY DEF ClearMatJournal
<1>2. mature[m].step # "idle" /\ mature[m].step \in UnderLocks
  BY <1>1 DEF UnderLocks, Planned
<1>3. /\ Others(m) /\ SameRun(mature[m], mature'[m])
      /\ mature'[m].step \in {"load", "read"}
  BY <1>2, ClearGoes
<1>4. Exclusive'
  BY <1>1, <1>2, <1>3, FilesUnderLock DEF AloneInv, UnderLocks
<1>5. DOMAIN matJournal' = {}
  BY <1>1 DEF AloneInv, OneJournal, OnlyItsOwn, Without
<1>6. \A p \in Maturers \ {m} : mature'[p] = mature[p] /\ mature[p].step \notin UnderLocks
  BY <1>2, <1>3, OthersRest DEF AloneInv, Others
<1>7. \A p \in Maturers : mature'[p].step \notin Planned
  BY <1>3, <1>6 DEF UnderLocks, Planned
<1>8. OneJournal'
  BY <1>5, <1>7 DEF OneJournal, OnlyItsOwn, Planned
<1>9. SlotsOwned'
  BY <1>1, <1>5, <1>7 DEF AloneInv, SlotsOwned, Stored
<1> QED BY <1>4, <1>8, <1>9 DEF AloneInv

LEMMA WriteAlone ==
  ASSUME MaturationAssumption, Workers, AloneInv, NEW m \in Maturers, WriteMemory(m),
         NEW b, NEW files, NEW i, b = mature[m].batch, files = mature[m].files,
         i = mature[m].pos + 1, i \in DOMAIN files
  PROVE  AloneInv'
<1>1. PICK kind : kind = files[i][1]
  OBVIOUS
<1>2. PICK value : value = files[i][2]
  OBVIOUS
<1>3. /\ mature[m].step \in {"write", "replay"} /\ UNCHANGED <<matJournal, matLock>>
      /\ mature' = [mature EXCEPT ![m].pos = i] /\ FileAdded(b, kind, value)
  BY <1>1, <1>2 DEF WriteMemory, FileAdded
<1>4. mature[m].step # "idle" /\ mature[m].step \in UnderLocks \cap Planned /\ i \in Nat
  <2>1. mature[m].step # "idle" /\ mature[m].step \in UnderLocks \cap Planned
    BY <1>3 DEF UnderLocks, Planned
  <2>2. mature[m].pos \in Nat
    BY <2>1, BusyIsWorker DEF IsWorker
  <2> QED BY <2>1, <2>2
<1>5. /\ Others(m) /\ SameRun(mature[m], mature'[m])
      /\ mature'[m].step = mature[m].step /\ mature'[m].batch = b /\ mature'[m].files = files
  BY <1>3, <1>4, WriteGoes
<1>6. Exclusive'
  BY <1>3, <1>4, <1>5, FilesUnderLock DEF AloneInv
<1>7. OnlyItsOwn(m)' /\ DOMAIN matJournal = {b}
  BY <1>3, <1>5 DEF AloneInv, OneJournal, OnlyItsOwn
<1>8. OneJournal'
  BY <1>3, <1>5, <1>7, SameJournals DEF AloneInv
<1>9. /\ \A c, k : Stored(c, k)' <=> Stored(c, k) \/ (c = b /\ k = kind /\ kind # "page")
      /\ kind # "page" => memory'[b][kind] = value
      /\ \A c, k : Stored(c, k) /\ ~(c = b /\ k = kind) => memory'[c][k] = memory[c][k]
  BY <1>3, WriteIs
<1>10. \A c : c # b =>
         /\ Stored(c, "canon")' <=> Stored(c, "canon")
         /\ Stored(c, "canon") => memory'[c].canon = memory[c].canon
  BY <1>9
<1>11. \A s : CanonOf(s)' \subseteq CanonOf(s) \cup {b}
  <2> SUFFICES ASSUME NEW s, NEW c \in CanonOf(s)', c # b
               PROVE  c \in CanonOf(s)
    OBVIOUS
  <2>1. Stored(c, "canon")' /\ memory'[c].canon.slot = s
    BY DEF CanonOf
  <2>2. Stored(c, "canon") /\ memory[c].canon.slot = s
    BY <1>10, <2>1
  <2> QED BY <2>2 DEF CanonOf, Stored
<1>12. \A g : Vacant(b, g) => Vacant(b, g)'
  BY <1>11 DEF Vacant
<1>13. \A p \in Maturers : mature'[p].step \in Planned => p = m
  BY <1>4, <1>5, OthersRest DEF AloneInv, Others, UnderLocks
<1>14. Vacant(b, files)
  BY <1>4 DEF AloneInv, SlotsOwned
<1>15. \A p \in Maturers : mature'[p].step \in Planned => Vacant(mature[p].batch, mature[p].files)'
  BY <1>5, <1>12, <1>13, <1>14
<1>16. \A c \in DOMAIN matJournal' : ~matJournal'[c].torn => Vacant(c, matJournal[c].files)'
  <2> SUFFICES ASSUME ~matJournal'[b].torn
               PROVE  Vacant(b, matJournal[b].files)'
    BY <1>3, <1>7
  <2>1. PICK g : g = matJournal[b].files
    OBVIOUS
  <2>2. Vacant(b, g)
    BY <1>3, <1>7, <2>1 DEF AloneInv, SlotsOwned
  <2>3. Vacant(b, g)'
    BY <1>12, <2>2
  <2> QED BY <1>3, <2>1, <2>3
<1>17. ASSUME NEW c \in DOMAIN memory', NEW d \in DOMAIN memory',
              Stored(c, "canon")', Stored(d, "canon")',
              memory'[c].canon.slot = memory'[d].canon.slot
       PROVE  c = d
  <2>1. ASSUME NEW e, e # b, Stored(e, "canon")', Stored(b, "canon")',
               memory'[e].canon.slot = memory'[b].canon.slot
        PROVE  FALSE
    <3>1. Stored(e, "canon") /\ memory'[e].canon = memory[e].canon /\ e \in DOMAIN memory
      BY <1>10, <2>1 DEF Stored
    <3>2. CASE kind = "canon"
      <4>1. memory'[b].canon = value
        BY <1>9, <3>2
      <4>2. CanonOf(value.slot) \subseteq {b}
        BY <1>1, <1>2, <1>14, <3>2 DEF Vacant
      <4>3. e \in CanonOf(value.slot)
        BY <2>1, <3>1, <4>1 DEF CanonOf
      <4> QED BY <2>1, <4>2, <4>3
    <3>3. CASE kind # "canon"
      <4>1. Stored(b, "canon") /\ memory'[b].canon = memory[b].canon
        BY <1>9, <2>1, <3>3
      <4> QED BY <2>1, <3>1, <4>1 DEF AloneInv, SlotsOwned, Stored
    <3> QED BY <3>2, <3>3
  <2>2. CASE c # b /\ d # b
    <3>1. /\ Stored(c, "canon") /\ memory'[c].canon = memory[c].canon
          /\ Stored(d, "canon") /\ memory'[d].canon = memory[d].canon
      BY <1>10, <1>17, <2>2
    <3> QED BY <1>17, <3>1 DEF AloneInv, SlotsOwned, Stored
  <2> QED BY <1>17, <2>1, <2>2
<1>18. SlotsOwned'
  BY <1>15, <1>16, <1>17 DEF SlotsOwned
<1> QED BY <1>6, <1>8, <1>18 DEF AloneInv

LEMMA FilesAlone ==
  ASSUME MaturationAssumption, Workers, FileInv, AloneInv, NEW m \in Maturers,
         mature[m].step # "idle", AtFiles(m)
  PROVE  AloneInv'
<1> USE DEF MatureAt
<1> DEFINE b == mature[m].batch
           files == mature[m].files
<1>1. PICK c : c = b
  OBVIOUS
<1>2. PICK g : g = files
  OBVIOUS
<1>3. CASE ListJournals(m) \/ AllRecovered(m) \/ LookForCompleted(m)
  <2>1. UNCHANGED <<memory, matJournal, matLock>>
    BY <1>3 DEF ListJournals, AllRecovered, LookForCompleted, maturationFiles
  <2> QED BY <1>3, <2>1, ReadingAlone
<1>4. CASE ReadJournal(m)
  <2>1. UNCHANGED <<memory, matJournal, matLock>> /\ mature[m].step = "read"
    BY <1>4 DEF ReadJournal, maturationFiles
  <2>2. CASE MatureGo(m, "release")
    BY <1>4, <2>1, <2>2, ReadingAlone
  <2>3. CASE ~MatureGo(m, "release")
    <3>1. PICK d \in DOMAIN matJournal : ~matJournal[d].torn /\ Replays(m, d, matJournal[d].files)
      BY <1>4, <2>3, ReadJournalIs
    <3>2. PICK h : h = matJournal[d].files
      OBVIOUS
    <3>3. Replays(m, d, h)
      BY <3>1, <3>2
    <3> QED BY <2>1, <3>1, <3>2, <3>3, ReplayAlone
  <2> QED BY <2>2, <2>3
<1>5. CASE LoadNext(m)
  <2>1. PICK d : d = BatchOf(m, mature[m].next)
    OBVIOUS
  <2>2. PICK h : h = BatchFiles(d, ToApply(m)[mature[m].next])
    OBVIOUS
  <2>3. /\ mature[m].step = "load" /\ UNCHANGED <<memory, matJournal, matLock>>
        /\ TakesPlan(m, d, h)
    BY <1>5, <2>1, <2>2, LoadNextIs DEF LoadNext, maturationFiles
  <2>4. \A i \in DOMAIN h : h[i][1] = "canon" => CanonOf(h[i][2].slot) = {}
    BY <2>2, BatchFilesGood
  <2> QED BY <2>3, <2>4, PlanAlone
<1>6. CASE NoneLeft(m)
  <2>1. UNCHANGED <<memory, matJournal, matLock>> /\ mature[m].step = "load"
    BY <1>6 DEF NoneLeft, maturationFiles
  <2>2. CASE MatureGo(m, "release")
    BY <1>6, <2>1, <2>2, ReadingAlone
  <2>3. CASE ~MatureGo(m, "release") /\ MatureGo(m, "select")
    BY <1>6, <2>1, <2>3, ReadingAlone DEF NoneLeft
  <2>4. CASE ~MatureGo(m, "release") /\ ~MatureGo(m, "select")
    <3>1. PICK d : d = RecordBatch(m)
      OBVIOUS
    <3>2. PICK h : h = RecordFiles(m)
      OBVIOUS
    <3>3. TakesPlan(m, d, h)
      BY <1>6, <2>4, <3>1, <3>2, NoneLeftIs
    <3>4. \A i \in DOMAIN h : h[i][1] # "canon"
      BY <3>2 DEF RecordFiles
    <3> QED BY <2>1, <3>3, <3>4, PlanAlone
  <2> QED BY <2>2, <2>3, <2>4
<1>7. CASE BeginJournal(m)
  <2> DEFINE v == [torn |-> TRUE, files |-> <<>>]
  <2>1. v.torn = TRUE
    OBVIOUS
  <2>2. /\ mature[m].step \in {"journal", "torn"} /\ UNCHANGED <<memory, matLock>>
        /\ matJournal' = With(matJournal, c, v) /\ MatureGo(m, "torn")
    BY <1>1, <1>7 DEF BeginJournal
  <2> HIDE DEF v
  <2> QED BY <1>1, <1>2, <2>1, <2>2, JournalAlone
<1>8. CASE EndJournal(m)
  <2> DEFINE v == [torn |-> FALSE, files |-> g]
  <2>1. v.torn = FALSE /\ v.files = g
    OBVIOUS
  <2>2. /\ mature[m].step \in {"journal", "torn"} /\ UNCHANGED <<memory, matLock>>
        /\ matJournal' = With(matJournal, c, v) /\ MatureGo(m, "write")
    BY <1>1, <1>2, <1>8 DEF EndJournal
  <2> HIDE DEF v
  <2> QED BY <1>1, <1>2, <2>1, <2>2, JournalAlone
<1>9. CASE WriteMemory(m)
  <2>1. PICK i : i = mature[m].pos + 1
    OBVIOUS
  <2>2. mature[m].step \in Planned /\ mature[m].step \in MatureInside /\ i <= Len(files)
    BY <1>9, <2>1 DEF WriteMemory, Planned, MatureInside, MatureSteps
  <2>3. i \in DOMAIN files
    <3>1. GoodFiles(files)
      BY <2>2 DEF FileInv, Plans, GoodPlan
    <3>2. mature[m].pos \in Nat
      BY BusyIsWorker DEF IsWorker
    <3> QED BY <2>1, <2>2, <3>1, <3>2, FilesAre
  <2> QED BY <1>1, <1>2, <1>9, <2>1, <2>3, WriteAlone
<1>10. CASE ClearMatJournal(m)
  BY <1>10, ClearAlone
<1> QED BY <1>3, <1>4, <1>5, <1>6, <1>7, <1>8, <1>9, <1>10 DEF AtFiles

\* Who mixes with another has mixed from then on.
LEMMA MixedStays ==
  ASSUME [MaturationNext]_maturationVars, ~mixed'
  PROVE  ~mixed
<1>1. CASE UNCHANGED maturationVars
  BY <1>1 DEF maturationVars
<1>2. ASSUME NEW m \in Maturers, BeginMature(m) \/ BeginPromote(m)
      PROVE  UNCHANGED mixed
  BY <1>2 DEF BeginMature, BeginPromote
<1>3. CASE Consolidate
  BY <1>3 DEF Consolidate
<1>4. ASSUME NEW m \in Maturers, AtLocks(m)
      PROVE  mixed => mixed'
  BY <1>4 DEF AtLocks, Compile, SelectCandidates, TakeMatLock, FindStaleMat, RemoveStaleMat,
     MatTimesOut, ReleaseMatLock, MaturerDies
<1>5. ASSUME NEW m \in Maturers, AtFiles(m)
      PROVE  UNCHANGED mixed
  BY <1>5 DEF AtFiles, ListJournals, ReadJournal, AllRecovered, LookForCompleted, LoadNext,
     NoneLeft, BeginJournal, EndJournal, WriteMemory, ClearMatJournal
<1> QED BY <1>1, <1>2, <1>3, <1>4, <1>5, NextIs

LEMMA AloneStep ==
  ASSUME MaturationAssumption, MaturationInv, [MaturationNext]_maturationVars, ~mixed'
  PROVE  AloneInv'
<1>1. Workers /\ FileInv /\ AloneInv
  BY MixedStays DEF MaturationInv
<1>2. ASSUME UNCHANGED <<memory, matJournal, matLock, mature>>
      PROVE  AloneInv'
  <2>1. Exclusive' /\ OneJournal'
    BY <1>1, <1>2 DEF AloneInv, Exclusive, Entitled, Holding, LockOf, OneJournal, OnlyItsOwn
  <2>2. SlotsOwned'
    BY <1>1, <1>2 DEF AloneInv, SlotsOwned, Vacant, CanonOf, Stored
  <2> QED BY <2>1, <2>2 DEF AloneInv
<1>3. CASE UNCHANGED maturationVars
  BY <1>2, <1>3 DEF maturationVars
<1>4. CASE Consolidate
  BY <1>2, <1>4 DEF Consolidate, maturationFiles
<1>5. ASSUME NEW m \in Maturers, BeginMature(m) \/ BeginPromote(m)
      PROVE  AloneInv'
  <2> DEFINE e == ItemsOf[night] \ Processed
             r1 == NewMature(night, e, "compile", "mature")
             r2 == NewMature(0, {}, "select", "promote")
  <2>1. UNCHANGED <<memory, matJournal, matLock>>
    BY <1>5 DEF BeginMature, BeginPromote, maturationFiles
  <2>2. Others(m) /\ (mature'[m] = r1 \/ mature'[m] = r2)
    BY <1>1, <1>5, OneGoes DEF BeginMature, BeginPromote, Others
  <2>3. \/ mature'[m].step = "compile"
        \/ mature'[m].step = "select" /\ mature'[m].night = 0
    BY <2>2 DEF NewMature
  <2>4. Entitled(m)'
    BY <2>3 DEF Entitled, UnderLocks, Planned
  <2>5. Exclusive'
    BY <1>1, <2>1, <2>2, <2>4, SameLocks DEF AloneInv
  <2> QED BY <1>1, <2>1, <2>2, <2>3, <2>5, RestsAlone DEF AloneInv
<1>6. ASSUME NEW m \in Maturers, mature[m].step # "idle", AtLocks(m)
      PROVE  AloneInv'
  BY <1>1, <1>6, LocksAlone
<1>7. ASSUME NEW m \in Maturers, mature[m].step # "idle", AtFiles(m)
      PROVE  AloneInv'
  BY <1>1, <1>7, FilesAlone
<1> QED BY <1>3, <1>4, <1>5, <1>6, <1>7, NextIs

LEMMA MaturationStarts ==
  ASSUME MaturationAssumption, MaturationInit
  PROVE  MaturationInv
<1>1. Workers /\ FileInv
  BY FilesInit
<1> USE DEF MaturationInit, NoMature
<1>2. \A p \in Maturers : ~Holding(p)
  BY DEF Holding, MaturationAssumption
<1>3. AloneInv
  BY <1>2 DEF AloneInv, Exclusive, Entitled, OneJournal, OnlyItsOwn, SlotsOwned, UnderLocks, Planned
<1> QED BY <1>1, <1>3 DEF MaturationInv

LEMMA MaturationSteps ==
  ASSUME MaturationAssumption, MaturationInv, [MaturationNext]_maturationVars
  PROVE  MaturationInv'
<1>1. Workers'
  BY WorkersStep DEF MaturationInv
<1>2. FileInv'
  BY FilesStep DEF MaturationInv
<1>3. ~mixed' => AloneInv'
  BY AloneStep
<1> QED BY <1>1, <1>2, <1>3 DEF MaturationInv

-----------------------------------------------------------------------------
\* The theorems.

\* The invariant holds from the first state on, in every step of runs, promotions,
\* crashes and consolidations.
THEOREM MaturationInvariance == MaturationSpec => []MaturationInv
<1>1. MaturationInit => MaturationInv
  BY MaturationAssumption, MaturationStarts
<1>2. MaturationInv /\ [MaturationNext]_maturationVars => MaturationInv'
  BY MaturationAssumption, MaturationSteps
<1> QED BY <1>1, <1>2, PTL DEF MaturationSpec

\* Journals, locks, processes and counters keep their types (writeMemoryMaturationRecoveryJournal,
\* withMemoryMaturationLock).
THEOREM MaturationTypesKept == MaturationSpec => []MaturationTypeOK
<1>1. ASSUME MaturationInv
      PROVE  MaturationTypeOK
  <2>1. \A m \in Maturers : mature[m].step \in MatureSteps
    BY <1>1 DEF MaturationInv, Workers, IsWorker, NoMature, MatureSteps
  <2> QED BY <1>1, <2>1 DEF MaturationInv, MaturationTypeOK, FileInv, Plans, Workers, MatLocks
<1> QED BY <1>1, MaturationInvariance, PTL

\* However runs, promotions, crashes and replays fall together, a disposition whose journal
\* is gone has all its records, and observations count as matured only when every claim
\* compiled from them was applied (materializeMemoryMaturationBatch,
\* recoverPendingMemoryMaturationJournals).
THEOREM MaturedWhole == MaturationSpec => []MaturationWhole
<1>1. ASSUME MaturationInv
      PROVE  MaturationWhole
  <2>1. Records /\ Verdicts
    BY <1>1 DEF MaturationInv, FileInv
  <2>2. ASSUME NEW b \in DOMAIN memory, Stored(b, "disposition"), ~JournalLeft(b)
        PROVE  BatchWhole(b)
    <3>1. \A k \in Needs(memory[b].disposition) : Stored(b, k)
      BY <2>1, <2>2 DEF Records
    <3>2. ASSUME Stored(b, "ratification"), b \notin reapplied
          PROVE  Stored(b, Companion(memory[b].ratification))
      BY <2>1, <2>2, <3>2 DEF Verdicts
    <3>3. ASSUME "proposal_for_canon" \in memory[b].disposition
          PROVE  Stored(b, "proposal") /\ Stored(b, "ratification")
      BY <3>1, <3>3 DEF Needs
    <3>4. /\ Stored(b, "evidence")
          /\ "wiki_update" \in memory[b].disposition => Stored(b, "note")
          /\ memory[b].disposition \cap {"world_update", "wiki_update", "proposal_for_canon"} # {} =>
               Stored(b, "world")
      BY <3>1 DEF Needs
    <3> QED BY <3>2, <3>3, <3>4 DEF BatchWhole, Companion
  <2>3. ASSUME NEW b \in Matured, NEW i \in DOMAIN b.run
        PROVE  Stored([b EXCEPT !.at = i], "disposition")
    BY <2>1, <2>3 DEF Records, Matured, Applied
  <2> QED BY <2>2, <2>3 DEF MaturationWhole
<1> QED BY <1>1, MaturationInvariance, PTL

\* What is canonical has its evidence, its proposal and an approval on record, never rests
\* on an owner's claim, and as long as processes do not mix is alone in its slot
\* (applyCandidate, canSystemRatify, evaluateCanonicalProposal).
THEOREM CanonTraced == MaturationSpec => []CanonTraceable
<1>1. ASSUME MaturationInv
      PROVE  CanonTraceable
  <2> SUFFICES ASSUME NEW b \in DOMAIN memory, Stored(b, "canon")
               PROVE  /\ Stored(b, "evidence") /\ Stored(b, "proposal") /\ Stored(b, "ratification")
                      /\ memory[b].ratification = "approved" \/ b \in reapplied
                      /\ ClaimOf[memory[b].canon.topic].role # "owner"
                      /\ ~mixed => CanonOf(memory[b].canon.slot) = {b}
    BY DEF CanonTraceable
  <2>1. Records /\ Verdicts /\ (~mixed => SlotsOwned)
    BY <1>1 DEF MaturationInv, FileInv, AloneInv
  <2>2. ~mixed => CanonOf(memory[b].canon.slot) = {b}
    BY <2>1 DEF SlotsOwned, CanonOf
  <2> QED BY <2>1, <2>2 DEF Records, Verdicts
<1> QED BY <1>1, MaturationInvariance, PTL

==============================================================================
