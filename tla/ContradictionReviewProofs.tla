----------------------- MODULE ContradictionReviewProofs -----------------------
(***************************************************************************)
(* Proofs about ContradictionReview for any claims, statements and number  *)
(* of failures.  The types hold in any case; that the records tell one     *)
(* story and canon follows holds if callers retry a failed operation       *)
(* first.                                                                  *)
(*                                                                         *)
(* The inductive invariant looks through the journal: what the records     *)
(* and the log will be once the journal on disk is carried out             *)
(* (FinalRecord, FinalLog) changes only when a journal is written, and is  *)
(* at all times a story a contradiction can tell.                          *)
(***************************************************************************)
EXTENDS ContradictionReview, SequenceTheorems, FiniteSetTheorems, TLAPS

-----------------------------------------------------------------------------
\* Types.

AllContents == UNION {ContentsOf[k] : k \in Kinds}

\* A file of a journal: none of them opens a contradiction.
ReviewFiles ==
  {w \in [kind : Kinds, flow : Flows, content : AllContents] :
     w.content \in ContentsOf[w.kind] /\ (w.kind = "contradiction" => w.content # "open")}
File(k, f, c) == [kind |-> k, flow |-> f, content |-> c]

Recorded(rec) ==
  rec \in [Kinds -> [Flows -> AllContents]] /\ \A k \in Kinds : rec[k] \in [Flows -> ContentsOf[k]]

Requests ==
  [op : Reviews, flow : Flows, by : Principals, strategy : Strategies \cup {"manual_review"},
   step : {"decide"}, todo : {<<>>}]
Carried ==
  [op : Reviews, flow : Flows, by : {"none"}, strategy : {"none"}, step : {"write", "clear"},
   todo : Seq(ReviewFiles)]
ReviewTyped ==
  \/ review = NoReview
  \/ /\ review \in Requests
     /\ review.op = "resolve" => review.strategy = "coexist_temporally"
     /\ review.op = "apply" => review.strategy \in Strategies
  \/ review \in Carried

\* An open contradiction is one with another claim that says something else.
Opposed ==
  \A f \in Flows : Content("contradiction", f) = "open" =>
    against[f] \in Flows \ {f} /\ StatementOf[against[f]] # StatementOf[f]

TypesHold ==
  /\ Recorded(record)
  /\ against \in [Flows -> Flows \cup {NoFlow}]
  /\ journal \in [Reviews -> [Flows -> Seq(ReviewFiles)]]
  /\ ReviewTyped
  /\ reviewLog \subseteq Reviews \X Flows
  /\ failures \in Nat /\ failures <= MaxFailures
  /\ discarded \subseteq Flows
  /\ Opposed

\* What records of each kind can say.
LEMMA KindContents ==
  /\ Kinds = {"claim", "contradiction", "strategy", "resolution", "reviewQueue", "ratification",
              "canon", "followProposal", "followQueue", "followRatification"}
  /\ ContentsOf["claim"] = {"none", "active", "historical"}
  /\ ContentsOf["contradiction"] = {"none", "open", "resolved", "dismissed"}
  /\ ContentsOf["strategy"] = {"none", "manual_review", "coexist_temporally", "supersede_existing",
                               "supersede_candidate", "dismiss_contradiction"}
  /\ ContentsOf["resolution"] = {"none", "proposed", "applied", "rejected"}
  /\ ContentsOf["reviewQueue"] = {"none", "pending", "applied", "expired"}
  /\ ContentsOf["ratification"] = {"none", "approved", "deferred", "rejected"}
  /\ ContentsOf["canon"] = {"none", "active", "superseded"}
  /\ ContentsOf["followProposal"] = {"none", "create", "revise"}
  /\ ContentsOf["followQueue"] = {"none", "pending"}
  /\ ContentsOf["followRatification"] = {"none", "approved", "deferred", "rejected"}
<1>1. ContentsOf["strategy"] = {"none", "manual_review"} \cup Strategies
  BY DEF ContentsOf
<1> QED BY <1>1 DEF Kinds, FollowUp, ContentsOf, Strategies

-----------------------------------------------------------------------------
\* Files.

\* The elements of a concatenation.
LEMMA RangeOfConcat ==
  ASSUME NEW S, NEW s \in Seq(S), NEW t \in Seq(S)
  PROVE  s \o t \in Seq(S) /\ Range(s \o t) = Range(s) \cup Range(t)
BY RangeConcatenation, ConcatProperties

\* A file that is written.
LEMMA PutIs ==
  ASSUME NEW k \in Kinds, NEW f \in Flows, NEW c \in ContentsOf[k],
         k = "contradiction" => c # "open"
  PROVE  Put(k, f, c) \in Seq(ReviewFiles) /\ Range(Put(k, f, c)) = {File(k, f, c)}
<1>1. File(k, f, c) \in ReviewFiles
  BY DEF File, ReviewFiles, AllContents
<1>2. Put(k, f, c) = <<File(k, f, c)>>
  BY DEF Put, File
<1> QED BY <1>1, <1>2 DEF Range

\* A file that is written in some cases.
LEMMA PutIfIs ==
  ASSUME NEW condition, NEW k \in Kinds, NEW f, NEW c,
         condition => f \in Flows /\ c \in ContentsOf[k] /\ (k = "contradiction" => c # "open")
  PROVE  /\ PutIf(condition, k, f, c) \in Seq(ReviewFiles)
         /\ Range(PutIf(condition, k, f, c)) = IF condition THEN {File(k, f, c)} ELSE {}
<1>1. CASE condition
  BY <1>1, PutIs DEF PutIf
<1>2. CASE ~condition
  BY <1>2 DEF PutIf, Range
<1> QED BY <1>1, <1>2

\* The elements of a sequence, its head and the rest.
LEMMA RangeOfTail ==
  ASSUME NEW S, NEW s \in Seq(S), s # <<>>
  PROVE  /\ Head(s) \in S /\ Head(s) \in Range(s) /\ Tail(s) \in Seq(S)
         /\ Range(s) = {Head(s)} \cup Range(Tail(s))
<1>1. /\ Head(s) = s[1] /\ Tail(s) \in Seq(S) /\ Len(s) \in Nat /\ Len(s) > 0
      /\ Len(Tail(s)) = Len(s) - 1 /\ DOMAIN s = 1 .. Len(s) /\ DOMAIN Tail(s) = 1 .. (Len(s) - 1)
      /\ \A i \in 1 .. (Len(s) - 1) : Tail(s)[i] = s[i + 1]
  BY HeadTailProperties, LenProperties
<1>2. \A i \in 1 .. Len(s) : i = 1 \/ (i - 1 \in 1 .. (Len(s) - 1) /\ s[i] = Tail(s)[i - 1])
  BY <1>1
<1>3. \A i \in 1 .. (Len(s) - 1) : i + 1 \in 1 .. Len(s)
  BY <1>1
<1>4. 1 \in 1 .. Len(s) /\ s[1] \in S
  BY <1>1
<1>5. \A i \in 1 .. Len(s) : s[i] \in {Head(s)} \cup Range(Tail(s))
  BY <1>1, <1>2 DEF Range
<1>6. Range(s) \subseteq {Head(s)} \cup Range(Tail(s))
  BY <1>1, <1>5 DEF Range
<1>7. Range(Tail(s)) \subseteq Range(s)
  BY <1>1, <1>3 DEF Range
<1>8. Head(s) \in Range(s)
  BY <1>1, <1>4 DEF Range
<1> QED BY <1>1, <1>4, <1>6, <1>7, <1>8

\* What an application writes, in any order.
AppliedSet(f, s) ==
  {File("claim", f, IF ExistingWins(s) THEN "historical" ELSE Content("claim", f)),
   File("contradiction", f, SettledAs(s)), File("strategy", f, s), File("resolution", f, "applied")}
  \cup (IF PromotesWinner(f, s)
        THEN {File("followProposal", f, IF Target = NoFlow THEN "create" ELSE "revise"),
              File("followRatification", f, FollowUpDecision(f))} ELSE {})
  \cup (IF Have("reviewQueue", f) THEN {File("reviewQueue", f, "applied")} ELSE {})
  \cup (IF QueuesFollowUp(f, s) THEN {File("followQueue", f, "pending")} ELSE {})
  \cup (IF FollowUpDone(f, s, "approved") THEN {File("canon", f, "active")} ELSE {})
  \cup (IF FollowUpDone(f, s, "approved") /\ Target # NoFlow
        THEN {File("canon", Target, "superseded")} ELSE {})
  \cup {File("claim", against[f],
             IF CandidateWins(s) THEN "historical" ELSE Content("claim", against[f]))}

\* The canonical record a winner would replace is an active one.
LEMMA TargetIs ==
  /\ Target # NoFlow => Target \in Flows /\ record["canon"][Target] = "active"
  /\ Target = NoFlow /\ NoFlow \notin Flows => ActiveCanonIn(record["canon"]) = {}
BY DEF Target, ActiveCanonIn

\* They are files.
LEMMA ApplicationWrites ==
  ASSUME TypesHold, NEW f \in Flows, NEW s \in Strategies, against[f] \in Flows
  PROVE  ApplicationFiles(f, s) \in Seq(ReviewFiles) /\ Range(ApplicationFiles(f, s)) = AppliedSet(f, s)
<1> DEFINE promoted == PromotesWinner(f, s)
           approved == FollowUpDone(f, s, "approved")
           deferred == QueuesFollowUp(f, s)
           a == Put("claim", f, IF ExistingWins(s) THEN "historical" ELSE Content("claim", f))
           b == Put("contradiction", f, SettledAs(s))
           c1 == Put("strategy", f, s)
           c2 == Put("resolution", f, "applied")
           d1 == PutIf(promoted, "followProposal", f, IF Target = NoFlow THEN "create" ELSE "revise")
           d2 == PutIf(Have("reviewQueue", f), "reviewQueue", f, "applied")
           d3 == PutIf(deferred, "followQueue", f, "pending")
           d4 == PutIf(promoted, "followRatification", f, FollowUpDecision(f))
           e1 == PutIf(approved, "canon", f, "active")
           e2 == PutIf(approved /\ Target # NoFlow, "canon", Target, "superseded")
           g == Put("claim", against[f], IF CandidateWins(s) THEN "historical" ELSE Content("claim", against[f]))
<1>1. \A x \in Flows : Content("claim", x) \in ContentsOf["claim"]
  <2>1. "claim" \in Kinds
    BY KindContents
  <2>2. record["claim"] \in [Flows -> ContentsOf["claim"]]
    BY <2>1 DEF TypesHold, Recorded
  <2> QED BY <2>2 DEF Content
<1>2. a \in Seq(ReviewFiles) /\ Range(a) = {File("claim", f, IF ExistingWins(s) THEN "historical" ELSE Content("claim", f))}
  <2> DEFINE x == IF ExistingWins(s) THEN "historical" ELSE Content("claim", f)
  <2>1. x \in ContentsOf["claim"] /\ "claim" \in Kinds /\ "claim" # "contradiction"
    BY <1>1, KindContents
  <2> HIDE DEF x
  <2>2. Put("claim", f, x) \in Seq(ReviewFiles) /\ Range(Put("claim", f, x)) = {File("claim", f, x)}
    BY <2>1, PutIs
  <2> QED BY <2>2 DEF x
<1>3. b \in Seq(ReviewFiles) /\ Range(b) = {File("contradiction", f, SettledAs(s))}
  <2>1. SettledAs(s) \in ContentsOf["contradiction"] /\ SettledAs(s) # "open" /\ "contradiction" \in Kinds
    BY KindContents DEF SettledAs
  <2> QED BY <2>1, PutIs
<1>4. /\ c1 \in Seq(ReviewFiles) /\ Range(c1) = {File("strategy", f, s)}
      /\ c2 \in Seq(ReviewFiles) /\ Range(c2) = {File("resolution", f, "applied")}
  <2>1. s \in ContentsOf["strategy"] /\ "strategy" \in Kinds
        /\ "applied" \in ContentsOf["resolution"] /\ "resolution" \in Kinds
    BY KindContents DEF Strategies
  <2> QED BY <2>1, PutIs
<1>5. /\ d1 \in Seq(ReviewFiles)
      /\ Range(d1) = IF promoted THEN {File("followProposal", f, IF Target = NoFlow THEN "create" ELSE "revise")} ELSE {}
  <2> DEFINE x == IF Target = NoFlow THEN "create" ELSE "revise"
  <2>1. x \in ContentsOf["followProposal"] /\ "followProposal" \in Kinds
    BY KindContents
  <2> HIDE DEF x
  <2>2. /\ PutIf(promoted, "followProposal", f, x) \in Seq(ReviewFiles)
        /\ Range(PutIf(promoted, "followProposal", f, x)) = IF promoted THEN {File("followProposal", f, x)} ELSE {}
    BY <2>1, PutIfIs
  <2> QED BY <2>2 DEF x
<1>6. /\ d2 \in Seq(ReviewFiles)
      /\ Range(d2) = IF Have("reviewQueue", f) THEN {File("reviewQueue", f, "applied")} ELSE {}
  <2>1. "applied" \in ContentsOf["reviewQueue"] /\ "reviewQueue" \in Kinds
    BY KindContents
  <2> QED BY <2>1, PutIfIs
<1>7. d3 \in Seq(ReviewFiles) /\ Range(d3) = IF deferred THEN {File("followQueue", f, "pending")} ELSE {}
  <2>1. "pending" \in ContentsOf["followQueue"] /\ "followQueue" \in Kinds
    BY KindContents
  <2> QED BY <2>1, PutIfIs
<1>8. /\ d4 \in Seq(ReviewFiles)
      /\ Range(d4) = IF promoted THEN {File("followRatification", f, FollowUpDecision(f))} ELSE {}
  <2>1. FollowUpDecision(f) \in ContentsOf["followRatification"] /\ "followRatification" \in Kinds
    BY KindContents DEF FollowUpDecision, Decision
  <2> QED BY <2>1, PutIfIs
<1>9. e1 \in Seq(ReviewFiles) /\ Range(e1) = IF approved THEN {File("canon", f, "active")} ELSE {}
  <2>1. "active" \in ContentsOf["canon"] /\ "canon" \in Kinds
    BY KindContents
  <2> QED BY <2>1, PutIfIs
<1>10. /\ e2 \in Seq(ReviewFiles)
       /\ Range(e2) = IF approved /\ Target # NoFlow THEN {File("canon", Target, "superseded")} ELSE {}
  <2>1. "superseded" \in ContentsOf["canon"] /\ "canon" \in Kinds
    BY KindContents
  <2> QED BY <2>1, PutIfIs, TargetIs
<1>11. /\ g \in Seq(ReviewFiles)
       /\ Range(g) = {File("claim", against[f], IF CandidateWins(s) THEN "historical" ELSE Content("claim", against[f]))}
  <2> DEFINE x == IF CandidateWins(s) THEN "historical" ELSE Content("claim", against[f])
             y == against[f]
  <2>1. x \in ContentsOf["claim"] /\ "claim" \in Kinds /\ "claim" # "contradiction" /\ y \in Flows
    BY <1>1, KindContents
  <2> HIDE DEF x, y
  <2>2. Put("claim", y, x) \in Seq(ReviewFiles) /\ Range(Put("claim", y, x)) = {File("claim", y, x)}
    BY <2>1, PutIs
  <2> QED BY <2>2 DEF x, y
<1>12. ApplicationFiles(f, s) = a \o b \o (c1 \o c2) \o (d1 \o d2 \o d3 \o d4) \o (e1 \o e2) \o g
  BY DEF ApplicationFiles, CandidateFiles, AppliedResolution, GovernanceFiles, ClosedQueueEntry, CanonFiles,
         FollowUpProposal, PutIf
<1> HIDE DEF a, b, c1, c2, d1, d2, d3, d4, e1, e2, g
<1> DEFINE c == c1 \o c2
           d == d1 \o d2
           dd == d \o d3
           ddd == dd \o d4
           e == e1 \o e2
           ab == a \o b
           abc == ab \o c
           abcd == abc \o ddd
           abcde == abcd \o e
<1>13. c \in Seq(ReviewFiles) /\ Range(c) = Range(c1) \cup Range(c2)
  BY <1>4, RangeOfConcat
<1>14. d \in Seq(ReviewFiles) /\ Range(d) = Range(d1) \cup Range(d2)
  BY <1>5, <1>6, RangeOfConcat
<1>15. e \in Seq(ReviewFiles) /\ Range(e) = Range(e1) \cup Range(e2)
  BY <1>9, <1>10, RangeOfConcat
<1>16. ab \in Seq(ReviewFiles) /\ Range(ab) = Range(a) \cup Range(b)
  BY <1>2, <1>3, RangeOfConcat
<1> HIDE DEF c, d, e, ab
<1>17. dd \in Seq(ReviewFiles) /\ Range(dd) = Range(d) \cup Range(d3)
  BY <1>7, <1>14, RangeOfConcat
<1>18. abc \in Seq(ReviewFiles) /\ Range(abc) = Range(ab) \cup Range(c)
  BY <1>13, <1>16, RangeOfConcat
<1> HIDE DEF dd, abc
<1>19. ddd \in Seq(ReviewFiles) /\ Range(ddd) = Range(dd) \cup Range(d4)
  BY <1>8, <1>17, RangeOfConcat
<1> HIDE DEF ddd
<1>20. abcd \in Seq(ReviewFiles) /\ Range(abcd) = Range(abc) \cup Range(ddd)
  BY <1>18, <1>19, RangeOfConcat
<1> HIDE DEF abcd
<1>21. abcde \in Seq(ReviewFiles) /\ Range(abcde) = Range(abcd) \cup Range(e)
  BY <1>15, <1>20, RangeOfConcat
<1> HIDE DEF abcde
<1>22. abcde \o g \in Seq(ReviewFiles) /\ Range(abcde \o g) = Range(abcde) \cup Range(g)
  BY <1>11, <1>21, RangeOfConcat
<1>23. ApplicationFiles(f, s) = abcde \o g
  BY <1>12 DEF abcde, abcd, abc, ab, c, d, dd, ddd, e
<1>24. Range(ApplicationFiles(f, s)) =
         Range(a) \cup Range(b) \cup Range(c1) \cup Range(c2) \cup Range(d1) \cup Range(d2) \cup Range(d3)
           \cup Range(d4) \cup Range(e1) \cup Range(e2) \cup Range(g)
  BY <1>13, <1>14, <1>15, <1>16, <1>17, <1>18, <1>19, <1>20, <1>21, <1>22, <1>23
<1>25. Range(ApplicationFiles(f, s)) = AppliedSet(f, s)
  BY <1>2, <1>3, <1>4, <1>5, <1>6, <1>7, <1>8, <1>9, <1>10, <1>11, <1>24 DEF AppliedSet
<1> QED BY <1>22, <1>23, <1>25

\* What an expiry writes.
ClosedSet(f) ==
  {File("resolution", f, "rejected")}
    \cup IF Have("reviewQueue", f) THEN {File("reviewQueue", f, "expired")} ELSE {}

LEMMA ClosureWrites ==
  ASSUME NEW f \in Flows
  PROVE  ClosureFiles(f) \in Seq(ReviewFiles) /\ Range(ClosureFiles(f)) = ClosedSet(f)
<1> DEFINE a == Put("resolution", f, "rejected")
           b == PutIf(Have("reviewQueue", f), "reviewQueue", f, "expired")
<1>1. /\ "rejected" \in ContentsOf["resolution"] /\ "resolution" \in Kinds
      /\ "expired" \in ContentsOf["reviewQueue"] /\ "reviewQueue" \in Kinds
  BY KindContents
<1>2. a \in Seq(ReviewFiles) /\ Range(a) = {File("resolution", f, "rejected")}
  BY <1>1, PutIs
<1>3. /\ b \in Seq(ReviewFiles)
      /\ Range(b) = IF Have("reviewQueue", f) THEN {File("reviewQueue", f, "expired")} ELSE {}
  BY <1>1, PutIfIs
<1>4. ClosureFiles(f) = a \o b
  BY DEF ClosureFiles, ClosedQueueEntry
<1> HIDE DEF a, b
<1> QED BY <1>2, <1>3, <1>4, RangeOfConcat DEF ClosedSet

-----------------------------------------------------------------------------
\* The invariant.

NoJournal == \A r \in Reviews, g \in Flows : journal[r][g] = <<>>

\* The files of the journals, and what the records and the log will be once they are
\* carried out.
FilesIn(jour) == {w \in ReviewFiles : \E r \in Reviews, g \in Flows : w \in Range(jour[r][g])}
ReviewWrites(F, k, x) == \E w \in F : w.kind = k /\ w.flow = x
Settled(F, rec) ==
  [k \in Kinds |-> [x \in Flows |->
     IF ReviewWrites(F, k, x) THEN (CHOOSE w \in F : w.kind = k /\ w.flow = x).content ELSE rec[k][x]]]
Final(jour, rec) == Settled(FilesIn(jour), rec)
FinalLog(jour, log) == log \cup {p \in Reviews \X Flows : jour[p[1]][p[2]] # <<>>}

\* A record is written once in a set of files.
OneFileEach(F) == \A w, v \in F : w.kind = v.kind /\ w.flow = v.flow => w = v

\* If callers retry first there is one journal, and the operation that carries it out
\* has written all of its files but those it still has to write.
OneReviewJournal(jour) ==
  \A r, o \in Reviews : \A g, f \in Flows :
    jour[r][g] # <<>> /\ jour[o][f] # <<>> => r = o /\ g = f
Carrying(rev, jour, rec, log) ==
  /\ OneReviewJournal(jour)
  /\ OneFileEach(FilesIn(jour))
  /\ rev.step = "decide" => \A r \in Reviews, g \in Flows : jour[r][g] = <<>>
  /\ rev.step \in {"write", "clear"} =>
       /\ jour[rev.op][rev.flow] # <<>>
       /\ Range(rev.todo) \subseteq Range(jour[rev.op][rev.flow])
       /\ \A w \in FilesIn(jour) : w \in Range(rev.todo) \/ rec[w.kind][w.flow] = w.content
  /\ rev.step = "clear" => rev.todo = <<>> /\ <<rev.op, rev.flow>> \in log

\* The stories the records R, with log L, can tell of a flow that no retry has deleted:
\* no contradiction, one that is open, one whose review expired and one that is settled.
NoFollowUp(R, f) == \A k \in FollowUp : R[k][f] = "none"
Unlogged(L, f) == \A o \in Reviews : <<o, f>> \notin L

Undisputed(R, L, f) ==
  /\ R["contradiction"][f] = "none" /\ R["resolution"][f] = "none" /\ R["reviewQueue"][f] = "none"
  /\ NoFollowUp(R, f) /\ Unlogged(L, f)
Disputed(R, L, f) ==
  /\ R["claim"][f] # "none" /\ R["contradiction"][f] = "open" /\ R["resolution"][f] = "proposed"
  /\ R["reviewQueue"][f] \in {"none", "pending"} /\ R["canon"][f] = "none"
  /\ NoFollowUp(R, f) /\ Unlogged(L, f)
Expired(R, L, f) ==
  /\ R["claim"][f] # "none" /\ R["contradiction"][f] = "open" /\ R["resolution"][f] = "rejected"
  /\ R["reviewQueue"][f] = "expired" /\ NoFollowUp(R, f)
  /\ <<"expire", f>> \in L /\ <<"resolve", f>> \notin L /\ <<"apply", f>> \notin L
ReviewApplied(R, L, f) ==
  /\ R["claim"][f] # "none" /\ R["contradiction"][f] \in {"resolved", "dismissed"}
  /\ R["resolution"][f] = "applied" /\ R["reviewQueue"][f] \in {"none", "applied"}
  /\ <<"expire", f>> \notin L /\ (<<"resolve", f>> \in L \/ <<"apply", f>> \in L)
  /\ (R["followRatification"][f] = "approved") = (R["canon"][f] # "none")
Story(R, L, f) == Undisputed(R, L, f) \/ Disputed(R, L, f) \/ Expired(R, L, f) \/ ReviewApplied(R, L, f)

\* Claim f lost to g.
Beaten(R, A, f, g) ==
  A[g] = f /\ R["resolution"][g] = "applied" /\ CandidateWins(R["strategy"][g])

\* The world and its canon, no flow having been deleted.
CanonFollows(R, A) ==
  /\ \A f, g \in Flows : R["canon"][f] = "active" /\ R["canon"][g] = "active" => f = g
  /\ \A f \in Flows : R["canon"][f] = "active" /\ R["claim"][f] = "historical" =>
       \E g \in Flows :
         /\ Beaten(R, A, f, g)
         /\ R["followRatification"][g] \in {"deferred", "rejected"} \/ R["claim"][g] = "historical"

Tale(R, L, A, D) ==
  /\ \A f \in Flows \ D : Story(R, L, f)
  /\ \A f, g \in Flows \ D : Beaten(R, A, f, g) => R["claim"][f] = "historical"
  /\ D = {} => CanonFollows(R, A)

ReviewInv ==
  /\ TypesHold
  /\ Carrying(review, journal, record, reviewLog)
  /\ Tale(Final(journal, record), FinalLog(journal, reviewLog), against, discarded)

-----------------------------------------------------------------------------
\* What the steps change.

\* One file is written.
WithFile(rec, w) == [rec EXCEPT ![w.kind][w.flow] = w.content]

LEMMA OneWritten ==
  ASSUME NEW rec, Recorded(rec), NEW w \in ReviewFiles
  PROVE  /\ Recorded(WithFile(rec, w))
         /\ \A k \in Kinds : \A x \in Flows :
              WithFile(rec, w)[k][x] = IF w.kind = k /\ w.flow = x THEN w.content ELSE rec[k][x]
<1> DEFINE new == [rec EXCEPT ![w.kind][w.flow] = w.content]
<1>1. w.kind \in Kinds /\ w.flow \in Flows /\ w.content \in AllContents /\ w.content \in ContentsOf[w.kind]
  BY DEF ReviewFiles
<1>2. new = [rec EXCEPT ![w.kind] = [rec[w.kind] EXCEPT ![w.flow] = w.content]]
  OBVIOUS
<1>3. \A k \in Kinds : new[k] = IF k = w.kind THEN [rec[k] EXCEPT ![w.flow] = w.content] ELSE rec[k]
  BY <1>1, <1>2 DEF Recorded
<1>4. \A k \in Kinds : rec[k] \in [Flows -> ContentsOf[k]]
  BY DEF Recorded
<1>5. \A k \in Kinds : new[k] \in [Flows -> ContentsOf[k]]
  BY <1>1, <1>3, <1>4
<1>6. \A k \in Kinds : rec[k] \in [Flows -> AllContents]
  BY DEF Recorded
<1>7. [rec[w.kind] EXCEPT ![w.flow] = w.content] \in [Flows -> AllContents]
  BY <1>1, <1>6
<1>8. new \in [Kinds -> [Flows -> AllContents]]
  BY <1>1, <1>2, <1>7 DEF Recorded
<1>9. \A k \in Kinds : \A x \in Flows :
        new[k][x] = IF w.kind = k /\ w.flow = x THEN w.content ELSE rec[k][x]
  BY <1>1, <1>3, <1>4
<1> QED BY <1>5, <1>8, <1>9 DEF Recorded, WithFile

\* Records are what they say.
LEMMA SameRecords ==
  ASSUME NEW rec, NEW new, Recorded(rec), Recorded(new),
         \A k \in Kinds : \A x \in Flows : new[k][x] = rec[k][x]
  PROVE  new = rec
<1>1. \A k \in Kinds : new[k] = rec[k]
  BY DEF Recorded
<1> QED BY <1>1 DEF Recorded

\* A flow's files but its follow-up are deleted.
LEMMA ResetIs ==
  ASSUME Recorded(record), NEW f \in Flows
  PROVE  /\ Recorded(Reset(f))
         /\ \A k \in Kinds : \A x \in Flows :
              Reset(f)[k][x] = IF x = f /\ k \notin FollowUp THEN "none" ELSE record[k][x]
<1>1. \A k \in Kinds : record[k] \in [Flows -> ContentsOf[k]]
  BY DEF Recorded
<1>2. \A k \in Kinds : Reset(f)[k] = [record[k] EXCEPT ![f] = IF k \in FollowUp THEN @ ELSE "none"]
  BY DEF Reset
<1>3. \A k \in Kinds : "none" \in ContentsOf[k]
  BY KindContents
<1>4. ASSUME NEW k \in Kinds
      PROVE  /\ Reset(f)[k] \in [Flows -> ContentsOf[k]]
             /\ \A x \in Flows : Reset(f)[k][x] = IF x = f /\ k \notin FollowUp THEN "none" ELSE record[k][x]
  <2>1. record[k] \in [Flows -> ContentsOf[k]] /\ "none" \in ContentsOf[k]
    BY <1>1, <1>3
  <2>2. CASE k \in FollowUp
    <3>1. Reset(f)[k] = record[k]
      BY <1>2, <2>1, <2>2
    <3> QED BY <2>1, <2>2, <3>1
  <2>3. CASE k \notin FollowUp
    <3>1. Reset(f)[k] = [record[k] EXCEPT ![f] = "none"]
      BY <1>2, <2>3
    <3> QED BY <2>1, <2>3, <3>1
  <2> QED BY <2>2, <2>3
<1>5. \A k \in Kinds : ContentsOf[k] \subseteq AllContents
  BY DEF AllContents
<1>6. \A k \in Kinds : Reset(f)[k] \in [Flows -> AllContents]
  BY <1>4, <1>5
<1>7. Reset(f) \in [Kinds -> [Flows -> AllContents]]
  BY <1>2, <1>6 DEF Reset
<1>8. \A k \in Kinds : \A x \in Flows :
        Reset(f)[k][x] = IF x = f /\ k \notin FollowUp THEN "none" ELSE record[k][x]
  BY <1>4
<1> QED BY <1>4, <1>7, <1>8 DEF Recorded

\* The flow f, written anew, contradicts the claim of g, if there is one.
NewStory(f, g, rec, new, canon) ==
  /\ Recorded(new)
  /\ \A k \in Kinds : \A x \in Flows \ {f} : new[k][x] = rec[k][x]
  /\ \A k \in FollowUp : new[k][f] = rec[k][f]
  /\ g # NoFlow => g \in Flows \ {f} /\ StatementOf[g] # StatementOf[f]
  /\ new["claim"][f] = "active"
  /\ new["contradiction"][f] = IF g # NoFlow THEN "open" ELSE "none"
  /\ new["resolution"][f] = IF g # NoFlow THEN "proposed" ELSE "none"
  /\ new["reviewQueue"][f] \in {"none", "pending"}
  /\ g = NoFlow => new["reviewQueue"][f] = "none"
  /\ new["canon"][f] \in {"none", "active"}
  /\ g # NoFlow \/ (\E x \in Flows \ {f} : canon[x] = "active") => new["canon"][f] = "none"

\* That is what writing it does.
LEMMA Wrote ==
  ASSUME TypesHold, NEW f \in Flows, WriteFlow(f)
  PROVE  \E g \in Flows \cup {NoFlow} :
           NewStory(f, g, record, record', record["canon"]) /\ against' = [against EXCEPT ![f] = g]
<1> DEFINE base == Reset(f)
           rivals == Rivals(base["claim"], f)
<1>1. PICK g \in IF rivals = {} THEN {NoFlow} ELSE rivals :
        /\ record' = [k \in Kinds |-> IF k \in FollowUp THEN base[k]
                                      ELSE [base[k] EXCEPT ![f] = NewRecords(f, base, g)[k]]]
        /\ against' = [against EXCEPT ![f] = g]
  BY DEF WriteFlow
<1>2. g \in Flows \cup {NoFlow} /\ (g # NoFlow => g \in Flows \ {f} /\ StatementOf[g] # StatementOf[f])
  BY <1>1 DEF Rivals
<1>3. /\ Recorded(base)
      /\ \A k \in Kinds : \A x \in Flows :
           base[k][x] = IF x = f /\ k \notin FollowUp THEN "none" ELSE record[k][x]
  BY ResetIs DEF TypesHold
<1> DEFINE n == NewRecords(f, base, g)
           kinds == {"claim", "contradiction", "strategy", "resolution", "reviewQueue", "ratification", "canon"}
<1>4. /\ n["claim"] = "active" /\ n["contradiction"] = (IF g # NoFlow THEN "open" ELSE "none")
      /\ n["strategy"] = (IF g # NoFlow THEN ProposedStrategy(f, g) ELSE "none")
      /\ n["resolution"] = (IF g # NoFlow THEN "proposed" ELSE "none")
      /\ n["reviewQueue"] = ManualQueueEntry(IF g # NoFlow THEN ProposedStrategy(f, g) ELSE "none")
      /\ n["ratification"] = Decision(g # NoFlow \/ ActiveCanonIn(base["canon"]) # {}, f)
      /\ n["canon"] = IF Decision(g # NoFlow \/ ActiveCanonIn(base["canon"]) # {}, f) = "approved"
                      THEN "active" ELSE "none"
  BY DEF NewRecords
<1> HIDE DEF n, base
<1>5. Kinds = kinds \cup FollowUp /\ kinds \cap FollowUp = {}
  BY DEF Kinds, FollowUp
<1>6. \A k \in kinds : n[k] \in ContentsOf[k]
  <2>1. n["strategy"] \in ContentsOf["strategy"] /\ n["reviewQueue"] \in ContentsOf["reviewQueue"]
    BY <1>4, KindContents DEF ProposedStrategy, ManualQueueEntry
  <2>2. n["ratification"] \in ContentsOf["ratification"] /\ n["canon"] \in ContentsOf["canon"]
    BY <1>4, KindContents DEF Decision
  <2>3. /\ n["claim"] \in ContentsOf["claim"] /\ n["contradiction"] \in ContentsOf["contradiction"]
        /\ n["resolution"] \in ContentsOf["resolution"]
    BY <1>4, KindContents
  <2> QED BY <2>1, <2>2, <2>3
<1>7. \A k \in Kinds : base[k] \in [Flows -> ContentsOf[k]]
  BY <1>3 DEF Recorded
<1>8. \A k \in Kinds : record'[k] = IF k \in FollowUp THEN base[k] ELSE [base[k] EXCEPT ![f] = n[k]]
  BY <1>1 DEF n, base
<1>9. ASSUME NEW k \in Kinds
      PROVE  /\ record'[k] \in [Flows -> ContentsOf[k]]
             /\ \A x \in Flows : record'[k][x] = IF x = f /\ k \notin FollowUp THEN n[k] ELSE base[k][x]
  <2>1. base[k] \in [Flows -> ContentsOf[k]]
    BY <1>7
  <2>2. CASE k \in FollowUp
    <3>1. record'[k] = base[k]
      BY <1>8, <2>2
    <3> QED BY <2>1, <2>2, <3>1
  <2>3. CASE k \notin FollowUp
    <3>1. record'[k] = [base[k] EXCEPT ![f] = n[k]] /\ n[k] \in ContentsOf[k]
      BY <1>5, <1>6, <1>8, <2>3
    <3> QED BY <2>1, <2>3, <3>1
  <2> QED BY <2>2, <2>3
<1>10. Recorded(record')
  <2>1. \A k \in Kinds : ContentsOf[k] \subseteq AllContents
    BY DEF AllContents
  <2>2. \A k \in Kinds : record'[k] \in [Flows -> AllContents]
    BY <1>9, <2>1
  <2>3. record' = [k \in Kinds |-> record'[k]]
    BY <1>1, <1>8
  <2>4. record' \in [Kinds -> [Flows -> AllContents]]
    BY <2>2, <2>3
  <2> QED BY <1>9, <2>4 DEF Recorded
<1>11. \A k \in Kinds : \A x \in Flows :
         record'[k][x] = IF x = f /\ k \notin FollowUp THEN n[k] ELSE record[k][x]
  BY <1>3, <1>9
<1>12. \A k \in kinds : record'[k][f] = n[k]
  BY <1>5, <1>11
<1>13. (\A k \in Kinds : \A x \in Flows \ {f} : record'[k][x] = record[k][x])
       /\ \A k \in FollowUp : record'[k][f] = record[k][f]
  BY <1>5, <1>11
<1>14. g # NoFlow \/ (\E x \in Flows \ {f} : record["canon"][x] = "active") => n["canon"] = "none"
  <2>1. ASSUME NEW x \in Flows \ {f}, record["canon"][x] = "active" PROVE ActiveCanonIn(base["canon"]) # {}
    <3>1. base["canon"][x] = "active"
      BY <1>3, <1>5, <2>1
    <3> QED BY <3>1 DEF ActiveCanonIn
  <2> QED BY <1>4, <2>1 DEF Decision
<1>15. /\ n["reviewQueue"] \in {"none", "pending"} /\ n["canon"] \in {"none", "active"}
       /\ g = NoFlow => n["reviewQueue"] = "none"
  BY <1>4 DEF ManualQueueEntry
<1>16. NewStory(f, g, record, record', record["canon"])
  BY <1>2, <1>4, <1>10, <1>12, <1>13, <1>14, <1>15 DEF NewStory
<1> QED BY <1>1, <1>2, <1>16

\* What a request is when it is decided, and what is carried out when it is written.
LEMMA ReviewIs ==
  ASSUME ReviewTyped
  PROVE  /\ review.step = "decide" =>
              /\ review.op \in Reviews /\ review.flow \in Flows
              /\ review.op \in {"resolve", "apply"} => review.strategy \in Strategies
         /\ review.step \in {"write", "clear"} =>
              /\ review.op \in Reviews /\ review.flow \in Flows /\ review.todo \in Seq(ReviewFiles)
              /\ review \in Carried
         /\ review.step \in {"idle", "decide", "write", "clear"}
         /\ review.op \in Reviews \cup {"none"}
<1>1. CASE review = NoReview
  BY <1>1 DEF NoReview
<1>2. CASE /\ review \in Requests
           /\ review.op = "resolve" => review.strategy = "coexist_temporally"
           /\ review.op = "apply" => review.strategy \in Strategies
  BY <1>2 DEF Requests, Strategies
<1>3. CASE review \in Carried
  BY <1>3 DEF Carried
<1> QED BY <1>1, <1>2, <1>3 DEF ReviewTyped

\* A journal that is carried out.
LEMMA WritingIs ==
  ASSUME NEW o \in Reviews, NEW f \in Flows, NEW files \in Seq(ReviewFiles)
  PROVE  /\ Writing(o, f, files) \in Carried
         /\ Writing(o, f, files).op = o /\ Writing(o, f, files).flow = f
         /\ Writing(o, f, files).step = "write" /\ Writing(o, f, files).todo = files
BY DEF Writing, NoReview, Carried

\* What is written when a request is granted: the files of an application or of an
\* expiry.
Granted(o, f, s, F) ==
  \/ o = "expire" /\ ExpireAllowed(f) /\ F = ClosedSet(f)
  \/ o = "resolve" /\ ResolveAllowed(f) /\ s = "coexist_temporally" /\ F = AppliedSet(f, s)
  \/ o = "apply" /\ ApplyAllowed(f) /\ s \in Strategies /\ s = review.strategy /\ F = AppliedSet(f, s)

\* A request that is granted writes a journal, and not an empty one.
LEMMA Decided ==
  ASSUME TypesHold, Decide
  PROVE  /\ review.op \in Reviews /\ review.flow \in Flows
         /\ \E files \in Seq(ReviewFiles) :
              /\ files # <<>>
              /\ Granted(review.op, review.flow, review.strategy, Range(files))
              /\ journal' = [journal EXCEPT ![review.op][review.flow] = files]
              /\ review' = Writing(review.op, review.flow, files)
<1> DEFINE o == review.op
           f == review.flow
           s == review.strategy
           files == IF o = "expire" THEN ClosureFiles(f) ELSE ApplicationFiles(f, s)
<1>1. review.step = "decide" /\ ReviewTyped /\ Opposed
  BY DEF Decide, TypesHold
<1>2. o \in Reviews /\ f \in Flows /\ (o \in {"resolve", "apply"} => s \in Strategies)
  BY <1>1, ReviewIs
<1>3. journal' = [journal EXCEPT ![o][f] = files] /\ review' = Writing(o, f, files)
  BY DEF Decide
<1>4. o = "resolve" => s = "coexist_temporally"
  BY <1>1 DEF ReviewTyped, NoReview, Carried
<1>5. /\ o = "expire" => ExpireAllowed(f)
      /\ o = "resolve" => ResolveAllowed(f)
      /\ o = "apply" => ApplyAllowed(f)
  <2>1. Allowed
    BY DEF Decide
  <2> QED BY <1>2, <2>1 DEF Allowed
<1> HIDE DEF o, f, s
<1>6. CASE o = "expire"
  <2>1. files \in Seq(ReviewFiles) /\ Range(files) = ClosedSet(f)
    BY <1>2, <1>6, ClosureWrites
  <2>2. Granted(o, f, s, Range(files))
    BY <1>5, <1>6, <2>1 DEF Granted
  <2>3. files # <<>>
    BY <2>1 DEF ClosedSet, Range
  <2> QED BY <1>2, <1>3, <2>1, <2>2, <2>3 DEF o, f, s
<1>7. CASE o \in {"resolve", "apply"}
  <2>1. Content("contradiction", f) = "open"
    BY <1>4, <1>5, <1>7 DEF ResolveAllowed, ApplyAllowed, Settles
  <2>2. against[f] \in Flows
    BY <1>1, <1>2, <2>1 DEF Opposed
  <2>3. files \in Seq(ReviewFiles) /\ Range(files) = AppliedSet(f, s)
    BY <1>2, <1>7, <2>2, ApplicationWrites
  <2>4. o = "apply" => s = review.strategy /\ s \in Strategies
    BY <1>2, <1>7 DEF s
  <2>5. Granted(o, f, s, Range(files))
    BY <1>4, <1>5, <1>7, <2>3, <2>4 DEF Granted
  <2>6. File("resolution", f, "applied") \in AppliedSet(f, s)
    BY DEF AppliedSet
  <2>7. files # <<>>
    BY <2>3, <2>6 DEF Range
  <2> QED BY <1>2, <1>3, <2>3, <2>5, <2>7 DEF o, f, s
<1> QED BY <1>2, <1>6, <1>7 DEF Reviews

\* The types at the start.
LEMMA TypesHoldInit ==
  ASSUME ReviewAssumption, ReviewInit
  PROVE  TypesHold
<1>1. \A k \in Kinds : "none" \in ContentsOf[k]
  BY KindContents
<1>2. \A k \in Kinds : ContentsOf[k] \subseteq AllContents
  BY DEF AllContents
<1>3. Recorded(record)
  BY <1>1, <1>2 DEF ReviewInit, Recorded
<1>4. journal \in [Reviews -> [Flows -> Seq(ReviewFiles)]]
  BY DEF ReviewInit
<1>5. Opposed
  <2>1. \A f \in Flows : Content("contradiction", f) = "none"
    BY KindContents DEF ReviewInit, Content
  <2> QED BY <2>1 DEF Opposed
<1> QED BY <1>3, <1>4, <1>5 DEF ReviewInit, TypesHold, ReviewTyped, ReviewAssumption

\* A contradiction that is open is one between two claims as long as nothing opens it.
LEMMA StillOpposed ==
  ASSUME Opposed, against' = against,
         \A x \in Flows : Content("contradiction", x)' = "open" => Content("contradiction", x) = "open"
  PROVE  Opposed'
BY DEF Opposed

\* A request that begins, or the journal it finds.
Starting(o, f, by, s) ==
  /\ o \in Reviews /\ f \in Flows /\ by \in Principals /\ s \in Strategies \cup {"manual_review"}
  /\ o = "resolve" => s = "coexist_temporally"
  /\ o = "apply" => s \in Strategies
  /\ Begin(o, f, by, s)

LEMMA Starts ==
  ASSUME NEW f \in Flows, NEW by \in Principals,
         Resolving(f, by) \/ Expiring(f, by) \/ \E s \in Strategies : Reviewing(f, by, s)
  PROVE  \E o \in Reviews : \E s \in Strategies \cup {"manual_review"} : Starting(o, f, by, s)
BY DEF Starting, Resolving, Expiring, Reviewing, Reviews, Strategies

\* Every step keeps the types.
LEMMA TypesHoldStep ==
  ASSUME ReviewAssumption, TypesHold, [ReviewNext \/ ReviewRests]_reviewVars
  PROVE  TypesHold'
<1> USE DEF TypesHold
<1>0. "contradiction" \in Kinds /\ "contradiction" \notin FollowUp
  BY DEF Kinds, FollowUp
<1>1. ASSUME NEW f \in Flows, WriteFlow(f) PROVE TypesHold'
  <2>1. PICK g \in Flows \cup {NoFlow} :
          NewStory(f, g, record, record', record["canon"]) /\ against' = [against EXCEPT ![f] = g]
    BY <1>1, Wrote
  <2>2. Recorded(record') /\ against' \in [Flows -> Flows \cup {NoFlow}]
    BY <2>1 DEF NewStory
  <2>3. ASSUME NEW x \in Flows, record'["contradiction"][x] = "open"
        PROVE  against'[x] \in Flows \ {x} /\ StatementOf[against'[x]] # StatementOf[x]
    <3>1. CASE x = f
      <4>1. g # NoFlow /\ against'[x] = g
        BY <2>1, <2>3, <3>1 DEF NewStory
      <4> QED BY <2>1, <3>1, <4>1 DEF NewStory
    <3>2. CASE x # f
      <4>1. record["contradiction"][x] = "open" /\ against'[x] = against[x]
        BY <1>0, <2>1, <2>3, <3>2 DEF NewStory
      <4> QED BY <4>1 DEF Opposed, Content
    <3> QED BY <3>1, <3>2
  <2>4. Opposed'
    BY <2>3 DEF Opposed, Content
  <2>5. discarded' \subseteq Flows
    BY <1>1 DEF WriteFlow
  <2> QED BY <1>1, <2>2, <2>4, <2>5 DEF WriteFlow, ReviewTyped
<1>2. ASSUME NEW f \in Flows, record' = Reset(f), against' = against PROVE Recorded(record') /\ Opposed'
  <2>1. Recorded(record') /\ \A x \in Flows :
          record'["contradiction"][x] = IF x = f THEN "none" ELSE record["contradiction"][x]
    BY <1>0, <1>2, ResetIs
  <2>2. \A x \in Flows : Content("contradiction", x)' = "open" => Content("contradiction", x) = "open"
    BY <2>1 DEF Content
  <2> QED BY <1>2, <2>1, <2>2, StillOpposed
<1>3. ASSUME NEW f \in Flows, ReadBack(f) PROVE TypesHold'
  BY <1>2, <1>3 DEF ReadBack, ReviewTyped
<1>4. ASSUME NEW o, NEW f, NEW by, NEW s, Starting(o, f, by, s) PROVE TypesHold'
  <2>1. ReviewTyped'
    <3>1. CASE journal[o][f] # <<>>
      <4>1. review' = Writing(o, f, journal[o][f]) /\ journal[o][f] \in Seq(ReviewFiles)
        BY <1>4, <3>1 DEF Starting, Begin
      <4> QED BY <1>4, <4>1, WritingIs DEF ReviewTyped, Starting
    <3>2. CASE journal[o][f] = <<>>
      <4>1. review' = [op |-> o, flow |-> f, by |-> by, strategy |-> s, step |-> "decide", todo |-> <<>>]
        BY <1>4, <3>2 DEF Starting, Begin, NoReview
      <4> QED BY <1>4, <4>1 DEF ReviewTyped, Starting, Requests
    <3> QED BY <3>1, <3>2
  <2>2. Opposed'
    BY <1>4 DEF Starting, Begin, Opposed, Content
  <2> QED BY <1>4, <2>1, <2>2 DEF Starting, Begin
<1>5. CASE Decide
  <2>1. PICK files \in Seq(ReviewFiles) :
          /\ journal' = [journal EXCEPT ![review.op][review.flow] = files]
          /\ review' = Writing(review.op, review.flow, files)
    BY <1>5, Decided
  <2>2. review.op \in Reviews /\ review.flow \in Flows
    BY <1>5, Decided
  <2>3. journal' \in [Reviews -> [Flows -> Seq(ReviewFiles)]]
    BY <2>1, <2>2
  <2>4. ReviewTyped'
    BY <2>1, <2>2, WritingIs DEF ReviewTyped
  <2>5. Opposed'
    BY <1>5 DEF Decide, Opposed, Content
  <2> QED BY <1>5, <2>3, <2>4, <2>5 DEF Decide
<1>6. CASE Refuse
  <2>1. review.flow \in Flows
    BY <1>6, ReviewIs DEF Refuse
  <2>2. ReviewTyped'
    BY <1>6 DEF Refuse, ReviewTyped
  <2>3. Recorded(record') /\ Opposed' /\ discarded' \subseteq Flows
    <3>1. CASE record' = Reset(review.flow) /\ discarded' = discarded \cup {review.flow}
      BY <1>2, <1>6, <2>1, <3>1 DEF Refuse
    <3>2. CASE UNCHANGED <<record, discarded>>
      BY <1>6, <3>2 DEF Refuse, Opposed, Content
    <3> QED BY <1>6, <3>1, <3>2 DEF Refuse
  <2> QED BY <1>6, <2>2, <2>3 DEF Refuse
<1>7. CASE WriteReviewed
  <2> DEFINE w == Head(review.todo)
  <2>1. review \in Carried /\ review.todo \in Seq(ReviewFiles) /\ review.todo # <<>>
    BY <1>7, ReviewIs DEF WriteReviewed
  <2>2. w \in ReviewFiles /\ Tail(review.todo) \in Seq(ReviewFiles)
    BY <2>1, RangeOfTail
  <2>3. record' = WithFile(record, w)
    BY <1>7 DEF WriteReviewed, WithFile
  <2> HIDE DEF w
  <2>4. /\ Recorded(record')
        /\ \A k \in Kinds : \A x \in Flows :
             record'[k][x] = IF w.kind = k /\ w.flow = x THEN w.content ELSE record[k][x]
    BY <2>2, <2>3, OneWritten
  <2>5. \A x \in Flows : Content("contradiction", x)' = "open" => Content("contradiction", x) = "open"
    BY <1>0, <2>2, <2>4 DEF Content, ReviewFiles
  <2>6. ReviewTyped'
    BY <1>7, <2>1, <2>2 DEF WriteReviewed, ReviewTyped, Carried
  <2>7. Opposed'
    BY <1>7, <2>5, StillOpposed DEF WriteReviewed
  <2> QED BY <1>7, <2>4, <2>6, <2>7 DEF WriteReviewed
<1>8. CASE LogReview
  <2>1. review \in Carried /\ review.op \in Reviews /\ review.flow \in Flows
    BY <1>8, ReviewIs DEF LogReview
  <2>2. ReviewTyped'
    BY <1>8, <2>1 DEF LogReview, ReviewTyped, Carried
  <2>3. Opposed'
    BY <1>8 DEF LogReview, Opposed, Content
  <2> QED BY <1>8, <2>1, <2>2, <2>3 DEF LogReview
<1>9. CASE ClearReview
  <2>1. review.op \in Reviews /\ review.flow \in Flows
    BY <1>9, ReviewIs DEF ClearReview
  <2>2. journal' \in [Reviews -> [Flows -> Seq(ReviewFiles)]]
    BY <1>9, <2>1 DEF ClearReview
  <2>3. Opposed'
    BY <1>9 DEF ClearReview, Opposed, Content
  <2> QED BY <1>9, <2>2, <2>3 DEF ClearReview, ReviewTyped
<1>10. CASE Abandon
  <2>1. Opposed'
    BY <1>10 DEF Abandon, Opposed, Content
  <2>2. failures' \in Nat /\ failures' <= MaxFailures
    BY <1>10 DEF Abandon, ReviewAssumption
  <2> QED BY <1>10, <2>1, <2>2 DEF Abandon, ReviewTyped
<1>11. CASE UNCHANGED reviewVars
  BY <1>11 DEF reviewVars, ReviewTyped, Opposed, Content
<1>12. ASSUME NEW f \in Flows, NEW by \in Principals,
              Resolving(f, by) \/ Expiring(f, by) \/ \E s \in Strategies : Reviewing(f, by, s)
       PROVE  TypesHold'
  BY <1>4, <1>12, Starts
<1>13. CASE ReviewNext
  BY <1>1, <1>3, <1>5, <1>6, <1>7, <1>8, <1>9, <1>10, <1>12, <1>13 DEF ReviewNext
<1> QED BY <1>11, <1>13 DEF ReviewRests

\* What the types say.
LEMMA TypesAre ==
  ASSUME ReviewAssumption, TypesHold
  PROVE  ReviewTypeOK
<1>1. \A k \in Kinds : record[k] \in [Flows -> ContentsOf[k]]
  BY DEF TypesHold, Recorded
<1>2. /\ review.op \in Reviews \cup {"none"}
      /\ review.step \in {"idle", "decide", "write", "clear"}
  BY ReviewIs DEF TypesHold
<1>3. failures \in 0 .. MaxFailures
  BY DEF TypesHold, ReviewAssumption
<1> QED BY <1>1, <1>2, <1>3 DEF TypesHold, ReviewTypeOK

\* Records, journals and the operation in progress have their types, whoever calls what
\* and in whatever order (conversation-preference-store.ts, pipeline.ts).
THEOREM ReviewTypesKept == ReviewSpec => []ReviewTypeOK
<1>1. ReviewAssumption
  BY ReviewAssumption
<1>2. ReviewInit => TypesHold
  BY <1>1, TypesHoldInit
<1>3. TypesHold /\ [ReviewNext \/ ReviewRests]_reviewVars => TypesHold'
  BY <1>1, TypesHoldStep
<1>4. TypesHold => ReviewTypeOK
  BY <1>1, TypesAre
<1> QED BY <1>2, <1>3, <1>4, PTL DEF ReviewSpec

-----------------------------------------------------------------------------
\* What the records will be.

\* A file decides what its record will be; a record that no file writes stays.
LEMMA SettledBy ==
  ASSUME NEW F, NEW rec, OneFileEach(F), NEW k \in Kinds, NEW x \in Flows
  PROVE  /\ \A w \in F : w.kind = k /\ w.flow = x => Settled(F, rec)[k][x] = w.content
         /\ ~ReviewWrites(F, k, x) => Settled(F, rec)[k][x] = rec[k][x]
<1> DEFINE c == CHOOSE w \in F : w.kind = k /\ w.flow = x
<1>1. Settled(F, rec)[k][x] = IF ReviewWrites(F, k, x) THEN c.content ELSE rec[k][x]
  BY DEF Settled
<1>2. ASSUME NEW w \in F, w.kind = k, w.flow = x PROVE c = w
  <2>1. c \in F /\ c.kind = k /\ c.flow = x
    BY <1>2
  <2> QED BY <1>2, <2>1 DEF OneFileEach
<1> HIDE DEF c
<1> QED BY <1>1, <1>2 DEF ReviewWrites

\* The records of an outcome are the outcome, if the files write what it says.
LEMMA SettledAgrees ==
  ASSUME NEW F, NEW rec, NEW new, OneFileEach(F), Recorded(new),
         \A w \in F : w.content = new[w.kind][w.flow],
         \A k \in Kinds : \A x \in Flows : ~ReviewWrites(F, k, x) => new[k][x] = rec[k][x]
  PROVE  Settled(F, rec) = new
<1>1. ASSUME NEW k \in Kinds, NEW x \in Flows PROVE Settled(F, rec)[k][x] = new[k][x]
  <2>1. CASE ReviewWrites(F, k, x)
    <3>1. PICK w \in F : w.kind = k /\ w.flow = x
      BY <2>1 DEF ReviewWrites
    <3>2. Settled(F, rec)[k][x] = w.content
      BY <3>1, SettledBy
    <3> QED BY <3>1, <3>2
  <2>2. CASE ~ReviewWrites(F, k, x)
    BY <2>2, SettledBy
  <2> QED BY <2>1, <2>2
<1>2. \A k \in Kinds : new[k] = [x \in Flows |-> new[k][x]]
  BY DEF Recorded
<1>3. new = [k \in Kinds |-> [x \in Flows |-> new[k][x]]]
  BY <1>2 DEF Recorded
<1>4. \A k \in Kinds : Settled(F, rec)[k] = [x \in Flows |-> Settled(F, rec)[k][x]]
  BY DEF Settled
<1>5. Settled(F, rec) = [k \in Kinds |-> [x \in Flows |-> Settled(F, rec)[k][x]]]
  BY <1>4 DEF Settled
<1>6. \A k \in Kinds : [x \in Flows |-> Settled(F, rec)[k][x]] = [x \in Flows |-> new[k][x]]
  BY <1>1
<1> QED BY <1>3, <1>5, <1>6

\* The journals' files are those of the one journal there is.
LEMMA FilesOfOne ==
  ASSUME NEW jour \in [Reviews -> [Flows -> Seq(ReviewFiles)]], OneReviewJournal(jour),
         NEW o \in Reviews, NEW f \in Flows, jour[o][f] # <<>>
  PROVE  FilesIn(jour) = Range(jour[o][f])
<1>1. Range(<<>>) = {}
  BY DEF Range
<1>2. \A r \in Reviews, g \in Flows : Range(jour[r][g]) # {} => r = o /\ g = f
  BY <1>1 DEF OneReviewJournal
<1>3. jour[o][f] \in Seq(ReviewFiles)
  OBVIOUS
<1>4. Range(jour[o][f]) \subseteq ReviewFiles
  BY <1>3, ElementOfSeq DEF Range
<1> QED BY <1>2, <1>4 DEF FilesIn

\* Without a journal the records are what they will be.
LEMMA NothingToWrite ==
  ASSUME NEW jour, \A r \in Reviews, g \in Flows : jour[r][g] = <<>>
  PROVE  /\ FilesIn(jour) = {} /\ OneReviewJournal(jour) /\ OneFileEach(FilesIn(jour))
         /\ \A rec : Recorded(rec) => Final(jour, rec) = rec
         /\ \A log : log \subseteq Reviews \X Flows => FinalLog(jour, log) = log
<1>1. Range(<<>>) = {}
  BY DEF Range
<1>2. FilesIn(jour) = {}
  BY <1>1 DEF FilesIn
<1>3. OneFileEach({})
  BY DEF OneFileEach
<1>4. ASSUME NEW rec, Recorded(rec) PROVE Settled({}, rec) = rec
  BY <1>3, <1>4, SettledAgrees
<1>5. \A log : log \subseteq Reviews \X Flows => FinalLog(jour, log) = log
  BY DEF FinalLog
<1> QED BY <1>2, <1>3, <1>4, <1>5 DEF OneReviewJournal, Final

\* What the records say after an application.
OutcomeOf(f, s, k, x) ==
  LET approved == FollowUpDone(f, s, "approved")
      old == record[k][x]
  IN CASE k = "claim" ->
            IF x = f THEN IF ExistingWins(s) THEN "historical" ELSE old
            ELSE IF x = against[f] /\ CandidateWins(s) THEN "historical" ELSE old
       [] k = "contradiction" -> IF x = f THEN SettledAs(s) ELSE old
       [] k = "strategy" -> IF x = f THEN s ELSE old
       [] k = "resolution" -> IF x = f THEN "applied" ELSE old
       [] k = "reviewQueue" -> IF x = f /\ Have(k, f) THEN "applied" ELSE old
       [] k = "ratification" -> old
       [] k = "canon" ->
            IF approved /\ x = f THEN "active"
            ELSE IF approved /\ x = Target THEN "superseded" ELSE old
       [] k = "followProposal" ->
            IF PromotesWinner(f, s) /\ x = f THEN IF Target = NoFlow THEN "create" ELSE "revise" ELSE old
       [] k = "followQueue" -> IF QueuesFollowUp(f, s) /\ x = f THEN "pending" ELSE old
       [] k = "followRatification" -> IF PromotesWinner(f, s) /\ x = f THEN FollowUpDecision(f) ELSE old
Outcome(f, s) == [k \in Kinds |-> [x \in Flows |-> OutcomeOf(f, s, k, x)]]

\* Kind by kind.
LEMMA OutcomeIs ==
  ASSUME NEW f, NEW s, NEW x \in Flows
  PROVE  /\ Outcome(f, s)["claim"][x] =
              (IF x = f THEN IF ExistingWins(s) THEN "historical" ELSE record["claim"][f]
               ELSE IF x = against[f] /\ CandidateWins(s) THEN "historical" ELSE record["claim"][x])
         /\ Outcome(f, s)["contradiction"][x] = (IF x = f THEN SettledAs(s) ELSE record["contradiction"][x])
         /\ Outcome(f, s)["strategy"][x] = (IF x = f THEN s ELSE record["strategy"][x])
         /\ Outcome(f, s)["resolution"][x] = (IF x = f THEN "applied" ELSE record["resolution"][x])
         /\ Outcome(f, s)["reviewQueue"][x] =
              (IF x = f /\ Have("reviewQueue", f) THEN "applied" ELSE record["reviewQueue"][x])
         /\ Outcome(f, s)["ratification"][x] = record["ratification"][x]
         /\ Outcome(f, s)["canon"][x] =
              (IF FollowUpDone(f, s, "approved") /\ x = f THEN "active"
               ELSE IF FollowUpDone(f, s, "approved") /\ x = Target THEN "superseded" ELSE record["canon"][x])
         /\ Outcome(f, s)["followProposal"][x] =
              (IF PromotesWinner(f, s) /\ x = f THEN IF Target = NoFlow THEN "create" ELSE "revise"
               ELSE record["followProposal"][x])
         /\ Outcome(f, s)["followQueue"][x] =
              (IF QueuesFollowUp(f, s) /\ x = f THEN "pending" ELSE record["followQueue"][x])
         /\ Outcome(f, s)["followRatification"][x] =
              (IF PromotesWinner(f, s) /\ x = f THEN FollowUpDecision(f) ELSE record["followRatification"][x])
<1>1. /\ "claim" \in Kinds /\ "contradiction" \in Kinds /\ "strategy" \in Kinds /\ "resolution" \in Kinds
      /\ "reviewQueue" \in Kinds /\ "ratification" \in Kinds /\ "canon" \in Kinds
      /\ "followProposal" \in Kinds /\ "followQueue" \in Kinds /\ "followRatification" \in Kinds
  BY DEF Kinds, FollowUp
<1>2. \A k \in Kinds : Outcome(f, s)[k][x] = OutcomeOf(f, s, k, x)
  BY DEF Outcome
<1> QED BY <1>1, <1>2 DEF OutcomeOf

\* They are records.
LEMMA OutcomeRecorded ==
  ASSUME Recorded(record), NEW f \in Flows, NEW s \in Strategies
  PROVE  Recorded(Outcome(f, s))
<1> DEFINE R == Outcome(f, s)
<1>1. ASSUME NEW x \in Flows, NEW k \in Kinds PROVE R[k][x] \in ContentsOf[k]
  <2>1. \A j \in Kinds : \A y \in Flows : record[j][y] \in ContentsOf[j]
    BY DEF Recorded
  <2>2. R["claim"][x] \in ContentsOf["claim"]
    BY <2>1, OutcomeIs, KindContents
  <2>3. R["contradiction"][x] \in ContentsOf["contradiction"]
    BY <2>1, OutcomeIs, KindContents DEF SettledAs
  <2>4. R["strategy"][x] \in ContentsOf["strategy"]
    BY <2>1, OutcomeIs, KindContents DEF Strategies
  <2>5. R["resolution"][x] \in ContentsOf["resolution"]
    BY <2>1, OutcomeIs, KindContents
  <2>6. R["reviewQueue"][x] \in ContentsOf["reviewQueue"]
    BY <2>1, OutcomeIs, KindContents
  <2>7. R["ratification"][x] \in ContentsOf["ratification"]
    BY <2>1, OutcomeIs, KindContents
  <2>8. R["canon"][x] \in ContentsOf["canon"]
    BY <2>1, OutcomeIs, KindContents
  <2>9. R["followProposal"][x] \in ContentsOf["followProposal"]
    BY <2>1, OutcomeIs, KindContents
  <2>10. R["followQueue"][x] \in ContentsOf["followQueue"]
    BY <2>1, OutcomeIs, KindContents
  <2>11. R["followRatification"][x] \in ContentsOf["followRatification"]
    <3>1. FollowUpDecision(f) \in {"approved", "deferred", "rejected"}
      BY DEF FollowUpDecision, Decision
    <3> QED BY <2>1, <3>1, OutcomeIs, KindContents
  <2> QED BY <2>2, <2>3, <2>4, <2>5, <2>6, <2>7, <2>8, <2>9, <2>10, <2>11, KindContents
<1>2. R \in [Kinds -> [Flows -> AllContents]]
  <2>1. \A k \in Kinds : ContentsOf[k] \subseteq AllContents
    BY DEF AllContents
  <2>2. \A k \in Kinds : R[k] = [x \in Flows |-> R[k][x]]
    BY DEF Outcome
  <2>3. \A k \in Kinds : R[k] \in [Flows -> AllContents]
    BY <1>1, <2>1, <2>2
  <2>4. R = [k \in Kinds |-> R[k]]
    BY DEF Outcome
  <2> QED BY <2>3, <2>4
<1>3. \A k \in Kinds : R[k] \in [Flows -> ContentsOf[k]]
  <2>1. \A k \in Kinds : R[k] = [x \in Flows |-> R[k][x]]
    BY DEF Outcome
  <2> QED BY <1>1, <2>1
<1> QED BY <1>2, <1>3 DEF Recorded

\* Files are their kind, flow and content.
LEMMA FileFields ==
  ASSUME NEW k, NEW f, NEW c
  PROVE  File(k, f, c).kind = k /\ File(k, f, c).flow = f /\ File(k, f, c).content = c
BY DEF File

\* Files that agree with some records write each record once.
LEMMA AgreeingFiles ==
  ASSUME NEW F, NEW R, F \subseteq ReviewFiles, \A w \in F : w.content = R[w.kind][w.flow]
  PROVE  OneFileEach(F)
<1>1. ASSUME NEW w \in F, NEW v \in F, w.kind = v.kind, w.flow = v.flow PROVE w = v
  <2>1. w.content = v.content
    BY <1>1
  <2>2. /\ w = [kind |-> w.kind, flow |-> w.flow, content |-> w.content]
        /\ v = [kind |-> v.kind, flow |-> v.flow, content |-> v.content]
    BY DEF ReviewFiles
  <2> QED BY <1>1, <2>1, <2>2
<1> QED BY <1>1 DEF OneFileEach

\* An application's files write the outcome.
LEMMA ApplicationSettles ==
  ASSUME TypesHold, NEW f \in Flows, NEW s \in Strategies, Settles(f, s),
         AppliedSet(f, s) \subseteq ReviewFiles
  PROVE  OneFileEach(AppliedSet(f, s)) /\ Settled(AppliedSet(f, s), record) = Outcome(f, s)
<1> DEFINE F == AppliedSet(f, s)
           R == Outcome(f, s)
<1>1. against[f] \in Flows \ {f}
  BY DEF TypesHold, Opposed, Settles
<1>2. FollowUpDone(f, s, "approved") /\ Target # NoFlow => Target \in Flows \ {f}
  BY TargetIs DEF FollowUpDone, Settles, CanFollowUp, Have, Content
<1>3. CandidateWins(s) => ~ExistingWins(s)
  BY DEF CandidateWins, ExistingWins
<1>4. ASSUME NEW w \in F PROVE w.content = R[w.kind][w.flow]
  <2>1. CASE w = File("claim", f, IF ExistingWins(s) THEN "historical" ELSE Content("claim", f))
    BY <2>1, OutcomeIs, FileFields DEF Content
  <2>2. CASE w = File("contradiction", f, SettledAs(s))
    BY <2>2, OutcomeIs, FileFields
  <2>3. CASE w = File("strategy", f, s)
    BY <2>3, OutcomeIs, FileFields
  <2>4. CASE w = File("resolution", f, "applied")
    BY <2>4, OutcomeIs, FileFields
  <2>5. CASE PromotesWinner(f, s) /\ w = File("followProposal", f, IF Target = NoFlow THEN "create" ELSE "revise")
    BY <2>5, OutcomeIs, FileFields
  <2>6. CASE PromotesWinner(f, s) /\ w = File("followRatification", f, FollowUpDecision(f))
    BY <2>6, OutcomeIs, FileFields
  <2>7. CASE Have("reviewQueue", f) /\ w = File("reviewQueue", f, "applied")
    BY <2>7, OutcomeIs, FileFields
  <2>8. CASE QueuesFollowUp(f, s) /\ w = File("followQueue", f, "pending")
    BY <2>8, OutcomeIs, FileFields
  <2>9. CASE FollowUpDone(f, s, "approved") /\ w = File("canon", f, "active")
    BY <2>9, OutcomeIs, FileFields
  <2>10. CASE FollowUpDone(f, s, "approved") /\ Target # NoFlow /\ w = File("canon", Target, "superseded")
    BY <1>2, <2>10, OutcomeIs, FileFields
  <2>11. CASE w = File("claim", against[f], IF CandidateWins(s) THEN "historical" ELSE Content("claim", against[f]))
    BY <1>1, <2>11, OutcomeIs, FileFields DEF Content
  <2> QED BY <2>1, <2>2, <2>3, <2>4, <2>5, <2>6, <2>7, <2>8, <2>9, <2>10, <2>11 DEF AppliedSet
<1>5. OneFileEach(F)
  BY <1>4, AgreeingFiles
<1>6. ASSUME NEW k \in Kinds, NEW x \in Flows, ~ReviewWrites(F, k, x) PROVE R[k][x] = record[k][x]
  <2>1. \A w \in F : ~(w.kind = k /\ w.flow = x)
    BY <1>6 DEF ReviewWrites
  <2>2. CASE k = "claim"
    <3>1. /\ File("claim", f, IF ExistingWins(s) THEN "historical" ELSE Content("claim", f)) \in F
          /\ File("claim", against[f], IF CandidateWins(s) THEN "historical" ELSE Content("claim", against[f])) \in F
      BY DEF AppliedSet
    <3>2. x # f /\ x # against[f]
      BY <2>1, <2>2, <3>1, FileFields
    <3> QED BY <2>2, <3>2, OutcomeIs
  <2>3. CASE k \in {"contradiction", "strategy", "resolution"}
    <3>1. /\ File("contradiction", f, SettledAs(s)) \in F /\ File("strategy", f, s) \in F
          /\ File("resolution", f, "applied") \in F
      BY DEF AppliedSet
    <3>2. x # f
      BY <2>1, <2>3, <3>1, FileFields
    <3> QED BY <2>3, <3>2, OutcomeIs
  <2>4. CASE k = "reviewQueue"
    <3>1. Have("reviewQueue", f) => File("reviewQueue", f, "applied") \in F
      BY DEF AppliedSet
    <3>2. ~(x = f /\ Have("reviewQueue", f))
      BY <2>1, <2>4, <3>1, FileFields
    <3> QED BY <2>4, <3>2, OutcomeIs
  <2>5. CASE k = "ratification"
    BY <2>5, OutcomeIs
  <2>6. CASE k = "canon"
    <3>1. /\ FollowUpDone(f, s, "approved") => File("canon", f, "active") \in F
          /\ FollowUpDone(f, s, "approved") /\ Target # NoFlow => File("canon", Target, "superseded") \in F
      BY DEF AppliedSet
    <3>2. FollowUpDone(f, s, "approved") => x # f /\ (Target # NoFlow => x # Target)
      BY <2>1, <2>6, <3>1, FileFields
    <3>3. x = Target => Target # NoFlow
      BY ReviewAssumption DEF ReviewAssumption
    <3> QED BY <2>6, <3>2, <3>3, OutcomeIs
  <2>7. CASE k \in {"followProposal", "followRatification"}
    <3>1. PromotesWinner(f, s) =>
            /\ File("followProposal", f, IF Target = NoFlow THEN "create" ELSE "revise") \in F
            /\ File("followRatification", f, FollowUpDecision(f)) \in F
      BY DEF AppliedSet
    <3>2. ~(PromotesWinner(f, s) /\ x = f)
      BY <2>1, <2>7, <3>1, FileFields
    <3> QED BY <2>7, <3>2, OutcomeIs
  <2>8. CASE k = "followQueue"
    <3>1. QueuesFollowUp(f, s) => File("followQueue", f, "pending") \in F
      BY DEF AppliedSet
    <3>2. ~(QueuesFollowUp(f, s) /\ x = f)
      BY <2>1, <2>8, <3>1, FileFields
    <3> QED BY <2>8, <3>2, OutcomeIs
  <2> QED BY <2>2, <2>3, <2>4, <2>5, <2>6, <2>7, <2>8, KindContents
<1>7. Recorded(R)
  BY OutcomeRecorded DEF TypesHold
<1> HIDE DEF F, R
<1>8. Settled(F, record) = R
  BY <1>4, <1>5, <1>6, <1>7, SettledAgrees
<1> QED BY <1>5, <1>8 DEF F, R

\* What is reviewed is a contradiction that is open.
LEMMA ReviewedIsDisputed ==
  ASSUME NEW f \in Flows, Story(record, reviewLog, f),
         ResolveAllowed(f) \/ ApplyAllowed(f) \/ ExpireAllowed(f)
  PROVE  Disputed(record, reviewLog, f)
BY DEF Story, Undisputed, Expired, ReviewApplied, ResolveAllowed, ApplyAllowed, ExpireAllowed, LoadsForReview,
       Settles, Have, Content

\* A flow whose own review files and log nothing touched tells the story it told.
LEMMA SameStory ==
  ASSUME NEW rec, NEW new, NEW L, NEW M, NEW x, Story(rec, L, x),
         rec["claim"][x] # "none" => new["claim"][x] # "none",
         new["contradiction"][x] = rec["contradiction"][x], new["resolution"][x] = rec["resolution"][x],
         new["reviewQueue"][x] = rec["reviewQueue"][x],
         (new["canon"][x] = "none") = (rec["canon"][x] = "none"),
         \A k \in FollowUp : new[k][x] = rec[k][x],
         \A q \in Reviews : (<<q, x>> \in M) = (<<q, x>> \in L)
  PROVE  Story(new, M, x)
<1>1. new["followRatification"][x] = rec["followRatification"][x]
  BY DEF FollowUp
<1>2. NoFollowUp(rec, x) => NoFollowUp(new, x)
  BY DEF NoFollowUp
<1>3. Unlogged(L, x) => Unlogged(M, x)
  BY DEF Unlogged
<1>4. /\ (<<"resolve", x>> \in M) = (<<"resolve", x>> \in L) /\ (<<"apply", x>> \in M) = (<<"apply", x>> \in L)
      /\ (<<"expire", x>> \in M) = (<<"expire", x>> \in L)
  BY DEF Reviews
<1>5. CASE Undisputed(rec, L, x)
  BY <1>2, <1>3, <1>5 DEF Undisputed, Story
<1>6. CASE Disputed(rec, L, x)
  BY <1>2, <1>3, <1>6 DEF Disputed, Story
<1>7. CASE Expired(rec, L, x)
  BY <1>2, <1>4, <1>7 DEF Expired, Story
<1>8. CASE ReviewApplied(rec, L, x)
  BY <1>1, <1>4, <1>8 DEF ReviewApplied, Story
<1> QED BY <1>5, <1>6, <1>7, <1>8 DEF Story

\* An application is told.
LEMMA ApplicationTold ==
  ASSUME TypesHold, NEW f \in Flows, NEW s \in Strategies, NEW o \in {"resolve", "apply"},
         Tale(record, reviewLog, against, discarded),
         ResolveAllowed(f) \/ ApplyAllowed(f), Settles(f, s)
  PROVE  Tale(Outcome(f, s), reviewLog \cup {<<o, f>>}, against, discarded)
<1> DEFINE R == Outcome(f, s)
           M == reviewLog \cup {<<o, f>>}
<1>1. /\ against[f] \in Flows \ {f} /\ StatementOf[against[f]] # StatementOf[f]
      /\ record["claim"][f] # "none" /\ record["claim"][against[f]] # "none"
  BY DEF TypesHold, Opposed, Settles, Have, Content
<1>2. CandidateWins(s) => ~ExistingWins(s)
  BY DEF CandidateWins, ExistingWins
<1>3. f \notin discarded => Disputed(record, reviewLog, f)
  BY ReviewedIsDisputed DEF Tale
<1>4. Target # NoFlow => Target \in Flows /\ record["canon"][Target] = "active"
  BY TargetIs
<1>5. \A x \in Flows :
        /\ R["claim"][x] = (IF x = f THEN IF ExistingWins(s) THEN "historical" ELSE record["claim"][f]
                            ELSE IF x = against[f] /\ CandidateWins(s) THEN "historical" ELSE record["claim"][x])
        /\ x # f => /\ R["contradiction"][x] = record["contradiction"][x]
                    /\ R["strategy"][x] = record["strategy"][x]
                    /\ R["resolution"][x] = record["resolution"][x]
                    /\ R["reviewQueue"][x] = record["reviewQueue"][x]
                    /\ R["followProposal"][x] = record["followProposal"][x]
                    /\ R["followQueue"][x] = record["followQueue"][x]
                    /\ R["followRatification"][x] = record["followRatification"][x]
  BY OutcomeIs
<1>6. /\ R["contradiction"][f] = SettledAs(s) /\ R["strategy"][f] = s /\ R["resolution"][f] = "applied"
      /\ R["reviewQueue"][f] = (IF Have("reviewQueue", f) THEN "applied" ELSE record["reviewQueue"][f])
      /\ R["followQueue"][f] = (IF QueuesFollowUp(f, s) THEN "pending" ELSE record["followQueue"][f])
      /\ R["followRatification"][f] =
           IF PromotesWinner(f, s) THEN FollowUpDecision(f) ELSE record["followRatification"][f]
  BY OutcomeIs
<1>7. \A x \in Flows :
        R["canon"][x] = IF FollowUpDone(f, s, "approved") /\ x = f THEN "active"
                        ELSE IF FollowUpDone(f, s, "approved") /\ x = Target THEN "superseded"
                        ELSE record["canon"][x]
  BY OutcomeIs
<1> HIDE DEF R
<1>8. ASSUME NEW x \in Flows \ discarded, x # f PROVE Story(R, M, x)
  <2>1. Story(record, reviewLog, x)
    BY <1>8 DEF Tale
  <2>2. record["claim"][x] # "none" => R["claim"][x] # "none"
    BY <1>5, <1>8
  <2>3. (R["canon"][x] = "none") = (record["canon"][x] = "none")
    <3>1. CASE x = Target /\ FollowUpDone(f, s, "approved")
      <4>1. record["canon"][x] = "active"
        BY <1>4, <3>1, ReviewAssumption DEF ReviewAssumption
      <4> QED BY <1>7, <1>8, <3>1, <4>1
    <3> QED BY <1>7, <1>8, <3>1
  <2>4. \A k \in FollowUp : R[k][x] = record[k][x]
    BY <1>5, <1>8 DEF FollowUp
  <2>5. \A q \in Reviews : (<<q, x>> \in M) = (<<q, x>> \in reviewLog)
    BY <1>8
  <2>6. /\ R["contradiction"][x] = record["contradiction"][x] /\ R["resolution"][x] = record["resolution"][x]
        /\ R["reviewQueue"][x] = record["reviewQueue"][x]
    BY <1>5, <1>8
  <2> HIDE DEF M
  <2> QED BY <2>1, <2>2, <2>3, <2>4, <2>5, <2>6, SameStory
<1>9. ASSUME f \notin discarded PROVE Story(R, M, f)
  <2>1. Disputed(record, reviewLog, f)
    BY <1>3, <1>9
  <2>2. /\ R["claim"][f] # "none" /\ R["contradiction"][f] \in {"resolved", "dismissed"}
        /\ R["resolution"][f] = "applied" /\ R["reviewQueue"][f] \in {"none", "applied"}
    BY <1>1, <1>5, <1>6 DEF SettledAs, Have, Content
  <2>3. <<"expire", f>> \notin M /\ (<<"resolve", f>> \in M \/ <<"apply", f>> \in M)
    BY <2>1 DEF Disputed, Unlogged, Reviews
  <2>4. record["canon"][f] = "none" /\ record["followRatification"][f] = "none"
    BY <2>1 DEF Disputed, NoFollowUp, FollowUp
  <2>5. f # Target
    BY <1>4, <2>4, ReviewAssumption DEF ReviewAssumption
  <2>6. (R["followRatification"][f] = "approved") <=> FollowUpDone(f, s, "approved")
    BY <1>6, <2>4 DEF FollowUpDone
  <2>7. R["canon"][f] # "none" <=> FollowUpDone(f, s, "approved")
    BY <1>7, <2>4, <2>5
  <2>8. (R["followRatification"][f] = "approved") = (R["canon"][f] # "none")
    BY <2>6, <2>7
  <2> QED BY <2>2, <2>3, <2>8 DEF ReviewApplied, Story
<1>10. ASSUME NEW x \in Flows, NEW y \in Flows, Beaten(R, against, x, y), y # f
       PROVE  Beaten(record, against, x, y)
  BY <1>5, <1>10 DEF Beaten
<1>11. ASSUME NEW x \in Flows, Beaten(R, against, x, f) PROVE R["claim"][x] = "historical"
  BY <1>1, <1>5, <1>6, <1>11 DEF Beaten
<1>12. \A x \in Flows : record["claim"][x] = "historical" => R["claim"][x] = "historical"
  BY <1>5
<1>13. \A x, y \in Flows \ discarded : Beaten(R, against, x, y) => R["claim"][x] = "historical"
  BY <1>10, <1>11, <1>12 DEF Tale
<1>14. ASSUME discarded = {} PROVE CanonFollows(R, against)
  <2>1. /\ CanonFollows(record, against) /\ record["canon"][f] = "none"
        /\ record["resolution"][f] = "proposed"
    BY <1>3, <1>14 DEF Tale, Disputed
  <2>2. \A x, y \in Flows : record["canon"][x] = "active" /\ record["canon"][y] = "active" => x = y
    BY <2>1 DEF CanonFollows
  <2>3. Target = NoFlow => \A x \in Flows : record["canon"][x] # "active"
    BY TargetIs, ReviewAssumption DEF ReviewAssumption, ActiveCanonIn
  <2>4. \A x \in Flows : record["canon"][x] = "active" => x = Target
    BY <1>4, <2>2, <2>3
  <2>5. ASSUME NEW x \in Flows, NEW y \in Flows, R["canon"][x] = "active", R["canon"][y] = "active"
        PROVE  x = y
    BY <1>7, <2>2, <2>4, <2>5
  <2>6. ASSUME NEW x \in Flows, R["canon"][x] = "active", R["claim"][x] = "historical"
        PROVE  \E g \in Flows :
                 /\ Beaten(R, against, x, g)
                 /\ R["followRatification"][g] \in {"deferred", "rejected"} \/ R["claim"][g] = "historical"
    <3>1. x # f
      <4>1. CASE FollowUpDone(f, s, "approved")
        <5>1. CandidateWins(s) /\ record["claim"][f] = "active"
          BY <4>1 DEF FollowUpDone, PromotesWinner, Content
        <5>2. R["claim"][f] = "active"
          BY <1>2, <1>5, <5>1
        <5> QED BY <2>6, <5>2
      <4>2. CASE ~FollowUpDone(f, s, "approved")
        BY <1>7, <2>1, <2>6, <4>2
      <4> QED BY <4>1, <4>2
    <3>2. record["canon"][x] = "active" /\ ~(FollowUpDone(f, s, "approved") /\ x = Target)
      BY <1>7, <2>6, <3>1
    <3>3. x = Target /\ ~FollowUpDone(f, s, "approved")
      BY <2>4, <3>2
    <3>4. CASE record["claim"][x] = "historical"
      <4>1. PICK g \in Flows :
              /\ Beaten(record, against, x, g)
              /\ record["followRatification"][g] \in {"deferred", "rejected"} \/ record["claim"][g] = "historical"
        BY <2>1, <3>2, <3>4 DEF CanonFollows
      <4>2. g # f
        BY <2>1, <4>1 DEF Beaten
      <4>3. Beaten(R, against, x, g)
        BY <1>5, <4>1, <4>2 DEF Beaten
      <4>4. R["followRatification"][g] \in {"deferred", "rejected"} \/ R["claim"][g] = "historical"
        BY <1>5, <1>12, <4>1, <4>2
      <4> QED BY <4>3, <4>4
    <3>5. CASE record["claim"][x] # "historical"
      <4>1. x = against[f] /\ CandidateWins(s)
        BY <1>5, <2>6, <3>1, <3>5
      <4>2. Beaten(R, against, x, f)
        BY <1>6, <4>1 DEF Beaten
      <4>3. CASE record["claim"][f] = "active"
        <5>1. PromotesWinner(f, s)
          BY <1>1, <3>3, <4>1, <4>3 DEF PromotesWinner, Content
        <5>2. R["followRatification"][f] = FollowUpDecision(f) /\ FollowUpDecision(f) # "approved"
          BY <1>6, <3>3, <5>1 DEF FollowUpDone
        <5>3. FollowUpDecision(f) \in {"deferred", "rejected"}
          BY <5>2 DEF FollowUpDecision, Decision
        <5> QED BY <4>2, <5>2, <5>3
      <4>4. CASE record["claim"][f] # "active"
        <5>1. record["claim"][f] = "historical"
          <6>1. record["claim"] \in [Flows -> {"none", "active", "historical"}]
            BY KindContents DEF TypesHold, Recorded
          <6> QED BY <1>1, <4>4, <6>1
        <5>2. R["claim"][f] = "historical"
          BY <1>12, <5>1
        <5> QED BY <4>2, <5>2
      <4> QED BY <4>3, <4>4
    <3> QED BY <3>4, <3>5
  <2> QED BY <2>5, <2>6 DEF CanonFollows
<1> HIDE DEF M
<1>15. \A x \in Flows \ discarded : Story(R, M, x)
  BY <1>8, <1>9
<1>16. Tale(R, M, against, discarded)
  BY <1>13, <1>14, <1>15 DEF Tale
<1> QED BY <1>16 DEF R, M

\* What the records say after an expiry.
ClosedOutcome(f) ==
  [k \in Kinds |-> [x \in Flows |->
     IF k = "resolution" /\ x = f THEN "rejected"
     ELSE IF k = "reviewQueue" /\ x = f /\ Have("reviewQueue", f) THEN "expired" ELSE record[k][x]]]

\* An expiry's files write it.
LEMMA ClosureSettles ==
  ASSUME Recorded(record), NEW f \in Flows, ClosedSet(f) \subseteq ReviewFiles
  PROVE  OneFileEach(ClosedSet(f)) /\ Settled(ClosedSet(f), record) = ClosedOutcome(f)
<1> DEFINE F == ClosedSet(f)
           R == ClosedOutcome(f)
<1>1. \A k \in Kinds : \A x \in Flows :
        R[k][x] = IF k = "resolution" /\ x = f THEN "rejected"
                  ELSE IF k = "reviewQueue" /\ x = f /\ Have("reviewQueue", f) THEN "expired" ELSE record[k][x]
  BY DEF ClosedOutcome
<1>2. "resolution" \in Kinds /\ "reviewQueue" \in Kinds
  BY DEF Kinds
<1>3. ASSUME NEW w \in F PROVE w.content = R[w.kind][w.flow]
  <2>1. CASE w = File("resolution", f, "rejected")
    BY <1>1, <1>2, <2>1, FileFields
  <2>2. CASE Have("reviewQueue", f) /\ w = File("reviewQueue", f, "expired")
    BY <1>1, <1>2, <2>2, FileFields
  <2> QED BY <2>1, <2>2 DEF ClosedSet
<1>4. OneFileEach(F)
  BY <1>3, AgreeingFiles
<1>5. ASSUME NEW k \in Kinds, NEW x \in Flows, ~ReviewWrites(F, k, x) PROVE R[k][x] = record[k][x]
  <2>1. \A w \in F : ~(w.kind = k /\ w.flow = x)
    BY <1>5 DEF ReviewWrites
  <2>2. /\ File("resolution", f, "rejected") \in F
        /\ Have("reviewQueue", f) => File("reviewQueue", f, "expired") \in F
    BY DEF ClosedSet
  <2>3. ~(k = "resolution" /\ x = f) /\ ~(k = "reviewQueue" /\ x = f /\ Have("reviewQueue", f))
    BY <2>1, <2>2, FileFields
  <2> QED BY <1>1, <2>3
<1>6. ASSUME NEW k \in Kinds PROVE R[k] \in [Flows -> ContentsOf[k]]
  <2>1. record[k] \in [Flows -> ContentsOf[k]]
    BY DEF Recorded
  <2>2. "rejected" \in ContentsOf["resolution"] /\ "expired" \in ContentsOf["reviewQueue"]
    BY KindContents
  <2>3. \A x \in Flows : R[k][x] \in ContentsOf[k]
    BY <1>1, <2>1, <2>2
  <2>4. R[k] = [x \in Flows |-> R[k][x]]
    BY DEF ClosedOutcome
  <2> HIDE DEF R
  <2> QED BY <2>3, <2>4
<1>7. Recorded(R)
  <2>1. \A k \in Kinds : ContentsOf[k] \subseteq AllContents
    BY DEF AllContents
  <2>2. \A k \in Kinds : R[k] \in [Flows -> AllContents]
    <3> HIDE DEF R
    <3> QED BY <1>6, <2>1
  <2>3. R = [k \in Kinds |-> R[k]]
    BY DEF ClosedOutcome
  <2> HIDE DEF R
  <2>4. R \in [Kinds -> [Flows -> AllContents]]
    BY <2>2, <2>3
  <2> QED BY <1>6, <2>4 DEF Recorded
<1> HIDE DEF F, R
<1>8. Settled(F, record) = R
  BY <1>3, <1>4, <1>5, <1>7, SettledAgrees
<1> QED BY <1>4, <1>8 DEF F, R

\* Claims and canon that stay as they are, with the resolutions and the follow-ups of
\* what was applied, are followed as before.
LEMMA SameCanon ==
  ASSUME NEW rec, NEW new, NEW A, NEW B, NEW f \in Flows, CanonFollows(rec, A),
         rec["resolution"][f] # "applied",
         \A x \in Flows \ {f} : /\ B[x] = A[x] /\ new["resolution"][x] = rec["resolution"][x]
                                /\ new["strategy"][x] = rec["strategy"][x]
                                /\ new["followRatification"][x] = rec["followRatification"][x],
         \A x \in Flows : rec["claim"][x] = "historical" => new["claim"][x] = "historical",
         \A x, y \in Flows : new["canon"][x] = "active" /\ new["canon"][y] = "active" => x = y,
         \A x \in Flows : new["canon"][x] = "active" /\ new["claim"][x] = "historical" =>
           rec["canon"][x] = "active" /\ rec["claim"][x] = "historical"
  PROVE  CanonFollows(new, B)
<1>1. ASSUME NEW x \in Flows, new["canon"][x] = "active", new["claim"][x] = "historical"
      PROVE  \E g \in Flows :
               /\ Beaten(new, B, x, g)
               /\ new["followRatification"][g] \in {"deferred", "rejected"} \/ new["claim"][g] = "historical"
  <2>1. PICK g \in Flows :
          /\ Beaten(rec, A, x, g)
          /\ rec["followRatification"][g] \in {"deferred", "rejected"} \/ rec["claim"][g] = "historical"
    BY <1>1 DEF CanonFollows
  <2>2. g # f
    BY <2>1 DEF Beaten
  <2>3. Beaten(new, B, x, g)
    BY <2>1, <2>2 DEF Beaten
  <2>4. new["followRatification"][g] \in {"deferred", "rejected"} \/ new["claim"][g] = "historical"
    BY <2>1, <2>2
  <2> QED BY <2>3, <2>4
<1> QED BY <1>1 DEF CanonFollows

\* An expiry is told.
LEMMA ClosureTold ==
  ASSUME NEW f \in Flows, Tale(record, reviewLog, against, discarded), ExpireAllowed(f)
  PROVE  Tale(ClosedOutcome(f), reviewLog \cup {<<"expire", f>>}, against, discarded)
<1> DEFINE R == ClosedOutcome(f)
           M == reviewLog \cup {<<"expire", f>>}
<1>1. \A k \in Kinds \ {"resolution", "reviewQueue"} : \A x \in Flows : R[k][x] = record[k][x]
  BY DEF ClosedOutcome
<1>2. "resolution" \in Kinds /\ "reviewQueue" \in Kinds
  BY DEF Kinds
<1>3. \A x \in Flows \ {f} :
        R["resolution"][x] = record["resolution"][x] /\ R["reviewQueue"][x] = record["reviewQueue"][x]
  BY <1>2 DEF ClosedOutcome
<1>4. R["resolution"][f] = "rejected" /\ R["reviewQueue"][f] = "expired"
  <2>1. Have("reviewQueue", f)
    BY DEF ExpireAllowed, LoadsForReview, Have
  <2> QED BY <1>2, <2>1 DEF ClosedOutcome
<1> HIDE DEF R
<1>5. \A x \in Flows :
        /\ R["claim"][x] = record["claim"][x] /\ R["contradiction"][x] = record["contradiction"][x]
        /\ R["strategy"][x] = record["strategy"][x] /\ R["canon"][x] = record["canon"][x]
        /\ \A k \in FollowUp : R[k][x] = record[k][x]
        /\ R["followRatification"][x] = record["followRatification"][x]
  BY <1>1 DEF Kinds, FollowUp
<1>6. f \notin discarded => Disputed(record, reviewLog, f)
  BY ReviewedIsDisputed DEF Tale
<1>7. ASSUME NEW x \in Flows \ discarded, x # f PROVE Story(R, M, x)
  <2>1. Story(record, reviewLog, x)
    BY <1>7 DEF Tale
  <2>2. \A q \in Reviews : (<<q, x>> \in M) = (<<q, x>> \in reviewLog)
    BY <1>7
  <2> HIDE DEF M
  <2> QED BY <1>3, <1>5, <1>7, <2>1, <2>2, SameStory
<1>8. ASSUME f \notin discarded PROVE Story(R, M, f)
  <2>1. Disputed(record, reviewLog, f)
    BY <1>6, <1>8
  <2>2. <<"expire", f>> \in M /\ <<"resolve", f>> \notin M /\ <<"apply", f>> \notin M
    BY <2>1 DEF Disputed, Unlogged, Reviews
  <2>3. NoFollowUp(R, f)
    BY <1>5, <2>1 DEF Disputed, NoFollowUp
  <2> QED BY <1>4, <1>5, <2>1, <2>2, <2>3 DEF Disputed, Expired, Story
<1>9. \A x, y \in Flows : Beaten(R, against, x, y) => Beaten(record, against, x, y)
  BY <1>3, <1>4, <1>5 DEF Beaten
<1>10. \A x, y \in Flows \ discarded : Beaten(R, against, x, y) => R["claim"][x] = "historical"
  BY <1>5, <1>9 DEF Tale
<1>11. ASSUME discarded = {} PROVE CanonFollows(R, against)
  <2>1. CanonFollows(record, against) /\ record["resolution"][f] # "applied"
    BY <1>6, <1>11 DEF Tale, Disputed
  <2>2. \A x, y \in Flows : record["canon"][x] = "active" /\ record["canon"][y] = "active" => x = y
    BY <2>1 DEF CanonFollows
  <2>3. \A x \in Flows \ {f} :
          /\ against[x] = against[x] /\ R["resolution"][x] = record["resolution"][x]
          /\ R["strategy"][x] = record["strategy"][x]
          /\ R["followRatification"][x] = record["followRatification"][x]
    BY <1>3, <1>5
  <2>4. /\ \A x \in Flows : record["claim"][x] = "historical" => R["claim"][x] = "historical"
        /\ \A x, y \in Flows : R["canon"][x] = "active" /\ R["canon"][y] = "active" => x = y
        /\ \A x \in Flows : R["canon"][x] = "active" /\ R["claim"][x] = "historical" =>
             record["canon"][x] = "active" /\ record["claim"][x] = "historical"
    BY <1>5, <2>2
  <2> DEFINE rec == record
             A == against
  <2>5. /\ CanonFollows(rec, A) /\ rec["resolution"][f] # "applied"
        /\ \A x \in Flows \ {f} :
             /\ A[x] = A[x] /\ R["resolution"][x] = rec["resolution"][x]
             /\ R["strategy"][x] = rec["strategy"][x]
             /\ R["followRatification"][x] = rec["followRatification"][x]
        /\ \A x \in Flows : rec["claim"][x] = "historical" => R["claim"][x] = "historical"
        /\ \A x, y \in Flows : R["canon"][x] = "active" /\ R["canon"][y] = "active" => x = y
        /\ \A x \in Flows : R["canon"][x] = "active" /\ R["claim"][x] = "historical" =>
             rec["canon"][x] = "active" /\ rec["claim"][x] = "historical"
    BY <2>1, <2>3, <2>4
  <2> HIDE DEF rec, A
  <2>6. CanonFollows(R, A)
    BY <2>5, SameCanon
  <2> QED BY <2>6 DEF A
<1> HIDE DEF M
<1>12. \A x \in Flows \ discarded : Story(R, M, x)
  BY <1>7, <1>8
<1>13. Tale(R, M, against, discarded)
  BY <1>10, <1>11, <1>12 DEF Tale
<1> QED BY <1>13 DEF R, M

\* Deleting a flow's files leaves what the others tell.
LEMMA ResetTold ==
  ASSUME Recorded(record), NEW f \in Flows, Tale(record, reviewLog, against, discarded)
  PROVE  Tale(Reset(f), reviewLog, against, discarded \cup {f})
<1> DEFINE R == Reset(f)
           D == discarded \cup {f}
<1>1. \A k \in Kinds : \A x \in Flows \ {f} : R[k][x] = record[k][x]
  BY ResetIs
<1> HIDE DEF R
<1>2. \A x \in Flows \ {f} :
        /\ R["claim"][x] = record["claim"][x] /\ R["contradiction"][x] = record["contradiction"][x]
        /\ R["resolution"][x] = record["resolution"][x] /\ R["reviewQueue"][x] = record["reviewQueue"][x]
        /\ R["strategy"][x] = record["strategy"][x] /\ R["canon"][x] = record["canon"][x]
        /\ \A k \in FollowUp : R[k][x] = record[k][x]
  BY <1>1 DEF Kinds
<1>3. ASSUME NEW x \in Flows \ D PROVE Story(R, reviewLog, x)
  <2>1. Story(record, reviewLog, x) /\ x \in Flows \ {f}
    BY <1>3 DEF Tale
  <2> QED BY <1>2, <2>1, SameStory
<1>4. \A x, y \in Flows \ D : Beaten(R, against, x, y) => R["claim"][x] = "historical"
  BY <1>2 DEF Tale, Beaten
<1>5. D # {}
  OBVIOUS
<1> HIDE DEF D
<1>6. Tale(R, reviewLog, against, D)
  BY <1>3, <1>4, <1>5 DEF Tale
<1> QED BY <1>6 DEF R, D

\* A claim that is written tells a story of its own.
LEMMA WriteTold ==
  ASSUME NEW f \in Flows, NEW g \in Flows \cup {NoFlow}, NEW rec, NEW new, NEW A, NEW B, NEW L, NEW D, NEW E,
         Tale(rec, L, A, D), NewStory(f, g, rec, new, rec["canon"]),
         \A x \in Flows \ {f} : B[x] = A[x], E = D \/ E = D \cup {f}, f \in E \/ rec["claim"][f] = "none"
  PROVE  Tale(new, L, B, E)
<1>1. \A x \in Flows \ {f} :
        /\ new["claim"][x] = rec["claim"][x] /\ new["contradiction"][x] = rec["contradiction"][x]
        /\ new["resolution"][x] = rec["resolution"][x] /\ new["reviewQueue"][x] = rec["reviewQueue"][x]
        /\ new["strategy"][x] = rec["strategy"][x] /\ new["canon"][x] = rec["canon"][x]
        /\ \A k \in FollowUp : new[k][x] = rec[k][x]
        /\ new["followRatification"][x] = rec["followRatification"][x]
  BY DEF NewStory, Kinds, FollowUp
<1>2. ASSUME f \notin E PROVE Undisputed(rec, L, f) /\ f \notin D /\ rec["claim"][f] = "none"
  BY <1>2 DEF Tale, Story, Disputed, Expired, ReviewApplied
<1>3. ASSUME NEW x \in Flows \ E, x # f PROVE Story(new, L, x)
  <2>1. Story(rec, L, x) /\ x \in Flows \ {f}
    BY <1>3 DEF Tale
  <2> QED BY <1>1, <2>1, SameStory
<1>4. ASSUME f \notin E PROVE Story(new, L, f)
  <2>1. NoFollowUp(new, f) /\ Unlogged(L, f)
    BY <1>2, <1>4 DEF Undisputed, NoFollowUp, NewStory
  <2>2. CASE g = NoFlow
    BY <2>1, <2>2 DEF NewStory, Undisputed, Story
  <2>3. CASE g # NoFlow
    BY <2>1, <2>3 DEF NewStory, Disputed, Story
  <2> QED BY <2>2, <2>3
<1>5. new["resolution"][f] # "applied" /\ new["claim"][f] = "active"
  BY DEF NewStory
<1>6. \A x, y \in Flows : Beaten(new, B, x, y) => y # f /\ Beaten(rec, A, x, y)
  BY <1>1, <1>5 DEF Beaten
<1>7. ASSUME NEW x \in Flows \ E, NEW y \in Flows \ E, Beaten(new, B, x, y)
      PROVE  new["claim"][x] = "historical"
  <2>1. rec["claim"][x] = "historical"
    BY <1>6, <1>7 DEF Tale
  <2>2. x # f
    BY <1>2, <1>7, <2>1
  <2> QED BY <1>1, <2>1, <2>2
<1>8. ASSUME E = {} PROVE CanonFollows(new, B)
  <2>1. CanonFollows(rec, A) /\ rec["resolution"][f] # "applied" /\ rec["claim"][f] = "none"
    BY <1>2, <1>8 DEF Tale, Undisputed
  <2>2. \A x, y \in Flows : rec["canon"][x] = "active" /\ rec["canon"][y] = "active" => x = y
    BY <2>1 DEF CanonFollows
  <2>3. new["canon"][f] = "active" => \A x \in Flows \ {f} : rec["canon"][x] # "active"
    BY DEF NewStory
  <2>4. \A x, y \in Flows : new["canon"][x] = "active" /\ new["canon"][y] = "active" => x = y
    BY <1>1, <2>2, <2>3
  <2>5. \A x \in Flows : rec["claim"][x] = "historical" => new["claim"][x] = "historical"
    BY <1>1, <2>1
  <2>6. \A x \in Flows : new["canon"][x] = "active" /\ new["claim"][x] = "historical" =>
          rec["canon"][x] = "active" /\ rec["claim"][x] = "historical"
    BY <1>1, <1>5
  <2>7. \A x \in Flows \ {f} :
          /\ B[x] = A[x] /\ new["resolution"][x] = rec["resolution"][x]
          /\ new["strategy"][x] = rec["strategy"][x]
          /\ new["followRatification"][x] = rec["followRatification"][x]
    BY <1>1
  <2> QED BY <2>1, <2>4, <2>5, <2>6, <2>7, SameCanon
<1> QED BY <1>3, <1>4, <1>7, <1>8 DEF Tale

-----------------------------------------------------------------------------
\* The invariant is kept, if callers retry first.

\* What is told of the records and the log as they will be.
Told(rec, jour, log, A, D) == Tale(Final(jour, rec), FinalLog(jour, log), A, D)

\* Steps without a journal.
LEMMA AtRest ==
  ASSUME TypesHold, NoJournal
  PROVE  /\ Final(journal, record) = record /\ FinalLog(journal, reviewLog) = reviewLog
         /\ \A rec : Recorded(rec) => Final(journal, rec) = rec
         /\ \A rev : rev.step \in {"idle", "decide"} =>
              \A rec, log : Carrying(rev, journal, rec, log)
<1>1. \A r \in Reviews, g \in Flows : journal[r][g] = <<>>
  BY DEF NoJournal
<1>2. OneReviewJournal(journal) /\ OneFileEach(FilesIn(journal))
  BY <1>1, NothingToWrite
<1>3. /\ \A rec : Recorded(rec) => Final(journal, rec) = rec
      /\ FinalLog(journal, reviewLog) = reviewLog
  BY <1>1, NothingToWrite DEF TypesHold
<1>4. \A rev : rev.step \in {"idle", "decide"} => \A rec, log : Carrying(rev, journal, rec, log)
  BY <1>1, <1>2 DEF Carrying
<1> QED BY <1>3, <1>4 DEF TypesHold

\* A write, or a read with repair, of a flow.
LEMMA ClaimStep ==
  ASSUME RetryFirst, ReviewInv, NEW f \in Flows, WriteFlow(f) \/ ReadBack(f), TypesHold'
  PROVE  Carrying(review, journal, record, reviewLog)' /\ Told(record, journal, reviewLog, against, discarded)'
<1>1. NoJournal /\ review.step = "idle"
  BY DEF WriteFlow, ReadBack, MayStart, ReviewIdle, NoJournal, Reviews
<1>2. TypesHold /\ journal' = journal /\ review' = review /\ reviewLog' = reviewLog
  BY DEF ReviewInv, WriteFlow, ReadBack
<1>3. Final(journal, record) = record /\ Final(journal, record') = record'
      /\ FinalLog(journal, reviewLog) = reviewLog
  BY <1>1, <1>2, AtRest DEF TypesHold
<1>4. Tale(record, reviewLog, against, discarded)
  BY <1>3 DEF ReviewInv
<1>5. Carrying(review, journal, record', reviewLog)
  BY <1>1, <1>2, AtRest
<1>6. Tale(record', reviewLog, against', discarded')
  <2>1. CASE WriteFlow(f)
    <3>1. PICK g \in Flows \cup {NoFlow} :
            NewStory(f, g, record, record', record["canon"]) /\ against' = [against EXCEPT ![f] = g]
      BY <1>2, <2>1, Wrote
    <3>2. \A x \in Flows \ {f} : against'[x] = against[x]
      BY <1>2, <3>1 DEF TypesHold
    <3>3. /\ discarded' = discarded \/ discarded' = discarded \cup {f}
          /\ f \in discarded' \/ record["claim"][f] = "none"
      BY <2>1 DEF WriteFlow, Have, Content
    <3> DEFINE new == record'
               B == against'
               E == discarded'
    <3> HIDE DEF new, B, E
    <3>4. /\ NewStory(f, g, record, new, record["canon"]) /\ \A x \in Flows \ {f} : B[x] = against[x]
          /\ E = discarded \/ E = discarded \cup {f}
          /\ f \in E \/ record["claim"][f] = "none"
      BY <3>1, <3>2, <3>3 DEF new, B, E
    <3>5. Tale(new, reviewLog, B, E)
      BY <1>4, <3>4, WriteTold
    <3> QED BY <3>5 DEF new, B, E
  <2>2. CASE ReadBack(f)
    BY <1>2, <1>4, <2>2, ResetTold DEF ReadBack, TypesHold
  <2> QED BY <2>1, <2>2
<1> QED BY <1>2, <1>3, <1>5, <1>6 DEF Told

\* A request, or the retry that carries out its journal.
LEMMA BeginStep ==
  ASSUME RetryFirst, ReviewInv, NEW o, NEW f, NEW by, NEW s, Starting(o, f, by, s)
  PROVE  Carrying(review, journal, record, reviewLog)' /\ Told(record, journal, reviewLog, against, discarded)'
<1>1. /\ o \in Reviews /\ f \in Flows /\ TypesHold
      /\ UNCHANGED <<record, against, journal, reviewLog, failures, discarded>>
      /\ \A r \in Reviews, g \in Flows : <<r, g>> = <<o, f>> \/ journal[r][g] = <<>>
  BY DEF Starting, Begin, MayStart, ReviewInv
<1>2. Told(record, journal, reviewLog, against, discarded)'
  BY <1>1 DEF ReviewInv, Told
<1>3. CASE journal[o][f] # <<>>
  <2>1. review' = Writing(o, f, journal[o][f])
    BY <1>3 DEF Starting, Begin
  <2>2. journal[o][f] \in Seq(ReviewFiles)
    BY <1>1 DEF TypesHold
  <2>3. /\ review'.op = o /\ review'.flow = f /\ review'.step = "write" /\ review'.todo = journal[o][f]
    BY <1>1, <2>1, <2>2, WritingIs
  <2>4. OneReviewJournal(journal) /\ OneFileEach(FilesIn(journal))
    BY DEF ReviewInv, Carrying
  <2>5. FilesIn(journal) = Range(journal[o][f])
    BY <1>1, <1>3, <2>4, FilesOfOne DEF TypesHold
  <2>6. Carrying(review', journal, record, reviewLog)
    BY <1>3, <2>3, <2>4, <2>5 DEF Carrying
  <2> QED BY <1>1, <1>2, <2>6
<1>4. CASE journal[o][f] = <<>>
  <2>1. NoJournal
    BY <1>1, <1>4 DEF NoJournal
  <2>2. review'.step = "decide"
    BY <1>4 DEF Starting, Begin, NoReview
  <2>3. Carrying(review', journal, record, reviewLog)
    BY <1>1, <2>1, <2>2, AtRest
  <2> QED BY <1>1, <1>2, <2>3
<1> QED BY <1>3, <1>4

\* The journal is written: what the records and the log will be is told by it.
LEMMA DecideStep ==
  ASSUME ReviewInv, Decide, TypesHold'
  PROVE  Carrying(review, journal, record, reviewLog)' /\ Told(record, journal, reviewLog, against, discarded)'
<1> DEFINE o == review.op
           f == review.flow
<1>1. /\ TypesHold /\ NoJournal
      /\ UNCHANGED <<record, against, reviewLog, failures, discarded>>
  BY DEF ReviewInv, Carrying, Decide, NoJournal
<1>2. PICK files \in Seq(ReviewFiles) :
        /\ files # <<>> /\ Granted(o, f, review.strategy, Range(files))
        /\ journal' = [journal EXCEPT ![o][f] = files]
        /\ review' = Writing(o, f, files)
  BY <1>1, Decided
<1>3. o \in Reviews /\ f \in Flows
  BY <1>1, Decided
<1> DEFINE s == review.strategy
<1> HIDE DEF o, f, s
<1> DEFINE F == Range(files)
<1>4. F \subseteq ReviewFiles
  BY ElementOfSeq DEF Range
<1>5. Tale(record, reviewLog, against, discarded)
  BY <1>1, AtRest DEF ReviewInv
<1>6. OneFileEach(F) /\ Tale(Settled(F, record), reviewLog \cup {<<o, f>>}, against, discarded)
  <2> HIDE DEF F
  <2>0. Granted(o, f, s, F)
    BY <1>2 DEF F, s
  <2>1. CASE o = "expire" /\ ExpireAllowed(f) /\ F = ClosedSet(f)
    <3>1. OneFileEach(F) /\ Settled(F, record) = ClosedOutcome(f)
      BY <1>1, <1>3, <1>4, <2>1, ClosureSettles DEF TypesHold
    <3>2. Tale(ClosedOutcome(f), reviewLog \cup {<<"expire", f>>}, against, discarded)
      BY <1>3, <1>5, <2>1, ClosureTold
    <3> QED BY <2>1, <3>1, <3>2
  <2>2. ASSUME o \in {"resolve", "apply"}, s \in Strategies, Settles(f, s), F = AppliedSet(f, s),
               ResolveAllowed(f) \/ ApplyAllowed(f)
        PROVE  OneFileEach(F) /\ Tale(Settled(F, record), reviewLog \cup {<<o, f>>}, against, discarded)
    <3>1. OneFileEach(F) /\ Settled(F, record) = Outcome(f, s)
      BY <1>1, <1>3, <1>4, <2>2, ApplicationSettles
    <3>2. Tale(Outcome(f, s), reviewLog \cup {<<o, f>>}, against, discarded)
      BY <1>1, <1>3, <1>5, <2>2, ApplicationTold
    <3> QED BY <3>1, <3>2
  <2>3. CASE o = "resolve" /\ ResolveAllowed(f) /\ s = "coexist_temporally" /\ F = AppliedSet(f, s)
    <3>1. s \in Strategies /\ Settles(f, s)
      BY <2>3 DEF ResolveAllowed, Strategies
    <3> QED BY <2>2, <2>3, <3>1
  <2>4. CASE o = "apply" /\ ApplyAllowed(f) /\ s \in Strategies /\ s = review.strategy /\ F = AppliedSet(f, s)
    <3>1. Settles(f, s)
      BY <2>4 DEF ApplyAllowed
    <3> QED BY <2>2, <2>4, <3>1
  <2> QED BY <2>0, <2>1, <2>3, <2>4 DEF Granted
<1> DEFINE j == [journal EXCEPT ![o][f] = files]
<1>7. \A r \in Reviews, g \in Flows : j[r][g] = IF r = o /\ g = f THEN files ELSE <<>>
  BY <1>1, <1>3 DEF TypesHold, NoJournal
<1>8. j \in [Reviews -> [Flows -> Seq(ReviewFiles)]]
  BY <1>1, <1>3 DEF TypesHold
<1> HIDE DEF j, F
<1>9. OneReviewJournal(j)
  BY <1>7 DEF OneReviewJournal
<1>10. j[o][f] = files
  BY <1>3, <1>7
<1>11. FilesIn(j) = F
  BY <1>2, <1>3, <1>8, <1>9, <1>10, FilesOfOne DEF F
<1>12. FinalLog(j, reviewLog) = reviewLog \cup {<<o, f>>}
  BY <1>2, <1>3, <1>7 DEF FinalLog
<1>13. /\ review'.op = o /\ review'.flow = f /\ review'.step = "write" /\ review'.todo = files
  BY <1>2, <1>3, WritingIs
<1>14. Carrying(review', j, record, reviewLog)
  BY <1>2, <1>6, <1>9, <1>10, <1>11, <1>13 DEF Carrying, F
<1>15. Told(record, j, reviewLog, against, discarded)
  BY <1>6, <1>11, <1>12 DEF Told, Final
<1>16. j = journal'
  BY <1>2 DEF j
<1> QED BY <1>1, <1>14, <1>15, <1>16

\* A request that is refused deletes a flow it takes for partial, or nothing.
LEMMA RefuseStep ==
  ASSUME ReviewInv, Refuse, TypesHold'
  PROVE  Carrying(review, journal, record, reviewLog)' /\ Told(record, journal, reviewLog, against, discarded)'
<1>1. /\ TypesHold /\ NoJournal /\ review.flow \in Flows
      /\ UNCHANGED <<against, journal, reviewLog, failures>>
  BY ReviewIs DEF ReviewInv, Carrying, Refuse, NoJournal, TypesHold
<1>2. review'.step = "idle"
  BY DEF Refuse, NoReview
<1>3. Final(journal, record) = record /\ Final(journal, record') = record'
      /\ FinalLog(journal, reviewLog) = reviewLog
  BY <1>1, AtRest DEF TypesHold
<1>4. Tale(record, reviewLog, against, discarded)
  BY <1>3 DEF ReviewInv
<1>5. Carrying(review', journal, record', reviewLog)
  BY <1>1, <1>2, AtRest
<1>6. Tale(record', reviewLog, against, discarded')
  <2>1. CASE record' = Reset(review.flow) /\ discarded' = discarded \cup {review.flow}
    BY <1>1, <1>4, <2>1, ResetTold DEF TypesHold
  <2>2. CASE UNCHANGED <<record, discarded>>
    BY <1>4, <2>2
  <2> QED BY <2>1, <2>2 DEF Refuse
<1> QED BY <1>1, <1>3, <1>5, <1>6 DEF Told

\* Writing a file of the one journal leaves what will be.
LEMMA ReviewWriteStep ==
  ASSUME ReviewInv, WriteReviewed
  PROVE  Carrying(review, journal, record, reviewLog)' /\ Told(record, journal, reviewLog, against, discarded)'
<1> DEFINE w == Head(review.todo)
           F == FilesIn(journal)
           j == journal[review.op][review.flow]
           todo == review.todo
<1>1. /\ TypesHold /\ Carrying(review, journal, record, reviewLog) /\ review.step = "write" /\ todo # <<>>
      /\ review \in Carried /\ review.op \in Reviews /\ review.flow \in Flows /\ todo \in Seq(ReviewFiles)
      /\ UNCHANGED <<against, journal, reviewLog, failures, discarded>>
  BY ReviewIs DEF ReviewInv, WriteReviewed, TypesHold
<1>2. record' = WithFile(record, w)
  BY DEF WriteReviewed, WithFile
<1>3. /\ w \in ReviewFiles /\ w \in Range(todo) /\ Range(todo) = {w} \cup Range(Tail(todo))
  BY <1>1, RangeOfTail
<1>4. /\ review'.op = review.op /\ review'.flow = review.flow /\ review'.step = "write"
      /\ review'.todo = Tail(todo)
  BY <1>1 DEF WriteReviewed, Carried
<1>5. /\ OneReviewJournal(journal) /\ OneFileEach(F) /\ j # <<>> /\ Range(todo) \subseteq Range(j)
      /\ \A v \in F : v \in Range(todo) \/ record[v.kind][v.flow] = v.content
  BY <1>1 DEF Carrying
<1>6. F = Range(j)
  BY <1>1, <1>5, FilesOfOne DEF TypesHold
<1> HIDE DEF w, F, j, todo
<1>7. /\ Recorded(record) /\ Recorded(record')
      /\ \A k \in Kinds : \A x \in Flows :
           record'[k][x] = IF w.kind = k /\ w.flow = x THEN w.content ELSE record[k][x]
  BY <1>1, <1>2, <1>3, OneWritten DEF TypesHold
<1>8. w \in F
  BY <1>3, <1>5, <1>6
<1>9. \A v \in F : v.kind \in Kinds /\ v.flow \in Flows
  BY DEF F, FilesIn, ReviewFiles
<1>10. ASSUME NEW v \in F PROVE v \in Range(Tail(todo)) \/ record'[v.kind][v.flow] = v.content
  <2>1. CASE v.kind = w.kind /\ v.flow = w.flow
    <3>1. v = w
      BY <1>5, <1>8, <2>1 DEF OneFileEach
    <3> QED BY <1>7, <1>9, <3>1
  <2>2. CASE ~(v.kind = w.kind /\ v.flow = w.flow)
    <3>1. record'[v.kind][v.flow] = record[v.kind][v.flow] /\ v # w
      BY <1>7, <1>9, <2>2
    <3> QED BY <1>3, <1>5, <3>1
  <2> QED BY <2>1, <2>2
<1>11. Carrying(review', journal, record', reviewLog)
  <2>1. Range(review'.todo) \subseteq Range(journal[review'.op][review'.flow])
    BY <1>3, <1>4, <1>5 DEF j
  <2>2. journal[review'.op][review'.flow] # <<>>
    BY <1>4, <1>5 DEF j
  <2>3. \A v \in FilesIn(journal) : v \in Range(review'.todo) \/ record'[v.kind][v.flow] = v.content
    BY <1>4, <1>10 DEF F
  <2>4. OneReviewJournal(journal) /\ OneFileEach(FilesIn(journal))
    BY <1>5 DEF F
  <2> QED BY <1>4, <2>1, <2>2, <2>3, <2>4 DEF Carrying
<1>12. Settled(F, record') = Settled(F, record)
  <2>1. ASSUME NEW k \in Kinds, NEW x \in Flows PROVE Settled(F, record')[k][x] = Settled(F, record)[k][x]
    <3>1. CASE ReviewWrites(F, k, x)
      BY <3>1 DEF Settled
    <3>2. CASE ~ReviewWrites(F, k, x)
      <4>1. record'[k][x] = record[k][x]
        BY <1>7, <1>8, <3>2 DEF ReviewWrites
      <4> QED BY <3>2, <4>1 DEF Settled
    <3> QED BY <3>1, <3>2
  <2>2. \A k \in Kinds : /\ Settled(F, record')[k] = [x \in Flows |-> Settled(F, record')[k][x]]
                         /\ Settled(F, record)[k] = [x \in Flows |-> Settled(F, record)[k][x]]
    BY DEF Settled
  <2>3. /\ Settled(F, record') = [k \in Kinds |-> Settled(F, record')[k]]
        /\ Settled(F, record) = [k \in Kinds |-> Settled(F, record)[k]]
    BY DEF Settled
  <2>4. \A k \in Kinds : Settled(F, record')[k] = Settled(F, record)[k]
    BY <2>1, <2>2
  <2> QED BY <2>3, <2>4
<1>13. Told(record', journal, reviewLog, against, discarded)
  BY <1>12 DEF F, Told, Final, ReviewInv
<1> QED BY <1>1, <1>11, <1>13

\* Logging it leaves what the log will be.
LEMMA LogStep ==
  ASSUME ReviewInv, LogReview
  PROVE  Carrying(review, journal, record, reviewLog)' /\ Told(record, journal, reviewLog, against, discarded)'
<1>1. /\ Carrying(review, journal, record, reviewLog) /\ review.step = "write" /\ review.todo = <<>>
      /\ review \in Carried /\ review.op \in Reviews /\ review.flow \in Flows
      /\ UNCHANGED <<record, against, journal, failures, discarded>>
      /\ reviewLog' = reviewLog \cup {<<review.op, review.flow>>}
  BY ReviewIs DEF ReviewInv, LogReview, TypesHold
<1>2. /\ review'.op = review.op /\ review'.flow = review.flow /\ review'.step = "clear"
      /\ review'.todo = review.todo
  BY <1>1 DEF LogReview, Carried
<1>3. Carrying(review', journal, record, reviewLog')
  BY <1>1, <1>2 DEF Carrying
<1>4. FinalLog(journal, reviewLog') = FinalLog(journal, reviewLog)
  <2>1. <<review.op, review.flow>> \in {p \in Reviews \X Flows : journal[p[1]][p[2]] # <<>>}
    BY <1>1 DEF Carrying
  <2> QED BY <1>1, <2>1 DEF FinalLog
<1> QED BY <1>1, <1>3, <1>4 DEF Told, ReviewInv

\* The journal is removed when the records and the log are what they will be.
LEMMA ReviewClearStep ==
  ASSUME ReviewInv, ClearReview, TypesHold'
  PROVE  Carrying(review, journal, record, reviewLog)' /\ Told(record, journal, reviewLog, against, discarded)'
<1> DEFINE o == review.op
           f == review.flow
           F == FilesIn(journal)
<1>1. /\ TypesHold /\ Carrying(review, journal, record, reviewLog) /\ review.step = "clear"
      /\ o \in Reviews /\ f \in Flows
      /\ UNCHANGED <<record, against, reviewLog, failures, discarded>>
      /\ journal' = [journal EXCEPT ![o][f] = <<>>]
      /\ review'.step = "idle"
  BY ReviewIs DEF ReviewInv, ClearReview, TypesHold, NoReview
<1>2. /\ OneReviewJournal(journal) /\ OneFileEach(F) /\ journal[o][f] # <<>>
      /\ review.todo = <<>> /\ <<o, f>> \in reviewLog
      /\ \A v \in F : v \in Range(review.todo) \/ record[v.kind][v.flow] = v.content
  BY <1>1 DEF Carrying
<1>3. \A v \in F : v.content = record[v.kind][v.flow]
  <2>1. Range(review.todo) = {}
    BY <1>2 DEF Range
  <2> QED BY <1>2, <2>1
<1> HIDE DEF o, f, F
<1>4. \A r \in Reviews, g \in Flows : ~(r = o /\ g = f) => journal[r][g] = <<>>
  BY <1>1, <1>2 DEF OneReviewJournal
<1>5. \A r \in Reviews, g \in Flows : journal'[r][g] = <<>>
  BY <1>1, <1>4 DEF TypesHold
<1>6. Settled(F, record) = record
  BY <1>1, <1>2, <1>3, SettledAgrees DEF TypesHold
<1>7. FinalLog(journal, reviewLog) = reviewLog
  <2>1. \A p \in Reviews \X Flows : journal[p[1]][p[2]] # <<>> => p = <<o, f>>
    BY <1>4
  <2> QED BY <1>2, <2>1 DEF FinalLog
<1>8. Tale(record, reviewLog, against, discarded)
  BY <1>6, <1>7 DEF ReviewInv, Final, F
<1> DEFINE j == journal'
<1>9. \A r \in Reviews, g \in Flows : j[r][g] = <<>>
  BY <1>5
<1> HIDE DEF j
<1>10. Final(j, record) = record /\ FinalLog(j, reviewLog) = reviewLog
  BY <1>1, <1>9, NothingToWrite DEF TypesHold
<1>11. OneReviewJournal(j) /\ OneFileEach(FilesIn(j))
  BY <1>9, NothingToWrite
<1>12. Carrying(review', j, record, reviewLog)
  BY <1>1, <1>11 DEF Carrying
<1>13. Told(record, j, reviewLog, against, discarded)
  BY <1>8, <1>10 DEF Told
<1> QED BY <1>1, <1>12, <1>13 DEF j

\* An operation that is abandoned, or nothing that happens, leaves what is told.
LEMMA RestStep ==
  ASSUME ReviewInv, Abandon \/ UNCHANGED reviewVars
  PROVE  Carrying(review, journal, record, reviewLog)' /\ Told(record, journal, reviewLog, against, discarded)'
<1>1. UNCHANGED <<record, against, journal, reviewLog, discarded>>
  BY DEF Abandon, reviewVars
<1>2. Carrying(review', journal, record, reviewLog)
  BY DEF Abandon, reviewVars, ReviewInv, Carrying, NoReview
<1> QED BY <1>1, <1>2 DEF Told, ReviewInv

\* The invariant holds at the start.
LEMMA ReviewInvInit ==
  ASSUME ReviewAssumption, ReviewInit
  PROVE  ReviewInv
<1>1. TypesHold
  BY TypesHoldInit
<1>2. NoJournal /\ review.step = "idle"
  BY DEF ReviewInit, NoJournal, NoReview
<1>3. /\ Final(journal, record) = record /\ FinalLog(journal, reviewLog) = reviewLog
      /\ Carrying(review, journal, record, reviewLog)
  BY <1>1, <1>2, AtRest DEF TypesHold
<1>4. reviewLog = {} /\ \A k \in Kinds : \A f \in Flows : record[k][f] = "none"
  BY DEF ReviewInit
<1>5. /\ "claim" \in Kinds /\ "contradiction" \in Kinds /\ "resolution" \in Kinds /\ "reviewQueue" \in Kinds
      /\ "canon" \in Kinds /\ FollowUp \subseteq Kinds
  BY DEF Kinds
<1>6. \A f \in Flows : Undisputed(record, reviewLog, f)
  BY <1>4, <1>5 DEF Undisputed, NoFollowUp, Unlogged
<1>7. \A f, g \in Flows : ~Beaten(record, against, f, g)
  BY <1>4, <1>5 DEF Beaten
<1>8. CanonFollows(record, against)
  BY <1>4, <1>5 DEF CanonFollows
<1> QED BY <1>1, <1>3, <1>6, <1>7, <1>8 DEF ReviewInv, Tale, Story

\* Every step keeps it.
LEMMA ReviewInvStep ==
  ASSUME ReviewAssumption, RetryFirst, ReviewInv, [ReviewNext \/ ReviewRests]_reviewVars
  PROVE  ReviewInv'
<1> DEFINE Kept == Carrying(review, journal, record, reviewLog)'
                   /\ Told(record, journal, reviewLog, against, discarded)'
<1>1. TypesHold'
  BY TypesHoldStep DEF ReviewInv
<1>2. ASSUME NEW f \in Flows, WriteFlow(f) \/ ReadBack(f) PROVE Kept
  BY <1>1, <1>2, ClaimStep
<1>3. ASSUME NEW f \in Flows, NEW by \in Principals,
             Resolving(f, by) \/ Expiring(f, by) \/ \E s \in Strategies : Reviewing(f, by, s)
      PROVE  Kept
  <2>1. PICK o \in Reviews, s \in Strategies \cup {"manual_review"} : Starting(o, f, by, s)
    BY <1>3, Starts
  <2> QED BY <2>1, BeginStep
<1>4. ASSUME Decide PROVE Kept
  BY <1>1, <1>4, DecideStep
<1>5. ASSUME Refuse PROVE Kept
  BY <1>1, <1>5, RefuseStep
<1>6. ASSUME WriteReviewed PROVE Kept
  BY <1>6, ReviewWriteStep
<1>7. ASSUME LogReview PROVE Kept
  BY <1>7, LogStep
<1>8. ASSUME ClearReview PROVE Kept
  BY <1>1, <1>8, ReviewClearStep
<1>9. ASSUME Abandon \/ UNCHANGED reviewVars PROVE Kept
  BY <1>9, RestStep
<1> HIDE DEF Kept
<1>10. Kept
  BY <1>2, <1>3, <1>4, <1>5, <1>6, <1>7, <1>8, <1>9 DEF ReviewNext, ReviewRests
<1> QED BY <1>1, <1>10 DEF Kept, ReviewInv, Told

-----------------------------------------------------------------------------
\* What follows.

\* Once no journal is left the records tell one story.
LEMMA InvTells ==
  ASSUME ReviewInv
  PROVE  ResolutionWhole /\ CanonFollowsWorld
<1> SUFFICES ASSUME ReviewsDone PROVE ResolutionWhole /\ CanonFollowsWorld
  BY DEF ResolutionWhole, CanonFollowsWorld
<1>1. TypesHold /\ NoJournal
  BY DEF ReviewInv, ReviewsDone, NoJournal
<1>2. Tale(record, reviewLog, against, discarded)
  BY <1>1, AtRest DEF ReviewInv
<1>3. \A f, g \in Flows : BeatenBy(f, g) = Beaten(record, against, f, g)
  BY DEF BeatenBy, Beaten, Content
<1>4. ASSUME NEW f \in Flows \ discarded
      PROVE  LET applied == Content("resolution", f) = "applied"
             IN /\ applied = (Content("contradiction", f) \in {"resolved", "dismissed"})
                /\ Have("reviewQueue", f) =>
                     /\ applied = (Content("reviewQueue", f) = "applied")
                     /\ (Content("resolution", f) = "rejected") = (Content("reviewQueue", f) = "expired")
                /\ applied = (\E o \in {"resolve", "apply"} : <<o, f>> \in reviewLog)
                /\ (Content("resolution", f) = "rejected") = (<<"expire", f>> \in reviewLog)
                /\ \A g \in Flows \ discarded : BeatenBy(g, f) => Content("claim", g) = "historical"
                /\ applied => (Content("followRatification", f) = "approved") = Have("canon", f)
  <2>1. \A g \in Flows \ discarded : BeatenBy(g, f) => Content("claim", g) = "historical"
    BY <1>2, <1>3 DEF Tale, Content
  <2>2. Story(record, reviewLog, f)
    BY <1>2 DEF Tale
  <2>3. Unlogged(reviewLog, f) =>
          /\ <<"resolve", f>> \notin reviewLog /\ <<"apply", f>> \notin reviewLog
          /\ <<"expire", f>> \notin reviewLog
    BY DEF Unlogged, Reviews
  <2> DEFINE applied == record["resolution"][f] = "applied"
             rejected == record["resolution"][f] = "rejected"
             settled == record["contradiction"][f] \in {"resolved", "dismissed"}
             told == <<"resolve", f>> \in reviewLog \/ <<"apply", f>> \in reviewLog
             expired == <<"expire", f>> \in reviewLog
             queue == record["reviewQueue"][f]
  <2>5. /\ applied <=> settled
        /\ queue # "none" => (applied <=> queue = "applied") /\ (rejected <=> queue = "expired")
        /\ applied <=> told
        /\ rejected <=> expired
    <3>1. CASE Undisputed(record, reviewLog, f)
      BY <2>3, <3>1 DEF Undisputed
    <3>2. CASE Disputed(record, reviewLog, f)
      BY <2>3, <3>2 DEF Disputed
    <3>3. CASE Expired(record, reviewLog, f)
      BY <3>3 DEF Expired
    <3>4. CASE ReviewApplied(record, reviewLog, f)
      BY <3>4 DEF ReviewApplied
    <3> QED BY <2>2, <3>1, <3>2, <3>3, <3>4 DEF Story
  <2>6. record["resolution"][f] = "applied" =>
          (record["followRatification"][f] = "approved") = (record["canon"][f] # "none")
    BY <2>2 DEF Story, Undisputed, Disputed, Expired, ReviewApplied
  <2>7. told <=> \E o \in {"resolve", "apply"} : <<o, f>> \in reviewLog
    OBVIOUS
  <2>8. (Content("resolution", f) = "applied") = (Content("contradiction", f) \in {"resolved", "dismissed"})
    BY <2>5 DEF Content
  <2>9. Have("reviewQueue", f) =>
          /\ (Content("resolution", f) = "applied") = (Content("reviewQueue", f) = "applied")
          /\ (Content("resolution", f) = "rejected") = (Content("reviewQueue", f) = "expired")
    BY <2>5 DEF Content, Have
  <2>10. (Content("resolution", f) = "applied") = (\E o \in {"resolve", "apply"} : <<o, f>> \in reviewLog)
    BY <2>5, <2>7 DEF Content
  <2>11. (Content("resolution", f) = "rejected") = (<<"expire", f>> \in reviewLog)
    BY <2>5 DEF Content
  <2>12. Content("resolution", f) = "applied" =>
           (Content("followRatification", f) = "approved") = Have("canon", f)
    BY <2>6 DEF Content, Have
  <2> QED BY <2>1, <2>8, <2>9, <2>10, <2>11, <2>12
<1>5. ASSUME discarded = {}
      PROVE  /\ Cardinality(ActiveCanonIn(record["canon"])) <= 1
             /\ \A f \in ActiveCanonIn(record["canon"]) : Content("claim", f) = "historical" =>
                  \E g \in Flows :
                    /\ BeatenBy(f, g)
                    /\ \/ Content("followRatification", g) \in {"deferred", "rejected"}
                       \/ Content("claim", g) = "historical"
  <2> DEFINE A == ActiveCanonIn(record["canon"])
  <2>1. CanonFollows(record, against)
    BY <1>2, <1>5 DEF Tale
  <2>2. \A f, g \in A : f = g
    BY <2>1 DEF CanonFollows, ActiveCanonIn
  <2>3. Cardinality(A) <= 1
    <3> HIDE DEF A
    <3>1. CASE A = {}
      BY <3>1, FS_EmptySet
    <3>2. CASE A # {}
      <4>1. PICK f \in A : A = {f}
        BY <2>2, <3>2
      <4>2. Cardinality(A) = 1
        BY <4>1, FS_Singleton
      <4> QED BY <4>2
    <3> QED BY <3>1, <3>2
  <2>4. \A f \in A : Content("claim", f) = "historical" =>
          \E g \in Flows :
            /\ BeatenBy(f, g)
            /\ \/ Content("followRatification", g) \in {"deferred", "rejected"}
               \/ Content("claim", g) = "historical"
    BY <1>3, <2>1 DEF CanonFollows, ActiveCanonIn, Content
  <2> QED BY <2>3, <2>4
<1> QED BY <1>4, <1>5 DEF ResolutionWhole, CanonFollowsWorld

\* Callers who retry first find the invariant in every state.
THEOREM ContradictionInvariance == RetryFirst => (ReviewSpec => []ReviewInv)
<1> SUFFICES ASSUME RetryFirst PROVE ReviewSpec => []ReviewInv
  OBVIOUS
<1>1. ReviewAssumption
  BY ReviewAssumption
<1>2. ReviewInit => ReviewInv
  BY <1>1, ReviewInvInit
<1>3. ReviewInv /\ [ReviewNext \/ ReviewRests]_reviewVars => ReviewInv'
  BY <1>1, ReviewInvStep
<1> QED BY <1>2, <1>3, PTL DEF ReviewSpec

\* If callers retry a failed operation before they start another, then whenever no
\* journal is left a contradiction that no read deleted is told by its records in one
\* way: it is settled exactly when its resolution was applied, logged and taken off the
\* queue, the claim that lost is closed, and the settled claim is canonical exactly when
\* governance approved its follow-up (buildResolutionApplicationFiles,
\* buildManualContradictionReviewClosureFiles).
THEOREM ReviewsWhole == RetryFirst => (ReviewSpec => []ResolutionWhole)
<1>1. ReviewInv => ResolutionWhole
  BY InvTells
<1> QED BY <1>1, ContradictionInvariance, PTL

\* Under the same discipline the slot has at most one active canonical record, and it
\* states a claim that lost only where governance did not approve the winner, or where
\* the winner has lost to a third claim (buildResolutionCanonicalFollowup).
THEOREM WorldFollowed == RetryFirst => (ReviewSpec => []CanonFollowsWorld)
<1>1. ReviewInv => CanonFollowsWorld
  BY InvTells
<1> QED BY <1>1, ContradictionInvariance, PTL
==============================================================================
