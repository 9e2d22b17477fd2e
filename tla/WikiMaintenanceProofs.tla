-------------------------- MODULE WikiMaintenanceProofs --------------------------
(***************************************************************************)
(* Proofs about WikiMaintenance for any runs, pages, claims, processes and *)
(* number of hitches.                                                      *)
(*                                                                         *)
(* Until the lock is removed under a live holder at most one journal is on *)
(* disk.  What it will write is described as a set of files: each of them  *)
(* can be written at any moment, again and again, without harm to another  *)
(* run, and once all are there their own run is whole.                     *)
(***************************************************************************)
EXTENDS WikiMaintenance, SequenceTheorems, FiniteSetTheorems, TLAPS

-----------------------------------------------------------------------------
\* Types.

PageRecs == [kind : {"page"}, by : Runs, sources : SUBSET Sources, claims : SUBSET Claims]
ClaimRecs ==
  [kind : {"claim"}, by : Runs \cup {NoRef}, page : Pages \cup {NoRef},
   status : {"editorial", "superseded"}, support : SUBSET (Sources \cup {Some(Sources)}),
   supersedes : Claims \cup {NoRef}, supersededBy : Claims \cup {NoRef}]
LintKinds == {"wiki_orphan_page", "wiki_unsupported_claim", "wiki_missing_concept_page"}
Diagnostics == Nat \X (LintKinds \X (Pages \cup Claims))
RunRecs ==
  [kind : {"run"}, boundary : Nat, diagnostics : SUBSET Diagnostics, filed : SUBSET Diagnostics,
   pages : SUBSET Pages, claims : SUBSET Claims]

SourceRecs == {[kind |-> "source"]}
BrowserRecs == [kind : {"browser"}, contract : Nat]
IndexRecs == [kind : {"index"}, pages : SUBSET Pages]
LogRecs == [kind : {"log"}, runs : Seq(Runs)]
FileValues ==
  PageRecs \cup ClaimRecs \cup SourceRecs \cup RunRecs \cup BrowserRecs \cup IndexRecs \cup LogRecs

\* A file that can be written: its key and its value.
WikiPairs == {f \in WikiKeys \X FileValues : f[2].kind = f[1][1]}

Journal(files) == [kind |-> "journal", files |-> files]

Calls ==
  [step : MaintSteps \ {"idle"}, run : Runs, files : Seq(WikiPairs), pos : Nat, replayed : Runs]
CallOf(m) ==
  /\ maint[m] \in Calls
  /\ maint[m].pos <= Len(maint[m].files)
  /\ maint[m].step \in {"journal", "write"} => maint[m].replayed = maint[m].run

WikiTyped ==
  /\ DOMAIN wiki = WikiKeys
  /\ \A k \in WikiKeys : wiki[k] = NoFile \/ <<k, wiki[k]>> \in WikiPairs
  /\ There(IndexKey) /\ There(WikiLogKey)
  /\ DOMAIN wikiJournal = Runs
  /\ \A r \in Runs : wikiJournal[r] = NoFile
                       \/ wikiJournal[r] \in [kind : {"journal"}, files : Seq(WikiPairs)]
  /\ wikiLock \in Maintainers \cup {"free", "dead"}
  /\ DOMAIN maint = Maintainers
  /\ \A m \in Maintainers : maint[m] = NoMaint \/ CallOf(m)
  /\ due \subseteq Runs
  /\ contract \in Nat /\ 1 <= contract /\ contract <= hitches + 1
  /\ hitches \in Nat /\ hitches <= MaxHitches
  /\ wikiStolen \in BOOLEAN /\ crossed \in BOOLEAN

-----------------------------------------------------------------------------
\* What holds until the lock is removed under a live holder.

\* A run is told of exactly once.
Once(r, runs) == \E i \in DOMAIN runs : \A j \in DOMAIN runs : (runs[j] = r) = (j = i)
NotIn(r, runs) == \A i \in DOMAIN runs : runs[i] # r
Logged(r, runs, w) == IF w[RunKey(r)] # NoFile THEN Once(r, runs) ELSE NotIn(r, runs)

\* All that is written of a run, in the wiki w.
WholeIn(r, w) ==
  /\ w[RunKey(r)] # NoFile /\ w[RunKey(r)].pages = ToSet(EventOf[r].pages)
  /\ EventOf[r].source # NoRef => w[SourceKey(EventOf[r].source)] # NoFile
  /\ \A p \in w[RunKey(r)].pages :
       p \in Pages /\ w[PageKey(p)] # NoFile /\ p \in w[IndexKey].pages
  /\ \A c \in w[RunKey(r)].claims : c \in Claims /\ w[ClaimKey(c)] # NoFile
  /\ w[BrowserKey(r)] # NoFile
  /\ Once(r, w[WikiLogKey].runs)

\* The wiki w once all files of F are written.
WikiFinal(F, w) ==
  [k \in WikiKeys |-> IF \E f \in F : f[1] = k THEN (CHOOSE f \in F : f[1] = k)[2] ELSE w[k]]

\* Keys of files that are replaced as a whole and read for what they say.
Telling(r) == {RunKey(r), IndexKey, WikiLogKey}

\* The files F of run r can be written to the wiki w: they belong to r, take nothing from
\* another run that is on record, and leave r whole.
Plan(r, F, w) ==
  /\ F \subseteq WikiPairs
  /\ \A f \in F, q \in Runs \ {r} :
       /\ f[1] # RunKey(q)
       /\ f[1] = IndexKey /\ w[RunKey(q)] # NoFile => w[RunKey(q)].pages \subseteq f[2].pages
       /\ f[1] = WikiLogKey => Logged(q, f[2].runs, w)
  /\ \A f, g \in F : f[1] = g[1] /\ f[1] \in Telling(r) => f = g
  /\ WholeIn(r, WikiFinal(F, w))

\* They take nothing from a page.
Merges(F, w) ==
  \A f \in F, p \in Pages : f[1] = PageKey(p) =>
    /\ w[PageKey(p)] # NoFile => /\ w[PageKey(p)].claims \subseteq f[2].claims
                                 /\ w[PageKey(p)].sources \subseteq f[2].sources
    /\ \A g \in F : g[1] = f[1] => g = f

InRun(m) == maint[m].step \in {"recover", "replay", "load", "journal", "write", "release"}
Files(m) == ToSet(maint[m].files)
Pending(r) == wikiJournal[r] # NoFile

WikiHeld == \A m \in Maintainers : InRun(m) => wikiLock = m

OneWikiJournal == \A r, q \in Runs : Pending(r) /\ Pending(q) => r = q

JournalsSound ==
  \A r \in Runs : Pending(r) =>
    /\ Plan(r, ToSet(wikiJournal[r].files), wiki)
    /\ ~crossed => Merges(ToSet(wikiJournal[r].files), wiki)

\* What a process has written of its files is there.
WrittenOf(m) ==
  \A i \in 1 .. maint[m].pos :
    LET f == maint[m].files[i]
    IN There(f[1]) /\ (f[1] \in Telling(maint[m].replayed) => wiki[f[1]] = f[2])

CallSound(m) ==
  /\ maint[m].step \in {"load", "journal"} => \A r \in Runs : ~Pending(r)
  /\ MaintAt(m, "journal") => /\ maint[m].pos = 0 /\ Plan(maint[m].run, Files(m), wiki)
                              /\ ~crossed => Merges(Files(m), wiki)
  /\ maint[m].step \in {"write", "replay"} =>
       wikiJournal[maint[m].replayed] = Journal(maint[m].files) /\ WrittenOf(m)

WikiRecorded ==
  \A r \in Runs : ~Pending(r) =>
    IF There(RunKey(r)) THEN WholeIn(r, wiki) ELSE NotIn(r, wiki[WikiLogKey].runs)

Maintained ==
  /\ WikiHeld /\ OneWikiJournal /\ JournalsSound /\ WikiRecorded
  /\ \A m \in Maintainers : CallSound(m)

WikiInv == WikiTyped /\ (~wikiStolen => Maintained)

-----------------------------------------------------------------------------
\* Files and what is built of them.

\* The kinds of keys and where each belongs.
LEMMA KeyKinds ==
  /\ \A p : PageKey(p) = <<"page", p>> /\ (PageKey(p) \in WikiKeys <=> p \in Pages)
  /\ \A c : ClaimKey(c) = <<"claim", c>> /\ (ClaimKey(c) \in WikiKeys <=> c \in Claims)
  /\ \A s \in Sources : SourceKey(s) \in WikiKeys /\ SourceKey(s) = <<"source", s>>
  /\ \A r \in Runs : /\ RunKey(r) \in WikiKeys /\ RunKey(r) = <<"run", r>>
                     /\ BrowserKey(r) \in WikiKeys /\ BrowserKey(r) = <<"browser", r>>
  /\ IndexKey \in WikiKeys /\ WikiLogKey \in WikiKeys
  /\ IndexKey = <<"index", 0>> /\ WikiLogKey = <<"log", 0>>
BY DEF WikiKeys, PageKey, ClaimKey, SourceKey, RunKey, BrowserKey, IndexKey, WikiLogKey

\* A file has the record its key calls for.
LEMMA PairIs ==
  ASSUME NEW f \in WikiPairs
  PROVE  /\ f = <<f[1], f[2]>> /\ f[1] \in WikiKeys /\ f[2] # NoFile
         /\ f[1][1] = "page" => f[2] \in PageRecs
         /\ f[1][1] = "claim" => f[2] \in ClaimRecs
         /\ f[1][1] = "run" => f[2] \in RunRecs
         /\ f[1][1] = "index" => f[2] \in IndexRecs
         /\ f[1][1] = "log" => f[2] \in LogRecs
         /\ f[1][1] = "browser" => f[2] \in BrowserRecs
<1>1. f = <<f[1], f[2]>> /\ f[1] \in WikiKeys /\ f[2] \in FileValues /\ f[2].kind = f[1][1]
  BY DEF WikiPairs
<1>2. f[2] # NoFile
  <2>1. f[1][1] # "none"
    BY <1>1 DEF WikiKeys, PageKey, ClaimKey, SourceKey, RunKey, BrowserKey, IndexKey, WikiLogKey
  <2> QED BY <1>1, <2>1 DEF NoFile
<1>3. /\ f[2] \in PageRecs => f[2].kind = "page"
      /\ f[2] \in ClaimRecs => f[2].kind = "claim"
      /\ f[2] \in SourceRecs => f[2].kind = "source"
      /\ f[2] \in RunRecs => f[2].kind = "run"
      /\ f[2] \in IndexRecs => f[2].kind = "index"
      /\ f[2] \in LogRecs => f[2].kind = "log"
      /\ f[2] \in BrowserRecs => f[2].kind = "browser"
  BY DEF PageRecs, ClaimRecs, SourceRecs, RunRecs, IndexRecs, LogRecs, BrowserRecs
<1> QED BY <1>1, <1>2, <1>3 DEF FileValues

\* A record of the kind its key calls for makes a file.
LEMMA PairOf ==
  ASSUME NEW k \in WikiKeys, NEW v,
         \/ k[1] = "page" /\ v \in PageRecs
         \/ k[1] = "claim" /\ v \in ClaimRecs
         \/ k[1] = "source" /\ v \in SourceRecs
         \/ k[1] = "run" /\ v \in RunRecs
         \/ k[1] = "index" /\ v \in IndexRecs
         \/ k[1] = "log" /\ v \in LogRecs
         \/ k[1] = "browser" /\ v \in BrowserRecs
  PROVE  <<k, v>> \in WikiPairs
<1>1. v \in FileValues
  BY DEF FileValues
<1>2. v.kind = k[1]
  BY DEF PageRecs, ClaimRecs, SourceRecs, RunRecs, IndexRecs, LogRecs, BrowserRecs
<1> QED BY <1>1, <1>2 DEF WikiPairs

\* What is on file under a key.
LEMMA OnFile ==
  ASSUME WikiTyped, NEW k \in WikiKeys, There(k)
  PROVE  /\ <<k, wiki[k]>> \in WikiPairs
         /\ k[1] = "page" => wiki[k] \in PageRecs
         /\ k[1] = "claim" => wiki[k] \in ClaimRecs
         /\ k[1] = "run" => wiki[k] \in RunRecs
         /\ k[1] = "index" => wiki[k] \in IndexRecs
         /\ k[1] = "log" => wiki[k] \in LogRecs
         /\ k[1] = "browser" => wiki[k] \in BrowserRecs
<1>1. <<k, wiki[k]>> \in WikiPairs
  BY DEF WikiTyped, There
<1> QED BY <1>1, PairIs

\* The elements of a concatenation.
LEMMA SetOfConcat ==
  ASSUME NEW S, NEW s \in Seq(S), NEW t \in Seq(S)
  PROVE  s \o t \in Seq(S) /\ ToSet(s \o t) = ToSet(s) \cup ToSet(t)
<1>1. ToSet(s \o t) = Range(s \o t) /\ ToSet(s) = Range(s) /\ ToSet(t) = Range(t)
  BY DEF ToSet, Range
<1>2. Range(s \o t) = Range(s) \cup Range(t)
  BY RangeConcatenation
<1>3. s \o t \in Seq(S)
  BY ConcatProperties
<1> QED BY <1>1, <1>2, <1>3

\* The elements of a sequence of one, and of none.
LEMMA SetOfOne ==
  ASSUME NEW S, NEW x \in S
  PROVE  <<x>> \in Seq(S) /\ ToSet(<<x>>) = {x}
BY DEF ToSet

\* The elements of the empty sequence.
LEMMA SetOfNone ==
  ASSUME NEW S
  PROVE  <<>> \in Seq(S) /\ ToSet(<<>>) = {}
BY DEF ToSet

\* The elements of a sequence of its type.
LEMMA SetOfSeq ==
  ASSUME NEW S, NEW s \in Seq(S)
  PROVE  /\ ToSet(s) \subseteq S
         /\ \A i \in 1 .. Len(s) : s[i] \in ToSet(s) /\ s[i] \in S
         /\ \A x \in ToSet(s) : \E i \in 1 .. Len(s) : s[i] = x
BY DEF ToSet

-----------------------------------------------------------------------------
\* What a run decides to write.

\* What a run does.
LEMMA EventIs ==
  ASSUME NEW r \in Runs
  PROVE  /\ EventOf[r].pages \in Seq(Pages) /\ EventOf[r].source \in Sources \cup {NoRef}
         /\ EventOf[r].claim \in Claims \cup {NoRef}
         /\ EventOf[r].supersedes \in Claims \cup {NoRef}
         /\ ToSet(EventOf[r].pages) \subseteq Pages
<1>1. EventOf[r] \in RunEvents
  BY WikiAssumption
<1>2. EventOf[r].pages \in Seq(Pages)
  BY <1>1 DEF RunEvents
<1> QED BY <1>1, <1>2, SetOfSeq DEF RunEvents

\* A page that a run builds is what was there and more.
LEMMA PageBuilt ==
  ASSUME WikiTyped, NEW r \in Runs, NEW p \in Pages
  PROVE  /\ <<PageKey(p), BuiltPage(r, p)>> \in WikiPairs
         /\ There(PageKey(p)) => /\ wiki[PageKey(p)].claims \subseteq BuiltPage(r, p).claims
                                 /\ wiki[PageKey(p)].sources \subseteq BuiltPage(r, p).sources
<1> DEFINE old == wiki[PageKey(p)]
<1>1. PageKey(p) \in WikiKeys /\ PageKey(p)[1] = "page"
  BY KeyKinds
<1>2. old # NoFile => old \in PageRecs
  BY <1>1, OnFile DEF There
<1>3. BuiltPage(r, p) \in PageRecs
  BY <1>2, EventIs DEF BuiltPage, PageRecs
<1>4. <<PageKey(p), BuiltPage(r, p)>> \in WikiPairs
  BY <1>1, <1>3, PairOf
<1> QED BY <1>2, <1>4 DEF BuiltPage, There

\* The files of its pages.
LEMMA PagesBuilt ==
  ASSUME WikiTyped, NEW r \in Runs
  PROVE  /\ PageFiles(r) \in Seq(WikiPairs)
         /\ \A f \in ToSet(PageFiles(r)) : \E p \in ToSet(EventOf[r].pages) :
              f = <<PageKey(p), BuiltPage(r, p)>>
         /\ \A p \in ToSet(EventOf[r].pages) : <<PageKey(p), BuiltPage(r, p)>> \in ToSet(PageFiles(r))
<1> DEFINE pages == EventOf[r].pages
<1>1. pages \in Seq(Pages)
  BY EventIs
<1>2. \A i \in 1 .. Len(pages) : pages[i] \in Pages
  BY <1>1
<1>3. /\ DOMAIN PageFiles(r) = 1 .. Len(pages)
      /\ \A i \in 1 .. Len(pages) : PageFiles(r)[i] = <<PageKey(pages[i]), BuiltPage(r, pages[i])>>
  BY <1>1 DEF PageFiles
<1>4. \A i \in 1 .. Len(pages) : PageFiles(r)[i] \in WikiPairs
  BY <1>2, <1>3, PageBuilt
<1>5. PageFiles(r) \in Seq(WikiPairs)
  <2>1. PageFiles(r) = [i \in 1 .. Len(pages) |-> PageFiles(r)[i]]
    BY <1>1, <1>3 DEF PageFiles
  <2>2. Len(pages) \in Nat
    BY <1>1
  <2> HIDE DEF pages
  <2> QED BY <1>4, <2>1, <2>2, IsASeq
<1>6. DOMAIN pages = 1 .. Len(pages)
  BY <1>1
<1> QED BY <1>3, <1>5, <1>6 DEF ToSet

\* A claim that a run builds.
LEMMA ClaimBuilt ==
  ASSUME WikiTyped, NEW r \in Runs
  PROVE  /\ FilesClaim(r) => /\ EventOf[r].claim \in Claims
                             /\ <<ClaimKey(EventOf[r].claim), BuiltClaim(r)>> \in WikiPairs
         /\ Supersedes(r) => /\ EventOf[r].supersedes \in Claims
                             /\ <<ClaimKey(EventOf[r].supersedes), SupersededClaim(r)>> \in WikiPairs
<1> DEFINE e == EventOf[r]
<1>1. \A c \in Claims : /\ ClaimKey(c) \in WikiKeys /\ ClaimKey(c)[1] = "claim"
                        /\ wiki[ClaimKey(c)] # NoFile => wiki[ClaimKey(c)] \in ClaimRecs
  BY KeyKinds, OnFile DEF There
<1>2. ASSUME FilesClaim(r)  PROVE e.claim \in Claims /\ <<ClaimKey(e.claim), BuiltClaim(r)>> \in WikiPairs
  <2>1. e.claim \in Claims
    BY <1>2, EventIs DEF FilesClaim
  <2>2. ClaimPage(r) \in Pages \cup {NoRef}
    <3>1. e.pages # <<>> => Head(e.pages) \in Pages
      BY EventIs
    <3>2. e.supersedes # NoRef /\ wiki[ClaimKey(e.supersedes)] # NoFile =>
            wiki[ClaimKey(e.supersedes)].page \in Pages \cup {NoRef}
      BY <1>1, EventIs DEF ClaimRecs
    <3>3. ThePages # {} => Some(ThePages) \in Pages
      BY DEF Some, ThePages
    <3> QED BY <3>1, <3>2, <3>3 DEF ClaimPage
  <2>3. BuiltClaim(r) \in ClaimRecs
    BY <1>1, <2>1, <2>2, EventIs DEF BuiltClaim, ClaimRecs
  <2> QED BY <1>1, <2>1, <2>3, PairOf
<1>3. ASSUME Supersedes(r)
      PROVE  e.supersedes \in Claims /\ <<ClaimKey(e.supersedes), SupersededClaim(r)>> \in WikiPairs
  <2>1. e.supersedes \in Claims /\ wiki[ClaimKey(e.supersedes)] # NoFile /\ e.claim \in Claims
    BY <1>3, EventIs DEF Supersedes, There
  <2>2. SupersededClaim(r) \in ClaimRecs
    BY <1>1, <2>1 DEF SupersededClaim, ClaimRecs
  <2> QED BY <1>1, <2>1, <2>2, PairOf
<1> QED BY <1>2, <1>3

\* The files of its claims.
LEMMA ClaimsBuilt ==
  ASSUME WikiTyped, NEW r \in Runs
  PROVE  /\ ClaimFiles(r) \in Seq(WikiPairs)
         /\ \A f \in ToSet(ClaimFiles(r)) : f[1][2] \in Claims /\ f[1] = ClaimKey(f[1][2])
<1> DEFINE one == IF FilesClaim(r) THEN <<<<ClaimKey(EventOf[r].claim), BuiltClaim(r)>>>> ELSE <<>>
           two == IF Supersedes(r) THEN <<<<ClaimKey(EventOf[r].supersedes), SupersededClaim(r)>>>>
                  ELSE <<>>
<1>1. /\ one \in Seq(WikiPairs)
      /\ \A f \in ToSet(one) : f = <<ClaimKey(EventOf[r].claim), BuiltClaim(r)>> /\ FilesClaim(r)
  <2>1. CASE FilesClaim(r)
    BY <2>1, ClaimBuilt, SetOfOne
  <2>2. CASE ~FilesClaim(r)
    BY <2>2, SetOfNone
  <2> QED BY <2>1, <2>2
<1>2. /\ two \in Seq(WikiPairs)
      /\ \A f \in ToSet(two) : f = <<ClaimKey(EventOf[r].supersedes), SupersededClaim(r)>> /\ Supersedes(r)
  <2>1. CASE Supersedes(r)
    BY <2>1, ClaimBuilt, SetOfOne
  <2>2. CASE ~Supersedes(r)
    BY <2>2, SetOfNone
  <2> QED BY <2>1, <2>2
<1>3. ClaimFiles(r) = one \o two
  BY DEF ClaimFiles
<1> HIDE DEF one, two
<1>4. ClaimFiles(r) \in Seq(WikiPairs) /\ ToSet(ClaimFiles(r)) = ToSet(one) \cup ToSet(two)
  BY <1>1, <1>2, <1>3, SetOfConcat
<1>5. ASSUME NEW f \in ToSet(ClaimFiles(r))  PROVE f[1][2] \in Claims /\ f[1] = ClaimKey(f[1][2])
  <2>1. PICK c \in Claims : f[1] = ClaimKey(c)
    <3>1. CASE f \in ToSet(one)
      <4>1. f = <<ClaimKey(EventOf[r].claim), BuiltClaim(r)>> /\ FilesClaim(r)
        BY <1>1, <3>1
      <4>2. EventOf[r].claim \in Claims
        BY <4>1, ClaimBuilt
      <4>3. f[1] = ClaimKey(EventOf[r].claim)
        BY <4>1
      <4> QED BY <4>2, <4>3
    <3>2. CASE f \in ToSet(two)
      <4>1. f = <<ClaimKey(EventOf[r].supersedes), SupersededClaim(r)>> /\ Supersedes(r)
        BY <1>2, <3>2
      <4>2. EventOf[r].supersedes \in Claims
        BY <4>1, ClaimBuilt
      <4>3. f[1] = ClaimKey(EventOf[r].supersedes)
        BY <4>1
      <4> QED BY <4>2, <4>3
    <3> QED BY <1>4, <3>1, <3>2
  <2> QED BY <2>1 DEF ClaimKey
<1> QED BY <1>4, <1>5

\* The file of its source.
LEMMA SourceBuilt ==
  ASSUME NEW r \in Runs
  PROVE  /\ SourceFiles(r) \in Seq(WikiPairs)
         /\ \A f \in ToSet(SourceFiles(r)) : f[1] = SourceKey(EventOf[r].source) /\ EventOf[r].source \in Sources
         /\ EventOf[r].source # NoRef =>
              \E f \in ToSet(SourceFiles(r)) : f[1] = SourceKey(EventOf[r].source)
<1>1. CASE EventOf[r].source = NoRef
  BY <1>1, SetOfNone DEF SourceFiles
<1>2. CASE EventOf[r].source # NoRef
  <2> DEFINE f == <<SourceKey(EventOf[r].source), [kind |-> "source"]>>
  <2>1. EventOf[r].source \in Sources
    BY <1>2, EventIs
  <2>2. SourceKey(EventOf[r].source) \in WikiKeys /\ SourceKey(EventOf[r].source)[1] = "source"
    BY <2>1, KeyKinds
  <2>3. f \in WikiPairs
    BY <2>2, PairOf DEF SourceRecs
  <2>4. SourceFiles(r) = <<f>>
    BY <1>2 DEF SourceFiles
  <2>5. SourceFiles(r) \in Seq(WikiPairs) /\ ToSet(SourceFiles(r)) = {f}
    BY <2>3, <2>4, SetOfOne
  <2> QED BY <2>1, <2>5
<1> QED BY <1>1, <1>2

\* Source, pages and claims together.
Contents(r) == ToSet(SourceFiles(r) \o PageFiles(r) \o ClaimFiles(r))

LEMMA ContentsBuilt ==
  ASSUME WikiTyped, NEW r \in Runs
  PROVE  /\ SourceFiles(r) \o PageFiles(r) \o ClaimFiles(r) \in Seq(WikiPairs)
         /\ Contents(r) \subseteq WikiPairs
         /\ \A f \in Contents(r) : f[1][1] \in {"source", "page", "claim"}
         /\ EventOf[r].source # NoRef => \E f \in Contents(r) : f[1] = SourceKey(EventOf[r].source)
         /\ \A p \in ToSet(EventOf[r].pages) : <<PageKey(p), BuiltPage(r, p)>> \in Contents(r)
         /\ \A f \in Contents(r) : \A p : f[1] = PageKey(p) => p \in Pages /\ f[2] = BuiltPage(r, p)
         /\ ToSet(ClaimFiles(r)) \subseteq Contents(r)
<1> DEFINE S == SourceFiles(r)
           P == PageFiles(r)
           C == ClaimFiles(r)
<1>1. S \in Seq(WikiPairs) /\ P \in Seq(WikiPairs) /\ C \in Seq(WikiPairs)
  BY SourceBuilt, PagesBuilt, ClaimsBuilt
<1> HIDE DEF S, P, C
<1> DEFINE SP == S \o P
<1>2. SP \in Seq(WikiPairs) /\ ToSet(SP) = ToSet(S) \cup ToSet(P)
  BY <1>1, SetOfConcat
<1> HIDE DEF SP
<1>a. SP \o C \in Seq(WikiPairs) /\ ToSet(SP \o C) = ToSet(SP) \cup ToSet(C)
  BY <1>1, <1>2, SetOfConcat
<1>3. /\ S \o P \o C \in Seq(WikiPairs)
      /\ ToSet(S \o P \o C) = ToSet(S) \cup ToSet(P) \cup ToSet(C)
  BY <1>2, <1>a DEF SP
<1>4. /\ SourceFiles(r) \o PageFiles(r) \o ClaimFiles(r) \in Seq(WikiPairs)
      /\ Contents(r) = ToSet(SourceFiles(r)) \cup ToSet(PageFiles(r)) \cup ToSet(ClaimFiles(r))
  BY <1>3 DEF S, P, C, Contents
<1>5. Contents(r) \subseteq WikiPairs
  BY <1>4, SetOfSeq DEF Contents
<1>6. /\ \A f \in ToSet(SourceFiles(r)) : f[1][1] = "source"
      /\ \A f \in ToSet(PageFiles(r)) : f[1][1] = "page"
      /\ \A f \in ToSet(ClaimFiles(r)) : f[1][1] = "claim"
  <2>1. \A f \in ToSet(SourceFiles(r)) : f[1][1] = "source"
    BY SourceBuilt, KeyKinds
  <2>2. \A f \in ToSet(PageFiles(r)) : f[1][1] = "page"
    BY PagesBuilt DEF PageKey
  <2>3. \A f \in ToSet(ClaimFiles(r)) : f[1][1] = "claim"
    BY ClaimsBuilt DEF ClaimKey
  <2> QED BY <2>1, <2>2, <2>3
<1>7. ASSUME NEW f \in Contents(r), NEW p, f[1] = PageKey(p)
      PROVE  p \in Pages /\ f[2] = BuiltPage(r, p)
  <2>1. f[1][1] = "page" /\ f[1][2] = p
    BY <1>7 DEF PageKey
  <2>2. f \in ToSet(PageFiles(r))
    BY <1>4, <1>6, <2>1
  <2>3. PICK q \in ToSet(EventOf[r].pages) : f = <<PageKey(q), BuiltPage(r, q)>>
    BY <2>2, PagesBuilt
  <2>4. q = p
    BY <2>1, <2>3 DEF PageKey
  <2> QED BY <2>3, <2>4, EventIs
<1> QED BY <1>4, <1>5, <1>6, <1>7, SourceBuilt, PagesBuilt

\* The other files of a run.
RunFile(r) == <<RunKey(r), RunRecord(r)>>
BrowserFile(r) == <<BrowserKey(r), [kind |-> "browser", contract |-> contract]>>
IndexFile(r) == <<IndexKey, [kind |-> "index", pages |-> ThePages \cup ToSet(EventOf[r].pages)]>>
LogFile(r) == <<WikiLogKey, [kind |-> "log", runs |-> Append(wiki[WikiLogKey].runs, r)]>>

\* The sets that are linted have an order.
LEMMA OrderOf ==
  ASSUME NEW k \in LintKinds, NEW S \in SUBSET (Pages \cup Claims), IsFiniteSet(S)
  PROVE  SetToSeq({k} \X S) \in Seq(LintKinds \X (Pages \cup Claims))
<1> DEFINE T == {k} \X S
           n == Cardinality(T)
<1>1. IsFiniteSet(T) /\ n \in Nat
  BY FS_Singleton, FS_Product, FS_CardinalityType
<1>2. T \subseteq LintKinds \X (Pages \cup Claims)
  OBVIOUS
<1>3. \E f \in [1 .. n -> T] : IsInjective(f)
  <2> HIDE DEF T
  <2>1. ExistsBijection(1 .. n, T)
    BY <1>1, FS_CardinalityType
  <2> QED BY <2>1 DEF ExistsBijection, Bijection, Injection
<1> HIDE DEF T, n
<1>4. SetToSeq(T) \in [1 .. n -> T]
  BY <1>3 DEF SetToSeq, n
<1>5. SetToSeq(T) \in Seq(T)
  BY <1>1, <1>4
<1> QED BY <1>2, <1>5 DEF T

\* A run finds diagnostics.
LEMMA LintFinds ==
  ASSUME NEW r \in Runs
  PROVE  DiagnosticsOf(r) \in SUBSET Diagnostics
<1> DEFINE All == LintKinds \X (Pages \cup Claims)
<1>1. Required \subseteq Pages /\ IsFiniteSet(Pages) /\ IsFiniteSet(Claims) /\ IsFiniteSet(Required)
  BY WikiAssumption, FS_Subset
<1>2. LintOrder \in Seq(All)
  <2>1. /\ "wiki_orphan_page" \in LintKinds /\ "wiki_unsupported_claim" \in LintKinds
        /\ "wiki_missing_concept_page" \in LintKinds
    BY DEF LintKinds
  <2>2. /\ SetToSeq({"wiki_orphan_page"} \X Pages) \in Seq(All)
        /\ SetToSeq({"wiki_unsupported_claim"} \X Claims) \in Seq(All)
        /\ SetToSeq({"wiki_missing_concept_page"} \X Required) \in Seq(All)
    BY <1>1, <2>1, OrderOf
  <2> HIDE DEF All
  <2> QED BY <2>2 DEF LintOrder
<1> HIDE DEF All
<1>3. ASSUME NEW i \in FoundUpTo(Len(LintOrder))
      PROVE  Cardinality(FoundUpTo(i)) \in Nat /\ LintOrder[i] \in All
  <2>1. Len(LintOrder) \in Nat /\ i \in 1 .. Len(LintOrder)
    BY <1>2, LenProperties DEF FoundUpTo
  <2>2. FoundUpTo(i) \subseteq 1 .. i /\ i \in Nat
    BY <2>1 DEF FoundUpTo
  <2>3. IsFiniteSet(FoundUpTo(i))
    BY <2>2, FS_Interval, FS_Subset
  <2> QED BY <1>2, <2>1, <2>3, FS_CardinalityType
<1>4. Lint \subseteq Nat \X All
  BY <1>3 DEF Lint
<1> QED BY <1>4 DEF DiagnosticsOf, Diagnostics, All

\* The record of a run.
LEMMA RecordBuilt ==
  ASSUME WikiTyped, NEW r \in Runs
  PROVE  RunFile(r) \in WikiPairs /\ BrowserFile(r) \in WikiPairs
<1>1. DiagnosticsOf(r) \in SUBSET Diagnostics
  BY LintFinds
<1>2. There(RunKey(r)) => wiki[RunKey(r)].filed \in SUBSET Diagnostics
  <2>1. RunKey(r) \in WikiKeys /\ RunKey(r)[1] = "run"
    BY DEF WikiKeys, RunKey
  <2> QED BY <2>1, OnFile DEF RunRecs, There
<1>3. {f[1][2] : f \in ToSet(ClaimFiles(r))} \subseteq Claims
  BY ClaimsBuilt
<1>4. ToSet(EventOf[r].pages) \subseteq Pages /\ contract \in Nat
  BY EventIs DEF WikiTyped
<1>5. RunRecord(r) \in RunRecs
  BY <1>1, <1>2, <1>3, <1>4 DEF RunRecord, RunRecs
<1>6. [kind |-> "browser", contract |-> contract] \in BrowserRecs
  BY <1>4 DEF BrowserRecs
<1> QED BY <1>5, <1>6, KeyKinds, PairOf DEF RunFile, BrowserFile

\* The index and the log that go with it.
LEMMA IndexBuilt ==
  ASSUME WikiTyped, NEW r \in Runs
  PROVE  /\ IndexFile(r) \in WikiPairs /\ LogFile(r) \in WikiPairs
         /\ wiki[WikiLogKey].runs \in Seq(Runs)
<1>1. wiki[WikiLogKey].runs \in Seq(Runs)
  <2>1. WikiLogKey \in WikiKeys /\ WikiLogKey[1] = "log" /\ There(WikiLogKey)
    BY KeyKinds DEF WikiTyped
  <2>2. wiki[WikiLogKey] \in LogRecs
    BY <2>1, OnFile
  <2> QED BY <2>2 DEF LogRecs
<1>2. Append(wiki[WikiLogKey].runs, r) \in Seq(Runs)
  BY <1>1, AppendProperties
<1>3. [kind |-> "log", runs |-> Append(wiki[WikiLogKey].runs, r)] \in LogRecs
  BY <1>2 DEF LogRecs
<1>4. ThePages \cup ToSet(EventOf[r].pages) \in SUBSET Pages
  BY EventIs DEF ThePages
<1>5. [kind |-> "index", pages |-> ThePages \cup ToSet(EventOf[r].pages)] \in IndexRecs
  BY <1>4 DEF IndexRecs
<1> QED BY <1>1, <1>3, <1>5, KeyKinds, PairOf DEF IndexFile, LogFile

\* All files of a new run.
LEMMA NewFiles ==
  ASSUME WikiTyped, NEW r \in Runs
  PROVE  /\ NewRunFiles(r) \in Seq(WikiPairs)
         /\ ToSet(NewRunFiles(r)) =
              Contents(r) \cup {RunFile(r), IndexFile(r), LogFile(r), BrowserFile(r)}
<1> DEFINE A == SourceFiles(r) \o PageFiles(r) \o ClaimFiles(r)
           R == <<RunFile(r)>>
           X == <<IndexFile(r), LogFile(r)>>
           B == <<BrowserFile(r)>>
           AR == A \o R
           ARX == AR \o X
<1>1. A \in Seq(WikiPairs) /\ ToSet(A) = Contents(r)
  BY ContentsBuilt DEF Contents
<1>2. R \in Seq(WikiPairs) /\ ToSet(R) = {RunFile(r)} /\ B \in Seq(WikiPairs) /\ ToSet(B) = {BrowserFile(r)}
  BY RecordBuilt, SetOfOne
<1>3. X \in Seq(WikiPairs) /\ ToSet(X) = {IndexFile(r), LogFile(r)}
  BY IndexBuilt DEF ToSet
<1>4. NewRunFiles(r) = ARX \o B
  BY DEF NewRunFiles, IndexFiles, BrowserFiles, RunFile, BrowserFile, IndexFile, LogFile
<1> HIDE DEF A, R, X, B
<1>5. AR \in Seq(WikiPairs) /\ ToSet(AR) = ToSet(A) \cup ToSet(R)
  BY <1>1, <1>2, SetOfConcat
<1> HIDE DEF AR
<1>6. ARX \in Seq(WikiPairs) /\ ToSet(ARX) = ToSet(AR) \cup ToSet(X)
  BY <1>3, <1>5, SetOfConcat
<1> HIDE DEF ARX
<1>7. ARX \o B \in Seq(WikiPairs) /\ ToSet(ARX \o B) = ToSet(ARX) \cup ToSet(B)
  BY <1>2, <1>6, SetOfConcat
<1> QED BY <1>1, <1>2, <1>3, <1>4, <1>5, <1>6, <1>7

\* The files of a run whose browser is outdated.
LEMMA AgainFiles ==
  ASSUME WikiTyped, NEW r \in Runs
  PROVE  /\ <<<<RunKey(r), RunRecord(r)>>>> \o BrowserFiles(r) \in Seq(WikiPairs)
         /\ ToSet(<<<<RunKey(r), RunRecord(r)>>>> \o BrowserFiles(r)) = {RunFile(r), BrowserFile(r)}
<1> DEFINE R == <<RunFile(r)>>
           B == <<BrowserFile(r)>>
<1>1. R \in Seq(WikiPairs) /\ ToSet(R) = {RunFile(r)} /\ B \in Seq(WikiPairs) /\ ToSet(B) = {BrowserFile(r)}
  BY RecordBuilt, SetOfOne
<1>2. <<<<RunKey(r), RunRecord(r)>>>> \o BrowserFiles(r) = R \o B
  BY DEF BrowserFiles, RunFile, BrowserFile
<1> HIDE DEF R, B
<1>3. R \o B \in Seq(WikiPairs) /\ ToSet(R \o B) = ToSet(R) \cup ToSet(B)
  BY <1>1, SetOfConcat
<1> QED BY <1>1, <1>2, <1>3

-----------------------------------------------------------------------------
\* Plans.

\* A wiki that tells the same of a run, and has all that another has, has it whole too.
LEMMA WholeKept ==
  ASSUME NEW r \in Runs, NEW v, NEW w, WholeIn(r, v),
         w[RunKey(r)] = v[RunKey(r)],
         v[IndexKey].pages \cap v[RunKey(r)].pages \subseteq w[IndexKey].pages,
         Once(r, w[WikiLogKey].runs),
         \A k \in WikiKeys : v[k] # NoFile => w[k] # NoFile
  PROVE  WholeIn(r, w)
<1>1. /\ EventOf[r].source # NoRef => SourceKey(EventOf[r].source) \in WikiKeys
      /\ BrowserKey(r) \in WikiKeys
      /\ \A p \in Pages : PageKey(p) \in WikiKeys
      /\ \A c \in Claims : ClaimKey(c) \in WikiKeys
  BY KeyKinds, EventIs
<1> QED BY <1>1 DEF WholeIn

\* What is on file once all files are written.
LEMMA FinalIs ==
  ASSUME NEW F, NEW w, NEW k \in WikiKeys
  PROVE  /\ \A f \in F : f[1] = k /\ (\A g \in F : g[1] = k => g = f) => WikiFinal(F, w)[k] = f[2]
         /\ (\A f \in F : f[1] # k) => WikiFinal(F, w)[k] = w[k]
         /\ (\E f \in F : f[1] = k) => \E f \in F : f[1] = k /\ WikiFinal(F, w)[k] = f[2]
BY DEF WikiFinal

\* A run that was never recorded writes a plan.
LEMMA NewPlan ==
  ASSUME WikiTyped, WikiRecorded, \A q \in Runs : ~Pending(q), NEW r \in Runs, ~There(RunKey(r))
  PROVE  /\ Plan(r, ToSet(NewRunFiles(r)), wiki)
         /\ Merges(ToSet(NewRunFiles(r)), wiki)
<1> DEFINE F == ToSet(NewRunFiles(r))
           runs == wiki[WikiLogKey].runs
<1>1. F = Contents(r) \cup {RunFile(r), IndexFile(r), LogFile(r), BrowserFile(r)}
  BY NewFiles
<1>2. F \subseteq WikiPairs
  BY NewFiles, SetOfSeq
<1>3. \A f \in Contents(r) : f[1][1] \in {"source", "page", "claim"}
  BY ContentsBuilt
<1>4. /\ RunFile(r)[1] = <<"run", r>> /\ BrowserFile(r)[1] = <<"browser", r>>
      /\ IndexFile(r)[1] = <<"index", 0>> /\ LogFile(r)[1] = <<"log", 0>>
  BY DEF RunFile, BrowserFile, IndexFile, LogFile, RunKey, BrowserKey, IndexKey, WikiLogKey
<1>5. /\ \A f \in F : f[1][1] = "run" => f = RunFile(r)
      /\ \A f \in F : f[1][1] = "index" => f = IndexFile(r)
      /\ \A f \in F : f[1][1] = "log" => f = LogFile(r)
      /\ \A f \in F : f[1][1] = "page" => f \in Contents(r)
  BY <1>1, <1>3, <1>4
<1>6. /\ RunFile(r)[2] = RunRecord(r) /\ LogFile(r)[2].runs = Append(runs, r)
      /\ IndexFile(r)[2].pages = ThePages \cup ToSet(EventOf[r].pages)
  BY DEF RunFile, LogFile, IndexFile
<1>7. runs \in Seq(Runs)
  BY IndexBuilt
<1>8. NotIn(r, runs) /\ \A q \in Runs : Logged(q, runs, wiki)
  BY DEF WikiRecorded, Logged, WholeIn, There
<1>9. Once(r, Append(runs, r)) /\ \A q \in Runs \ {r} : Logged(q, Append(runs, r), wiki)
  <2>1. /\ DOMAIN runs = 1 .. Len(runs) /\ DOMAIN Append(runs, r) = 1 .. (Len(runs) + 1)
        /\ Append(runs, r)[Len(runs) + 1] = r /\ Len(runs) \in Nat
        /\ \A i \in 1 .. Len(runs) : Append(runs, r)[i] = runs[i]
    BY <1>7, AppendProperties
  <2> HIDE DEF runs
  <2>2. Once(r, Append(runs, r))
    <3>1. \A j \in 1 .. (Len(runs) + 1) : Append(runs, r)[j] = r <=> j = Len(runs) + 1
      BY <1>8, <2>1 DEF NotIn
    <3>2. Len(runs) + 1 \in 1 .. (Len(runs) + 1)
      BY <2>1
    <3> QED BY <2>1, <3>1, <3>2 DEF Once
  <2>3. ASSUME NEW q \in Runs \ {r} PROVE Logged(q, Append(runs, r), wiki)
    <3>1. Once(q, runs) => Once(q, Append(runs, r))
      BY <2>1 DEF Once
    <3>2. NotIn(q, runs) => NotIn(q, Append(runs, r))
      BY <2>1 DEF NotIn
    <3> QED BY <1>8, <3>1, <3>2 DEF Logged
  <2> QED BY <2>2, <2>3
<1> HIDE DEF F, runs
<1>10. ASSUME NEW f \in F, NEW q \in Runs \ {r}
       PROVE  /\ f[1] # RunKey(q)
              /\ f[1] = IndexKey /\ wiki[RunKey(q)] # NoFile => wiki[RunKey(q)].pages \subseteq f[2].pages
              /\ f[1] = WikiLogKey => Logged(q, f[2].runs, wiki)
  <2>1. f[1] # RunKey(q)
    BY <1>4, <1>5 DEF RunKey
  <2>2. ASSUME f[1] = IndexKey, wiki[RunKey(q)] # NoFile  PROVE wiki[RunKey(q)].pages \subseteq f[2].pages
    <3>1. WholeIn(q, wiki)
      BY <2>2 DEF WikiRecorded, There
    <3>2. wiki[RunKey(q)].pages \subseteq ThePages
      BY <3>1 DEF WholeIn, ThePages, There
    <3>3. f = IndexFile(r)
      BY <1>5, <2>2 DEF IndexKey
    <3> QED BY <1>6, <3>2, <3>3
  <2>3. ASSUME f[1] = WikiLogKey  PROVE Logged(q, f[2].runs, wiki)
    <3>1. f = LogFile(r)
      BY <1>5, <2>3 DEF WikiLogKey
    <3> QED BY <1>6, <1>9, <3>1
  <2> QED BY <2>1, <2>2, <2>3
<1>11. \A f, g \in F : f[1] = g[1] /\ f[1] \in Telling(r) => f = g
  BY <1>5 DEF Telling, RunKey, IndexKey, WikiLogKey
<1>12. WholeIn(r, WikiFinal(F, wiki))
  <2> DEFINE w == WikiFinal(F, wiki)
  <2>1. RunFile(r) \in F /\ IndexFile(r) \in F /\ LogFile(r) \in F /\ BrowserFile(r) \in F
    BY <1>1
  <2>2. w[RunKey(r)] = RunRecord(r)
    BY <1>4, <1>5, <1>6, <2>1, FinalIs, KeyKinds DEF RunKey
  <2>3. w[IndexKey].pages = ThePages \cup ToSet(EventOf[r].pages)
    BY <1>4, <1>5, <1>6, <2>1, FinalIs, KeyKinds DEF IndexKey
  <2>4. w[WikiLogKey].runs = Append(runs, r)
    <3>1. WikiLogKey \in WikiKeys /\ WikiLogKey[1] = "log" /\ LogFile(r)[1] = WikiLogKey
      BY <1>4, KeyKinds DEF WikiLogKey
    <3>2. \A g \in F : g[1] = WikiLogKey => g = LogFile(r)
      BY <1>5, <3>1
    <3>3. w[WikiLogKey] = LogFile(r)[2]
      BY <2>1, <3>1, <3>2, FinalIs
    <3> QED BY <1>6, <3>3
  <2>5. ASSUME NEW k \in WikiKeys, \E f \in F : f[1] = k  PROVE w[k] # NoFile
    BY <1>2, <2>5, FinalIs, PairIs
  <2>6. w[BrowserKey(r)] # NoFile
    BY <1>4, <2>1, <2>5, KeyKinds DEF BrowserKey
  <2>7. EventOf[r].source # NoRef => w[SourceKey(EventOf[r].source)] # NoFile
    BY <1>1, <2>5, KeyKinds, EventIs, ContentsBuilt
  <2>8. \A p \in ToSet(EventOf[r].pages) : p \in Pages /\ w[PageKey(p)] # NoFile
    <3> SUFFICES ASSUME NEW p \in ToSet(EventOf[r].pages) PROVE p \in Pages /\ w[PageKey(p)] # NoFile
      OBVIOUS
    <3>1. p \in Pages /\ PageKey(p) \in WikiKeys
      BY EventIs, KeyKinds
    <3>2. <<PageKey(p), BuiltPage(r, p)>> \in F
      BY <1>1, ContentsBuilt
    <3> QED BY <2>5, <3>1, <3>2
  <2>9. \A f \in ToSet(ClaimFiles(r)) : f[1][2] \in Claims /\ w[ClaimKey(f[1][2])] # NoFile
    <3> SUFFICES ASSUME NEW f \in ToSet(ClaimFiles(r))
                 PROVE  f[1][2] \in Claims /\ w[ClaimKey(f[1][2])] # NoFile
      OBVIOUS
    <3>1. f \in F /\ f[1][2] \in Claims /\ f[1] = ClaimKey(f[1][2])
      BY <1>1, ContentsBuilt, ClaimsBuilt
    <3> QED BY <2>5, <3>1, KeyKinds
  <2>10. /\ RunRecord(r) # NoFile /\ RunRecord(r).pages = ToSet(EventOf[r].pages)
         /\ RunRecord(r).claims = {f[1][2] : f \in ToSet(ClaimFiles(r))}
    BY DEF RunRecord, NoFile
  <2> HIDE DEF w
  <2>11. WholeIn(r, w)
    BY <1>9, <2>2, <2>3, <2>4, <2>6, <2>7, <2>8, <2>9, <2>10 DEF WholeIn
  <2> QED BY <2>11 DEF w
<1>13. Merges(F, wiki)
  <2> SUFFICES ASSUME NEW f \in F, NEW p \in Pages, f[1] = PageKey(p)
               PROVE  /\ wiki[PageKey(p)] # NoFile => /\ wiki[PageKey(p)].claims \subseteq f[2].claims
                                                     /\ wiki[PageKey(p)].sources \subseteq f[2].sources
                      /\ \A g \in F : g[1] = f[1] => g = f
    BY DEF Merges
  <2>1. f[1][1] = "page"
    BY DEF PageKey
  <2>2. f[2] = BuiltPage(r, p)
    BY <1>5, <2>1, ContentsBuilt
  <2>3. ASSUME NEW g \in F, g[1] = f[1] PROVE g = f
    <3>1. g[2] = BuiltPage(r, p)
      BY <1>5, <2>1, <2>3, ContentsBuilt
    <3> QED BY <1>2, <2>2, <2>3, <3>1, PairIs
  <2> QED BY <2>2, <2>3, PageBuilt DEF There
<1> QED BY <1>2, <1>10, <1>11, <1>12, <1>13 DEF Plan, F

\* A wiki that tells the same, and has all that was there, fits the same plans.
LEMMA PlanKept ==
  ASSUME NEW r \in Runs, NEW F, NEW v, NEW w, Plan(r, F, v),
         \A k \in WikiKeys : k[1] \in {"run", "index", "log"} => w[k] = v[k],
         \A k \in WikiKeys : v[k] # NoFile => w[k] # NoFile
  PROVE  Plan(r, F, w)
<1>1. /\ \A q \in Runs : RunKey(q) \in WikiKeys /\ RunKey(q)[1] = "run"
      /\ IndexKey \in WikiKeys /\ IndexKey[1] = "index"
      /\ WikiLogKey \in WikiKeys /\ WikiLogKey[1] = "log"
  BY KeyKinds
<1>2. \A q \in Runs : w[RunKey(q)] = v[RunKey(q)]
  BY <1>1
<1>3. \A k \in WikiKeys : k[1] \in {"run", "index", "log"} => WikiFinal(F, w)[k] = WikiFinal(F, v)[k]
  BY DEF WikiFinal
<1>4. \A k \in WikiKeys : WikiFinal(F, v)[k] # NoFile => WikiFinal(F, w)[k] # NoFile
  BY DEF WikiFinal
<1>5. WholeIn(r, WikiFinal(F, v))
  BY DEF Plan
<1>6. WholeIn(r, WikiFinal(F, w))
  BY <1>1, <1>3, <1>4, <1>5, WholeKept DEF WholeIn
<1> QED BY <1>2, <1>6 DEF Plan, Logged

\* Writing one file of a plan keeps the plan and does nothing to the other runs.
LEMMA WriteOne ==
  ASSUME WikiTyped, NEW r \in Runs, NEW F, Plan(r, F, wiki), NEW f \in F,
         wiki' = [wiki EXCEPT ![f[1]] = f[2]]
  PROVE  /\ Plan(r, F, wiki')
         /\ \A k \in WikiKeys : There(k) => wiki'[k] # NoFile
         /\ \A q \in Runs \ {r} :
              /\ wiki'[RunKey(q)] = wiki[RunKey(q)]
              /\ WholeIn(q, wiki) => WholeIn(q, wiki')
              /\ ~There(RunKey(q)) /\ NotIn(q, wiki[WikiLogKey].runs) =>
                   NotIn(q, wiki'[WikiLogKey].runs)
<1>1. f \in WikiPairs /\ f[1] \in WikiKeys /\ f[2] # NoFile
  BY PairIs DEF Plan
<1>2. wiki'[f[1]] = f[2] /\ \A k \in WikiKeys \ {f[1]} : wiki'[k] = wiki[k]
  BY <1>1 DEF WikiTyped
<1>3. \A k \in WikiKeys : There(k) => wiki'[k] # NoFile
  BY <1>1, <1>2 DEF There
<1>4. \A q \in Runs \ {r} : wiki'[RunKey(q)] = wiki[RunKey(q)]
  BY <1>2, KeyKinds DEF Plan
<1>5. WikiFinal(F, wiki') = WikiFinal(F, wiki)
  BY <1>2 DEF WikiFinal
<1>6. Plan(r, F, wiki')
  BY <1>4, <1>5 DEF Plan, Logged
<1>7. ASSUME NEW q \in Runs \ {r}, WholeIn(q, wiki)  PROVE WholeIn(q, wiki')
  <2>1. wiki[RunKey(q)] # NoFile
    BY <1>7 DEF WholeIn
  <2>2. wiki[IndexKey].pages \cap wiki[RunKey(q)].pages \subseteq wiki'[IndexKey].pages
    <3>1. CASE f[1] = IndexKey
      BY <1>2, <2>1, <3>1 DEF Plan
    <3>2. CASE f[1] # IndexKey
      BY <1>2, <3>2, KeyKinds
    <3> QED BY <3>1, <3>2
  <2>3. Once(q, wiki'[WikiLogKey].runs)
    <3>1. CASE f[1] = WikiLogKey
      BY <1>2, <2>1, <3>1 DEF Plan, Logged
    <3>2. CASE f[1] # WikiLogKey
      BY <1>2, <1>7, <3>2, KeyKinds DEF WholeIn
    <3> QED BY <3>1, <3>2
  <2>4. wiki'[RunKey(q)] = wiki[RunKey(q)] /\ q \in Runs
    BY <1>4
  <2>5. \A k \in WikiKeys : wiki[k] # NoFile => wiki'[k] # NoFile
    BY <1>3 DEF There
  <2> DEFINE w == wiki'
  <2>6. /\ w[RunKey(q)] = wiki[RunKey(q)] /\ Once(q, w[WikiLogKey].runs)
        /\ wiki[IndexKey].pages \cap wiki[RunKey(q)].pages \subseteq w[IndexKey].pages
        /\ \A k \in WikiKeys : wiki[k] # NoFile => w[k] # NoFile
    BY <2>2, <2>3, <2>4, <2>5
  <2> HIDE DEF w
  <2>7. WholeIn(q, w)
    BY <1>7, <2>4, <2>6, WholeKept
  <2> QED BY <2>7 DEF w
<1>8. ASSUME NEW q \in Runs \ {r}, ~There(RunKey(q)), NotIn(q, wiki[WikiLogKey].runs)
      PROVE  NotIn(q, wiki'[WikiLogKey].runs)
  <2>1. CASE f[1] = WikiLogKey
    BY <1>2, <1>8, <2>1 DEF Plan, Logged, There
  <2>2. CASE f[1] # WikiLogKey
    BY <1>2, <1>8, <2>2, KeyKinds
  <2> QED BY <2>1, <2>2
<1> QED BY <1>3, <1>4, <1>6, <1>7, <1>8

\* Once all files are written the run is whole.
LEMMA PlanDone ==
  ASSUME NEW r \in Runs, NEW F, Plan(r, F, wiki),
         \A f \in F : There(f[1]) /\ (f[1] \in Telling(r) => wiki[f[1]] = f[2])
  PROVE  WholeIn(r, wiki)
<1> DEFINE v == WikiFinal(F, wiki)
<1>1. WholeIn(r, v)
  BY DEF Plan
<1>2. ASSUME NEW k \in Telling(r)  PROVE wiki[k] = v[k]
  <2>1. k \in WikiKeys
    BY KeyKinds DEF Telling
  <2>2. CASE \E f \in F : f[1] = k
    <3>1. PICK f \in F : f[1] = k /\ v[k] = f[2]
      BY <2>1, <2>2, FinalIs
    <3> QED BY <3>1
  <2>3. CASE ~\E f \in F : f[1] = k
    BY <2>1, <2>3, FinalIs
  <2> QED BY <2>2, <2>3
<1>3. ASSUME NEW k \in WikiKeys, v[k] # NoFile  PROVE wiki[k] # NoFile
  <2>1. CASE \E f \in F : f[1] = k
    BY <2>1 DEF There
  <2>2. CASE ~\E f \in F : f[1] = k
    BY <1>3, <2>2, FinalIs
  <2> QED BY <2>1, <2>2
<1> HIDE DEF v
<1>4. wiki[RunKey(r)] = v[RunKey(r)] /\ wiki[IndexKey] = v[IndexKey] /\ wiki[WikiLogKey] = v[WikiLogKey]
  BY <1>2 DEF Telling
<1> QED BY <1>1, <1>3, <1>4, WholeKept DEF WholeIn

\* A run that is recorded and matches its record may write it again, with a new browser.
LEMMA AgainPlan ==
  ASSUME WikiTyped, WikiRecorded, \A q \in Runs : ~Pending(q), NEW r \in Runs, There(RunKey(r)),
         MatchesRun(r)
  PROVE  /\ Plan(r, {RunFile(r), BrowserFile(r)}, wiki) /\ Plan(r, {}, wiki)
         /\ Merges({RunFile(r), BrowserFile(r)}, wiki) /\ Merges({}, wiki)
<1> DEFINE F == {RunFile(r), BrowserFile(r)}
           w == WikiFinal(F, wiki)
<1>1. WholeIn(r, wiki)
  BY DEF WikiRecorded
<1>2. Plan(r, {}, wiki) /\ Merges({}, wiki)
  <2>1. \A k \in WikiKeys : WikiFinal({}, wiki)[k] = wiki[k]
    BY DEF WikiFinal
  <2>2. RunKey(r) \in WikiKeys /\ IndexKey \in WikiKeys /\ WikiLogKey \in WikiKeys
    BY KeyKinds
  <2>3. WholeIn(r, WikiFinal({}, wiki))
    BY <1>1, <2>1, <2>2, WholeKept DEF WholeIn
  <2> QED BY <2>3 DEF Plan, Merges
<1>3. /\ RunFile(r)[1] = <<"run", r>> /\ BrowserFile(r)[1] = <<"browser", r>>
      /\ RunFile(r)[2] = RunRecord(r)
  BY DEF RunFile, BrowserFile, RunKey, BrowserKey
<1>4. RunFile(r) \in WikiPairs /\ BrowserFile(r) \in WikiPairs
  BY RecordBuilt
<1>5. /\ RunRecord(r) # NoFile /\ RunRecord(r).pages = ToSet(EventOf[r].pages)
      /\ RunRecord(r).claims = {f[1][2] : f \in ToSet(ClaimFiles(r))}
  BY DEF RunRecord, NoFile
<1>6. w[RunKey(r)] = RunRecord(r)
  <2>1. \A g \in F : g[1] = RunKey(r) => g = RunFile(r)
    BY <1>3 DEF RunKey
  <2>2. RunFile(r) \in F /\ RunFile(r)[1] = RunKey(r)
    BY <1>3 DEF RunKey
  <2> HIDE DEF F
  <2> QED BY <1>3, <2>1, <2>2, FinalIs, KeyKinds
<1>7. w[IndexKey] = wiki[IndexKey] /\ w[WikiLogKey] = wiki[WikiLogKey]
  <2>1. \A g \in F : g[1] # IndexKey /\ g[1] # WikiLogKey
    BY <1>3 DEF IndexKey, WikiLogKey
  <2> HIDE DEF F
  <2> QED BY <2>1, FinalIs, KeyKinds
<1>8. ASSUME NEW k \in WikiKeys, wiki[k] # NoFile  PROVE w[k] # NoFile
  <2>1. CASE \E f \in F : f[1] = k
    <3>1. PICK f \in F : w[k] = f[2]
      BY <2>1, FinalIs
    <3> QED BY <1>4, <3>1, PairIs
  <2>2. CASE ~\E f \in F : f[1] = k
    BY <1>8, <2>2, FinalIs
  <2> QED BY <2>1, <2>2
<1>9. \A c \in RunRecord(r).claims : c \in Claims /\ wiki[ClaimKey(c)] # NoFile
  <2> SUFFICES ASSUME NEW f \in ToSet(ClaimFiles(r))
               PROVE  f[1][2] \in Claims /\ wiki[ClaimKey(f[1][2])] # NoFile
    BY <1>5
  <2>1. f \in Contents(r) /\ f[1][2] \in Claims /\ f[1] = ClaimKey(f[1][2])
    BY ContentsBuilt, ClaimsBuilt
  <2>2. wiki[f[1]] = f[2] /\ f \in WikiPairs
    BY <2>1, ContentsBuilt DEF MatchesRun, Contents
  <2>3. f[2] # NoFile
    BY <2>2, PairIs
  <2> QED BY <2>1, <2>2, <2>3
<1> HIDE DEF w
<1>10. WholeIn(r, w)
  <2>1. BrowserKey(r) \in WikiKeys
    BY KeyKinds
  <2>2. EventOf[r].source # NoRef => SourceKey(EventOf[r].source) \in WikiKeys
    BY KeyKinds, EventIs
  <2>3. /\ \A p \in Pages : PageKey(p) \in WikiKeys
        /\ \A c \in Claims : ClaimKey(c) \in WikiKeys
    BY KeyKinds
  <2>4. wiki[RunKey(r)].pages = RunRecord(r).pages
    BY <1>1, <1>5 DEF WholeIn
  <2> QED BY <1>1, <1>5, <1>6, <1>7, <1>8, <1>9, <2>1, <2>2, <2>3, <2>4 DEF WholeIn
<1>11. Plan(r, F, wiki)
  <2>1. F \subseteq WikiPairs
    BY <1>4
  <2>2. \A f \in F, q \in Runs \ {r} : f[1] # RunKey(q) /\ f[1] # IndexKey /\ f[1] # WikiLogKey
    BY <1>3 DEF RunKey, IndexKey, WikiLogKey
  <2>3. \A f, g \in F : f[1] = g[1] => f = g
    BY <1>3
  <2> HIDE DEF F
  <2> QED BY <1>10, <2>1, <2>2, <2>3 DEF Plan, w
<1>12. Merges(F, wiki)
  BY <1>3 DEF Merges, PageKey
<1> QED BY <1>2, <1>11, <1>12

-----------------------------------------------------------------------------
\* Steps.

\* A process at work.
LEMMA WikiAtWork ==
  ASSUME WikiTyped, NEW m \in Maintainers, maint[m].step # "idle"
  PROVE  CallOf(m) /\ maint[m] \in Calls
BY DEF WikiTyped, NoMaint, CallOf

\* A process goes on: only its step changes.
LEMMA GoesTo ==
  ASSUME WikiTyped, NEW m \in Maintainers, maint[m].step # "idle", NEW s, MaintGo(m, s)
  PROVE  /\ DOMAIN maint' = Maintainers
         /\ \A p \in Maintainers \ {m} : maint'[p] = maint[p]
         /\ maint'[m] = [maint[m] EXCEPT !.step = s]
         /\ maint'[m].step = s /\ maint'[m].run = maint[m].run /\ maint'[m].files = maint[m].files
         /\ maint'[m].pos = maint[m].pos /\ maint'[m].replayed = maint[m].replayed
<1>1. maint[m] \in Calls
  BY WikiAtWork
<1>2. maint' = [maint EXCEPT ![m].step = s] /\ DOMAIN maint = Maintainers
  BY DEF MaintGo, WikiTyped
<1> QED BY <1>1, <1>2 DEF Calls

\* A process gets new files to write.
Gets(m, s, F, r) ==
  \/ maint' = [maint EXCEPT ![m].step = s, ![m].replayed = r, ![m].files = F, ![m].pos = 0]
  \/ maint' = [maint EXCEPT ![m].step = s, ![m].pos = 0, ![m].replayed = r, ![m].files = F]
  \/ maint' = [maint EXCEPT ![m].step = s, ![m].files = F, ![m].pos = 0] /\ r = maint[m].replayed

\* What it then has.
LEMMA GetsFiles ==
  ASSUME WikiTyped, NEW m \in Maintainers, maint[m].step # "idle",
         NEW s, NEW F, NEW r, Gets(m, s, F, r)
  PROVE  /\ DOMAIN maint' = Maintainers
         /\ \A p \in Maintainers \ {m} : maint'[p] = maint[p]
         /\ maint'[m] = [step |-> s, run |-> maint[m].run, files |-> F, pos |-> 0, replayed |-> r]
<1>1. maint[m] \in Calls
  BY WikiAtWork
<1>2. DOMAIN maint = Maintainers
  BY DEF WikiTyped
<1> QED BY <1>1, <1>2 DEF Calls, Gets
\* Only process m changes, and its new state is of its type.
LEMMA OneMoves ==
  ASSUME WikiTyped, NEW m \in Maintainers, DOMAIN maint' = Maintainers,
         \A p \in Maintainers \ {m} : maint'[p] = maint[p],
         maint'[m] = NoMaint \/ CallOf(m)'
  PROVE  \A p \in Maintainers : maint'[p] = NoMaint \/ CallOf(p)'
BY DEF WikiTyped, CallOf

\* A process that goes on, unless to write its journal's files, keeps its type.
LEMMA GoingTyped ==
  ASSUME WikiTyped, NEW m \in Maintainers, maint[m].step # "idle",
         NEW s \in MaintSteps \ {"idle"}, MaintGo(m, s),
         s = "journal" => FALSE, s = "write" => maint[m].step = "journal"
  PROVE  DOMAIN maint' = Maintainers /\ \A p \in Maintainers : maint'[p] = NoMaint \/ CallOf(p)'
<1>1. /\ DOMAIN maint' = Maintainers
      /\ \A p \in Maintainers \ {m} : maint'[p] = maint[p]
      /\ maint'[m] = [maint[m] EXCEPT !.step = s]
      /\ maint'[m].step = s /\ maint'[m].run = maint[m].run /\ maint'[m].files = maint[m].files
      /\ maint'[m].pos = maint[m].pos /\ maint'[m].replayed = maint[m].replayed
  BY GoesTo
<1>2. CallOf(m) /\ maint[m] \in Calls
  BY WikiAtWork
<1>3. maint'[m] \in Calls
  BY <1>1, <1>2 DEF Calls
<1>4. CallOf(m)'
  BY <1>1, <1>2, <1>3 DEF CallOf
<1> QED BY <1>1, <1>4, OneMoves

\* A process that gets new files keeps its type.
LEMMA GettingTyped ==
  ASSUME WikiTyped, NEW m \in Maintainers, maint[m].step # "idle",
         NEW s \in MaintSteps \ {"idle"}, NEW F \in Seq(WikiPairs), NEW r \in Runs,
         s \in {"journal", "write"} => r = maint[m].run,
         DOMAIN maint' = Maintainers,
         \A p \in Maintainers \ {m} : maint'[p] = maint[p],
         maint'[m] = [step |-> s, run |-> maint[m].run, files |-> F, pos |-> 0, replayed |-> r]
  PROVE  \A p \in Maintainers : maint'[p] = NoMaint \/ CallOf(p)'
<1>1. maint[m] \in Calls
  BY WikiAtWork
<1>2. maint'[m] \in Calls
  BY <1>1 DEF Calls
<1>3. Len(F) \in Nat /\ 0 <= Len(F)
  BY LenProperties
<1>4. CallOf(m)'
  BY <1>2, <1>3 DEF CallOf
<1> QED BY <1>4, OneMoves

\* A process that stops keeps its type.
LEMMA StoppingTyped ==
  ASSUME WikiTyped, NEW m \in Maintainers, maint' = [maint EXCEPT ![m] = NoMaint]
  PROVE  /\ DOMAIN maint' = Maintainers /\ maint'[m] = NoMaint
         /\ \A p \in Maintainers \ {m} : maint'[p] = maint[p]
         /\ \A p \in Maintainers : maint'[p] = NoMaint \/ CallOf(p)'
<1>1. /\ DOMAIN maint' = Maintainers /\ maint'[m] = NoMaint
      /\ \A p \in Maintainers \ {m} : maint'[p] = maint[p]
  BY DEF WikiTyped
<1> QED BY <1>1, OneMoves

\* The files that a wiki has written keep it in its type.
LEMMA WritingTyped ==
  ASSUME WikiTyped, NEW f \in WikiPairs, wiki' = [wiki EXCEPT ![f[1]] = f[2]]
  PROVE  /\ DOMAIN wiki' = WikiKeys
         /\ \A k \in WikiKeys : wiki'[k] = NoFile \/ <<k, wiki'[k]>> \in WikiPairs
         /\ wiki'[IndexKey] # NoFile /\ wiki'[WikiLogKey] # NoFile
<1>1. f = <<f[1], f[2]>> /\ f[1] \in WikiKeys /\ f[2] # NoFile
  BY PairIs
<1>2. DOMAIN wiki' = WikiKeys /\ wiki'[f[1]] = f[2] /\ \A k \in WikiKeys \ {f[1]} : wiki'[k] = wiki[k]
  BY <1>1 DEF WikiTyped
<1>3. \A k \in WikiKeys : wiki'[k] = NoFile \/ <<k, wiki'[k]>> \in WikiPairs
  <2> SUFFICES ASSUME NEW k \in WikiKeys PROVE wiki'[k] = NoFile \/ <<k, wiki'[k]>> \in WikiPairs
    OBVIOUS
  <2>1. CASE k = f[1]
    BY <1>1, <1>2, <2>1
  <2>2. CASE k # f[1]
    BY <1>2, <2>2 DEF WikiTyped
  <2> QED BY <2>1, <2>2
<1>4. IndexKey \in WikiKeys /\ WikiLogKey \in WikiKeys
  BY KeyKinds
<1>5. wiki'[IndexKey] # NoFile
  BY <1>1, <1>2, <1>4 DEF WikiTyped, There
<1>6. wiki'[WikiLogKey] # NoFile
  BY <1>1, <1>2, <1>4 DEF WikiTyped, There
<1> QED BY <1>2, <1>3, <1>5, <1>6
\* What an outside write does to the files.
LEMMA OutsideIs ==
  ASSUME WikiTyped, NEW p \in Pages, NEW c \in Claims, OutsideWrite(p, c)
  PROVE  /\ DOMAIN wiki' = WikiKeys
         /\ \A k \in WikiKeys : k # PageKey(p) /\ k # ClaimKey(c) => wiki'[k] = wiki[k]
         /\ wiki'[PageKey(p)] = [wiki[PageKey(p)] EXCEPT !.claims = @ \cup {c}]
         /\ wiki[PageKey(p)] \in PageRecs
         /\ There(ClaimKey(c)) => wiki'[ClaimKey(c)] = wiki[ClaimKey(c)]
         /\ ~There(ClaimKey(c)) => wiki'[ClaimKey(c)] \in ClaimRecs
<1>1. PageKey(p) \in WikiKeys /\ ClaimKey(c) \in WikiKeys /\ PageKey(p) # ClaimKey(c)
      /\ PageKey(p)[1] = "page"
  BY DEF WikiKeys, PageKey, ClaimKey
<1>2. wiki[PageKey(p)] \in PageRecs
  BY <1>1, OnFile DEF OutsideWrite
<1> DEFINE new == [kind |-> "claim", by |-> NoRef, page |-> p, support |-> {Some(Sources)},
                   status |-> "editorial", supersedes |-> NoRef, supersededBy |-> NoRef]
<1>3. new \in ClaimRecs
  BY DEF ClaimRecs
<1>4. wiki' = [wiki EXCEPT ![PageKey(p)].claims = @ \cup {c},
                           ![ClaimKey(c)] = IF There(ClaimKey(c)) THEN @ ELSE new]
  BY DEF OutsideWrite
<1> HIDE DEF new
<1>5. DOMAIN wiki = WikiKeys
  BY DEF WikiTyped
<1>6. /\ DOMAIN wiki' = WikiKeys
      /\ \A k \in WikiKeys : k # PageKey(p) /\ k # ClaimKey(c) => wiki'[k] = wiki[k]
  BY <1>1, <1>4, <1>5
<1>7. wiki'[PageKey(p)] = [wiki[PageKey(p)] EXCEPT !.claims = @ \cup {c}]
  BY <1>1, <1>4, <1>5
<1>8. wiki'[ClaimKey(c)] = IF There(ClaimKey(c)) THEN wiki[ClaimKey(c)] ELSE new
  BY <1>1, <1>4, <1>5
<1> QED BY <1>2, <1>3, <1>6, <1>7, <1>8

\* It keeps them in their type.
LEMMA OutsideTyped ==
  ASSUME WikiTyped, NEW p \in Pages, NEW c \in Claims, OutsideWrite(p, c)
  PROVE  /\ DOMAIN wiki' = WikiKeys
         /\ \A k \in WikiKeys : wiki'[k] = NoFile \/ <<k, wiki'[k]>> \in WikiPairs
         /\ wiki'[IndexKey] # NoFile /\ wiki'[WikiLogKey] # NoFile
         /\ wiki'[PageKey(p)] \in PageRecs /\ wiki'[ClaimKey(c)] \in ClaimRecs
<1>1. wiki'[PageKey(p)] \in PageRecs
  <2> DEFINE old == wiki[PageKey(p)]
  <2>1. old \in PageRecs /\ wiki'[PageKey(p)] = [old EXCEPT !.claims = old.claims \cup {c}]
    BY OutsideIs
  <2> HIDE DEF old
  <2>2. [old EXCEPT !.claims = old.claims \cup {c}] \in PageRecs
    BY <2>1 DEF PageRecs
  <2> QED BY <2>1, <2>2
<1>2. PageKey(p) \in WikiKeys /\ PageKey(p)[1] = "page" /\ ClaimKey(c) \in WikiKeys /\ ClaimKey(c)[1] = "claim"
  BY KeyKinds
<1>3. <<PageKey(p), wiki'[PageKey(p)]>> \in WikiPairs
  BY <1>1, <1>2, PairOf
<1>4. wiki'[ClaimKey(c)] \in ClaimRecs
  BY <1>2, OutsideIs, OnFile
<1>5. <<ClaimKey(c), wiki'[ClaimKey(c)]>> \in WikiPairs
  BY <1>2, <1>4, PairOf
<1>6. \A k \in WikiKeys : k # PageKey(p) /\ k # ClaimKey(c) => wiki'[k] = wiki[k]
  BY OutsideIs
<1>7. IndexKey \in WikiKeys /\ IndexKey # PageKey(p) /\ IndexKey # ClaimKey(c)
      /\ WikiLogKey \in WikiKeys /\ WikiLogKey # PageKey(p) /\ WikiLogKey # ClaimKey(c)
  BY KeyKinds DEF PageKey, ClaimKey, IndexKey, WikiLogKey
<1>8. wiki[IndexKey] # NoFile /\ wiki[WikiLogKey] # NoFile
  BY DEF WikiTyped, There
<1>9. \A k \in WikiKeys : wiki[k] = NoFile \/ <<k, wiki[k]>> \in WikiPairs
  BY DEF WikiTyped
<1>10. DOMAIN wiki' = WikiKeys
  BY OutsideIs
<1> QED BY <1>1, <1>3, <1>4, <1>5, <1>6, <1>7, <1>8, <1>9, <1>10

\* The files that a process writes next.
LEMMA WritesNext ==
  ASSUME WikiTyped, NEW m \in Maintainers, WriteWikiFile(m)
  PROVE  LET i == maint[m].pos + 1
             f == maint[m].files[i]
         IN /\ i \in 1 .. Len(maint[m].files) /\ f \in WikiPairs /\ f \in Files(m)
            /\ maint[m].pos \in Nat /\ CallOf(m)
            /\ wiki' = [wiki EXCEPT ![f[1]] = f[2]]
            /\ DOMAIN maint' = Maintainers
            /\ \A p \in Maintainers \ {m} : maint'[p] = maint[p]
            /\ maint'[m] = [maint[m] EXCEPT !.pos = i]
            /\ maint'[m].step = maint[m].step /\ maint'[m].run = maint[m].run
            /\ maint'[m].files = maint[m].files /\ maint'[m].pos = i
            /\ maint'[m].replayed = maint[m].replayed
<1> DEFINE i == maint[m].pos + 1
<1>1. maint[m] \in Calls /\ CallOf(m) /\ i <= Len(maint[m].files)
  BY WikiAtWork DEF WriteWikiFile
<1>2. maint[m].files \in Seq(WikiPairs) /\ maint[m].pos \in Nat
  BY <1>1 DEF Calls
<1>3. i \in 1 .. Len(maint[m].files)
  BY <1>1, <1>2, LenProperties
<1>4. maint[m].files[i] \in WikiPairs /\ maint[m].files[i] \in Files(m)
  BY <1>2, <1>3, SetOfSeq DEF Files
<1>5. maint' = [maint EXCEPT ![m].pos = i] /\ DOMAIN maint = Maintainers
  BY DEF WriteWikiFile, WikiTyped
<1>6. /\ DOMAIN maint' = Maintainers /\ \A p \in Maintainers \ {m} : maint'[p] = maint[p]
      /\ maint'[m] = [maint[m] EXCEPT !.pos = i]
  BY <1>5
<1>7. /\ maint'[m].step = maint[m].step /\ maint'[m].run = maint[m].run
      /\ maint'[m].files = maint[m].files /\ maint'[m].pos = i
      /\ maint'[m].replayed = maint[m].replayed
  BY <1>1, <1>6 DEF Calls
<1>8. wiki' = [wiki EXCEPT ![maint[m].files[i][1]] = maint[m].files[i][2]]
  BY DEF WriteWikiFile
<1> QED BY <1>1, <1>2, <1>3, <1>4, <1>6, <1>7, <1>8
\* Every step keeps the types.
LEMMA TypeStep ==
  ASSUME WikiTyped, WikiNext
  PROVE  WikiTyped'
<1> USE DEF wikiFiles
<1> DEFINE CallsOK == DOMAIN maint' = Maintainers /\ \A p \in Maintainers : maint'[p] = NoMaint \/ CallOf(p)'
<1>1. due' = due
  BY DEF WikiNext
<1>2. ASSUME wiki' = wiki, wikiJournal' = wikiJournal, contract' = contract, crossed' = crossed,
             hitches' \in Nat, hitches <= hitches', hitches' <= MaxHitches, wikiStolen' \in BOOLEAN,
             wikiLock' \in Maintainers \cup {"free", "dead"}, CallsOK
      PROVE  WikiTyped'
  <2>1. contract' <= hitches' + 1
    BY <1>2 DEF WikiTyped
  <2> QED BY <1>1, <1>2, <2>1 DEF WikiTyped, There
<1>3. hitches \in Nat /\ hitches <= hitches /\ hitches <= MaxHitches /\ MaxHitches \in Nat
      /\ wikiLock \in Maintainers \cup {"free", "dead"} /\ wikiStolen \in BOOLEAN /\ crossed \in BOOLEAN
  BY WikiAssumption DEF WikiTyped
<1>4. hitches < MaxHitches => hitches + 1 \in Nat /\ hitches <= hitches + 1 /\ hitches + 1 <= MaxHitches
  BY <1>3
<1>5. ASSUME NEW m \in Maintainers, NEW r \in due, BeginRun(m, r)  PROVE WikiTyped'
  <2>1. r \in Runs
    BY DEF WikiTyped
  <2>2. NewMaint(r) \in Calls
    <3>1. <<>> \in Seq(WikiPairs)
      BY SetOfNone
    <3> QED BY <2>1, <3>1 DEF NewMaint, Calls, MaintSteps
  <2>3. DOMAIN maint' = Maintainers /\ maint'[m] = NewMaint(r) /\ \A p \in Maintainers \ {m} : maint'[p] = maint[p]
    BY <1>5 DEF BeginRun, WikiTyped
  <2>4. CallOf(m)'
    BY <2>2, <2>3 DEF CallOf, NewMaint
  <2> QED BY <1>2, <1>3, <1>5, <2>3, <2>4, OneMoves DEF BeginRun
<1>6. ASSUME NEW m \in Maintainers, TakeWikiLock(m)  PROVE WikiTyped'
  <2>1. CallsOK
    BY <1>6, GoingTyped DEF TakeWikiLock, MaintAt, MaintSteps
  <2> QED BY <1>2, <1>3, <1>6, <2>1 DEF TakeWikiLock
<1>7. ASSUME NEW m \in Maintainers, FindStaleWikiLock(m)  PROVE WikiTyped'
  <2>1. CallsOK
    BY <1>7, GoingTyped DEF FindStaleWikiLock, MaintAt, MaintSteps
  <2>2. hitches' \in Nat /\ hitches <= hitches' /\ hitches' <= MaxHitches
    BY <1>3, <1>4, <1>7 DEF FindStaleWikiLock
  <2> QED BY <1>2, <1>3, <1>7, <2>1, <2>2 DEF FindStaleWikiLock
<1>8. ASSUME NEW m \in Maintainers, RemoveStaleWikiLock(m)  PROVE WikiTyped'
  <2>1. CallsOK
    BY <1>8, GoingTyped DEF RemoveStaleWikiLock, MaintAt, MaintSteps
  <2> QED BY <1>2, <1>3, <1>8, <2>1 DEF RemoveStaleWikiLock
<1>9. ASSUME NEW m \in Maintainers, MaintTimesOut(m)  PROVE WikiTyped'
  <2>1. CallsOK
    BY <1>9, StoppingTyped DEF MaintTimesOut
  <2> QED BY <1>2, <1>3, <1>9, <2>1 DEF MaintTimesOut
<1>10. ASSUME NEW m \in Maintainers, ReleaseWikiLock(m)  PROVE WikiTyped'
  <2>1. CallsOK
    BY <1>10, StoppingTyped DEF ReleaseWikiLock
  <2> QED BY <1>2, <1>3, <1>10, <2>1 DEF ReleaseWikiLock
<1>11. ASSUME NEW m \in Maintainers, RecoverNext(m)  PROVE WikiTyped'
  <2> DEFINE left == {r \in Runs : wikiJournal[r] # NoFile}
  <2>1. CallsOK
    <3>1. CASE left = {}
      <4>1. MaintGo(m, "load") /\ maint[m].step = "recover"
        BY <1>11, <3>1 DEF RecoverNext, MaintAt
      <4> QED BY <4>1, GoingTyped DEF MaintSteps
    <3>2. CASE left # {}
      <4>1. PICK r \in Runs : r = Some(left) /\ wikiJournal[r] # NoFile
        BY <3>2 DEF Some
      <4>2. wikiJournal[r].files \in Seq(WikiPairs)
        BY <4>1 DEF WikiTyped
      <4>3. maint[m].step # "idle"
        BY <1>11 DEF RecoverNext, MaintAt
      <4>4. maint' = [maint EXCEPT ![m].step = "replay", ![m].replayed = r,
                                   ![m].files = wikiJournal[r].files, ![m].pos = 0]
        BY <1>11, <3>2, <4>1 DEF RecoverNext
      <4> DEFINE files == wikiJournal[r].files
      <4>a. Gets(m, "replay", files, r)
        BY <4>4 DEF Gets
      <4> HIDE DEF files
      <4>5. /\ DOMAIN maint' = Maintainers
            /\ \A p \in Maintainers \ {m} : maint'[p] = maint[p]
            /\ maint'[m] = [step |-> "replay", run |-> maint[m].run, files |-> files,
                            pos |-> 0, replayed |-> r]
        BY <4>3, <4>a, GetsFiles
      <4> QED BY <4>2, <4>3, <4>5, GettingTyped DEF MaintSteps, files
    <3> QED BY <3>1, <3>2
  <2> QED BY <1>2, <1>3, <1>11, <2>1 DEF RecoverNext
<1>12. ASSUME NEW m \in Maintainers, LoadRun(m)  PROVE WikiTyped'
  <2> DEFINE r == maint[m].run
             F == IF ~There(RunKey(r)) THEN NewRunFiles(r)
                  ELSE IF BrowserReusable(r) THEN <<>>
                  ELSE <<<<RunKey(r), RunRecord(r)>>>> \o BrowserFiles(r)
  <2>1. maint[m].step = "load" /\ r \in Runs
    BY <1>12, WikiAtWork DEF LoadRun, MaintAt, Calls
  <2>2. CallsOK
    <3>1. CASE There(RunKey(r)) /\ (~There(BrowserKey(r)) \/ ~MatchesRun(r))
      <4>1. MaintGo(m, "release")
        BY <1>12, <3>1 DEF LoadRun
      <4> QED BY <2>1, <4>1, GoingTyped DEF MaintSteps
    <3>2. CASE ~(There(RunKey(r)) /\ (~There(BrowserKey(r)) \/ ~MatchesRun(r)))
      <4>1. F \in Seq(WikiPairs)
        BY <2>1, NewFiles, AgainFiles, SetOfNone
      <4>2. maint' = [maint EXCEPT ![m].step = "journal", ![m].pos = 0, ![m].replayed = r, ![m].files = F]
        BY <1>12, <3>2 DEF LoadRun
      <4>b. r = maint[m].run
        OBVIOUS
      <4> HIDE DEF F, r
      <4>a. Gets(m, "journal", F, r)
        BY <4>2 DEF Gets
      <4>3. /\ DOMAIN maint' = Maintainers
            /\ \A p \in Maintainers \ {m} : maint'[p] = maint[p]
            /\ maint'[m] = [step |-> "journal", run |-> maint[m].run, files |-> F, pos |-> 0, replayed |-> r]
        BY <2>1, <4>a, GetsFiles
      <4> QED BY <2>1, <4>1, <4>3, <4>b, GettingTyped DEF MaintSteps
    <3> QED BY <3>1, <3>2
  <2> QED BY <1>2, <1>3, <1>12, <2>2 DEF LoadRun
<1>13. ASSUME NEW m \in Maintainers, WriteWikiJournal(m)  PROVE WikiTyped'
  <2>1. maint[m].step = "journal" /\ maint[m] \in Calls
    BY <1>13, WikiAtWork DEF WriteWikiJournal, MaintAt
  <2>2. CallsOK
    BY <1>13, <2>1, GoingTyped DEF WriteWikiJournal, MaintSteps
  <2>3. maint[m].run \in Runs /\ Journal(maint[m].files) \in [kind : {"journal"}, files : Seq(WikiPairs)]
    BY <2>1 DEF Calls, Journal
  <2>4. wikiJournal' = [wikiJournal EXCEPT ![maint[m].run] = Journal(maint[m].files)]
    BY <1>13 DEF WriteWikiJournal, Journal
  <2>5. /\ DOMAIN wikiJournal' = Runs
        /\ \A r \in Runs : wikiJournal'[r] = NoFile
                             \/ wikiJournal'[r] \in [kind : {"journal"}, files : Seq(WikiPairs)]
    BY <2>3, <2>4 DEF WikiTyped
  <2> QED BY <1>1, <1>13, <2>2, <2>5 DEF WriteWikiJournal, WikiTyped, There
<1>14. ASSUME NEW m \in Maintainers, WriteWikiFile(m)  PROVE WikiTyped'
  <2> DEFINE i == maint[m].pos + 1
             f == maint[m].files[i]
  <2>1. /\ i \in 1 .. Len(maint[m].files) /\ f \in WikiPairs /\ CallOf(m) /\ maint[m].pos \in Nat
        /\ wiki' = [wiki EXCEPT ![f[1]] = f[2]]
        /\ DOMAIN maint' = Maintainers /\ \A p \in Maintainers \ {m} : maint'[p] = maint[p]
        /\ maint'[m] = [maint[m] EXCEPT !.pos = i]
        /\ maint'[m].step = maint[m].step /\ maint'[m].run = maint[m].run
        /\ maint'[m].files = maint[m].files /\ maint'[m].pos = i
        /\ maint'[m].replayed = maint[m].replayed
    BY <1>14, WritesNext
  <2>2. /\ DOMAIN wiki' = WikiKeys
        /\ \A k \in WikiKeys : wiki'[k] = NoFile \/ <<k, wiki'[k]>> \in WikiPairs
        /\ wiki'[IndexKey] # NoFile /\ wiki'[WikiLogKey] # NoFile
    BY <2>1, WritingTyped
  <2>3. i \in Nat /\ i <= Len(maint[m].files)
    BY <2>1
  <2> HIDE DEF i, f
  <2>4. CallOf(m)'
    BY <2>1, <2>3 DEF CallOf, Calls
  <2>5. CallsOK
    BY <2>1, <2>4, OneMoves
  <2> QED BY <1>1, <1>14, <2>2, <2>5 DEF WriteWikiFile, WikiTyped, There
<1>15. ASSUME NEW m \in Maintainers, ClearWikiJournal(m)  PROVE WikiTyped'
  <2> DEFINE s == IF maint[m].step = "write" THEN "release" ELSE "recover"
  <2>1. maint[m].step # "idle" /\ maint[m] \in Calls /\ DOMAIN maint = Maintainers
    BY <1>15, WikiAtWork DEF ClearWikiJournal, WikiTyped
  <2>2. maint' = [maint EXCEPT ![m].step = s, ![m].files = <<>>, ![m].pos = 0]
    BY <1>15 DEF ClearWikiJournal
  <2>3. s \in MaintSteps \ {"idle"} /\ s \notin {"journal", "write"} /\ maint[m].replayed \in Runs
    BY <2>1 DEF MaintSteps, Calls
  <2> HIDE DEF s
  <2>a. Gets(m, s, <<>>, maint[m].replayed)
    BY <2>2 DEF Gets
  <2>4. /\ DOMAIN maint' = Maintainers
        /\ \A p \in Maintainers \ {m} : maint'[p] = maint[p]
        /\ maint'[m] = [step |-> s, run |-> maint[m].run, files |-> <<>>, pos |-> 0, replayed |-> maint[m].replayed]
    BY <2>1, <2>a, GetsFiles
  <2>5. <<>> \in Seq(WikiPairs)
    BY SetOfNone
  <2>6. CallsOK
    BY <2>1, <2>3, <2>4, <2>5, GettingTyped
  <2>7. wikiJournal' = [wikiJournal EXCEPT ![maint[m].replayed] = NoFile]
    BY <1>15 DEF ClearWikiJournal
  <2> QED BY <1>1, <1>15, <2>6, <2>7 DEF ClearWikiJournal, WikiTyped, There
<1>16. ASSUME NEW m \in Maintainers, MaintainerDies(m)  PROVE WikiTyped'
  <2>1. CallsOK
    BY <1>16, StoppingTyped DEF MaintainerDies
  <2> QED BY <1>2, <1>3, <1>4, <1>16, <2>1 DEF MaintainerDies
<1>17. ASSUME NEW p \in Pages, NEW c \in Claims, OutsideWrite(p, c)  PROVE WikiTyped'
  <2>1. /\ DOMAIN wiki' = WikiKeys
        /\ \A k \in WikiKeys : wiki'[k] = NoFile \/ <<k, wiki'[k]>> \in WikiPairs
        /\ wiki'[IndexKey] # NoFile /\ wiki'[WikiLogKey] # NoFile
    BY <1>17, OutsideTyped
  <2>2. crossed' \in BOOLEAN
    BY <1>3, <1>17 DEF OutsideWrite
  <2>3. hitches' \in Nat /\ hitches' <= MaxHitches /\ contract <= hitches' + 1
    BY <1>3, <1>4, <1>17 DEF OutsideWrite, WikiTyped
  <2> QED BY <1>1, <1>17, <2>1, <2>2, <2>3 DEF OutsideWrite, WikiTyped, There, CallOf
<1>18. ASSUME Upgrade  PROVE WikiTyped'
  <2>1. /\ hitches' \in Nat /\ hitches' <= MaxHitches
        /\ contract' \in Nat /\ 1 <= contract' /\ contract' <= hitches' + 1
    BY <1>3, <1>4, <1>18 DEF Upgrade, WikiTyped
  <2> QED BY <1>1, <1>18, <2>1 DEF Upgrade, WikiTyped, There, CallOf
<1> HIDE DEF CallsOK
<1> QED BY <1>5, <1>6, <1>7, <1>8, <1>9, <1>10, <1>11, <1>12, <1>13, <1>14, <1>15, <1>16, <1>17, <1>18
      DEF WikiNext
-----------------------------------------------------------------------------
\* What holds until the lock is removed under a live holder is kept.

\* Only one process is in a run.
LEMMA WikiAlone ==
  ASSUME WikiHeld, NEW m \in Maintainers, InRun(m)
  PROVE  wikiLock = m /\ \A p \in Maintainers \ {m} : ~InRun(p)
BY DEF WikiHeld

\* Nothing is asked of a process that is not in a run.
LEMMA OutOfRun ==
  ASSUME NEW p \in Maintainers, ~InRun(p)'
  PROVE  CallSound(p)'
BY DEF InRun, CallSound, MaintAt

\* Pages that a file was written to still only gain.
LEMMA MergeOne ==
  ASSUME WikiTyped, NEW F, F \subseteq WikiPairs, Merges(F, wiki), NEW f \in F,
         wiki' = [wiki EXCEPT ![f[1]] = f[2]]
  PROVE  Merges(F, wiki')
<1>1. f[1] \in WikiKeys /\ DOMAIN wiki = WikiKeys
  BY PairIs DEF WikiTyped
<1>2. wiki'[f[1]] = f[2] /\ \A k \in WikiKeys \ {f[1]} : wiki'[k] = wiki[k]
  BY <1>1
<1> SUFFICES ASSUME NEW g \in F, NEW p \in Pages, g[1] = PageKey(p)
             PROVE  /\ wiki'[PageKey(p)] # NoFile => /\ wiki'[PageKey(p)].claims \subseteq g[2].claims
                                                     /\ wiki'[PageKey(p)].sources \subseteq g[2].sources
                    /\ \A h \in F : h[1] = g[1] => h = g
  BY DEF Merges
<1>3. \A h \in F : h[1] = g[1] => h = g
  BY DEF Merges
<1>4. CASE f[1] = PageKey(p)
  BY <1>2, <1>3, <1>4
<1>5. CASE f[1] # PageKey(p)
  <2>1. wiki'[PageKey(p)] = wiki[PageKey(p)]
    BY <1>2, <1>5, KeyKinds
  <2> QED BY <1>3, <2>1 DEF Merges
<1> QED BY <1>4, <1>5

\* Steps that leave the files alone.
LEMMA WikiQuietStep ==
  ASSUME Maintained, UNCHANGED <<wiki, wikiJournal, crossed>>, NEW m \in Maintainers,
         \A p \in Maintainers \ {m} : maint'[p] = maint[p], CallSound(m)', WikiHeld'
  PROVE  Maintained'
<1>1. OneWikiJournal' /\ WikiRecorded'
  BY DEF Maintained, OneWikiJournal, WikiRecorded, Pending, There
<1>2. JournalsSound'
  BY DEF Maintained, JournalsSound, Pending
<1>3. ASSUME NEW p \in Maintainers \ {m}  PROVE CallSound(p)'
  BY <1>3 DEF Maintained, CallSound, MaintAt, Files, Pending, WrittenOf, There
<1> QED BY <1>1, <1>2, <1>3 DEF Maintained

\* A process that comes to, waits for, looks after or leaves the lock.
LEMMA WikiLockSteps ==
  ASSUME WikiTyped, Maintained, ~wikiStolen', NEW m \in Maintainers,
         \/ \E r \in due : BeginRun(m, r)
         \/ TakeWikiLock(m) \/ FindStaleWikiLock(m) \/ RemoveStaleWikiLock(m)
         \/ MaintTimesOut(m) \/ ReleaseWikiLock(m) \/ MaintainerDies(m)
  PROVE  Maintained'
<1>0. "free" \notin Maintainers /\ "dead" \notin Maintainers /\ WikiHeld
  BY WikiAssumption DEF Maintained
<1>1. CASE \E r \in due : BeginRun(m, r)
  <2>1. /\ maint'[m].step = "lock" /\ \A p \in Maintainers \ {m} : maint'[p] = maint[p]
        /\ UNCHANGED <<wiki, wikiJournal, crossed>> /\ wikiLock' = wikiLock
    BY <1>1 DEF BeginRun, NewMaint, WikiTyped, wikiFiles
  <2>2. ~InRun(m)'
    BY <2>1 DEF InRun
  <2>3. WikiHeld'
    BY <1>0, <2>1, <2>2 DEF WikiHeld, InRun
  <2> QED BY <2>1, <2>2, <2>3, OutOfRun, WikiQuietStep
<1>2. CASE TakeWikiLock(m)
  <2>1. /\ maint'[m].step = "recover" /\ \A p \in Maintainers \ {m} : maint'[p] = maint[p]
        /\ UNCHANGED <<wiki, wikiJournal, crossed>> /\ wikiLock' = m /\ wikiLock = "free"
    BY <1>2, GoesTo DEF TakeWikiLock, MaintAt, wikiFiles
  <2>2. CallSound(m)'
    BY <2>1 DEF CallSound, MaintAt
  <2>3. WikiHeld'
    BY <1>0, <2>1 DEF WikiHeld, InRun
  <2> QED BY <2>1, <2>2, <2>3, WikiQuietStep
<1>3. CASE FindStaleWikiLock(m)
  <2>1. /\ maint'[m].step = "unlock" /\ \A p \in Maintainers \ {m} : maint'[p] = maint[p]
        /\ UNCHANGED <<wiki, wikiJournal, crossed>> /\ wikiLock' = wikiLock
    BY <1>3, GoesTo DEF FindStaleWikiLock, MaintAt, wikiFiles
  <2>2. ~InRun(m)'
    BY <2>1 DEF InRun
  <2>3. WikiHeld'
    BY <1>0, <2>1, <2>2 DEF WikiHeld, InRun
  <2> QED BY <2>1, <2>2, <2>3, OutOfRun, WikiQuietStep
<1>4. CASE RemoveStaleWikiLock(m)
  <2>1. /\ maint'[m].step = "lock" /\ \A p \in Maintainers \ {m} : maint'[p] = maint[p]
        /\ UNCHANGED <<wiki, wikiJournal, crossed>> /\ wikiLock \notin Maintainers
    BY <1>4, GoesTo DEF RemoveStaleWikiLock, MaintAt, wikiFiles
  <2>2. ~InRun(m)'
    BY <2>1 DEF InRun
  <2>3. WikiHeld'
    BY <1>0, <2>1, <2>2 DEF WikiHeld, InRun
  <2> QED BY <2>1, <2>2, <2>3, OutOfRun, WikiQuietStep
<1>5. CASE MaintTimesOut(m)
  <2>1. /\ maint'[m] = NoMaint /\ \A p \in Maintainers \ {m} : maint'[p] = maint[p]
        /\ UNCHANGED <<wiki, wikiJournal, crossed>> /\ wikiLock' = wikiLock
    BY <1>5, StoppingTyped DEF MaintTimesOut, wikiFiles
  <2>2. ~InRun(m)'
    BY <2>1 DEF InRun, NoMaint
  <2>3. WikiHeld'
    BY <1>0, <2>1, <2>2 DEF WikiHeld, InRun
  <2> QED BY <2>1, <2>2, <2>3, OutOfRun, WikiQuietStep
<1>6. CASE ReleaseWikiLock(m)
  <2>1. /\ maint'[m] = NoMaint /\ \A p \in Maintainers \ {m} : maint'[p] = maint[p]
        /\ UNCHANGED <<wiki, wikiJournal, crossed>> /\ InRun(m)
    BY <1>6, StoppingTyped DEF ReleaseWikiLock, wikiFiles, MaintAt, InRun
  <2>2. ~InRun(m)'
    BY <2>1 DEF InRun, NoMaint
  <2>3. WikiHeld'
    BY <1>0, <2>1, <2>2, WikiAlone DEF WikiHeld, InRun
  <2> QED BY <2>1, <2>2, <2>3, OutOfRun, WikiQuietStep
<1>7. CASE MaintainerDies(m)
  <2>1. /\ maint'[m] = NoMaint /\ \A p \in Maintainers \ {m} : maint'[p] = maint[p]
        /\ UNCHANGED <<wiki, wikiJournal, crossed>>
        /\ wikiLock' = IF wikiLock = m THEN "dead" ELSE wikiLock
    BY <1>7, StoppingTyped DEF MaintainerDies, wikiFiles
  <2>2. ~InRun(m)'
    BY <2>1 DEF InRun, NoMaint
  <2>3. WikiHeld'
    BY <1>0, <2>1, <2>2 DEF WikiHeld, InRun
  <2> QED BY <2>1, <2>2, <2>3, OutOfRun, WikiQuietStep
<1> QED BY <1>1, <1>2, <1>3, <1>4, <1>5, <1>6, <1>7

\* A process in a run that reads: it holds the lock before and after.
LEMMA StillHeld ==
  ASSUME WikiHeld, NEW m \in Maintainers, InRun(m), wikiLock' = wikiLock,
         \A p \in Maintainers \ {m} : maint'[p] = maint[p]
  PROVE  WikiHeld' /\ \A p \in Maintainers \ {m} : ~InRun(p)' /\ CallSound(p)'
<1>1. \A p \in Maintainers \ {m} : ~InRun(p)'
  BY WikiAlone DEF InRun
<1> QED BY <1>1, OutOfRun, WikiAlone DEF WikiHeld
\* Looking for a journal.
LEMMA RecoverStep ==
  ASSUME WikiTyped, Maintained, NEW m \in Maintainers, RecoverNext(m)
  PROVE  Maintained'
<1> DEFINE left == {r \in Runs : wikiJournal[r] # NoFile}
<1>1. InRun(m) /\ maint[m].step # "idle" /\ WikiHeld
  BY DEF RecoverNext, MaintAt, InRun, Maintained
<1>2. UNCHANGED <<wiki, wikiJournal, crossed>> /\ wikiLock' = wikiLock
  BY DEF RecoverNext, wikiFiles
<1>3. CASE left = {}
  <2>1. MaintGo(m, "load")
    BY <1>3 DEF RecoverNext
  <2>2. maint'[m].step = "load" /\ \A p \in Maintainers \ {m} : maint'[p] = maint[p]
    BY <1>1, <2>1, GoesTo
  <2>3. \A r \in Runs : ~Pending(r)'
    BY <1>2, <1>3 DEF Pending
  <2>4. CallSound(m)'
    BY <2>2, <2>3 DEF CallSound, MaintAt
  <2> QED BY <1>1, <1>2, <2>2, <2>4, StillHeld, WikiQuietStep
<1>4. CASE left # {}
  <2>1. PICK r \in Runs : r = Some(left) /\ wikiJournal[r] # NoFile
    BY <1>4 DEF Some
  <2> DEFINE files == wikiJournal[r].files
  <2>2. wikiJournal[r] = Journal(files)
    <3>1. wikiJournal[r] \in [kind : {"journal"}, files : Seq(WikiPairs)]
      BY <2>1 DEF WikiTyped
    <3> QED BY <3>1 DEF Journal
  <2>3. maint' = [maint EXCEPT ![m].step = "replay", ![m].replayed = r,
                               ![m].files = files, ![m].pos = 0]
    BY <1>4, <2>1 DEF RecoverNext
  <2> HIDE DEF files
  <2>4. Gets(m, "replay", files, r)
    BY <2>3 DEF Gets
  <2>5. /\ \A p \in Maintainers \ {m} : maint'[p] = maint[p]
        /\ maint'[m] = [step |-> "replay", run |-> maint[m].run, files |-> files,
                        pos |-> 0, replayed |-> r]
    BY <1>1, <2>4, GetsFiles
  <2>6. CallSound(m)'
    <3>1. WrittenOf(m)'
      BY <2>5 DEF WrittenOf
    <3> QED BY <1>2, <2>2, <2>5, <3>1 DEF CallSound, MaintAt
  <2> QED BY <1>1, <1>2, <2>5, <2>6, StillHeld, WikiQuietStep
<1> QED BY <1>3, <1>4

\* Deciding what to write.
LEMMA LoadStep ==
  ASSUME WikiTyped, Maintained, NEW m \in Maintainers, LoadRun(m)
  PROVE  Maintained'
<1> DEFINE r == maint[m].run
           F == IF ~There(RunKey(r)) THEN NewRunFiles(r)
                ELSE IF BrowserReusable(r) THEN <<>>
                ELSE <<<<RunKey(r), RunRecord(r)>>>> \o BrowserFiles(r)
<1>1. InRun(m) /\ maint[m].step # "idle" /\ WikiHeld /\ WikiRecorded /\ r \in Runs
  BY WikiAtWork DEF LoadRun, MaintAt, InRun, Maintained, Calls
<1>2. UNCHANGED <<wiki, wikiJournal, crossed>> /\ wikiLock' = wikiLock
  BY DEF LoadRun, wikiFiles
<1>3. \A q \in Runs : ~Pending(q)
  BY DEF LoadRun, MaintAt, Maintained, CallSound
<1>4. CASE There(RunKey(r)) /\ (~There(BrowserKey(r)) \/ ~MatchesRun(r))
  <2>1. MaintGo(m, "release")
    BY <1>4 DEF LoadRun
  <2>2. maint'[m].step = "release" /\ \A p \in Maintainers \ {m} : maint'[p] = maint[p]
    BY <1>1, <2>1, GoesTo
  <2>3. CallSound(m)'
    BY <2>2 DEF CallSound, MaintAt
  <2> QED BY <1>1, <1>2, <2>2, <2>3, StillHeld, WikiQuietStep
<1>5. CASE ~(There(RunKey(r)) /\ (~There(BrowserKey(r)) \/ ~MatchesRun(r)))
  <2>1. Plan(r, ToSet(F), wiki) /\ Merges(ToSet(F), wiki)
    <3>1. CASE ~There(RunKey(r))
      BY <1>1, <1>3, <3>1, NewPlan
    <3>2. CASE There(RunKey(r)) /\ BrowserReusable(r)
      <4>1. ToSet(F) = {}
        BY <3>2, SetOfNone
      <4>2. Plan(r, {}, wiki) /\ Merges({}, wiki)
        BY <1>1, <1>3, <1>5, <3>2, AgainPlan
      <4> HIDE DEF F
      <4> QED BY <4>1, <4>2
    <3>3. CASE There(RunKey(r)) /\ ~BrowserReusable(r)
      <4>1. ToSet(F) = {RunFile(r), BrowserFile(r)}
        BY <1>1, <3>3, AgainFiles
      <4>2. Plan(r, {RunFile(r), BrowserFile(r)}, wiki) /\ Merges({RunFile(r), BrowserFile(r)}, wiki)
        BY <1>1, <1>3, <1>5, <3>3, AgainPlan
      <4> HIDE DEF F
      <4> QED BY <4>1, <4>2
    <3> QED BY <3>1, <3>2, <3>3
  <2>2. maint' = [maint EXCEPT ![m].step = "journal", ![m].pos = 0, ![m].replayed = r, ![m].files = F]
    BY <1>5 DEF LoadRun
  <2>3. r = maint[m].run
    OBVIOUS
  <2> HIDE DEF F, r
  <2>4. Gets(m, "journal", F, r)
    BY <2>2 DEF Gets
  <2>5. /\ \A p \in Maintainers \ {m} : maint'[p] = maint[p]
        /\ maint'[m] = [step |-> "journal", run |-> maint[m].run, files |-> F, pos |-> 0, replayed |-> r]
    BY <1>1, <2>4, GetsFiles
  <2>6. CallSound(m)'
    <3>1. /\ maint'[m].step = "journal" /\ maint'[m].run = r /\ maint'[m].files = F /\ maint'[m].pos = 0
      BY <2>3, <2>5
    <3>2. \A q \in Runs : ~Pending(q)'
      BY <1>2, <1>3 DEF Pending
    <3> QED BY <1>2, <2>1, <3>1, <3>2 DEF CallSound, MaintAt, Files
  <2> QED BY <1>1, <1>2, <2>5, <2>6, StillHeld, WikiQuietStep
<1> QED BY <1>4, <1>5

\* Writing the journal.
LEMMA WikiJournalStep ==
  ASSUME WikiTyped, Maintained, NEW m \in Maintainers, WriteWikiJournal(m)
  PROVE  Maintained'
<1> DEFINE r == maint[m].run
<1>1. /\ InRun(m) /\ maint[m].step = "journal" /\ WikiHeld /\ WikiRecorded /\ r \in Runs
      /\ maint[m].replayed = r /\ maint[m].pos = 0
  BY WikiAtWork DEF WriteWikiJournal, MaintAt, InRun, Maintained, Calls, CallOf, CallSound
<1>2. UNCHANGED <<wiki, crossed>> /\ wikiLock' = wikiLock
  BY DEF WriteWikiJournal
<1>3. \A q \in Runs : ~Pending(q)
  BY <1>1 DEF Maintained, CallSound
<1>4. Plan(r, Files(m), wiki) /\ (~crossed => Merges(Files(m), wiki))
  BY <1>1 DEF Maintained, CallSound, MaintAt
<1>5. wikiJournal'[r] = Journal(maint[m].files) /\ \A q \in Runs \ {r} : wikiJournal'[q] = wikiJournal[q]
  BY <1>1 DEF WriteWikiJournal, Journal, WikiTyped
<1>6. /\ \A p \in Maintainers \ {m} : maint'[p] = maint[p]
      /\ maint'[m].step = "write" /\ maint'[m].run = r /\ maint'[m].files = maint[m].files
      /\ maint'[m].pos = maint[m].pos /\ maint'[m].replayed = maint[m].replayed
  BY <1>1, GoesTo DEF WriteWikiJournal
<1> HIDE DEF r
<1>7. \A q \in Runs : Pending(q)' => q = r
  BY <1>3, <1>5 DEF Pending
<1>8. OneWikiJournal'
  BY <1>7 DEF OneWikiJournal
<1>9. JournalsSound'
  <2>1. wikiJournal'[r].files = maint[m].files
    BY <1>5 DEF Journal
  <2>2. ASSUME NEW q \in Runs, wikiJournal'[q] # NoFile
        PROVE  /\ Plan(q, ToSet(wikiJournal'[q].files), wiki')
               /\ ~crossed' => Merges(ToSet(wikiJournal'[q].files), wiki')
    <3>1. q = r
      BY <1>7, <2>2 DEF Pending
    <3> QED BY <1>2, <1>4, <2>1, <3>1 DEF Files
  <2> QED BY <2>2 DEF JournalsSound, Pending
<1>10. WikiRecorded'
  BY <1>1, <1>2, <1>3 DEF WikiRecorded, There, Pending
<1>11. CallSound(m)'
  <2>1. WrittenOf(m)'
    BY <1>1, <1>6 DEF WrittenOf
  <2> QED BY <1>1, <1>5, <1>6, <2>1 DEF CallSound, MaintAt
<1> QED BY <1>1, <1>2, <1>6, <1>8, <1>9, <1>10, <1>11, StillHeld DEF Maintained
\* Writing the next file.
LEMMA FileStep ==
  ASSUME WikiTyped, Maintained, NEW m \in Maintainers, WriteWikiFile(m)
  PROVE  Maintained'
<1> DEFINE r == maint[m].replayed
           files == maint[m].files
           F == ToSet(files)
           i == maint[m].pos + 1
           f == files[i]
<1>1. /\ i \in 1 .. Len(files) /\ f \in WikiPairs /\ f \in F
      /\ maint[m].pos \in Nat /\ CallOf(m) /\ wiki' = [wiki EXCEPT ![f[1]] = f[2]]
      /\ \A p \in Maintainers \ {m} : maint'[p] = maint[p]
      /\ maint'[m].step = maint[m].step /\ maint'[m].run = maint[m].run
      /\ maint'[m].files = files /\ maint'[m].pos = i /\ maint'[m].replayed = r
  BY WritesNext DEF Files
<1>2. maint[m].step \in {"write", "replay"} /\ UNCHANGED <<wikiJournal, crossed>> /\ wikiLock' = wikiLock
  BY DEF WriteWikiFile
<1>3. InRun(m) /\ WikiHeld /\ r \in Runs /\ maint[m].pos \in Nat
  BY <1>1, <1>2 DEF InRun, Maintained, CallOf, Calls
<1>4. wikiJournal[r] = Journal(files) /\ WrittenOf(m)
  BY <1>2 DEF Maintained, CallSound
<1>5. Pending(r) /\ wikiJournal[r].files = files
  BY <1>4 DEF Pending, Journal, NoFile
<1>6. \A q \in Runs : Pending(q) => q = r
  BY <1>3, <1>5 DEF Maintained, OneWikiJournal
<1>7. Plan(r, F, wiki) /\ (~crossed => Merges(F, wiki))
  BY <1>3, <1>5 DEF Maintained, JournalsSound
<1>8. \A j \in 1 .. maint[m].pos : files[j] \in F
  <2>1. files \in Seq(WikiPairs) /\ maint[m].pos <= Len(files) /\ Len(files) \in Nat
    BY <1>1 DEF CallOf, Calls
  <2>2. \A j \in 1 .. Len(files) : files[j] \in F
    BY <2>1, SetOfSeq
  <2>3. \A j \in 1 .. maint[m].pos : j \in 1 .. Len(files)
    BY <1>3, <2>1
  <2> HIDE DEF files
  <2> QED BY <2>2, <2>3
<1>a. r = maint[m].replayed /\ files = maint[m].files /\ i = maint[m].pos + 1 /\ f = files[i] /\ F = ToSet(files)
  OBVIOUS
<1> HIDE DEF r, files, F, i, f
<1> DEFINE w == wiki'
<1>9. /\ Plan(r, F, w)
      /\ \A k \in WikiKeys : There(k) => w[k] # NoFile
      /\ \A q \in Runs \ {r} :
           /\ w[RunKey(q)] = wiki[RunKey(q)]
           /\ WholeIn(q, wiki) => WholeIn(q, w)
           /\ ~There(RunKey(q)) /\ NotIn(q, wiki[WikiLogKey].runs) => NotIn(q, w[WikiLogKey].runs)
  BY <1>1, <1>3, <1>7, WriteOne
<1>10. ~crossed => Merges(F, w)
  <2>1. F \subseteq WikiPairs
    BY <1>7 DEF Plan
  <2> QED BY <1>1, <1>7, <2>1, MergeOne
<1>11. f[1] \in WikiKeys /\ f[2] # NoFile /\ w[f[1]] = f[2] /\ \A k \in WikiKeys \ {f[1]} : w[k] = wiki[k]
  BY <1>1, PairIs DEF WikiTyped
<1>12. OneWikiJournal'
  BY <1>2 DEF Maintained, OneWikiJournal, Pending
<1>13. JournalsSound'
  <2>1. ASSUME NEW q \in Runs, wikiJournal'[q] # NoFile
        PROVE  /\ Plan(q, ToSet(wikiJournal'[q].files), wiki')
               /\ ~crossed' => Merges(ToSet(wikiJournal'[q].files), wiki')
    <3>1. q = r /\ ToSet(wikiJournal'[q].files) = F
      BY <1>2, <1>5, <1>6, <1>a, <2>1 DEF Pending
    <3> QED BY <1>2, <1>9, <1>10, <3>1
  <2> QED BY <2>1 DEF JournalsSound, Pending
<1>14. WikiRecorded'
  <2>1. ASSUME NEW q \in Runs, wikiJournal'[q] = NoFile
        PROVE  IF wiki'[RunKey(q)] # NoFile THEN WholeIn(q, wiki') ELSE NotIn(q, wiki'[WikiLogKey].runs)
    <3>1. q \in Runs \ {r} /\ ~Pending(q)
      BY <1>2, <1>5, <2>1 DEF Pending
    <3>2. IF There(RunKey(q)) THEN WholeIn(q, wiki) ELSE NotIn(q, wiki[WikiLogKey].runs)
      BY <3>1 DEF Maintained, WikiRecorded
    <3> QED BY <1>9, <3>1, <3>2 DEF There
  <2> QED BY <2>1 DEF WikiRecorded, Pending, There
<1>15. CallSound(m)'
  <2>1. ASSUME NEW j \in 1 .. i
        PROVE  w[files[j][1]] # NoFile /\ (files[j][1] \in Telling(r) => w[files[j][1]] = files[j][2])
    <3>1. CASE j = i
      BY <1>11, <1>a, <3>1
    <3>2. CASE j # i
      <4>1. j \in 1 .. maint[m].pos
        BY <1>3, <1>a, <2>1, <3>2
      <4>2. files[j] \in F /\ There(files[j][1]) /\ (files[j][1] \in Telling(r) => wiki[files[j][1]] = files[j][2])
        BY <1>4, <1>8, <1>a, <4>1 DEF WrittenOf
      <4>3. files[j][1] \in WikiKeys
        BY <1>7, <4>2, PairIs DEF Plan
      <4>4. w[files[j][1]] # NoFile
        BY <1>9, <4>2, <4>3
      <4>5. ASSUME files[j][1] \in Telling(r)  PROVE w[files[j][1]] = files[j][2]
        <5>1. CASE files[j][1] = f[1]
          <6>1. files[j] = f
            BY <1>1, <1>7, <4>2, <4>5, <5>1 DEF Plan
          <6> QED BY <1>11, <6>1
        <5>2. CASE files[j][1] # f[1]
          BY <1>11, <4>2, <4>3, <4>5, <5>2
        <5> QED BY <5>1, <5>2
      <4> QED BY <4>4, <4>5
    <3> QED BY <3>1, <3>2
  <2>2. WrittenOf(m)'
    BY <1>1, <2>1 DEF WrittenOf, There, w
  <2> QED BY <1>1, <1>2, <1>4, <2>2 DEF CallSound, MaintAt
<1> QED BY <1>1, <1>2, <1>3, <1>12, <1>13, <1>14, <1>15, StillHeld DEF Maintained

\* Removing the journal.
LEMMA WikiClearStep ==
  ASSUME WikiTyped, Maintained, NEW m \in Maintainers, ClearWikiJournal(m)
  PROVE  Maintained'
<1> DEFINE r == maint[m].replayed
           files == maint[m].files
           F == ToSet(files)
           s == IF maint[m].step = "write" THEN "release" ELSE "recover"
<1>1. /\ maint[m].step \in {"write", "replay"} /\ maint[m].pos = Len(files)
      /\ UNCHANGED <<wiki, crossed>> /\ wikiLock' = wikiLock
      /\ wikiJournal' = [wikiJournal EXCEPT ![r] = NoFile]
      /\ maint' = [maint EXCEPT ![m].step = s, ![m].files = <<>>, ![m].pos = 0]
  BY DEF ClearWikiJournal
<1>2. InRun(m) /\ maint[m].step # "idle" /\ WikiHeld /\ r \in Runs /\ files \in Seq(WikiPairs)
  BY <1>1, WikiAtWork DEF InRun, Maintained, Calls
<1>3. wikiJournal[r] = Journal(files) /\ WrittenOf(m)
  BY <1>1 DEF Maintained, CallSound
<1>4. Pending(r) /\ wikiJournal[r].files = files
  BY <1>3 DEF Pending, Journal, NoFile
<1>5. \A q \in Runs : Pending(q) => q = r
  BY <1>2, <1>4 DEF Maintained, OneWikiJournal
<1>6. Plan(r, F, wiki)
  BY <1>2, <1>4 DEF Maintained, JournalsSound
<1>7. \A g \in F : There(g[1]) /\ (g[1] \in Telling(r) => wiki[g[1]] = g[2])
  <2> SUFFICES ASSUME NEW g \in F PROVE There(g[1]) /\ (g[1] \in Telling(r) => wiki[g[1]] = g[2])
    OBVIOUS
  <2>1. PICK j \in 1 .. Len(files) : files[j] = g
    BY <1>2, SetOfSeq
  <2> QED BY <1>1, <1>3, <2>1 DEF WrittenOf
<1>a. s \in {"release", "recover"} /\ r = maint[m].replayed
  OBVIOUS
<1> HIDE DEF F, files, s, r
<1>8. WholeIn(r, wiki)
  BY <1>2, <1>6, <1>7, PlanDone
<1>b. Gets(m, s, <<>>, r)
  BY <1>1, <1>a DEF Gets
<1>9. /\ \A p \in Maintainers \ {m} : maint'[p] = maint[p]
      /\ maint'[m] = [step |-> s, run |-> maint[m].run, files |-> <<>>, pos |-> 0, replayed |-> r]
  BY <1>2, <1>b, GetsFiles
<1>10. \A q \in Runs : ~Pending(q)'
  BY <1>1, <1>5 DEF Pending, WikiTyped
<1>11. OneWikiJournal' /\ JournalsSound'
  BY <1>10 DEF OneWikiJournal, JournalsSound
<1>12. WikiRecorded'
  <2>1. ASSUME NEW q \in Runs
        PROVE  IF There(RunKey(q)) THEN WholeIn(q, wiki) ELSE NotIn(q, wiki[WikiLogKey].runs)
    <3>1. CASE q = r
      BY <1>8, <3>1 DEF WholeIn, There
    <3>2. CASE q # r
      BY <1>5, <3>2 DEF Maintained, WikiRecorded
    <3> QED BY <3>1, <3>2
  <2> QED BY <1>1, <2>1 DEF WikiRecorded, There
<1>13. CallSound(m)'
  BY <1>9, <1>a DEF CallSound, MaintAt
<1> QED BY <1>1, <1>2, <1>9, <1>11, <1>12, <1>13, StillHeld DEF Maintained
\* A page filed under from outside.
LEMMA OutsideStep ==
  ASSUME WikiTyped, Maintained, NEW p \in Pages, NEW c \in Claims, OutsideWrite(p, c)
  PROVE  Maintained'
<1> DEFINE w == wiki'
<1>1. UNCHANGED <<wikiJournal, wikiLock, maint>>
  BY DEF OutsideWrite
<1>2. ~crossed' => ~crossed /\ (\A m \in Maintainers : MaintAt(m, "idle")) /\ (\A r \in Runs : ~Pending(r))
  BY DEF OutsideWrite, Pending
<1>3. /\ \A k \in WikiKeys : k # PageKey(p) /\ k # ClaimKey(c) => w[k] = wiki[k]
      /\ w[PageKey(p)] \in PageRecs /\ w[ClaimKey(c)] \in ClaimRecs
  BY OutsideIs, OutsideTyped
<1>4. \A v : v \in PageRecs \/ v \in ClaimRecs => v # NoFile
  BY DEF PageRecs, ClaimRecs, NoFile
<1>5. \A k \in WikiKeys : wiki[k] # NoFile => w[k] # NoFile
  BY <1>3, <1>4
<1>6. \A k \in WikiKeys : k[1] \in {"run", "index", "log"} => w[k] = wiki[k]
  <2>1. \A k \in WikiKeys : k[1] \in {"run", "index", "log"} => k # PageKey(p) /\ k # ClaimKey(c)
    BY DEF PageKey, ClaimKey
  <2> QED BY <1>3, <2>1
<1>7. /\ \A r \in Runs : RunKey(r) \in WikiKeys /\ RunKey(r)[1] = "run"
      /\ IndexKey \in WikiKeys /\ IndexKey[1] = "index" /\ WikiLogKey \in WikiKeys /\ WikiLogKey[1] = "log"
  BY KeyKinds
<1>8. (\A r \in Runs : w[RunKey(r)] = wiki[RunKey(r)]) /\ w[IndexKey] = wiki[IndexKey] /\ w[WikiLogKey] = wiki[WikiLogKey]
  BY <1>6, <1>7
<1> HIDE DEF w
<1>9. \A r \in Runs : \A F : Plan(r, F, wiki) => Plan(r, F, w)
  BY <1>5, <1>6, PlanKept
<1>10. \A r \in Runs : WholeIn(r, wiki) => WholeIn(r, w)
  <2> SUFFICES ASSUME NEW r \in Runs, WholeIn(r, wiki) PROVE WholeIn(r, w)
    OBVIOUS
  <2>1. Once(r, w[WikiLogKey].runs)
    BY <1>8 DEF WholeIn
  <2> QED BY <1>5, <1>8, <2>1, WholeKept
<1>11. WikiHeld' /\ OneWikiJournal'
  BY <1>1 DEF Maintained, WikiHeld, InRun, OneWikiJournal, Pending
<1>12. JournalsSound'
  <2>1. ASSUME NEW q \in Runs, wikiJournal[q] # NoFile  PROVE crossed' /\ Plan(q, ToSet(wikiJournal[q].files), w)
    BY <1>2, <1>9, <2>1 DEF Maintained, JournalsSound, Pending
  <2> QED BY <1>1, <2>1 DEF JournalsSound, Pending, w
<1>13. WikiRecorded'
  <2>1. ASSUME NEW q \in Runs, wikiJournal[q] = NoFile
        PROVE  IF w[RunKey(q)] # NoFile THEN WholeIn(q, w) ELSE NotIn(q, w[WikiLogKey].runs)
    BY <1>8, <1>10, <2>1 DEF Maintained, WikiRecorded, Pending, There
  <2> QED BY <1>1, <2>1 DEF WikiRecorded, Pending, There, w
<1>14. ASSUME NEW m \in Maintainers  PROVE CallSound(m)'
  <2>1. CASE maint[m].step = "idle"
    BY <1>1, <2>1, OutOfRun DEF InRun
  <2>2. CASE maint[m].step # "idle"
    <3>1. CallSound(m) /\ crossed' /\ CallOf(m) /\ maint[m].run \in Runs
      BY <1>2, <2>2, WikiAtWork DEF Maintained, MaintAt, Calls
    <3>2. MaintAt(m, "journal") => maint[m].pos = 0 /\ Plan(maint[m].run, Files(m), w)
      BY <1>9, <3>1 DEF CallSound
    <3>3. maint[m].step \in {"write", "replay"} =>
            \A i \in 1 .. maint[m].pos :
              w[maint[m].files[i][1]] # NoFile
              /\ (maint[m].files[i][1] \in Telling(maint[m].replayed) =>
                    w[maint[m].files[i][1]] = maint[m].files[i][2])
      <4> SUFFICES ASSUME maint[m].step \in {"write", "replay"}, NEW i \in 1 .. maint[m].pos
                   PROVE  w[maint[m].files[i][1]] # NoFile
                          /\ (maint[m].files[i][1] \in Telling(maint[m].replayed) =>
                                w[maint[m].files[i][1]] = maint[m].files[i][2])
        OBVIOUS
      <4>1. There(maint[m].files[i][1])
            /\ (maint[m].files[i][1] \in Telling(maint[m].replayed) =>
                  wiki[maint[m].files[i][1]] = maint[m].files[i][2])
        BY <3>1 DEF CallSound, WrittenOf
      <4>2. maint[m].files[i] \in WikiPairs
        <5>1. maint[m].files \in Seq(WikiPairs) /\ maint[m].pos \in Nat /\ maint[m].pos <= Len(maint[m].files)
          BY <3>1 DEF CallOf, Calls
        <5>2. i \in 1 .. Len(maint[m].files)
          BY <5>1
        <5> QED BY <5>1, <5>2, SetOfSeq
      <4>3. maint[m].files[i][1] \in WikiKeys
        BY <4>2, PairIs
      <4>4. maint[m].replayed \in Runs
        BY <3>1 DEF CallOf, Calls
      <4>5. \A k \in Telling(maint[m].replayed) : w[k] = wiki[k]
        BY <1>8, <4>4 DEF Telling
      <4> QED BY <1>5, <4>1, <4>3, <4>5 DEF There
    <3> QED BY <1>1, <3>1, <3>2, <3>3 DEF CallSound, MaintAt, Files, Pending, WrittenOf, There, w
  <2> QED BY <2>1, <2>2
<1> QED BY <1>11, <1>12, <1>13, <1>14 DEF Maintained

\* Every step keeps what holds until the lock is taken from a live holder.
LEMMA MaintainedStep ==
  ASSUME WikiTyped, Maintained, WikiNext, ~wikiStolen'
  PROVE  Maintained'
<1>1. CASE \E p \in Pages, c \in Claims : OutsideWrite(p, c)
  BY <1>1, OutsideStep
<1>2. CASE Upgrade
  BY <1>2 DEF Upgrade, wikiFiles, Maintained, WikiHeld, InRun, OneWikiJournal, JournalsSound, WikiRecorded, CallSound,
              Pending, There, MaintAt, Files, WrittenOf
<1>3. ASSUME NEW m \in Maintainers,
             \/ \E r \in due : BeginRun(m, r)
             \/ TakeWikiLock(m) \/ FindStaleWikiLock(m) \/ RemoveStaleWikiLock(m)
             \/ MaintTimesOut(m) \/ ReleaseWikiLock(m) \/ MaintainerDies(m)
      PROVE  Maintained'
  BY <1>3, WikiLockSteps
<1>4. ASSUME NEW m \in Maintainers,
             \/ RecoverNext(m) \/ LoadRun(m)
             \/ WriteWikiJournal(m) \/ WriteWikiFile(m) \/ ClearWikiJournal(m)
      PROVE  Maintained'
  BY <1>4, RecoverStep, LoadStep, WikiJournalStep, FileStep, WikiClearStep
<1> QED BY <1>1, <1>2, <1>3, <1>4 DEF WikiNext

\* A lock that was taken from a live holder stays on record.
LEMMA WikiStolenStays ==
  ASSUME WikiNext, wikiStolen
  PROVE  wikiStolen'
BY DEF WikiNext, BeginRun, TakeWikiLock, FindStaleWikiLock, RemoveStaleWikiLock, MaintTimesOut,
       ReleaseWikiLock, RecoverNext, LoadRun, WriteWikiJournal, WriteWikiFile, ClearWikiJournal,
       MaintainerDies, OutsideWrite, Upgrade
-----------------------------------------------------------------------------
\* Theorems.

\* In every reachable state the types hold, and until the lock is removed under a live
\* holder every journal left behind can be replayed without harm and every run on record
\* without a journal is whole (withWikiMaintenanceLock, recoverPendingWikiMaintenanceJournals,
\* runWikiMaintenanceToStoreLocked).
THEOREM WikiInvariance == WikiSpec => []WikiInv
<1>1. WikiInit => WikiInv
  <2> SUFFICES ASSUME WikiInit PROVE WikiInv
    OBVIOUS
  <2>1. DOMAIN wiki = WikiKeys /\ wikiLock = "free" /\ DOMAIN maint = Maintainers
        /\ (\A m \in Maintainers : maint[m] = NoMaint)
        /\ DOMAIN wikiJournal = Runs /\ (\A r \in Runs : wikiJournal[r] = NoFile)
    BY DEF WikiInit
  <2>2. /\ \A k \in WikiKeys : k # IndexKey /\ k # WikiLogKey => wiki[k] = NoFile
        /\ wiki[IndexKey] = [kind |-> "index", pages |-> {}]
        /\ wiki[WikiLogKey] = [kind |-> "log", runs |-> <<>>]
    BY KeyKinds DEF WikiInit, IndexKey, WikiLogKey
  <2>3. wiki[IndexKey] \in IndexRecs /\ wiki[WikiLogKey] \in LogRecs
    <3>1. <<>> \in Seq(Runs)
      BY SetOfNone
    <3> QED BY <2>2, <3>1 DEF IndexRecs, LogRecs
  <2>4. <<IndexKey, wiki[IndexKey]>> \in WikiPairs /\ <<WikiLogKey, wiki[WikiLogKey]>> \in WikiPairs
    <3>1. /\ IndexKey \in WikiKeys /\ IndexKey[1] = "index"
          /\ WikiLogKey \in WikiKeys /\ WikiLogKey[1] = "log"
      BY KeyKinds
    <3> QED BY <2>3, <3>1, PairOf
  <2>5. There(IndexKey) /\ There(WikiLogKey)
    BY <2>2 DEF There, NoFile
  <2>6. WikiTyped
    <3>1. due \subseteq Runs /\ contract = 1 /\ hitches = 0 /\ wikiStolen = FALSE /\ crossed = FALSE
          /\ MaxHitches \in Nat
      BY WikiAssumption DEF WikiInit
    <3>2. \A k \in WikiKeys : wiki[k] = NoFile \/ <<k, wiki[k]>> \in WikiPairs
      BY <2>2, <2>4
    <3>3. contract \in Nat /\ 1 <= contract /\ contract <= hitches + 1 /\ hitches \in Nat /\ hitches <= MaxHitches
      BY <3>1
    <3>4. wikiLock \in Maintainers \cup {"free", "dead"} /\ wikiStolen \in BOOLEAN /\ crossed \in BOOLEAN
      BY <2>1, <3>1
    <3>5. due \subseteq Runs
      BY <3>1
    <3> QED BY <2>1, <2>5, <3>2, <3>3, <3>4, <3>5 DEF WikiTyped
  <2>7. \A r \in Runs : RunKey(r) \in WikiKeys /\ RunKey(r) # IndexKey /\ RunKey(r) # WikiLogKey
    BY KeyKinds DEF RunKey, IndexKey, WikiLogKey
  <2>8. WikiRecorded
    BY <2>2, <2>7 DEF WikiRecorded, There, NotIn
  <2>9. \A m \in Maintainers : ~InRun(m) /\ CallSound(m)
    BY <2>1 DEF InRun, CallSound, MaintAt, NoMaint
  <2>10. Maintained
    BY <2>1, <2>8, <2>9 DEF Maintained, WikiHeld, OneWikiJournal, JournalsSound, Pending
  <2> QED BY <2>6, <2>10 DEF WikiInv
<1>2. WikiInv /\ [WikiNext]_wikiVars => WikiInv'
  <2> SUFFICES ASSUME WikiInv, [WikiNext]_wikiVars PROVE WikiInv'
    OBVIOUS
  <2>1. CASE WikiNext
    BY <2>1, TypeStep, MaintainedStep, WikiStolenStays DEF WikiInv
  <2>2. CASE UNCHANGED wikiVars
    <3>1. WikiTyped'
      BY <2>2 DEF WikiInv, wikiVars, WikiTyped, There, CallOf
    <3>2. ASSUME Maintained  PROVE Maintained'
      BY <2>2, <3>2 DEF wikiVars, Maintained, WikiHeld, InRun, OneWikiJournal, JournalsSound, WikiRecorded, CallSound,
                        Pending, There, MaintAt, Files, WrittenOf
    <3>3. wikiStolen' = wikiStolen
      BY <2>2 DEF wikiVars
    <3> QED BY <3>1, <3>2, <3>3 DEF WikiInv
  <2> QED BY <2>1, <2>2
<1> QED BY <1>1, <1>2, PTL DEF WikiSpec

\* The run's type invariant.
THEOREM WikiTypesKept == WikiSpec => []WikiTypeOK
<1>1. WikiInv => WikiTypeOK
  <2> SUFFICES ASSUME WikiTyped PROVE WikiTypeOK
    BY DEF WikiInv
  <2>1. \A k \in WikiKeys : wiki[k].kind \in {"none", k[1]}
    <3> SUFFICES ASSUME NEW k \in WikiKeys PROVE wiki[k].kind \in {"none", k[1]}
      OBVIOUS
    <3>1. wiki[k] = NoFile \/ <<k, wiki[k]>> \in WikiPairs
      BY DEF WikiTyped
    <3> QED BY <3>1 DEF WikiPairs, NoFile
  <2>2. \A r \in Runs : wikiJournal[r].kind \in {"none", "journal"}
    BY DEF WikiTyped, NoFile
  <2>3. \A m \in Maintainers : maint[m].step \in MaintSteps
    BY DEF WikiTyped, NoMaint, CallOf, Calls, MaintSteps
  <2>4. contract \in 1 .. (MaxHitches + 1) /\ hitches \in 0 .. MaxHitches
    BY WikiAssumption DEF WikiTyped
  <2> QED BY <2>1, <2>2, <2>3, <2>4 DEF WikiTyped, WikiTypeOK
<1> QED BY <1>1, WikiInvariance, PTL

\* Every run that has a record and no journal is whole, and the log tells of it exactly
\* once, whatever was rerun, replayed or written from outside, as long as the lock was not
\* taken from a live holder (materializeFiles, recoverPendingWikiMaintenanceJournals).
THEOREM RunsWhole == WikiSpec => []WikiWhole
<1>1. WikiInv => WikiWhole
  <2> SUFFICES ASSUME WikiTyped, Maintained, NEW r \in Runs, There(RunKey(r)), wikiJournal[r] = NoFile
               PROVE  /\ EventOf[r].source # NoRef => There(SourceKey(EventOf[r].source))
                      /\ \A p \in wiki[RunKey(r)].pages : There(PageKey(p)) /\ p \in wiki[IndexKey].pages
                      /\ \A c \in wiki[RunKey(r)].claims : There(ClaimKey(c))
                      /\ There(BrowserKey(r))
                      /\ \E i \in DOMAIN wiki[WikiLogKey].runs :
                           \A j \in DOMAIN wiki[WikiLogKey].runs :
                             (wiki[WikiLogKey].runs[j] = r) = (j = i)
    BY DEF WikiInv, WikiWhole
  <2>1. WholeIn(r, wiki)
    BY DEF Maintained, WikiRecorded, Pending
  <2> QED BY <2>1 DEF WholeIn, There, Once
<1> QED BY <1>1, WikiInvariance, PTL

\* A page only gains claims and sources, also from runs that are replayed late, unless
\* another subsystem wrote it during a run or under a journal (buildPage, findExistingPage).
THEOREM PagesGain == WikiSpec => PagesOnlyGain
<1> DEFINE Gain == ~wikiStolen' /\ ~crossed' =>
             \A p \in ThePages : /\ wiki[PageKey(p)].claims \subseteq wiki'[PageKey(p)].claims
                                 /\ wiki[PageKey(p)].sources \subseteq wiki'[PageKey(p)].sources
<1>1. WikiInv /\ [WikiNext]_wikiVars => Gain
  <2> SUFFICES ASSUME WikiInv, [WikiNext]_wikiVars, ~wikiStolen', ~crossed', NEW p \in ThePages
               PROVE  /\ wiki[PageKey(p)].claims \subseteq wiki'[PageKey(p)].claims
                      /\ wiki[PageKey(p)].sources \subseteq wiki'[PageKey(p)].sources
    OBVIOUS
  <2>1. CASE wiki' = wiki
    BY <2>1
  <2>2. ASSUME NEW m \in Maintainers, WriteWikiFile(m)
        PROVE  /\ wiki[PageKey(p)].claims \subseteq wiki'[PageKey(p)].claims
               /\ wiki[PageKey(p)].sources \subseteq wiki'[PageKey(p)].sources
    <3> DEFINE r == maint[m].replayed
               f == maint[m].files[maint[m].pos + 1]
    <3>1. ~wikiStolen /\ ~crossed /\ maint[m].step \in {"write", "replay"}
      BY <2>2 DEF WriteWikiFile
    <3>2. WikiTyped /\ Maintained
      BY <3>1 DEF WikiInv
    <3>3. f \in Files(m) /\ CallOf(m) /\ wiki' = [wiki EXCEPT ![f[1]] = f[2]] /\ f \in WikiPairs
      BY <2>2, <3>2, WritesNext
    <3>4. wikiJournal[r] = Journal(maint[m].files) /\ r \in Runs
      BY <3>1, <3>2, <3>3 DEF Maintained, CallSound, CallOf, Calls
    <3>5. Merges(Files(m), wiki)
      BY <3>1, <3>2, <3>4 DEF Maintained, JournalsSound, Pending, Journal, NoFile, Files
    <3>6. f[1] \in WikiKeys /\ DOMAIN wiki = WikiKeys /\ p \in Pages /\ wiki[PageKey(p)] # NoFile
      BY <3>2, <3>3, PairIs DEF WikiTyped, ThePages, There
    <3> HIDE DEF f
    <3>7. CASE f[1] = PageKey(p)
      BY <3>3, <3>5, <3>6, <3>7 DEF Merges
    <3>8. CASE f[1] # PageKey(p)
      BY <3>3, <3>6, <3>8
    <3> QED BY <3>7, <3>8
  <2>3. ASSUME NEW q \in Pages, NEW c \in Claims, OutsideWrite(q, c)
        PROVE  /\ wiki[PageKey(p)].claims \subseteq wiki'[PageKey(p)].claims
               /\ wiki[PageKey(p)].sources \subseteq wiki'[PageKey(p)].sources
    <3>1. /\ wiki'[PageKey(q)] = [wiki[PageKey(q)] EXCEPT !.claims = @ \cup {c}]
          /\ wiki[PageKey(q)] \in PageRecs
          /\ \A k \in WikiKeys : k # PageKey(q) /\ k # ClaimKey(c) => wiki'[k] = wiki[k]
      BY <2>3, OutsideIs DEF WikiInv
    <3>2. PageKey(p) \in WikiKeys /\ PageKey(p) # ClaimKey(c)
      BY KeyKinds DEF ThePages, PageKey, ClaimKey
    <3>3. CASE p = q
      BY <3>1, <3>3 DEF PageRecs
    <3>4. CASE p # q
      <4>1. PageKey(p) # PageKey(q)
        BY <3>4 DEF PageKey
      <4> QED BY <3>1, <3>2, <4>1
    <3> QED BY <3>3, <3>4
  <2>4. \/ wiki' = wiki \/ (\E m \in Maintainers : WriteWikiFile(m))
        \/ \E q \in Pages, c \in Claims : OutsideWrite(q, c)
    BY DEF WikiNext, wikiVars, wikiFiles, BeginRun, TakeWikiLock, FindStaleWikiLock, RemoveStaleWikiLock,
           MaintTimesOut, ReleaseWikiLock, RecoverNext, LoadRun, WriteWikiJournal, ClearWikiJournal,
           MaintainerDies, Upgrade
  <2> QED BY <2>1, <2>2, <2>3, <2>4
<1> QED BY <1>1, WikiInvariance, PTL DEF WikiSpec, PagesOnlyGain
==============================================================================
