---------------------------- MODULE WikiMaintenance ----------------------------
(***************************************************************************)
(* Wiki maintenance (wiki-maintenance-store.ts): a run takes in a source,  *)
(* a captured query or a finished session, supersedes a claim or lints the *)
(* wiki, and writes pages, claims, its own record, the wiki's index and    *)
(* log, and a compiled memory browser.                                     *)
(*                                                                         *)
(* All runs share one lock directory, which goes stale by its age and is   *)
(* found and removed in two steps.  Under it every journal left behind is  *)
(* replayed before anything is read.  Owner decisions and conversation     *)
(* flows write wiki pages too, under other locks.                          *)
(*                                                                         *)
(* A run's pages stand for all pages built from one event: the first is    *)
(* the topic its claim is filed under.  A page or claim keeps what was     *)
(* merged into it and the run that last wrote it, for all that a later run *)
(* overwrites: summary, times, provenance.                                 *)
(***************************************************************************)
EXTENDS Naturals, FiniteSets, Sequences, SequencesExt

CONSTANTS
  Pages, Claims, Sources,
  Runs,            \* ids of maintenance runs
  EventOf,         \* what each run does: see RunEvents
  Required,        \* pages a lint run asks for
  RunSets,         \* sets of runs that may be asked for together
  Maintainers,     \* processes that run maintenance
  NoRef,           \* no claim, no source
  MaxHitches       \* bound on crashes, slow holders, outside writes and upgrades

RunEvents ==
  [kind : {"ingest", "claim_superseded", "lint_run"}, pages : Seq(Pages),
   source : Sources \cup {NoRef}, claim : Claims \cup {NoRef},
   supersedes : Claims \cup {NoRef}]

ASSUME WikiAssumption ==
  /\ EventOf \in [Runs -> RunEvents] /\ Required \subseteq Pages
  /\ IsFiniteSet(Pages) /\ IsFiniteSet(Claims)
  /\ RunSets \subseteq SUBSET Runs
  /\ NoRef \notin Sources \cup Claims
  /\ Maintainers \cap {"free", "dead"} = {}
  /\ MaxHitches \in Nat

VARIABLES
  wiki,            \* the files: pages, claims, sources, runs, browsers, index and log
  wikiJournal,     \* the journals left behind: the files a run still writes
  wikiLock,        \* "free", "dead" or the process that holds it
  maint,           \* what each process is doing
  due,             \* the runs asked for in this behaviour, each any number of times
  contract,        \* the version of the memory browser the program compiles
  wikiStolen,      \* whether the lock was ever removed under a live holder
  crossed,         \* whether a page was written from outside between a run's reading
                   \* of it and its last write, or under a journal
  hitches          \* crashes, slow holders, outside writes and upgrades so far

wikiVars == <<wiki, wikiJournal, wikiLock, maint, due, contract, wikiStolen, crossed,
              hitches>>
wikiFiles == <<wiki, wikiJournal>>

NoFile == [kind |-> "none"]
PageKey(p) == <<"page", p>>
ClaimKey(c) == <<"claim", c>>
SourceKey(s) == <<"source", s>>
RunKey(r) == <<"run", r>>
BrowserKey(r) == <<"browser", r>>
IndexKey == <<"index", 0>>
WikiLogKey == <<"log", 0>>
WikiKeys ==
  {PageKey(p) : p \in Pages} \cup {ClaimKey(c) : c \in Claims}
    \cup {SourceKey(s) : s \in Sources} \cup {RunKey(r) : r \in Runs}
    \cup {BrowserKey(r) : r \in Runs} \cup {IndexKey, WikiLogKey}

MaintSteps == {"idle", "lock", "unlock", "recover", "replay", "load", "journal", "write", "release"}
NoMaint == [step |-> "idle"]
\* A process at work: its run, the files it writes and how many of them it has written,
\* and the run whose journal it replays.
NewMaint(r) == [step |-> "lock", run |-> r, files |-> <<>>, pos |-> 0, replayed |-> r]

WikiInit ==
  /\ wiki = [k \in WikiKeys |->
       CASE k = IndexKey -> [kind |-> "index", pages |-> {}]
         [] k = WikiLogKey -> [kind |-> "log", runs |-> <<>>]
         [] OTHER -> NoFile]
  /\ wikiJournal = [r \in Runs |-> NoFile]
  /\ wikiLock = "free"
  /\ maint = [p \in Maintainers |-> NoMaint]
  /\ due \in RunSets
  /\ contract = 1
  /\ wikiStolen = FALSE /\ crossed = FALSE /\ hitches = 0

MaintAt(m, step) == maint[m].step = step
MaintGo(m, step) == maint' = [maint EXCEPT ![m].step = step]
There(k) == wiki[k] # NoFile
ThePages == {p \in Pages : There(PageKey(p))}
Some(S) == CHOOSE x \in S : TRUE

-----------------------------------------------------------------------------
\* withWikiMaintenanceLock and recoverPendingWikiMaintenanceJournals.

BeginRun(m, r) ==
  /\ MaintAt(m, "idle")
  /\ maint' = [maint EXCEPT ![m] = NewMaint(r)]
  /\ UNCHANGED <<wikiFiles, wikiLock, contract, wikiStolen, crossed, hitches>>

TakeWikiLock(m) ==
  /\ MaintAt(m, "lock") /\ wikiLock = "free"
  /\ wikiLock' = m
  /\ MaintGo(m, "recover")
  /\ UNCHANGED <<wikiFiles, contract, wikiStolen, crossed, hitches>>

FindStaleWikiLock(m) ==
  /\ MaintAt(m, "lock") /\ wikiLock # "free"
  /\ IF wikiLock = "dead" THEN hitches' = hitches
     ELSE hitches < MaxHitches /\ hitches' = hitches + 1
  /\ MaintGo(m, "unlock")
  /\ UNCHANGED <<wikiFiles, wikiLock, contract, wikiStolen, crossed>>

RemoveStaleWikiLock(m) ==
  /\ MaintAt(m, "unlock")
  /\ wikiLock' = "free"
  /\ wikiStolen' = (wikiStolen \/ wikiLock \in Maintainers)
  /\ MaintGo(m, "lock")
  /\ UNCHANGED <<wikiFiles, contract, crossed, hitches>>

MaintTimesOut(m) ==
  /\ MaintAt(m, "lock") /\ wikiLock # "free"
  /\ maint' = [maint EXCEPT ![m] = NoMaint]
  /\ UNCHANGED <<wikiFiles, wikiLock, contract, wikiStolen, crossed, hitches>>

\* The next journal left behind, if any, is read; its files are then written again.
RecoverNext(m) ==
  LET left == {r \in Runs : wikiJournal[r] # NoFile}
  IN /\ MaintAt(m, "recover")
     /\ IF left = {} THEN MaintGo(m, "load")
        ELSE LET r == Some(left)
             IN maint' = [maint EXCEPT ![m].step = "replay", ![m].replayed = r,
                                       ![m].files = wikiJournal[r].files, ![m].pos = 0]
     /\ UNCHANGED <<wikiFiles, wikiLock, contract, wikiStolen, crossed, hitches>>

-----------------------------------------------------------------------------
\* What a run writes (runWikiMaintenanceToStoreLocked).

\* Mutant: a page is built from its run alone.
BuiltPageAfresh(r, p) ==
  LET e == EventOf[r]
  IN [kind |-> "page", by |-> r, sources |-> {e.source} \ {NoRef},
      claims |-> IF p = Head(e.pages) THEN {e.claim} \ {NoRef} ELSE {}]

\* buildPage, with the claim filed under the topic page.
BuiltPage(r, p) ==
  LET e == EventOf[r]
      old == wiki[PageKey(p)]
      isNew == old = NoFile
  IN [kind |-> "page", by |-> r,
      sources |-> (IF isNew THEN {} ELSE old.sources) \cup ({e.source} \ {NoRef}),
      claims |-> (IF isNew THEN {} ELSE old.claims)
                   \cup IF p = Head(e.pages) THEN {e.claim} \ {NoRef} ELSE {}]

\* The page a claim is filed under: the topic, or the page of the claim it supersedes,
\* or some page.
ClaimPage(r) ==
  LET e == EventOf[r]
      old == IF e.supersedes = NoRef THEN NoFile ELSE wiki[ClaimKey(e.supersedes)]
  IN IF e.pages # <<>> THEN Head(e.pages)
     ELSE IF old # NoFile THEN old.page
     ELSE IF ThePages = {} THEN NoRef ELSE Some(ThePages)
FilesClaim(r) == EventOf[r].claim # NoRef /\ ClaimPage(r) # NoRef

\* buildClaim: support is merged; the status is set anew, the link to a successor stays.
BuiltClaim(r) ==
  LET e == EventOf[r]
      old == wiki[ClaimKey(e.claim)]
      isNew == old = NoFile
  IN [kind |-> "claim", by |-> r, page |-> ClaimPage(r), status |-> "editorial",
      support |-> (IF isNew THEN {} ELSE old.support) \cup ({e.source} \ {NoRef}),
      supersedes |-> IF e.supersedes # NoRef \/ isNew THEN e.supersedes ELSE old.supersedes,
      supersededBy |-> IF isNew THEN NoRef ELSE old.supersededBy]

SupersededClaim(r) ==
  LET e == EventOf[r]
  IN [wiki[ClaimKey(e.supersedes)] EXCEPT !.by = r, !.status = "superseded",
                                          !.supersededBy = e.claim]
Supersedes(r) ==
  LET e == EventOf[r]
  IN e.kind = "claim_superseded" /\ e.claim # NoRef /\ e.supersedes # NoRef
       /\ There(ClaimKey(e.supersedes))

PageFiles(r) ==
  [i \in DOMAIN EventOf[r].pages |->
     <<PageKey(EventOf[r].pages[i]), BuiltPage(r, EventOf[r].pages[i])>>]
ClaimFiles(r) ==
  (IF FilesClaim(r) THEN <<<<ClaimKey(EventOf[r].claim), BuiltClaim(r)>>>> ELSE <<>>)
    \o IF Supersedes(r) THEN <<<<ClaimKey(EventOf[r].supersedes), SupersededClaim(r)>>>>
       ELSE <<>>
SourceFiles(r) ==
  IF EventOf[r].source = NoRef THEN <<>>
  ELSE <<<<SourceKey(EventOf[r].source), [kind |-> "source"]>>>>

\* buildLintDiagnostics: pages and claims without support, then pages that are missing.
\* A diagnostic is numbered by its place among those found.
LintOrder ==
  SetToSeq({"wiki_orphan_page"} \X Pages) \o SetToSeq({"wiki_unsupported_claim"} \X Claims)
    \o SetToSeq({"wiki_missing_concept_page"} \X Required)
LintFindings ==
  {<<"wiki_orphan_page", p>> : p \in {q \in ThePages : wiki[PageKey(q)].sources = {}
                                                   /\ wiki[PageKey(q)].claims = {}}}
    \cup {<<"wiki_unsupported_claim", c>> :
            c \in {d \in Claims : There(ClaimKey(d)) /\ wiki[ClaimKey(d)].support = {}}}
    \cup {<<"wiki_missing_concept_page", p>> : p \in Required \ ThePages}
FoundUpTo(i) == {j \in 1 .. i : LintOrder[j] \in LintFindings}
Lint ==
  {<<Cardinality(FoundUpTo(i)), LintOrder[i]>> : i \in FoundUpTo(Len(LintOrder))}
DiagnosticsOf(r) == IF EventOf[r].kind = "lint_run" THEN Lint ELSE {}

\* Of a run the model keeps its record and the diagnostic files written with it (filed),
\* which are not written again when only the browser is.
RunRecord(r) ==
  [kind |-> "run", boundary |-> contract, diagnostics |-> DiagnosticsOf(r),
   filed |-> IF There(RunKey(r)) THEN wiki[RunKey(r)].filed ELSE DiagnosticsOf(r),
   pages |-> ToSet(EventOf[r].pages),
   claims |-> {f[1][2] : f \in ToSet(ClaimFiles(r))}]

\* buildWikiIndexAndLogFiles: both are written whole.
IndexFiles(r) ==
  <<<<IndexKey, [kind |-> "index", pages |-> ThePages \cup ToSet(EventOf[r].pages)]>>,
    <<WikiLogKey, [kind |-> "log", runs |-> Append(wiki[WikiLogKey].runs, r)]>>>>
BrowserFiles(r) == <<<<BrowserKey(r), [kind |-> "browser", contract |-> contract]>>>>

\* All files of a run in the order they are written.
NewRunFiles(r) ==
  SourceFiles(r) \o PageFiles(r) \o ClaimFiles(r)
    \o <<<<RunKey(r), RunRecord(r)>>>> \o IndexFiles(r) \o BrowserFiles(r)

\* canReusePersistedMemoryBrowserProjection.
BrowserReusable(r) == There(BrowserKey(r)) /\ wiki[BrowserKey(r)].contract = contract

\* assertReusedWikiMaintenanceMatchesInput: each file and each diagnostic is compared with
\* the one that is there; the run record only if the browser is reused.
MatchesRun(r) ==
  /\ \A f \in ToSet(SourceFiles(r) \o PageFiles(r) \o ClaimFiles(r)) : wiki[f[1]] = f[2]
  /\ DiagnosticsOf(r) \subseteq wiki[RunKey(r)].filed
  /\ BrowserReusable(r) => wiki[RunKey(r)] = RunRecord(r)

\* Mutant: a run that has a record is run once more.
LoadRunAgain(m) ==
  /\ MaintAt(m, "load")
  /\ maint' = [maint EXCEPT ![m].step = "journal", ![m].pos = 0, ![m].replayed = maint[m].run,
                             ![m].files = NewRunFiles(maint[m].run)]
  /\ UNCHANGED <<wikiFiles, wikiLock, contract, wikiStolen, crossed, hitches>>

\* The wiki is read and the files to write are decided.  A run that has a record must
\* match it, else it is refused; of the rest only an outdated browser is written.
LoadRun(m) ==
  LET r == maint[m].run
  IN /\ MaintAt(m, "load")
     /\ IF There(RunKey(r)) /\ (~There(BrowserKey(r)) \/ ~MatchesRun(r))
        THEN MaintGo(m, "release")
        ELSE maint' = [maint EXCEPT
          ![m].step = "journal", ![m].pos = 0, ![m].replayed = r,
          ![m].files = IF ~There(RunKey(r)) THEN NewRunFiles(r)
                       ELSE IF BrowserReusable(r) THEN <<>>
                       ELSE <<<<RunKey(r), RunRecord(r)>>>> \o BrowserFiles(r)]
     /\ UNCHANGED <<wikiFiles, wikiLock, contract, wikiStolen, crossed, hitches>>

WriteWikiJournal(m) ==
  /\ MaintAt(m, "journal")
  /\ wikiJournal' = [wikiJournal EXCEPT ![maint[m].run] =
                       [kind |-> "journal", files |-> maint[m].files]]
  /\ MaintGo(m, "write")
  /\ UNCHANGED <<wiki, wikiLock, contract, wikiStolen, crossed, hitches>>

\* materializeFiles: the next file is written.
WriteWikiFile(m) ==
  LET i == maint[m].pos + 1
  IN /\ maint[m].step \in {"write", "replay"} /\ i <= Len(maint[m].files)
     /\ wiki' = [wiki EXCEPT ![maint[m].files[i][1]] = maint[m].files[i][2]]
     /\ maint' = [maint EXCEPT ![m].pos = i]
     /\ UNCHANGED <<wikiJournal, wikiLock, contract, wikiStolen, crossed, hitches>>

\* All are written: the journal is removed.
ClearWikiJournal(m) ==
  /\ maint[m].step \in {"write", "replay"} /\ maint[m].pos = Len(maint[m].files)
  /\ wikiJournal' = [wikiJournal EXCEPT ![maint[m].replayed] = NoFile]
  /\ maint' = [maint EXCEPT ![m].step = IF @ = "write" THEN "release" ELSE "recover",
                            ![m].files = <<>>, ![m].pos = 0]
  /\ UNCHANGED <<wiki, wikiLock, contract, wikiStolen, crossed, hitches>>

ReleaseWikiLock(m) ==
  /\ MaintAt(m, "release")
  /\ wikiLock' = "free"
  /\ wikiStolen' = (wikiStolen \/ wikiLock \in Maintainers \ {m})
  /\ maint' = [maint EXCEPT ![m] = NoMaint]
  /\ UNCHANGED <<wikiFiles, contract, crossed, hitches>>

-----------------------------------------------------------------------------
\* Crashes, the writers outside the lock, and an upgrade of the program.

MaintainerDies(m) ==
  /\ ~MaintAt(m, "idle") /\ hitches < MaxHitches
  /\ hitches' = hitches + 1
  /\ wikiLock' = IF wikiLock = m THEN "dead" ELSE wikiLock
  /\ maint' = [maint EXCEPT ![m] = NoMaint]
  /\ UNCHANGED <<wikiFiles, contract, wikiStolen, crossed>>

\* An owner's move_to_wiki files a claim under a page (owner-decisions.ts), which here
\* takes one step.
OutsideWrite(p, c) ==
  /\ There(PageKey(p)) /\ c \notin wiki[PageKey(p)].claims /\ hitches < MaxHitches
  /\ hitches' = hitches + 1
  /\ wiki' = [wiki EXCEPT ![PageKey(p)].claims = @ \cup {c},
                          ![ClaimKey(c)] = IF There(ClaimKey(c)) THEN @ ELSE
                             [kind |-> "claim", by |-> NoRef, page |-> p, support |-> {Some(Sources)},
                              status |-> "editorial", supersedes |-> NoRef,
                              supersededBy |-> NoRef]]
  /\ crossed' = (crossed \/ (\E m \in Maintainers : ~MaintAt(m, "idle"))
                         \/ (\E r \in Runs : wikiJournal[r] # NoFile))
  /\ UNCHANGED <<wikiJournal, wikiLock, maint, contract, wikiStolen>>

Upgrade ==
  /\ hitches < MaxHitches /\ \A m \in Maintainers : MaintAt(m, "idle")
  /\ hitches' = hitches + 1
  /\ contract' = contract + 1
  /\ UNCHANGED <<wikiFiles, wikiLock, maint, wikiStolen, crossed>>

WikiNext ==
  /\ UNCHANGED due
  /\ \/ \E m \in Maintainers :
          \/ \E r \in due : BeginRun(m, r)
          \/ TakeWikiLock(m) \/ FindStaleWikiLock(m) \/ RemoveStaleWikiLock(m)
          \/ MaintTimesOut(m) \/ ReleaseWikiLock(m)
          \/ RecoverNext(m) \/ LoadRun(m)
          \/ WriteWikiJournal(m) \/ WriteWikiFile(m) \/ ClearWikiJournal(m)
          \/ MaintainerDies(m)
     \/ \E p \in Pages, c \in Claims : OutsideWrite(p, c)
     \/ Upgrade

WikiSpec == WikiInit /\ [][WikiNext]_wikiVars

-----------------------------------------------------------------------------
\* Properties.

WikiTypeOK ==
  /\ DOMAIN wiki = WikiKeys
  /\ \A k \in WikiKeys : wiki[k].kind \in {"none", k[1]}
  /\ \A r \in Runs : wikiJournal[r].kind \in {"none", "journal"}
  /\ wikiLock \in Maintainers \cup {"free", "dead"}
  /\ \A m \in Maintainers : maint[m].step \in MaintSteps
  /\ contract \in 1..(MaxHitches + 1)
  /\ hitches \in 0..MaxHitches

\* Every run that has a record and no journal is whole: its source, pages and claims are
\* written, its pages are in the index, its browser is there, and the log tells of it
\* exactly once, whatever was rerun or replayed, as long as the lock was not taken from
\* a live holder (materializeFiles, recoverPendingWikiMaintenanceJournals).
WikiWhole ==
  ~wikiStolen =>
    \A r \in Runs :
      There(RunKey(r)) /\ wikiJournal[r] = NoFile =>
        /\ EventOf[r].source # NoRef => There(SourceKey(EventOf[r].source))
        /\ \A p \in wiki[RunKey(r)].pages : There(PageKey(p)) /\ p \in wiki[IndexKey].pages
        /\ \A c \in wiki[RunKey(r)].claims : There(ClaimKey(c))
        /\ There(BrowserKey(r))
        /\ \E i \in DOMAIN wiki[WikiLogKey].runs :
             \A j \in DOMAIN wiki[WikiLogKey].runs : (wiki[WikiLogKey].runs[j] = r) = (j = i)

\* A page only gains claims and sources, also from runs that are replayed late, unless
\* another subsystem wrote it during a run or under a journal (buildPage, findExistingPage).
PagesOnlyGain ==
  [][~wikiStolen' /\ ~crossed' =>
       \A p \in ThePages : /\ wiki[PageKey(p)].claims \subseteq wiki'[PageKey(p)].claims
                           /\ wiki[PageKey(p)].sources \subseteq wiki'[PageKey(p)].sources]_wikiVars
=============================================================================
