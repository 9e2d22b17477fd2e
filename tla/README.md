# Cristalina memory kernel: TLA+ models and proofs

Cristalina keeps an agent's memory as JSON records in a directory (the *store*).
Claims enter through an intake pipeline, pass governance gates, wait for the
owner where they must, and become canonical records; wiki pages, projections and
session packs are derived from them. There is no database and no server: every
guarantee rests on lock directories, recovery journals, the order of file writes
and what each operation re-checks. That is what these models are about.

Paths below are relative to `src/packages/`; CPS is
`core/src/workflow-engine/conversation-preference-store.ts`.

## 1. The system

| component | state it keeps | operations | what is hard | what makes it correct |
|---|---|---|---|---|
| Conversation preference store (CPS) | about twenty files per proposal (a *flow*), a recovery journal per operation, the change log | write, read with repair, ratify (from the queue, from the original input), reject, expire, apply a contradiction resolution, manual review | a failure between any two files, journals replayed late, resets of half-written flows, decisions re-evaluated at ratification | canon and ratification agree; one canonical record per slot; a review ends once; nothing stored is lost; the log tells each end once |
| Owner decisions (`core/src/owner-decisions.ts`) | ratifications, canon, wiki pages and claims, curation packets, dispositions, journals | ratify, subsume, keep_maturing, move_to_wiki, reject | locks per proposal *and action*, so decisions overlap; unfenced stale takeover | no decision half recorded; packet, disposition and records agree; one end |
| Session continuity (`core/src/session-continuity-store.ts`) | checkpoints, session packs (artifact + manifest), resume receipts | checkpoint, compile, record receipt | two or three files without a journal; a lock without heartbeat; receipts outside it | one active checkpoint per thread; generations go up; history is left alone; packs only of active checkpoints |
| Store write lock (CPS 641-803) | a lock directory with a heartbeat file | acquire, heartbeat, stale takeover, release | time of check and time of removal; a heartbeat that outlives its lock | mutual exclusion while holders are live |
| Audit log (`core/src/audit/log.ts`) | one JSON-lines file, a lock directory | append, snapshot | the whole file is rewritten; stale takeover | an entry is never lost or doubled |
| Store I/O (`core/src/store/`, `storage.ts`) | the record files, the manifest | initialise, load, atomic write | two initialisers at once | a readable record is a whole one |
| Intake pipeline, governance and canon engines (`core/src/workflow-engine/pipeline.ts`, `governance/engine.ts`, `canon/engine.ts`) | none: records in, records out | intake, gates, canonical create, revise, supersede | decision tables with many guards | no promotion without every gate |
| Transitions, validation, schemas (`transitions.ts`, `validation.ts`, `schema-runtime.ts`) | none | checks of records and of pairs of records | size | - |
| Non-canonical intake store (`core/src/workflow-engine/non-canonical-intake-store.ts`) | raw payloads, source records, threads, observations, diagnostics, dispositions, a journal per event | take a message or a diagnostic in | three locks taken one after the other; resets; the thread record shared by intakes; redelivery | an answered event keeps its evidence; a thread keeps its messages |
| Wiki maintenance store (`core/src/workflow-engine/wiki-maintenance-store.ts`) | pages, claims, run records, index, log, memory browser, journals | ingest, capture a query, crystallise a session, supersede a claim, lint | replays of whole files; pages other subsystems write under other locks | a run is whole or has a journal; the log tells of it once; pages only gain |
| Memory maturation (`core/src/memory-maturation.ts`) | a batch of files per claim, the slots' pages, journals | run a night, promote candidates | locks per consolidation and runtime but journals of all; reads before the lock | matured means applied; canon without an owner is traceable and never an owner's claim |
| Contradiction reviews (CPS, `pipeline.ts`) | contradictions, resolutions, the manual queue | write, resolve, review, expire | journals of three operations on one contradiction; a follow-up into canon | the records tell one story; canon follows what was settled |
| Projection engine, adapter SDK, runtime adapters | derived files | compile, verify, write back | freshness | derived text never leaks or outlives its source |
| Retrieval engine | nothing: artifacts in, artifacts out | chunk, rank, plan, rebuild | staleness | stale entries are not served |
| Runtime bridge (`cli/src/runtime-events.ts`) | none of its own | route an event to a store | redelivery, drift of the runtime's instance | an event's records are the same whichever way it comes |
| Installers, update (`cli/src/installers.ts`, `update.ts`) | files in the runtime's root, the host's `config.yaml` and `cron/jobs.json`, the registry | install, update | installs that overlap or stop half way; files the host owns too, edited as text | what the host is told of is there; its own entries stay; the last install stands |
| Hermes with the plugins an install wrote | event files | capture a finished turn, switch sessions | a provider thread and a plugin that both see a turn | every turn has an event of its own or of a turn that shares its id; one in provider mode |
| CLI, arguments, configuration | configuration | commands | - | - |

Components meet in the store only. The bridge turns runtime events into calls of
CPS and of the session store; the command line calls CPS and the owner decisions;
CPS holds the store write lock; the owner decisions, the session, intake and wiki
stores and the maturation have lock directories of their own, with stale takeover and
without heartbeat. So an owner decision can run beside a CPS operation on the same
records, and a maintenance run beside both on the same pages. The installer meets
the rest only in the configuration and in the event files Hermes hands to the bridge.

`PROJECT.json` lists each component with what is modelled of it, and under
`hazards` the places where this code can go wrong in ways tests seldom reach.

## 2. The modules

### ConversationStore

One *flow* is a proposal with the files it owns. The files are in nine groups
(`FileOrder`) written in this order by the plan of a write: source and what is extracted
from it, claim, conflict records, wiki and proposal, queue entry, disposition and
ratification, canonical record, diagnostic, projection. A file holds what the
properties tell apart: nothing, its presence, the decision, the queue status, or
whether the proposal is gated by the owner.

| TLA+ | code |
|---|---|
| `disk`, `signer` | the flow's files; `authenticated_principal` of the ratification record |
| `journal[f][k]` | the recovery journals `conversation_preference_write`, owner ratification, review closure |
| `audit` | the change-log entries, keyed by entry id |
| `run` | the operation that holds the store write lock, and how far it has come (`recover_or_reset`, `load_existing`, `build_plan`, journal, files, log) |
| `Write`, `Read`, `RatifyQueued`, `RatifyDeferred`, `Reject`, `Expire` | the exported operations up to the lock |
| `StartReplay`, `MaterializeFile`, `AppendLog`, `ClearJournal` | `recoverPendingJournal`, `materializeFiles`, `replayRecoveryJournalEntries`, `rm` |
| `InspectPartial`, `InspectComplete`, `ResetFile` | `recoverOrResetWriteFlow` and the reset, file by file |
| `DecideWrite`, `DecideRatify`, `DecideClose`, `Finish` | the checks and the plan of each operation, and every return or throw without a write |
| `Fail` | the process dies, or an I/O call throws, between any two of these steps |

Operations run one at a time: that is what `StoreLock` establishes, as long as no
holder dies under it or stalls. `RetryFirst` states a discipline of the caller, not
of the code: whoever had an operation fail sends it again before anything else
runs on the store. The code neither asks for it nor needs it everywhere; section 5
says what holds without it.

### CanonReview

What the store promises of a proposal: `unseen`, then one of `waiting`, `canon`,
`refused`, `expired` or back to unseen by a reset, with the legal moves between
them and the one-canon-per-slot guard on the move to `canon`. `ImplementsReview`
maps the store onto it: the outcome of a flow is what the journal on disk says, or
its ratification record when there is none. So the journal write is the moment an
operation takes effect, and files, failures and replays are stuttering.

### OwnerDecisions

Callers (`Sessions`) take the lock of a proposal and action, recover its journal,
load the store, journal a plan and write it record by record. `Parts` is the order
of the records, `After` the effect of one, `Valid`/`NotDecidable`/`AlreadyApplied`
the checks. A stale lock is found and removed in two steps, whoever holds it by
then. `orderly`, chosen at the start, says how callers behave; `AtOnce` bounds
which decisions overlap when they do not take turns. Loading the store is one
step: the loads read separate files, and no property here depends on two loads
seeing different moments beyond what overlapping writes already give. The
projection rewritten at the end is left out. Ratifications of the other writers
(CPS) are not in `rat`.

### SessionContinuity

A checkpoint request supersedes the active checkpoint of its thread
(`WriteSuperseded`), then writes its own (`WriteCheckpoint`); a pack is an artifact
record and a manifest; a receipt needs the manifest and its checkpoint, and no
lock. The runtime asks for generation 1 every time (`cli/src/runtime-events.ts`),
so the generation is one more than that of the checkpoint found. A thread stands
for the four references that `previous` is filtered by. `stolen` records that the
lock was removed under a live holder: by a slow holder that went stale (counted
as a failure), or by a second caller that had found a dead lock stale.

### StoreLock

The store write lock of CPS: the directory (`lockDir`), its age (`lockOld`), the
temporary files of `atomicWriteText` in it (`temps`), what each process does
(`lockStep`) and its heartbeat (`beat`). A beat makes the directory where it is gone. The
release clears the timer, waits for a beat under way and removes the directory; a
beat that was under way has then scheduled the next one, so a heartbeat can outlive
its call (`Survivors`) and make the lock again for nobody. Age stands for 120 seconds
without a beat, and costs `trouble` only while someone should be beating.

### AuditLog

`initializeStore` outside any lock (`BeginWrite`, `WriteManifest`, `BlankLog`), the append
lock with its takeover in two steps, and `appendJsonLine`: `ReadLog`, then `WriteLog` of what
was read and one line. `settled` remembers what was written once no writer was
initialising; `logStolen` that the lock was removed under a live holder.

### IntakeStore and RuntimeBridge

An intake (`Inputs`) of an event, as a message or as a diagnostic, takes its three locks
in order, replays the event's journal, looks at its files and reuses, refuses, resets
or writes them (`CheckTake`, `DecideTake`, `ResetTake`, `WriteFile`). The thread it writes is
the one it read before the journal was replayed. `RuntimeBridge` is the routing of
`runtime-events.ts` as operators: which events become which intakes (`IntakesOf`), with the
drift check that turns an event into a report; the instance computes its inputs with it.

### WikiMaintenance

A run replays all journals, loads, merges and writes pages, claims, its record, index, log
and browser, file by file (`maint`, `wikiJournal`). `OutsideWrite` stands for the other
writers of pages (owner decisions, flows); `crossed` remembers that one fell into a run.
`Upgrade` is a new version of the program, whose browser has another contract. A rerun compares
pages, claims and lint diagnostics with what is on file (`MatchesRun`); a diagnostic is its code and
subject under the number it has in the run (`Lint`), so one more page can change the content of all.

### MemoryMaturation

`mature` holds what each process does: a run of a night compiles the model's answer into
claims, decides for each of them between canon, wiki, review and evidence (`Verdict`), and
writes its batch under a journal (`BatchFiles`); a promotion does the same for candidates of
earlier nights (`SelectCandidates`). Whoever takes a lock replays every journal
(`ListJournals`), those of live runs too. `mixed` and `reapplied` only record what the
properties except: processes that overlapped, and batches applied again. Corroboration and the gates are `AutoCanon`,
`WantsReview`, `SystemRatifies` and `Ready`.

### ContradictionReview

Claims of one slot with their records by kind, one step per file: a resolution by the
original input, a manual review applied from the queue, its expiry, each with its own
journal (`Reviews`). `Settles`, `CandidateWins`, `FollowUpDecision`, `ApplicationFiles`,
`ClosureFiles` are the decisions of `pipeline.ts` and `governance/engine.ts`. A follow-up that is deferred
gets an entry in the owner's queue from a resolution only (`QueuesFollowUp`); a manual review loads
the flow without that path. A write is one step, its
failures being ConversationStore's; reads and retries reset a flow that `LooksPartial`.

### Installer and HermesHost

`Steps` is the order in which an install writes its files and changes the host's; `worker`
how far each operator is, with what it has read of `config.yaml`, `jobs.json` or the registry.
Before the first of them nothing was installed or OpenClaw was (`InstallerInit`). Hermes starts
once the installs rest (`HostNext`), with what the files name by then (`HostStart`); a turn is written at once
by the bridge plugin and by a thread of the provider (`EndTurn`, `SyncTurn`). The provider's event
id is a hash (`ProviderId`). The bridge plugin's is cut to 96 characters (`_safe_id`), so which turns
share one depends on how long the references of their session are: `Slug`, a constant, says
what is left of a turn in its id (`BridgeId`).

`config.yaml` is edited line by line, so `Yaml` keeps lines and what Hermes reads apart: `listed` are
the lines of the enabled list, whatever their indent; an added line has an indent of two, and where
the host's are `indented` deeper the first of them becomes part of the added scalar (`folded`), so that
Hermes reads neither (`Enabled`). A plugin is taken out of the disabled list if that has a line
for each (`disabled`), not if it is in brackets (`barred`). An enabled list in brackets is written
anew as lines and needs no case of its own. Not modelled: keys of the plugins map at another
indent than two, and a map in braces with other keys than `enabled`.

### MCStoreWriters

The instance of the modules above. Of what they keep they share no file or lock, so a
product of their states would only multiply: `part` chooses one subsystem per behaviour and
the others stay as they begin. What they do to each other is modelled where it bites:
outside writes in WikiMaintenance, the intakes RuntimeBridge makes, Hermes on top of Installer.

`MC*.tla` hold the instances; `*Proofs.tla` the theorems.

## 3. Runs

| run | instance | shows |
|---|---|---|
| review_retried | two claims of participants about the owner, one slot, two failures, retries first | types; slots; canon, queue and log agree; ended reviews stay; the refinement of CanonReview |
| review_contradicted | as above, contradicting statements, one written by the owner | contradictions recorded, evidence kept, recovery completes (under fairness) |
| review_abandoned | no retry discipline, two failures | an approval is never stranded; owner authority |
| decisions_overlap | four proposals (two creates, two revises of one record), one slot, two callers, one failure or slow lock holder; turn-taking or overlapping | see the module's property comments: three hold however calls overlap, four with callers that take turns |
| checkpoints_overlap | three checkpoints, two threads, two callers, one failure or slow holder | one active checkpoint, generations, history, packs, receipts |
| store_writers | one subsystem per behaviour, each with two processes and one crash, failed step or slow holder: the audit log with two entries; three events of one thread; four maintenance runs over two pages; two nights of three claims in two slots; the store lock; three contradicting claims; two installs or updates and two turns of Hermes | nothing logged is lost or doubled; an answered event keeps its evidence and its thread; runs and batches are whole; canon is traceable; the store lock excludes and lets waiters through; a review's records tell one story and canon follows; what the host is told of is there |
| reviewed_read_back | three claims, no failure | a disagreement (section 6) |
| second_review_end, read_discards_evidence, authority_change, revise_twice, interrupted_checkpoint | the smallest instance of each | a disagreement between a document and the code (section 6) |

Why the bounds are enough: CPS interactions go through the slot (pairs of flows)
or through the journals of one flow (a failure leaves one, a failed recovery or a
second operation another), so two flows and two failures reach every combination
of two journals; the theorems of section 4 confirm it for the properties proved.
Owner decisions need two creates for a slot, two revises for a target, two callers
for an overlap. Checkpoints need three to have a superseded one, an active one and
another thread's. Failures are counted per run: a slow lock holder is one.
In store_writers a takeover needs two processes and one mishap (the holder that dies or
stalls), a lost message two events of a thread and one journal left behind, a page conflict
two runs over one page, a promotion a second night, and a third claim is what makes a
follow-up into canon contest an earlier one. `HostBegins` ties what an install finds (a
foreign command, several channels) to its other choices, since the code looks at each in
one place only; the two turns have one text (`Texts`), the case in which the provider's ids can
collide, and those of session 1 one id of the bridge plugin (`Slugs`); the host's list is indented by
two or by more, its bridge plugin is disabled by a line, in brackets, or not. Hermes starts once the
installs rest and the last of its own ended well.
Symmetry is used only where no liveness is checked.

Fairness (`FairSpec`): an operation in progress goes on, since the code awaits its
own steps and nothing blocks under the lock; and a caller whose operation failed
calls again. Failures are bounded, so this says that failures end. The code itself
has no recovery loop: without the second conjunct journals stay for ever.

Only these operations have a fairness to rest on. The other modules state what a step may
leave behind and, for the store lock, that a waiter is never stuck (`WaiterProceeds`, an
enabledness): no caller of them retries by itself.

Deadlock is checked in every run: a caller can always start another operation. Where the
bound on operations ends a behaviour (memory, reviews, installs) the instance lets it rest.

Every property comes with a mutant of the modelled code (`PROJECT.json`,
`mutants`), an operator next to the definition it replaces, that breaks it.

## 4. Proofs

Eight modules hold the theorems; each theorem is for any value of the constants its module's
named assumption allows, so for any number of flows, processes, records and failures.

**ConversationStoreProofs**, first without any retry discipline:

- `Invariance`: the inductive invariant `IInv`. `ApprovedHasCanon` alone is not
  inductive: it has to be known what a journal can hold (`JournalsOK`: only
  plans that pair an approval with a canonical record), how far the files of the
  journal in hand are written (`ReplayOK`, `MaterialOK`), and that a reset removes
  the ratification before the canonical record (`ResetOK`). The proof has one
  step per action and one per conjunct it can disturb.
- `TypeCorrect`, `ApprovedNeverStranded` and `OwnerAuthorized` follow.

Then `OneCanonPerSlot` under `RetryFirst`: the invariant adds that at most one operation is
outstanding (`Recovering`), that an operation past recovery decides on a store
without open journals (`Deciding`), and that a canonical record or a journal for one
blocks its slot (`SlotInv`). Without the assumption a journal left by a ratification can be
replayed after another flow filled the slot.

Its second part proves what the owner review comes to, under two hypotheses.
`RetryFirst`, without which a review ends twice (run second_review_end); and `CallersAgree`: those
who write and read a flow imply the same promotion, without which a read removes a whole flow
(run authority_change). Neither hypothesis is about what an operation does, and the instance of
review_retried satisfies both. The inductive invariant (`ReviewInvariance`) looks through the recovery journal: at most one is
on disk, and what its flow's files and log will be once it is replayed is one of the stories a
review can tell, at every point of every replay. From it follow `CanonMatchesRatification`,
`QueueMatchesRatification`, `LogMatchesReview`, `ReviewEndsOnce`, and for each step `EndsStay` and
`CanonStays`. `EvidenceStays` needs a third hypothesis, that no gated flow can be refused at
write: run read_discards_evidence shows what happens otherwise. `ContradictionsNoticed` has an invariant of
its own and needs `RetryFirst` only. `StoreImplementsReview` is the refinement: under
both hypotheses the initial states map to initial states of CanonReview, the writing of a journal
to one allowed decision, a reset of a refused flow to its return to unseen, every other
step to a stutter.

**OwnerDecisionsProofs** has two invariants.

- `Safe`, however decisions overlap, lose their locks, fail and are replayed. It rests on the
  records only growing: what a session has written of its plan lasts, so at its last record
  all of them are there. It adds that each plan in a journal or a session fits the store, and
  that a session which writes has its journal or its disposition on disk.
  `RatificationOnFile`, `DispositionsWhole` and `NoDecisionLost` follow.
- `InTurns`, for callers that take turns (the variable `orderly`): there is one pending plan
  and it still describes the end, page, packet and slot of its proposal. `OneEndInTurn`,
  `PacketsTellInTurn`, `SlotSharedInTurn` and `PagesKeepClaimsInTurn` follow. The proof
  showed that `SlotShared` must except two cases: a record of the slot was revised twice
  (run revise_twice), or one of another slot was revised into it. The latter is nothing the
  gates exclude, and two proposals and one slot did not show it.

**SessionContinuityProofs**:

- `ContinuityInvariance`: `OneActive` is not inductive, since a call writes on the
  strength of what it loaded some steps before. `IInv` adds, until a live holder's
  lock is removed (`~stolen`), that one caller at a time is under the lock
  (`Exclusive`) and that each call's plan still fits the records (`PlanHolds`).
- `OneActiveCheckpoint`, `HistoryKept` and `PacksAreCurrent` follow, each with that
  exception; `SessionTypeCorrect` without it.
- `GenerationsInOrder`: while nothing failed, a superseded checkpoint has a successor of the
  next generation, or its call is about to write it; run interrupted_checkpoint is why "while".
- `ReceiptsTraceable` needs no lock at all: its invariant `Traced` says that the
  records a pack in the making rests on are on file, and nothing deletes one.

**IntakeStoreProofs** proves `AnsweredIsWhole` and `MessagesKept`. An intake takes three locks one after the
other, for different files, so the invariant `IntakeInv` says for each file who can write it: a call knows its event's
journal (`LocksHeld`), works for its payload alone (`Working`, `Answered`), one message of a thread
at a time is under way or pending (`OneAtATime`), and the thread record a job holds has the messages the
thread has (`InStep`). The exceptions are those of the properties: a lock removed under a live
holder (`intakeStolen`), an event sent in both modes, a thread written while another
intake's journal was pending (`overtaken`). `IntakeTyped` has none.

**WikiMaintenanceProofs** proves `RunsWhole` and `PagesGain`. A replay writes whole files over again,
so the invariant `WikiInv` describes what a journal will write as a set of files (`Plan`, `WikiFinal`): each can
be written at any moment, again and again, without harm to another run's files (`Merges`), and
once all are written the run they are of is whole (`WholeIn`). There is one journal at
most (`OneWikiJournal`) and one process at work with it (`WikiHeld`) until a live holder's lock is removed
(`wikiStolen`); `PagesGain` also excepts a page written from outside during a run (`crossed`).

**ContradictionReviewProofs** proves `ReviewsWhole` and `WorldFollowed` under `RetryFirst`, the
types (`ReviewTypesKept`) without it. As for the owner review the invariant looks through the
journal: `Final` and `FinalLog` are the records and the log once the journal on disk is carried out; writing
a file, logging, removing the journal and abandoning leave them alone, and only the
decision, which writes the journal, changes them. They are at all times a `Tale`: every flow that no read
deleted tells one of four stories (`Undisputed`, `Disputed`, `Expired`, `ReviewApplied`), the claims
that lost are closed, and canon follows. Without `RetryFirst` the journals of an expiry
and an application of one contradiction are both carried out.

**MemoryMaturationProofs** proves `MaturedWhole` and `CanonTraced`, and the types
(`MaturationTypesKept`). The locks do not exclude here, since whoever has taken one replays
the journals of all, so `MaturationInv` has to hold without them. Memory only grows, and every plan
is ordered so that any part of it is harmless (`GoodFiles`, `Records`: a disposition and canon come
after what they rest on; `AppliesInOrder`: the record of a run after its claims). A
verdict is the exception: what goes with it is written after it, so a batch applied twice, with two
verdicts, can be left with the wrong companion. A batch applied once has one plan, which its
journal keeps until all its files are there (`OnePlan`, `Verdicts`); the proof showed that "applied
again" must include a batch whose journal is still to be replayed, which `reapplied` now records.
That canon is alone in its slot needs the locks (`AloneInv`): while no two processes are under
locks at once (`~mixed`), whoever plans canon has replayed all journals first and finds the slot free.

**StoreWritersProofs** holds three proofs and their composition with those above. It proves
`StoreLockExcludes` for any processes. Mutual exclusion is
not inductive, since a waiter removes whatever it finds stale: `LockInvariance` adds that as long as
there was no trouble someone keeps the directory from ageing (`Kept`: a call under
the lock or a heartbeat whose file is in it), that nobody has found it stale (`Steady`), and
that one call at a time has or makes it (`Alone`). It covers heartbeats that outlive their call.
And it proves `EntriesLoggedOnce` of the audit log for any writers, entries and bound. That no id is
logged twice needs no lock (`Fresh`: whoever replaces the file replaces it by what it read
and an id that was not in it); that an entry stays needs the lock (`Locked`, `Current`) and that
a store once initialised is not initialised by a later write (`Started`).

It proves `HostServed` (`HostIsServed`) for any operators, installs, turns and texts. What an
operator writes back to `config.yaml`, `jobs.json` or the registry is what it read some steps
earlier, so the invariant `HostInv` has three layers. The steps still to come are in
an order in which nothing is named before it is there (`Sound`: `StepsInOrder`, `ReadsFirst`), and
what is over has been done (`DoneGood`). What an operator has read is as good as what is there now
(`SeenGood`, over `GoodYaml`, `GoodCron`, `GoodRegistry`): files are only added, so what was right to
name stays so, whoever overlaps. And as long as no two overlapped, one operator is at work, what it
has read is what is there, and its finished steps and the last install stand (`OneAtWork`,
`UpToDate`, `Entered`). For the host: with the provider a turn that is over and has no thread left has an
event of its session and text, with the bridge plugin the file of its id holds it or a later turn,
for any `Slug` (`Captured`), and the provider alone makes one (`AloneOnce`). The proof found
an error of the model: after one runtime of an update of several, the installs left were taken
from the wrong record. No instance reached that step, because no update had two runtimes; OpenClaw can now
be installed beforehand, and the run does.

The parts together: a behaviour of MCStoreWriters is a behaviour of each
part (`PartsKeepTheirSpecs`), so that what is proved of the parts holds of what the run explores:
`WritersTyped`, and under `RetryFirst` `WritersSound`.

Assumptions on the constants are those named in the modules (`FlowAssumption` and `BoundAssumption`,
`DecisionAssumption`, `ContinuityAssumption`, `IntakeAssumption`, `WikiAssumption`, `MaturationAssumption`,
`ReviewAssumption`, `StoreLockAssumption`, `AuditLogAssumption`, `InstallerAssumption`,
`HostAssumption`); the runs evaluate them. The inductive invariants were
checked by TLC on the instances of the runs before they were proved.

Only model-checked, being beyond the prover: `RecoveryCompletes` (fairness) and `WaiterProceeds`
(ENABLED). Every other property of a passing run is proved, under the hypotheses above where
they are named; that the run's instance meets a hypothesis is part of its configuration.

## 5. What does not hold without the callers' discipline

With `RetryFirst` false or `orderly` false these fail, each in a few steps:

- a ratification's and a closure's journals are both replayed: the review ends
  twice (run second_review_end); a write's journal replayed late reopens an ended
  review, or fills a slot another flow has filled, or brings a canonical record
  back after a rejection;
- after a reset and a new write the change log keeps the first decision, since the
  entry id is the same; a failure inside a reset can leave a canonical record whose
  id blocks the flow's write from then on;
- a proposal is both ratified and rejected, two creates fill one slot, and a wiki
  page loses a claim, when owner decisions overlap;
- two checkpoints of a thread are active, when the session lock is removed under a
  live holder;
- two calls run under the store lock, or an audit entry is lost, when a second caller that
  had found a dead lock stale removes the next holder's;
- an event taken in again in the other mode (a report whose drift was corrected) loses its first raw
  payload, and a journal replayed after another intake wrote the thread takes that message
  out of it;
- a wiki page loses what another subsystem added during a maintenance run;
- of two overlapping installs one is missing from the registry or from `config.yaml`.

## 6. Findings

`PROJECT.json` quotes each document and the run that shows it:

- **second_review_end**: a failed ratification and a failed closure, retried in turn, both take effect.
- **read_discards_evidence**: a read of a refused, complete flow takes it for partial and deletes its files.
- **authority_change**: a read or write of the same input by another principal deletes a stored flow, its canonical record included.
- **revise_twice**: the second of two revises of one record is ratified against a superseded target.
- **interrupted_checkpoint**: an interrupted checkpoint, retried, starts the generations again.
- **reviewed_read_back**: a flow whose contradiction was reviewed is taken for half written by the next read, which deletes it.

Related behaviour no run is spent on: a receipt can name a checkpoint superseded
since its pack was compiled; a pack whose artifact record was written without its
manifest is refused from then on; a reject whose projection refresh failed cannot
be repeated, its proposal being decided; a heartbeat under way when the store lock is
released starts another one and makes the lock again; an install of Hermes in bridge mode
leaves `memory.provider` at `cristalina`, so that both plugins capture each turn, which D-018
(`docs/DECISIONS.md:227`) warns of; a canonical follow-up that a manual review defers has no
entry in the owner's queue, so that the owner is not asked, and a read without repair refuses the
flow as missing its queue state (CPS 3478-3483; with repair it deletes it, run reviewed_read_back); turns of a session with long references share one event file of the bridge plugin,
and a later one replaces an earlier one (`cli/src/installers.ts:1896-1898`); an install into a
plugin list indented by more than two makes the host's first plugin and the installed one a
single entry that names neither, and no later install repairs it (`installers.ts:504`); a
plugin disabled in a list in brackets stays disabled (`installers.ts:474`). The properties
say so much and no more: `HostKeepsItsOwn`, `LastInstallStands` and `HostServed` promise that a plugin is
loaded only where the layout lets it.

## 7. Not modelled, and the plan

Not modelled: texts and their rendering, identifiers beyond equality, JSON and
schema validation, clocks (staleness is a choice), permissions, HTTP, package
downloads; prefetched context, reset tips and the contents of the nightly scripts;
the repair of derived artifacts on read. The retrieval engine, projections, the
surface audit and the validators are functions without state: a model of them
would repeat their tables. `PROJECT.json` gives the reason for each component.

Modules still worth writing:

1. **OwnerDecisions beside ConversationStore**: both writers on one store, without a common
   lock, so that a ratification of one falls between two files of the other.
2. **GovernanceGates**: the gates and the follow-up workflow as one operator module, with the
   decisions of ConversationStore, ContradictionReview and MemoryMaturation as instances.
3. **Prefetch** of HermesHost: a result compiled for an earlier query or session, served later.

No property of a passing run waits for a proof. Of the theorems here, those under `RetryFirst`
could be sharpened: which pairs of journals are harmless without it is known by example only
(section 5).
