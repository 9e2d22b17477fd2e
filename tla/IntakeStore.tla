------------------------------ MODULE IntakeStore ------------------------------
(***************************************************************************)
(* The store of what is taken in without a proposal for canon              *)
(* (non-canonical-intake-store.ts): messages of a runtime, kept as an      *)
(* observation in a thread, and diagnostics about an event.                *)
(*                                                                         *)
(* An intake writes its raw payload, its source record, the thread record  *)
(* it shares with other intakes, its observation or diagnostic, and last   *)
(* its disposition, behind a recovery journal of its own.  It takes three  *)
(* lock directories one after the other; each goes stale by its age, is    *)
(* found and removed in two steps, and released without a look at its      *)
(* holder.  The runtime instance and session records behave as the thread  *)
(* record does and are part of it here; so are message order and times.    *)
(***************************************************************************)
EXTENDS Naturals, FiniteSets, Sequences, SequencesExt

CONSTANTS
  Events,          \* what intakes are about: every id they write derives from it
  ContentOf,       \* the content_ref of an event's payload
  ThreadOf,        \* the thread of an event
  SessionOf,       \* the session its runtime says the thread belongs to
  TakerProcs,      \* processes that take events in
  Scenarios,       \* sets of inputs they may be given, each input any number of times
  MaxMishaps       \* bound on crashes, failed steps and slow holders

Modes == {"runtime_only", "diagnostic_only"}
Inputs == [event : Events, mode : Modes]

ASSUME IntakeAssumption ==
  /\ DOMAIN ContentOf = Events /\ DOMAIN ThreadOf = Events /\ DOMAIN SessionOf = Events
  /\ TakerProcs \cap {"free", "dead"} = {}
  /\ Scenarios \subseteq SUBSET Inputs
  /\ MaxMishaps \in Nat

VARIABLES
  file,            \* the files of the store: who wrote them, or Absent
  intakeJournal,   \* the recovery journal of each event
  intakeLock,      \* "free", "dead" or the process that holds it
  take,            \* what each process is doing
  offered,         \* the inputs of this behaviour
  taken,           \* the inputs that were answered
  tried,           \* the inputs whose locked part began
  overtaken,       \* threads written to while another event's journal was pending
  intakeStolen,    \* whether a lock was ever removed under a live holder
  mishaps          \* crashes, failed steps and slow holders so far

intakeVars == <<file, intakeJournal, intakeLock, take, offered, taken, tried, overtaken,
                intakeStolen, mishaps>>
intakeStore == <<file, intakeJournal>>
intakeGhosts == <<taken, tried, overtaken, intakeStolen>>

Absent == [kind |-> "absent"]

\* definedIntakePaths, in the order the files are written.
FilesOf(in) ==
  IF in.mode = "runtime_only"
  THEN <<"raw", "source", "thread", "observation", "disposition">>
  ELSE <<"raw", "source", "diagnostic", "disposition">>

Key(kind, e) ==
  <<kind, CASE kind = "raw" -> ContentOf[e] [] kind = "thread" -> ThreadOf[e] [] OTHER -> e>>
KeysOf(in) == {Key(kind, in.event) : kind \in ToSet(FilesOf(in))}
\* ownedIntakePaths.
OwnedOf(in) == {k \in KeysOf(in) : k[1] # "thread"}
Keys == UNION {KeysOf(in) : in \in Inputs}

\* The lock directories of an intake in the order they are taken: sorted by name.
LocksOf(in) ==
  <<<<"content_ref", ContentOf[in.event]>>, <<"disposition", in.event>>>>
    \o IF in.mode = "runtime_only" THEN <<<<"runtime_identity", ThreadOf[in.event]>>>>
       ELSE <<>>
LockIds == UNION {ToSet(LocksOf(in)) : in \in Inputs}

TakeSteps == {"idle", "lock", "unlock", "check", "replay", "decide", "reset", "journal",
              "write", "release"}
NoTake == [step |-> "idle"]
\* What a file of an intake says is all taken from its input.
BuiltFrom(kind, in) == [kind |-> kind, in |-> in]
\* A call under way: pos counts the locks it holds, or the files of its job it wrote.
NewTake(in) == [step |-> "lock", in |-> in, pos |-> 0, thread |-> Absent, job |-> Absent]
\* What a journal holds: the input it is about and the thread record it writes.
Job(in, thr) == [kind |-> "job", in |-> in, thread |-> thr]

IntakeInit ==
  /\ file = [k \in Keys |-> Absent]
  /\ intakeJournal = [e \in Events |-> Absent]
  /\ intakeLock = [l \in LockIds |-> "free"]
  /\ take = [p \in TakerProcs |-> NoTake]
  /\ offered \in Scenarios
  /\ taken = {} /\ tried = {} /\ overtaken = {}
  /\ intakeStolen = FALSE /\ mishaps = 0

TakeAt(p, step) == take[p].step = step
TakeGo(p, step, pos) == take' = [take EXCEPT ![p].step = step, ![p].pos = pos]
In(p) == take[p].in
Present(k) == file[k] # Absent

-----------------------------------------------------------------------------
\* withNonCanonicalIntakeLocks.

BeginTake(p, in) ==
  /\ TakeAt(p, "idle")
  /\ take' = [take EXCEPT ![p] = NewTake(in)]
  /\ UNCHANGED <<intakeStore, intakeLock, intakeGhosts, mishaps>>

NextLock(p) == LocksOf(In(p))[take[p].pos + 1]

TakeLock(p) ==
  /\ TakeAt(p, "lock") /\ intakeLock[NextLock(p)] = "free"
  /\ intakeLock' = [intakeLock EXCEPT ![NextLock(p)] = p]
  /\ IF take[p].pos + 1 = Len(LocksOf(In(p))) THEN TakeGo(p, "check", 0)
     ELSE TakeGo(p, "lock", take[p].pos + 1)
  /\ UNCHANGED <<intakeStore, intakeGhosts, mishaps>>

\* The lock is older than 120 seconds: its holder is gone, or slow.
FindStaleTake(p) ==
  /\ TakeAt(p, "lock") /\ intakeLock[NextLock(p)] # "free"
  /\ IF intakeLock[NextLock(p)] = "dead" THEN mishaps' = mishaps
     ELSE mishaps < MaxMishaps /\ mishaps' = mishaps + 1
  /\ TakeGo(p, "unlock", take[p].pos)
  /\ UNCHANGED <<intakeStore, intakeLock, intakeGhosts>>

RemoveStaleTake(p) ==
  /\ TakeAt(p, "unlock")
  /\ intakeLock' = [intakeLock EXCEPT ![NextLock(p)] = "free"]
  /\ intakeStolen' = (intakeStolen \/ intakeLock[NextLock(p)] \in TakerProcs)
  /\ TakeGo(p, "lock", take[p].pos)
  /\ UNCHANGED <<intakeStore, taken, tried, overtaken, mishaps>>

\* The locks of a call are removed, whoever holds them by now.
Unlocked(p, locks) ==
  /\ intakeLock' = [l \in LockIds |-> IF l \in locks THEN "free" ELSE intakeLock[l]]
  /\ intakeStolen' = (intakeStolen \/ \E l \in locks : intakeLock[l] \in TakerProcs \ {p})
  /\ take' = [take EXCEPT ![p] = NoTake]

\* The wait for a lock ends: those held are released.
TakeTimesOut(p) ==
  /\ TakeAt(p, "lock") /\ intakeLock[NextLock(p)] # "free"
  /\ Unlocked(p, {LocksOf(In(p))[i] : i \in 1..take[p].pos})
  /\ UNCHANGED <<intakeStore, taken, tried, overtaken, mishaps>>

ReleaseTake(p) ==
  /\ TakeAt(p, "release")
  /\ Unlocked(p, ToSet(LocksOf(In(p))))
  /\ UNCHANGED <<intakeStore, taken, tried, overtaken, mishaps>>

-----------------------------------------------------------------------------
\* writeNonCanonicalIntakeToStoreLocked.

\* Mutant: a content_ref is not looked up.
ContentFree(in) == FALSE

\* assertSourceContentRefAvailable: another source record has the content_ref.
ContentTaken(in) ==
  \E e \in Events \ {in.event} :
    ContentOf[e] = ContentOf[in.event] /\ Present(<<"source", e>>)

\* Mutant: the thread record is written as the intake describes it.
ThreadAlone(in, there) ==
  [kind |-> "thread", session |-> SessionOf[in.event], summary |-> in.event,
   messages |-> {in.event}]

\* reconcilePersistedRuntimeContext: the messages of the thread are kept, its summary
\* is the newest one's.
ThreadWith(in, there) ==
  [kind |-> "thread", session |-> SessionOf[in.event], summary |-> in.event,
   messages |-> {in.event} \cup IF there = Absent THEN {} ELSE there.messages]

\* The intake is refused, or goes on with the thread record it would write; a journal
\* of its own is replayed next.
CheckTake(p) ==
  LET in == In(p)
      there == file[Key("thread", in.event)]
      refused == \/ ContentTaken(in)
                 \/ /\ in.mode = "runtime_only" /\ there # Absent
                    /\ there.session # SessionOf[in.event]
  IN /\ TakeAt(p, "check")
     /\ IF refused THEN TakeGo(p, "release", 0) /\ UNCHANGED <<tried, overtaken>>
           ELSE /\ take' = [take EXCEPT
                  ![p].step = IF intakeJournal[in.event] = Absent THEN "decide" ELSE "replay",
                  ![p].pos = 0,
                  ![p].thread = IF in.mode = "runtime_only" THEN ThreadWith(in, there)
                                ELSE Absent,
                  ![p].job = intakeJournal[in.event]]
             /\ tried' = tried \cup {in}
             /\ overtaken' =
                  IF \E e \in Events \ {in.event} : /\ ThreadOf[e] = ThreadOf[in.event]
                                                    /\ intakeJournal[e] # Absent
                  THEN overtaken \cup {ThreadOf[in.event]} ELSE overtaken
     /\ UNCHANGED <<intakeStore, intakeLock, taken, intakeStolen, mishaps>>

\* The next file of the job is written.
WriteFile(p) ==
  LET job == take[p].job
      i == take[p].pos + 1
  IN /\ take[p].step \in {"replay", "write"} /\ i <= Len(FilesOf(job.in))
     /\ LET kind == FilesOf(job.in)[i]
        IN file' = [file EXCEPT ![Key(kind, job.in.event)] =
                      IF kind = "thread" THEN job.thread ELSE BuiltFrom(kind, job.in)]
     /\ TakeGo(p, take[p].step, i)
     /\ UNCHANGED <<intakeJournal, intakeLock, intakeGhosts, mishaps>>

\* All are written and logged: the journal is removed.
ClearTakeJournal(p) ==
  LET in == take[p].job.in
  IN /\ take[p].step \in {"replay", "write"} /\ take[p].pos = Len(FilesOf(in))
     /\ intakeJournal' = [intakeJournal EXCEPT ![in.event] = Absent]
     /\ IF TakeAt(p, "replay") THEN TakeGo(p, "decide", 0) /\ UNCHANGED taken
        ELSE TakeGo(p, "release", 0) /\ taken' = taken \cup {in}
     /\ UNCHANGED <<file, intakeLock, tried, overtaken, intakeStolen, mishaps>>

\* The payload's place holds other evidence that no source record owns.
RawOccupied(in) ==
  LET k == Key("raw", in.event)
  IN Present(k) /\ ~Present(Key("source", in.event)) /\ file[k].in # in

\* assertReusedIntakeMatchesInput.
MatchesInput(p) ==
  /\ \A k \in OwnedOf(In(p)) : file[k].in = In(p)
  /\ In(p).mode = "runtime_only" => file[Key("thread", In(p).event)] = take[p].thread

\* Complete: it is reused if it matches and refused if not.  Some files there: those
\* of its own are deleted first.
DecideTake(p) ==
  LET in == In(p)
      present == {k \in KeysOf(in) : Present(k)}
  IN /\ TakeAt(p, "decide")
     /\ IF RawOccupied(in) THEN TakeGo(p, "release", 0) /\ UNCHANGED taken
        ELSE IF present = KeysOf(in)
        THEN /\ TakeGo(p, "release", 0)
             /\ taken' = IF MatchesInput(p) THEN taken \cup {in} ELSE taken
        ELSE TakeGo(p, IF present = {} THEN "journal" ELSE "reset", 0) /\ UNCHANGED taken
     /\ UNCHANGED <<intakeStore, intakeLock, tried, overtaken, intakeStolen, mishaps>>

ResetOrder == <<"raw", "source", "observation", "disposition", "diagnostic">>
LeftToReset(in) ==
  {i \in DOMAIN ResetOrder : /\ ResetOrder[i] \in ToSet(FilesOf(in))
                             /\ Present(Key(ResetOrder[i], in.event))}

\* resetPartiallyMaterializedIntake: one file after the other.
ResetTake(p) ==
  LET left == LeftToReset(In(p))
  IN /\ TakeAt(p, "reset")
     /\ IF left = {} THEN TakeGo(p, "journal", 0) /\ UNCHANGED file
        ELSE /\ \E i \in left :
                  /\ \A j \in left : i <= j
                  /\ file' = [file EXCEPT ![Key(ResetOrder[i], In(p).event)] = Absent]
             /\ UNCHANGED take
     /\ UNCHANGED <<intakeJournal, intakeLock, intakeGhosts, mishaps>>

WriteTakeJournal(p) ==
  /\ TakeAt(p, "journal")
  /\ LET job == Job(In(p), take[p].thread)
     IN /\ intakeJournal' = [intakeJournal EXCEPT ![In(p).event] = job]
        /\ take' = [take EXCEPT ![p].step = "write", ![p].pos = 0, ![p].job = job]
  /\ UNCHANGED <<file, intakeLock, intakeGhosts, mishaps>>

\* A step fails: the locks are released.  Or the process dies: they stay.
TakeFails(p) ==
  /\ take[p].step \notin {"idle", "lock", "unlock", "release"} /\ mishaps < MaxMishaps
  /\ mishaps' = mishaps + 1
  /\ Unlocked(p, ToSet(LocksOf(In(p))))
  /\ UNCHANGED <<intakeStore, taken, tried, overtaken>>

TakerDies(p) ==
  /\ ~TakeAt(p, "idle") /\ mishaps < MaxMishaps
  /\ mishaps' = mishaps + 1
  /\ intakeLock' = [l \in LockIds |-> IF intakeLock[l] = p THEN "dead" ELSE intakeLock[l]]
  /\ take' = [take EXCEPT ![p] = NoTake]
  /\ UNCHANGED <<intakeStore, intakeGhosts>>

IntakeNext ==
  /\ UNCHANGED offered
  /\ \E p \in TakerProcs :
    \/ \E in \in offered : BeginTake(p, in)
    \/ TakeLock(p) \/ FindStaleTake(p) \/ RemoveStaleTake(p)
    \/ TakeTimesOut(p) \/ ReleaseTake(p)
    \/ CheckTake(p) \/ WriteFile(p) \/ ClearTakeJournal(p)
    \/ DecideTake(p) \/ ResetTake(p) \/ WriteTakeJournal(p)
    \/ TakeFails(p) \/ TakerDies(p)

IntakeSpec == IntakeInit /\ [][IntakeNext]_intakeVars

-----------------------------------------------------------------------------
\* Properties.

IntakeTypeOK ==
  /\ \A k \in Keys : file[k] = Absent \/ file[k].kind = k[1]
  /\ intakeLock \in [LockIds -> TakerProcs \cup {"free", "dead"}]
  /\ \A p \in TakerProcs : take[p].step \in TakeSteps
  /\ taken \subseteq tried /\ tried \subseteq Inputs
  /\ overtaken \subseteq {ThreadOf[e] : e \in Events}
  /\ mishaps \in 0..MaxMishaps

OneMode(e) == Cardinality({in \in tried : in.event = e}) = 1

\* An event that was answered keeps all its own evidence, whatever crashes, retries
\* and other intakes do, unless it was taken in once more in the other mode (which
\* deletes and replaces its raw payload) or a lock was taken from a live holder
\* (resetPartiallyMaterializedIntake, recoverPendingJournal).
IntakeWhole ==
  ~intakeStolen =>
    \A in \in taken : OneMode(in.event) => \A k \in OwnedOf(in) : Present(k) /\ file[k].in = in

\* A thread keeps the messages of the events it answered for, unless an intake into it
\* ran while another one's journal was pending: that journal, replayed later, puts the
\* thread back to what it was (reconcilePersistedRuntimeContext before the recovery).
ThreadKeepsMessages ==
  ~intakeStolen =>
    \A in \in taken :
      LET t == ThreadOf[in.event]
      IN in.mode = "runtime_only" /\ t \notin overtaken
           => in.event \in file[<<"thread", t>>].messages
=============================================================================
