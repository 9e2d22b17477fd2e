--------------------------- MODULE SessionContinuity ---------------------------
(***************************************************************************)
(* Working-memory checkpoints, session packs and resume receipts           *)
(* (session-continuity-store.ts, session-pack.ts), as the runtime bridge   *)
(* and the command line call them.                                         *)
(*                                                                         *)
(* A checkpoint supersedes the active one of its conversation: two files   *)
(* are written.  A pack is compiled from an active checkpoint: three are.  *)
(* Both happen under one lock, which goes stale after thirty seconds,      *)
(* which nothing renews, and which is removed without a look at its        *)
(* holder.  A receipt is recorded outside the lock.  Nothing is journalled.*)
(***************************************************************************)
EXTENDS Naturals, FiniteSets

CONSTANTS
  Checkpoints,   \* ids of checkpoints: each is the id of the request for it
  ThreadOf,      \* [Checkpoints -> threads]: instance, session, thread and epoch
  Adapters,      \* the runtimes packs are compiled for
  Callers,       \* processes that call the store
  Asked,         \* the requests callers make, a subset of Requests
  Unnamed, None,     \* a request that names no checkpoint; no checkpoint
  MaxFailures    \* bound on abandoned calls and on slow holders of the lock

Kinds == {"checkpoint", "resume", "pack", "receipt"}
Requests ==
  [kind : {"checkpoint"}, adapter : Adapters, cp : Checkpoints]
    \cup [kind : Kinds \ {"checkpoint"}, adapter : Adapters, cp : Checkpoints \cup {Unnamed}]

ASSUME ContinuityAssumption ==
  /\ Unnamed \notin Checkpoints /\ None \notin Checkpoints
  /\ DOMAIN ThreadOf = Checkpoints
  /\ Callers \cap {"free", "dead"} = {}
  /\ Asked \subseteq Requests
  /\ MaxFailures \in Nat

VARIABLES
  checkpoint,   \* the checkpoint records
  artifact,     \* packs whose artifact record is written
  manifest,     \* packs whose manifest record is written
  receipt,      \* packs a receipt was recorded for
  lock,         \* "free", "dead" or the caller that holds it
  call,         \* what each caller is doing
  stolen,       \* whether the lock was ever removed under a live holder
  failures      \* calls abandoned and slow holders so far

vars == <<checkpoint, artifact, manifest, receipt, lock, call, stolen, failures>>
records == <<checkpoint, artifact, manifest, receipt>>

Generations == Nat \ {0}
Packs == [adapter : Adapters, cp : Checkpoints, gen : Generations]
CheckpointType == [status : {"none", "active", "superseded"}, gen : Nat,
                   by : Checkpoints \cup {None}]
NoRequest == [kind |-> "none", adapter |-> None, cp |-> None]

\* A call: its request, its next step, the checkpoint it writes or packs, and the
\* active checkpoint and the generation it found.
Steps == {"idle", "lock", "unlock", "load", "supersede", "create", "artifact", "manifest",
          "release", "receipt"}
CallType == [req : Asked \cup {NoRequest}, step : Steps, cp : Checkpoints \cup {None},
             gen : Nat, prev : Checkpoints \cup {None}]

NoRecord == [status |-> "none", gen |-> 0, by |-> None]
NewCall(r, step) == [req |-> r, step |-> step, cp |-> None, gen |-> 0, prev |-> None]
Idle == NewCall(NoRequest, "idle")

Init ==
  /\ checkpoint = [c \in Checkpoints |-> NoRecord]
  /\ artifact = {} /\ manifest = {} /\ receipt = {}
  /\ lock = "free"
  /\ call = [p \in Callers |-> Idle]
  /\ stolen = FALSE
  /\ failures = 0

At(p, step) == call[p].step = step
Req(p) == call[p].req

\* The next step of a caller, with what it found.
Goto(p, step, c, gen, prev) ==
  call' = [call EXCEPT ![p] = [req |-> Req(p), step |-> step, cp |-> c, gen |-> gen,
                               prev |-> prev]]
GoOn(p, step) == Goto(p, step, call[p].cp, call[p].gen, call[p].prev)
End(p) == call' = [call EXCEPT ![p] = Idle]

-----------------------------------------------------------------------------
\* withSessionContinuityLock.

Start(p, r) ==
  /\ At(p, "idle")
  /\ call' = [call EXCEPT ![p] =
                NewCall(r, IF r.kind = "receipt" THEN "receipt" ELSE "lock")]
  /\ UNCHANGED <<records, lock, stolen, failures>>

\* Mutant: the lock directory is made whether it exists or not.
AcquireAnyway(p) ==
  /\ At(p, "lock")
  /\ lock' = p
  /\ GoOn(p, "load")
  /\ UNCHANGED <<records, stolen, failures>>

Acquire(p) ==
  /\ At(p, "lock") /\ lock = "free"
  /\ lock' = p
  /\ GoOn(p, "load")
  /\ UNCHANGED <<records, stolen, failures>>

\* The lock is older than thirty seconds: its holder is gone, or slow, which counts
\* as a failure.
FindStale(p) ==
  /\ At(p, "lock") /\ lock # "free"
  /\ IF lock = "dead" THEN failures' = failures
     ELSE failures < MaxFailures /\ failures' = failures + 1
  /\ GoOn(p, "unlock")
  /\ UNCHANGED <<records, lock, stolen>>

\* The lock is removed, whoever holds it by now.
RemoveStale(p) ==
  /\ At(p, "unlock")
  /\ lock' = "free"
  /\ stolen' = (stolen \/ lock \in Callers)
  /\ GoOn(p, "lock")
  /\ UNCHANGED <<records, failures>>

\* The wait for the lock ends after five seconds.
TimeOut(p) ==
  /\ At(p, "lock") /\ lock # "free"
  /\ End(p)
  /\ UNCHANGED <<records, lock, stolen, failures>>

\* The lock is removed without a look at who holds it; a resume whose pack is there
\* goes on to its receipt.
Release(p) ==
  /\ At(p, "release")
  /\ lock' = "free"
  /\ IF Req(p).kind = "resume" THEN GoOn(p, "receipt") ELSE End(p)
  /\ UNCHANGED <<records, stolen, failures>>

-----------------------------------------------------------------------------
\* createWorkingMemoryCheckpointToStore; the runtime always asks for generation 1.

Loading(p, kinds) == At(p, "load") /\ Req(p).kind \in kinds

\* The active checkpoints of a thread.
ActiveOf(t) == {c \in Checkpoints : checkpoint[c].status = "active" /\ ThreadOf[c] = t}

\* compareCheckpoint puts the highest generation first.
Latest(cs) == {c \in cs : \A d \in cs : checkpoint[c].gen >= checkpoint[d].gen}

\* Mutant: every checkpoint gets the generation it was asked for.
NextGenAsked(found) == 1

\* Mutant: generations start at 0.
NextGenFromZero(found) == found

NextGen(found) == found + 1

\* Mutant: only an active checkpoint counts as a repeated request.
RepeatedActive(c) == checkpoint[c].status = "active"

Repeated(c) == checkpoint[c].status # "none"

\* The checkpoint is there: it is returned if active, else its id is refused.
ReturnCheckpoint(p) ==
  /\ Loading(p, {"checkpoint"}) /\ Repeated(Req(p).cp)
  /\ GoOn(p, "release")
  /\ UNCHANGED <<records, lock, stolen, failures>>

PlanFirstCheckpoint(p) ==
  LET c == Req(p).cp
  IN /\ Loading(p, {"checkpoint"}) /\ ~Repeated(c)
     /\ ActiveOf(ThreadOf[c]) = {}
     /\ Goto(p, "create", c, 0, None)
     /\ UNCHANGED <<records, lock, stolen, failures>>

PlanNextCheckpoint(p) ==
  LET c == Req(p).cp
  IN /\ Loading(p, {"checkpoint"}) /\ ~Repeated(c)
     /\ \E prev \in Latest(ActiveOf(ThreadOf[c])) :
          Goto(p, "supersede", c, checkpoint[prev].gen, prev)
     /\ UNCHANGED <<records, lock, stolen, failures>>

\* The previous checkpoint is written back as it was loaded, but superseded.
WriteSuperseded(p) ==
  /\ At(p, "supersede")
  /\ checkpoint' = [checkpoint EXCEPT ![call[p].prev] =
                      [status |-> "superseded", gen |-> call[p].gen, by |-> call[p].cp]]
  /\ GoOn(p, "create")
  /\ UNCHANGED <<artifact, manifest, receipt, lock, stolen, failures>>

WriteCheckpoint(p) ==
  /\ At(p, "create")
  /\ checkpoint' = [checkpoint EXCEPT ![call[p].cp] =
                      [status |-> "active", gen |-> NextGen(call[p].gen), by |-> None]]
  /\ GoOn(p, "release")
  /\ UNCHANGED <<artifact, manifest, receipt, lock, stolen, failures>>

-----------------------------------------------------------------------------
\* compileSessionPackToStore.

\* Mutant: a checkpoint given by its id is taken whatever its status.
ChosenById(c) ==
  IF c = Unnamed THEN {d \in Checkpoints : checkpoint[d].status = "active"}
  ELSE {d \in {c} : checkpoint[d].status # "none"}

\* selectSessionPackCheckpoint: the checkpoint asked for if it is active, or all the
\* active ones, of which there has to be exactly one.
Chosen(c) ==
  {d \in IF c = Unnamed THEN Checkpoints ELSE {c} : checkpoint[d].status = "active"}

PackOf(a, c) == [adapter |-> a, cp |-> c, gen |-> checkpoint[c].gen]

\* The pack a caller is at.
Pack(p) == [adapter |-> Req(p).adapter, cp |-> call[p].cp, gen |-> call[p].gen]

\* No checkpoint can be chosen, or half of its pack is on file: an error is thrown.
RefusePack(p) ==
  /\ Loading(p, {"pack", "resume"})
  /\ \/ Cardinality(Chosen(Req(p).cp)) # 1
     \/ \E c \in Chosen(Req(p).cp) :
          LET k == PackOf(Req(p).adapter, c) IN (k \in artifact) # (k \in manifest)
  /\ lock' = "free"
  /\ End(p)
  /\ UNCHANGED <<records, stolen, failures>>

\* The pack is there and is returned.
ReusePack(p) ==
  /\ Loading(p, {"pack", "resume"}) /\ Cardinality(Chosen(Req(p).cp)) = 1
  /\ \E c \in Chosen(Req(p).cp) :
       /\ PackOf(Req(p).adapter, c) \in artifact \cap manifest
       /\ Goto(p, "release", c, checkpoint[c].gen, None)
  /\ UNCHANGED <<records, lock, stolen, failures>>

\* Mutant: the manifest is written without an artifact record.
PlanManifest(p) ==
  /\ Loading(p, {"pack", "resume"}) /\ Cardinality(Chosen(Req(p).cp)) = 1
  /\ \E c \in Chosen(Req(p).cp) : Goto(p, "manifest", c, checkpoint[c].gen, None)
  /\ UNCHANGED <<records, lock, stolen, failures>>

\* The pack is compiled, and its markdown file written.
PlanPack(p) ==
  /\ Loading(p, {"pack", "resume"}) /\ Cardinality(Chosen(Req(p).cp)) = 1
  /\ \E c \in Chosen(Req(p).cp) :
       /\ PackOf(Req(p).adapter, c) \notin artifact \cup manifest
       /\ Goto(p, "artifact", c, checkpoint[c].gen, None)
  /\ UNCHANGED <<records, lock, stolen, failures>>

WriteArtifact(p) ==
  /\ At(p, "artifact")
  /\ artifact' = artifact \cup {Pack(p)}
  /\ GoOn(p, "manifest")
  /\ UNCHANGED <<checkpoint, manifest, receipt, lock, stolen, failures>>

WriteManifest(p) ==
  /\ At(p, "manifest")
  /\ manifest' = manifest \cup {Pack(p)}
  /\ GoOn(p, "release")
  /\ UNCHANGED <<checkpoint, artifact, receipt, lock, stolen, failures>>

-----------------------------------------------------------------------------
\* recordSessionResumeReceiptToStore.

\* The manifest a receipt is for: the one just compiled, or the adapter's latest.
ManifestsFor(p) ==
  LET of == {k \in manifest : k.adapter = Req(p).adapter}
  IN IF Req(p).kind = "resume" THEN {k \in of : k = Pack(p)}
     ELSE {k \in of : \A j \in of : k.gen >= j.gen}

\* The manifest's checkpoint is on file with the manifest's generation, and is the
\* one asked for.  Whether it is still active is not asked.
Accepted(p, k) ==
  /\ checkpoint[k.cp].status # "none" /\ checkpoint[k.cp].gen = k.gen
  /\ Req(p).kind = "receipt" => Req(p).cp \in {Unnamed, k.cp}

RecordReceipt(p) ==
  /\ At(p, "receipt")
  /\ \E k \in ManifestsFor(p) :
       /\ Accepted(p, k)
       /\ receipt' = receipt \cup {k}
  /\ End(p)
  /\ UNCHANGED <<checkpoint, artifact, manifest, lock, stolen, failures>>

RefuseReceipt(p) ==
  /\ At(p, "receipt")
  /\ ManifestsFor(p) = {} \/ \E k \in ManifestsFor(p) : ~Accepted(p, k)
  /\ End(p)
  /\ UNCHANGED <<records, lock, stolen, failures>>

-----------------------------------------------------------------------------
\* An I/O call throws; under the lock, the lock is removed on the way out.
Throw(p) ==
  /\ call[p].step \notin {"idle", "lock", "unlock"}
  /\ failures < MaxFailures /\ failures' = failures + 1
  /\ lock' = IF At(p, "receipt") THEN lock ELSE "free"
  /\ End(p)
  /\ UNCHANGED <<records, stolen>>

\* The process dies; a lock it holds stays.
Crash(p) ==
  /\ ~At(p, "idle")
  /\ failures < MaxFailures /\ failures' = failures + 1
  /\ lock' = IF lock = p THEN "dead" ELSE lock
  /\ End(p)
  /\ UNCHANGED <<records, stolen>>

Next ==
  \E p \in Callers :
    \/ \E r \in Asked : Start(p, r)
    \/ Acquire(p) \/ FindStale(p) \/ RemoveStale(p) \/ TimeOut(p) \/ Release(p)
    \/ ReturnCheckpoint(p) \/ PlanFirstCheckpoint(p) \/ PlanNextCheckpoint(p)
    \/ WriteSuperseded(p) \/ WriteCheckpoint(p)
    \/ RefusePack(p) \/ ReusePack(p) \/ PlanPack(p) \/ WriteArtifact(p) \/ WriteManifest(p)
    \/ RecordReceipt(p) \/ RefuseReceipt(p)
    \/ Throw(p) \/ Crash(p)

Spec == Init /\ [][Next]_vars
-----------------------------------------------------------------------------
TypeOK ==
  /\ checkpoint \in [Checkpoints -> CheckpointType]
  /\ artifact \subseteq Packs /\ manifest \subseteq Packs /\ receipt \subseteq Packs
  /\ lock \in {"free", "dead"} \cup Callers
  /\ call \in [Callers -> CallType]
  /\ stolen \in BOOLEAN
  /\ failures \in 0 .. MaxFailures

\* Whatever is interrupted, a thread has at most one active checkpoint, unless the
\* lock was removed under a holder that was still at work.
OneActive ==
  ~stolen => \A c, d \in Checkpoints :
    checkpoint[c].status = "active" /\ checkpoint[d].status = "active"
      /\ ThreadOf[c] = ThreadOf[d]
    => c = d

\* While no call is interrupted, a superseded checkpoint is followed by one of the
\* next generation, at once or as soon as the call that superseded it ends.
GenerationsFollow ==
  failures = 0 => \A c \in Checkpoints : checkpoint[c].status = "superseded" =>
    \/ checkpoint[checkpoint[c].by].gen = checkpoint[c].gen + 1
    \/ \E p \in Callers : At(p, "create") /\ call[p].prev = c /\ call[p].cp = checkpoint[c].by

\* A checkpoint that was superseded is never written again, late and repeated
\* requests included, unless the lock was removed under a live holder.
SupersededStays ==
  [][~stolen' => \A c \in Checkpoints :
       checkpoint[c].status = "superseded" => checkpoint'[c] = checkpoint[c]]_vars

\* A pack is completed only while its checkpoint is the active one of its thread, in
\* the generation the pack carries, unless the lock was removed under a live holder.
PackOfActive ==
  [][~stolen' => \A k \in manifest' \ manifest :
       checkpoint[k.cp].status = "active" /\ checkpoint[k.cp].gen = k.gen]_vars

\* However calls overlap and fail, what a receipt says was consumed can be traced:
\* its manifest, the artifact record and the checkpoint are on file.
Traceable ==
  /\ receipt \subseteq manifest /\ manifest \subseteq artifact
  /\ \A k \in artifact : checkpoint[k.cp].status # "none"

\* A checkpoint that supersedes another has a later generation.
NextGeneration ==
  \A c, d \in Checkpoints :
    checkpoint[c].by = d /\ checkpoint[d].status # "none" =>
      checkpoint[d].gen > checkpoint[c].gen
=============================================================================
