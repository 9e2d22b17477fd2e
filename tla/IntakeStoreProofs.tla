--------------------------- MODULE IntakeStoreProofs ---------------------------
(***************************************************************************)
(* Proofs about IntakeStore, for any events, payloads, threads, callers    *)
(* and number of mishaps.                                                  *)
(*                                                                         *)
(* Until a lock is removed under a live holder, whoever is past the check  *)
(* has the payload, the disposition and (for a message) the thread for     *)
(* itself, save that a report replays the pending journal of a message     *)
(* without the lock of its thread.                                         *)
(***************************************************************************)
EXTENDS IntakeStore, FiniteSetTheorems, SequenceTheorems, TLAPS

ThreadRecs ==
  [kind : {"thread"}, session : {SessionOf[e] : e \in Events}, summary : Events,
   messages : SUBSET Events]

IsMessage(in) == in.mode = "runtime_only"
ThreadKey(in) == <<"thread", ThreadOf[in.event]>>

\* The thread record that goes with an intake: that of a message has the message.
Thread(in, thr) == IF IsMessage(in) THEN thr \in ThreadRecs /\ in.event \in thr.messages
                   ELSE thr = Absent

\* A call past its check, and one that writes the files of its job.
IntakeWorks(p) == take[p].step \in {"replay", "decide", "reset", "journal", "write"}
IntakeWrites(p) == take[p].step \in {"replay", "write"}

-----------------------------------------------------------------------------
\* Types.

FileOf(k) ==
  \/ file[k] = Absent
  \/ k[1] = "thread" /\ file[k] \in ThreadRecs
  \/ k[1] # "thread" /\ file[k] \in [kind : {k[1]}, in : Inputs]

Jobs == [kind : {"job"}, in : Inputs, thread : ThreadRecs \cup {Absent}]
GoodJob(job, e) ==
  /\ job \in Jobs /\ job.in.event = e /\ job.in \in tried
  /\ Thread(job.in, job.thread)

Takes ==
  [step : TakeSteps \ {"idle"}, in : Inputs, pos : Nat, thread : ThreadRecs \cup {Absent},
   job : Jobs \cup {Absent}]

TakeOf(p) ==
  /\ take[p] \in Takes
  /\ take[p].step \in {"lock", "unlock"} => take[p].pos < Len(LocksOf(In(p)))
  /\ IntakeWorks(p) => In(p) \in tried /\ Thread(In(p), take[p].thread)
  /\ IntakeWrites(p) => /\ GoodJob(take[p].job, In(p).event)
                  /\ take[p].pos <= Len(FilesOf(take[p].job.in))
  /\ TakeAt(p, "write") => take[p].job = Job(In(p), take[p].thread)

Typed ==
  /\ DOMAIN file = Keys /\ \A k \in Keys : FileOf(k)
  /\ DOMAIN intakeJournal = Events
  /\ \A e \in Events : intakeJournal[e] = Absent \/ GoodJob(intakeJournal[e], e)
  /\ intakeLock \in [LockIds -> TakerProcs \cup {"free", "dead"}]
  /\ DOMAIN take = TakerProcs /\ \A p \in TakerProcs : take[p] = NoTake \/ TakeOf(p)
  /\ offered \subseteq Inputs
  /\ taken \subseteq tried /\ tried \subseteq Inputs
  /\ overtaken \subseteq {ThreadOf[e] : e \in Events}
  /\ intakeStolen \in BOOLEAN
  /\ mishaps \in Nat /\ mishaps <= MaxMishaps

-----------------------------------------------------------------------------
\* What holds until a lock is removed under a live holder.

Holds(p) ==
  CASE TakeAt(p, "idle") -> {}
    [] take[p].step \in {"lock", "unlock"} -> {LocksOf(In(p))[i] : i \in 1 .. take[p].pos}
    [] OTHER -> ToSet(LocksOf(In(p)))

LocksHeld == \A p \in TakerProcs : \A l \in Holds(p) : intakeLock[l] = p

\* A call that works on an event knows the event's journal.
JobKnown(p) ==
  IF IntakeWrites(p) THEN intakeJournal[In(p).event] = take[p].job
  ELSE intakeJournal[In(p).event] = Absent

\* All that is kept of an intake but the messages of its thread.
Whole(in) ==
  /\ \A k \in OwnedOf(in) : file[k] = BuiltFrom(k[1], in)
  /\ IsMessage(in) => Present(ThreadKey(in))

\* No intake of the event was tried but this one.
Only(in) == \A b \in tried : b.event = in.event => b = in

\* The files a call has written of its own job.
WrittenSoFar(p) ==
  \A i \in 1 .. take[p].pos :
    LET k == Key(FilesOf(In(p))[i], In(p).event)
    IN IF k[1] = "thread" THEN Present(k) ELSE file[k] = BuiltFrom(k[1], In(p))

Working(p) ==
  /\ JobKnown(p)
  /\ ~ContentTaken(In(p))
  /\ ~TakeAt(p, "decide") /\ Only(In(p)) => In(p) \notin taken
  /\ TakeAt(p, "write") => WrittenSoFar(p)

Answered(in) ==
  /\ IsMessage(in) => Present(ThreadKey(in))
  /\ Only(in) => Whole(in) /\ intakeJournal[in.event] = Absent

IntakeKept ==
  /\ LocksHeld
  /\ \A p \in TakerProcs : IntakeWorks(p) => Working(p)
  /\ \A in \in taken : Answered(in)

-----------------------------------------------------------------------------
\* What else holds of a thread that was not overtaken.

Messages(t) == IF Present(<<"thread", t>>) THEN file[<<"thread", t>>].messages ELSE {}

\* A message whose journal is pending, and a call that works on a message.
Queued(e) == intakeJournal[e] # Absent /\ IsMessage(intakeJournal[e].in)
WorksOn(p, t) == IntakeWorks(p) /\ IsMessage(In(p)) /\ ThreadOf[In(p).event] = t

\* One message of the thread at a time is being written or to be written, and what its
\* journal or its call will write is the thread and the message.
OneAtATime(t) ==
  /\ \A d, e \in Events :
       Queued(d) /\ Queued(e) /\ ThreadOf[d] = t /\ ThreadOf[e] = t => d = e
  /\ \A p \in TakerProcs, e \in Events :
       WorksOn(p, t) /\ Queued(e) /\ ThreadOf[e] = t => In(p).event = e

Extends(thr, e) == thr.messages = Messages(ThreadOf[e]) \cup {e}

InStep(t) ==
  /\ \A e \in Events : Queued(e) /\ ThreadOf[e] = t => Extends(intakeJournal[e].thread, e)
  /\ \A p \in TakerProcs : WorksOn(p, t) => Extends(take[p].thread, In(p).event)
  /\ \A p \in TakerProcs : WorksOn(p, t) /\ TakeAt(p, "write") /\ take[p].pos >= 3
                             => In(p).event \in Messages(t)
  /\ \A in \in taken : IsMessage(in) /\ ThreadOf[in.event] = t => in.event \in Messages(t)

ThreadsKept == \A t \in {ThreadOf[e] : e \in Events} \ overtaken : OneAtATime(t) /\ InStep(t)

IntakeInv == Typed /\ (~intakeStolen => IntakeKept /\ ThreadsKept)

-----------------------------------------------------------------------------
\* The operators of the model.

\* Every input has an event and one of two modes.
LEMMA InputShape ==
  ASSUME NEW in \in Inputs
  PROVE  /\ in.event \in Events
         /\ in.mode \in Modes
         /\ in = [event |-> in.event, mode |-> in.mode]
BY DEF Inputs

\* The files of an intake, in their order.
LEMMA IntakeFilesAre ==
  ASSUME NEW in \in Inputs
  PROVE  /\ IsMessage(in) =>
              /\ FilesOf(in) = <<"raw", "source", "thread", "observation", "disposition">>
              /\ Len(FilesOf(in)) = 5
              /\ ToSet(FilesOf(in)) =
                   {"raw", "source", "thread", "observation", "disposition"}
         /\ ~IsMessage(in) =>
              /\ FilesOf(in) = <<"raw", "source", "diagnostic", "disposition">>
              /\ Len(FilesOf(in)) = 4
              /\ ToSet(FilesOf(in)) = {"raw", "source", "diagnostic", "disposition"}
<1>1. CASE IsMessage(in)
  BY <1>1 DEF FilesOf, IsMessage, ToSet
<1>2. CASE ~IsMessage(in)
  BY <1>2 DEF FilesOf, IsMessage, ToSet
<1> QED BY <1>1, <1>2

\* The files are those at the positions of their order.
LEMMA FilePositions ==
  ASSUME NEW in \in Inputs
  PROVE  /\ Len(FilesOf(in)) \in Nat
         /\ \A i \in 1 .. Len(FilesOf(in)) : FilesOf(in)[i] \in ToSet(FilesOf(in))
         /\ \A kind \in ToSet(FilesOf(in)) : \E i \in 1 .. Len(FilesOf(in)) : FilesOf(in)[i] = kind
         /\ IsMessage(in) => FilesOf(in)[3] = "thread" /\ Len(FilesOf(in)) = 5
         /\ \A i \in 1 .. Len(FilesOf(in)) : FilesOf(in)[i] = "thread" <=> IsMessage(in) /\ i = 3
<1>1. CASE IsMessage(in)
  BY <1>1, IntakeFilesAre
<1>2. CASE ~IsMessage(in)
  BY <1>2, IntakeFilesAre
<1> QED BY <1>1, <1>2

\* The place of each file.
LEMMA KeyAre ==
  ASSUME NEW e \in Events
  PROVE  /\ Key("raw", e) = <<"raw", ContentOf[e]>>
         /\ Key("thread", e) = <<"thread", ThreadOf[e]>>
         /\ \A kind \in {"source", "observation", "disposition", "diagnostic"} :
              Key(kind, e) = <<kind, e>>
         /\ \A kind : Key(kind, e)[1] = kind
BY DEF Key

\* The files of an intake are all its own but that of its thread.
LEMMA OwnedAre ==
  ASSUME NEW in \in Inputs
  PROVE  /\ KeysOf(in) \subseteq Keys
         /\ ThreadKey(in) \in Keys
         /\ \A kind \in ToSet(FilesOf(in)) : Key(kind, in.event) \in KeysOf(in)
         /\ \A k \in KeysOf(in) : \E kind \in ToSet(FilesOf(in)) : k = Key(kind, in.event)
         /\ Key("source", in.event) \in OwnedOf(in)
         /\ \A k \in OwnedOf(in) : k \in KeysOf(in) /\ k[1] # "thread"
         /\ IsMessage(in) => ThreadKey(in) \in KeysOf(in)
<1> DEFINE msg == [event |-> in.event, mode |-> "runtime_only"]
<1>0. in.event \in Events
  BY InputShape
<1>1. KeysOf(in) \subseteq Keys
  BY DEF Keys
<1>2. \A kind \in ToSet(FilesOf(in)) : Key(kind, in.event) \in KeysOf(in)
  BY DEF KeysOf
<1>3. \A k \in KeysOf(in) : \E kind \in ToSet(FilesOf(in)) : k = Key(kind, in.event)
  BY DEF KeysOf
<1>4. msg \in Inputs /\ IsMessage(msg) /\ msg.event = in.event
  BY <1>0 DEF Inputs, Modes, IsMessage
<1>5. ThreadKey(in) = Key("thread", in.event)
  BY <1>0, KeyAre DEF ThreadKey
<1>6. "thread" \in ToSet(FilesOf(msg))
  BY <1>4, IntakeFilesAre
<1>7. ThreadKey(in) \in Keys
  BY <1>4, <1>5, <1>6 DEF Keys, KeysOf
<1>8. "source" \in ToSet(FilesOf(in))
  BY IntakeFilesAre
<1>9. Key("source", in.event)[1] = "source"
  BY <1>0, KeyAre
<1>10. Key("source", in.event) \in OwnedOf(in)
  BY <1>2, <1>8, <1>9 DEF OwnedOf
<1>11. IsMessage(in) => ThreadKey(in) \in KeysOf(in)
  BY <1>2, <1>5, IntakeFilesAre
<1> QED BY <1>1, <1>2, <1>3, <1>7, <1>10, <1>11 DEF OwnedOf

\* A place that two intakes share is that of the payload of both, of the thread of both,
\* or they are about one event.
LEMMA SharedKeys ==
  ASSUME NEW a \in Inputs, NEW b \in Inputs,
         NEW j \in ToSet(FilesOf(a)), NEW k \in ToSet(FilesOf(b)),
         Key(j, a.event) = Key(k, b.event)
  PROVE  /\ j = k
         /\ \/ a.event = b.event
            \/ j = "raw" /\ ContentOf[a.event] = ContentOf[b.event]
            \/ j = "thread" /\ ThreadOf[a.event] = ThreadOf[b.event]
<1>1. a.event \in Events /\ b.event \in Events
  BY InputShape
<1>2. j \in {"raw", "source", "thread", "observation", "diagnostic", "disposition"}
  BY IntakeFilesAre
<1>3. k \in {"raw", "source", "thread", "observation", "diagnostic", "disposition"}
  BY IntakeFilesAre
<1>4. j = k
  BY <1>1, <1>2, <1>3, KeyAre
<1> QED BY <1>1, <1>2, <1>4, KeyAre

\* The locks of an intake; those of two intakes of one payload, or of two messages of
\* one thread, have one in common.
LEMMA LocksAre ==
  ASSUME NEW in \in Inputs
  PROVE  /\ Len(LocksOf(in)) \in Nat /\ 0 < Len(LocksOf(in))
         /\ \A i \in 1 .. Len(LocksOf(in)) : LocksOf(in)[i] \in ToSet(LocksOf(in))
         /\ \A l \in ToSet(LocksOf(in)) : \E i \in 1 .. Len(LocksOf(in)) : LocksOf(in)[i] = l
         /\ ToSet(LocksOf(in)) \subseteq LockIds
         /\ <<"content_ref", ContentOf[in.event]>> \in ToSet(LocksOf(in))
         /\ IsMessage(in) => <<"runtime_identity", ThreadOf[in.event]>> \in ToSet(LocksOf(in))
<1> DEFINE c == <<"content_ref", ContentOf[in.event]>>
           d == <<"disposition", in.event>>
           t == <<"runtime_identity", ThreadOf[in.event]>>
<1>1. IsMessage(in) => LocksOf(in) = <<c, d, t>>
  <2> DEFINE S == {c, d, t}
             s == <<c, d>> \o <<t>>
  <2>1. <<c, d>> \in Seq(S) /\ <<t>> \in Seq(S) /\ <<c, d, t>> \in Seq(S)
    OBVIOUS
  <2>2. /\ s \in Seq(S) /\ Len(s) = Len(<<c, d>>) + Len(<<t>>)
        /\ \A i \in 1 .. Len(<<c, d>>) + Len(<<t>>) :
             s[i] = IF i <= Len(<<c, d>>) THEN <<c, d>>[i] ELSE <<t>>[i - Len(<<c, d>>)]
    BY <2>1, ConcatProperties, Zenon
  <2>3. Len(<<c, d>>) = 2 /\ Len(<<t>>) = 1 /\ Len(<<c, d, t>>) = 3
    OBVIOUS
  <2>4. Len(s) = 3 /\ \A i \in 1 .. 3 : s[i] = <<c, d, t>>[i]
    BY <2>2, <2>3
  <2>5. s = <<c, d, t>>
    BY <2>1, <2>2, <2>3, <2>4, SeqEqual, Zenon
  <2> QED BY <2>5 DEF LocksOf, IsMessage
<1>2. ~IsMessage(in) => LocksOf(in) = <<c, d>>
  BY DEF LocksOf, IsMessage
<1>3. CASE IsMessage(in)
  <2>1. LocksOf(in) = <<c, d, t>>
    BY <1>1, <1>3
  <2>2. Len(LocksOf(in)) = 3 /\ ToSet(LocksOf(in)) = {c, d, t}
    BY <2>1 DEF ToSet
  <2> QED BY <1>3, <2>1, <2>2 DEF LockIds
<1>4. CASE ~IsMessage(in)
  <2>1. LocksOf(in) = <<c, d>>
    BY <1>2, <1>4
  <2>2. Len(LocksOf(in)) = 2 /\ ToSet(LocksOf(in)) = {c, d}
    BY <2>1 DEF ToSet
  <2> QED BY <1>4, <2>1, <2>2 DEF LockIds
<1> QED BY <1>3, <1>4

\* An event that was tried in one mode was tried in no other.
LEMMA OnlyOne ==
  ASSUME NEW in \in tried, tried \subseteq Inputs, OneMode(in.event)
  PROVE  Only(in)
<1> DEFINE S == {b \in tried : b.event = in.event}
           M == {[event |-> in.event, mode |-> "runtime_only"],
                 [event |-> in.event, mode |-> "diagnostic_only"]}
<1>1. S \subseteq M
  BY InputShape DEF Modes
<1>2. IsFiniteSet(M)
  <2>1. IsFiniteSet({[event |-> in.event, mode |-> "runtime_only"]})
    BY FS_Singleton
  <2>2. IsFiniteSet({[event |-> in.event, mode |-> "runtime_only"]}
                      \cup {[event |-> in.event, mode |-> "diagnostic_only"]})
    BY <2>1, FS_AddElement
  <2>3. M = {[event |-> in.event, mode |-> "runtime_only"]}
              \cup {[event |-> in.event, mode |-> "diagnostic_only"]}
    OBVIOUS
  <2> QED BY <2>2, <2>3
<1>3. IsFiniteSet(S)
  BY <1>1, <1>2, FS_Subset
<1>4. Cardinality(S) = 1
  BY DEF OneMode
<1>5. PICK x : S = {x}
  BY <1>3, <1>4, FS_Singleton
<1>6. \A b \in S : b = x
  BY <1>5
<1>7. in \in S
  OBVIOUS
<1> QED BY <1>6, <1>7 DEF Only

-----------------------------------------------------------------------------
\* Types are kept.

\* A job stays good as more is tried.
LEMMA JobStays ==
  ASSUME NEW job, NEW e, GoodJob(job, e), tried \subseteq tried',
         NEW again, again = job, NEW f, f = e
  PROVE  /\ again \in Jobs /\ again.in.event = f /\ again.in \in tried'
         /\ Thread(again.in, again.thread)
BY DEF GoodJob

\* So does a call that does nothing.
LEMMA CallStays ==
  ASSUME NEW q \in TakerProcs, take[q] = NoTake \/ TakeOf(q), take'[q] = take[q],
         tried \subseteq tried'
  PROVE  (take[q] = NoTake \/ TakeOf(q))'
BY JobStays DEF TakeOf, In, IntakeWorks, IntakeWrites, TakeAt, GoodJob, Thread, IsMessage

\* What a step of p has to keep.
LEMMA TypedIf ==
  ASSUME Typed, NEW p \in TakerProcs,
         DOMAIN take' = TakerProcs, \A q \in TakerProcs \ {p} : take'[q] = take[q],
         take'[p] = NoTake \/ TakeOf(p)',
         DOMAIN file' = Keys, \A k \in Keys : file'[k] = file[k] \/ FileOf(k)',
         DOMAIN intakeJournal' = Events,
         \A e \in Events : intakeJournal'[e] = intakeJournal[e] \/ intakeJournal'[e] = Absent
                             \/ GoodJob(intakeJournal[e], e)',
         intakeLock' \in [LockIds -> TakerProcs \cup {"free", "dead"}],
         offered' = offered,
         tried \subseteq tried', tried' \subseteq Inputs, taken' \subseteq tried',
         overtaken' \subseteq {ThreadOf[e] : e \in Events}, intakeStolen' \in BOOLEAN,
         mishaps' = mishaps \/ (mishaps < MaxMishaps /\ mishaps' = mishaps + 1)
  PROVE  Typed'
<1>1. \A k \in Keys : FileOf(k)'
  BY DEF Typed, FileOf
<1>2. ASSUME NEW e \in Events  PROVE (intakeJournal[e] = Absent \/ GoodJob(intakeJournal[e], e))'
  <2>1. CASE intakeJournal'[e] = intakeJournal[e]
    <3>1. CASE intakeJournal[e] = Absent
      BY <2>1, <3>1 DEF Absent
    <3>2. CASE GoodJob(intakeJournal[e], e)
      BY <2>1, <3>2 DEF GoodJob, Thread, IsMessage
    <3> QED BY <3>1, <3>2 DEF Typed
  <2>2. CASE intakeJournal'[e] = Absent
    BY <2>2 DEF Absent
  <2> QED BY <2>1, <2>2
<1>3. \A q \in TakerProcs : (take[q] = NoTake \/ TakeOf(q))'
  <2>1. \A q \in TakerProcs \ {p} : (take[q] = NoTake \/ TakeOf(q))'
    BY CallStays DEF Typed
  <2> QED BY <2>1 DEF NoTake
<1>4. mishaps' \in Nat /\ mishaps' <= MaxMishaps
  BY IntakeAssumption DEF Typed
<1> QED BY <1>1, <1>2, <1>3, <1>4 DEF Typed

\* A call that goes on keeps its input, its thread record and its job.
LEMMA GoesOn ==
  ASSUME Typed, NEW p \in TakerProcs, take[p] # NoTake, NEW step, NEW pos,
         TakeGo(p, step, pos)
  PROVE  /\ DOMAIN take' = TakerProcs /\ \A q \in TakerProcs \ {p} : take'[q] = take[q]
         /\ TakeOf(p)
         /\ take'[p].step = step /\ take'[p].pos = pos /\ take'[p].in = take[p].in
         /\ take'[p].thread = take[p].thread /\ take'[p].job = take[p].job
         /\ step \in TakeSteps \ {"idle"} /\ pos \in Nat => take'[p] \in Takes
BY DEF Typed, TakeGo, TakeOf, Takes

\* Locks that are removed leave the other locks.
LEMMA UnlockTyped ==
  ASSUME Typed, NEW p \in TakerProcs, NEW locks \in SUBSET LockIds, Unlocked(p, locks)
  PROVE  /\ DOMAIN take' = TakerProcs /\ \A q \in TakerProcs \ {p} : take'[q] = take[q]
         /\ take'[p] = NoTake
         /\ intakeLock' \in [LockIds -> TakerProcs \cup {"free", "dead"}]
         /\ intakeStolen' \in BOOLEAN
BY DEF Typed, Unlocked

\* The next lock of a call is one of its locks.
LEMMA NextLockIs ==
  ASSUME Typed, NEW p \in TakerProcs, take[p].step \in {"lock", "unlock"}
  PROVE  /\ take[p] # NoTake /\ TakeOf(p) /\ In(p) \in Inputs /\ take[p].pos \in Nat
         /\ take[p].pos + 1 \in 1 .. Len(LocksOf(In(p))) /\ NextLock(p) \in LockIds
         /\ \A i \in 1 .. take[p].pos : LocksOf(In(p))[i] \in LockIds
<1>1. take[p] # NoTake /\ TakeOf(p)
  BY DEF NoTake, Typed
<1>2. In(p) \in Inputs /\ take[p].pos \in Nat /\ take[p].pos < Len(LocksOf(In(p)))
  BY <1>1 DEF TakeOf, In, Takes
<1>3. Len(LocksOf(In(p))) \in Nat
  BY <1>2, LocksAre
<1>4. take[p].pos + 1 \in 1 .. Len(LocksOf(In(p)))
  BY <1>2, <1>3
<1>5. \A i \in 1 .. Len(LocksOf(In(p))) : LocksOf(In(p))[i] \in LockIds
  BY <1>2, LocksAre
<1> QED BY <1>1, <1>2, <1>3, <1>4, <1>5 DEF NextLock

\* The types hold at first.
LEMMA TypedInit == IntakeInit => Typed
<1> SUFFICES ASSUME IntakeInit  PROVE Typed
  OBVIOUS
<1>1. DOMAIN file = Keys /\ \A k \in Keys : FileOf(k)
  BY DEF IntakeInit, FileOf
<1>2. DOMAIN intakeJournal = Events /\ \A e \in Events : intakeJournal[e] = Absent
  BY DEF IntakeInit
<1>3. DOMAIN take = TakerProcs /\ \A p \in TakerProcs : take[p] = NoTake
  BY DEF IntakeInit
<1>4. intakeLock \in [LockIds -> TakerProcs \cup {"free", "dead"}]
  BY DEF IntakeInit
<1>5. offered \subseteq Inputs
  BY IntakeAssumption DEF IntakeInit
<1>6. /\ taken \subseteq tried /\ tried \subseteq Inputs
      /\ overtaken \subseteq {ThreadOf[e] : e \in Events} /\ intakeStolen \in BOOLEAN
  BY DEF IntakeInit
<1>7. mishaps \in Nat /\ mishaps <= MaxMishaps
  <2>1. mishaps = 0
    BY DEF IntakeInit
  <2> QED BY <2>1, IntakeAssumption
<1> QED BY <1>1, <1>2, <1>3, <1>4, <1>5, <1>6, <1>7 DEF Typed

\* What is not of the locks stays as it is.
LEMMA StoreTyped ==
  ASSUME Typed, intakeStore' = intakeStore
  PROVE  /\ DOMAIN file' = Keys /\ \A k \in Keys : file'[k] = file[k] \/ FileOf(k)'
         /\ DOMAIN intakeJournal' = Events
         /\ \A e \in Events : intakeJournal'[e] = intakeJournal[e]
BY DEF Typed, intakeStore

\* The steps that take and release locks keep the types.
LEMMA LocksTyped ==
  ASSUME Typed, offered' = offered, NEW p \in TakerProcs,
         \/ \E in \in offered : BeginTake(p, in)
         \/ TakeLock(p) \/ FindStaleTake(p) \/ RemoveStaleTake(p)
         \/ TakeTimesOut(p) \/ ReleaseTake(p) \/ TakeFails(p) \/ TakerDies(p)
  PROVE  Typed'
<1> DEFINE Quiet == /\ intakeStore' = intakeStore /\ tried' = tried /\ taken' = taken
                    /\ overtaken' = overtaken
<1>0. ASSUME Quiet,
             DOMAIN take' = TakerProcs, \A q \in TakerProcs \ {p} : take'[q] = take[q],
             take'[p] = NoTake \/ TakeOf(p)',
             intakeLock' \in [LockIds -> TakerProcs \cup {"free", "dead"}],
             intakeStolen' \in BOOLEAN,
             mishaps' = mishaps \/ (mishaps < MaxMishaps /\ mishaps' = mishaps + 1)
      PROVE  Typed'
  <2>1. /\ DOMAIN file' = Keys /\ \A k \in Keys : file'[k] = file[k] \/ FileOf(k)'
        /\ DOMAIN intakeJournal' = Events
        /\ \A e \in Events : intakeJournal'[e] = intakeJournal[e]
    BY <1>0, StoreTyped
  <2>2. /\ tried \subseteq tried' /\ tried' \subseteq Inputs /\ taken' \subseteq tried'
        /\ overtaken' \subseteq {ThreadOf[e] : e \in Events}
    BY <1>0 DEF Typed
  <2> QED BY <1>0, <2>1, <2>2, TypedIf
<1>1. CASE \E in \in offered : BeginTake(p, in)
  <2>1. PICK in \in offered : BeginTake(p, in)
    BY <1>1
  <2>2. in \in Inputs
    BY DEF Typed
  <2>3. take'[p] = NewTake(in)
    BY <2>1 DEF BeginTake, Typed
  <2>4. 0 < Len(LocksOf(in))
    BY <2>2, LocksAre
  <2>5. TakeOf(p)'
    BY <2>2, <2>3, <2>4 DEF TakeOf, Takes, NewTake, TakeSteps, IntakeWorks, IntakeWrites, TakeAt, In
  <2> QED BY <1>0, <2>1, <2>5 DEF BeginTake, Typed, intakeGhosts
<1>2. CASE TakeLock(p)
  <2>1. /\ take[p] # NoTake /\ TakeOf(p) /\ In(p) \in Inputs /\ take[p].pos \in Nat
        /\ take[p].pos + 1 \in 1 .. Len(LocksOf(In(p))) /\ NextLock(p) \in LockIds
    BY <1>2, NextLockIs DEF TakeLock, TakeAt
  <2>2. Len(LocksOf(In(p))) \in Nat
    BY <2>1, LocksAre
  <2>3. /\ DOMAIN take' = TakerProcs /\ \A q \in TakerProcs \ {p} : take'[q] = take[q]
        /\ TakeOf(p)'
    <3>1. CASE TakeGo(p, "check", 0)
      <4>1. /\ DOMAIN take' = TakerProcs /\ \A q \in TakerProcs \ {p} : take'[q] = take[q]
            /\ take'[p] \in Takes /\ take'[p].step = "check"
        BY <2>1, <3>1, GoesOn DEF TakeSteps
      <4> QED BY <4>1 DEF TakeOf, IntakeWorks, IntakeWrites, TakeAt
    <3>2. CASE take[p].pos + 1 # Len(LocksOf(In(p))) /\ TakeGo(p, "lock", take[p].pos + 1)
      <4>1. /\ DOMAIN take' = TakerProcs /\ \A q \in TakerProcs \ {p} : take'[q] = take[q]
            /\ take'[p] \in Takes /\ take'[p].step = "lock" /\ take'[p].pos = take[p].pos + 1
            /\ take'[p].in = take[p].in
        BY <2>1, <3>2, GoesOn DEF TakeSteps
      <4> QED BY <2>1, <2>2, <3>2, <4>1 DEF TakeOf, IntakeWorks, IntakeWrites, TakeAt, In
    <3> QED BY <1>2, <3>1, <3>2 DEF TakeLock
  <2>4. intakeLock' \in [LockIds -> TakerProcs \cup {"free", "dead"}]
    BY <1>2 DEF TakeLock, Typed
  <2> QED BY <1>0, <1>2, <2>3, <2>4 DEF TakeLock, intakeGhosts, Typed
<1>3. CASE FindStaleTake(p)
  <2>1. take[p] # NoTake /\ TakeOf(p) /\ In(p) \in Inputs /\ take[p].pos \in Nat
    BY <1>3, NextLockIs DEF FindStaleTake, TakeAt
  <2>2. /\ DOMAIN take' = TakerProcs /\ \A q \in TakerProcs \ {p} : take'[q] = take[q]
        /\ take'[p] \in Takes /\ take'[p].step = "unlock" /\ take'[p].pos = take[p].pos
        /\ take'[p].in = take[p].in
    BY <1>3, <2>1, GoesOn DEF TakeSteps, FindStaleTake
  <2>3. TakeOf(p)'
    BY <1>3, <2>1, <2>2 DEF TakeOf, IntakeWorks, IntakeWrites, TakeAt, In, FindStaleTake
  <2>4. mishaps' = mishaps \/ (mishaps < MaxMishaps /\ mishaps' = mishaps + 1)
    BY <1>3 DEF FindStaleTake
  <2> QED BY <1>0, <1>3, <2>2, <2>3, <2>4 DEF FindStaleTake, intakeGhosts, Typed
<1>4. CASE RemoveStaleTake(p)
  <2>1. take[p] # NoTake /\ TakeOf(p) /\ In(p) \in Inputs /\ take[p].pos \in Nat
    BY <1>4, NextLockIs DEF RemoveStaleTake, TakeAt
  <2>2. /\ DOMAIN take' = TakerProcs /\ \A q \in TakerProcs \ {p} : take'[q] = take[q]
        /\ take'[p] \in Takes /\ take'[p].step = "lock" /\ take'[p].pos = take[p].pos
        /\ take'[p].in = take[p].in
    BY <1>4, <2>1, GoesOn DEF TakeSteps, RemoveStaleTake
  <2>3. TakeOf(p)'
    BY <1>4, <2>1, <2>2 DEF TakeOf, IntakeWorks, IntakeWrites, TakeAt, In, RemoveStaleTake
  <2>4. /\ intakeLock' \in [LockIds -> TakerProcs \cup {"free", "dead"}]
        /\ intakeStolen' \in BOOLEAN
    BY <1>4 DEF RemoveStaleTake, Typed
  <2> QED BY <1>0, <1>4, <2>2, <2>3, <2>4 DEF RemoveStaleTake
<1>5. CASE TakeTimesOut(p)
  <2>1. {LocksOf(In(p))[i] : i \in 1 .. take[p].pos} \in SUBSET LockIds
    BY <1>5, NextLockIs DEF TakeTimesOut, TakeAt
  <2>2. Unlocked(p, {LocksOf(In(p))[i] : i \in 1 .. take[p].pos})
    BY <1>5 DEF TakeTimesOut
  <2>3. Quiet /\ mishaps' = mishaps
    BY <1>5 DEF TakeTimesOut
  <2> HIDE DEF Quiet
  <2> QED BY <1>0, <2>1, <2>2, <2>3, UnlockTyped
<1>6. CASE ReleaseTake(p)
  <2>1. In(p) \in Inputs
    BY <1>6 DEF ReleaseTake, TakeAt, In, Typed, TakeOf, Takes, NoTake
  <2>2. Unlocked(p, ToSet(LocksOf(In(p)))) /\ ToSet(LocksOf(In(p))) \in SUBSET LockIds
    BY <1>6, <2>1, LocksAre DEF ReleaseTake
  <2>3. Quiet /\ mishaps' = mishaps
    BY <1>6 DEF ReleaseTake
  <2> HIDE DEF Quiet
  <2> QED BY <1>0, <2>2, <2>3, UnlockTyped
<1>7. CASE TakeFails(p)
  <2>1. In(p) \in Inputs
    BY <1>7 DEF TakeFails, TakeAt, In, Typed, TakeOf, Takes, NoTake
  <2>2. Unlocked(p, ToSet(LocksOf(In(p)))) /\ ToSet(LocksOf(In(p))) \in SUBSET LockIds
    BY <1>7, <2>1, LocksAre DEF TakeFails
  <2>3. Quiet /\ mishaps < MaxMishaps /\ mishaps' = mishaps + 1
    BY <1>7 DEF TakeFails
  <2> HIDE DEF Quiet
  <2> QED BY <1>0, <2>2, <2>3, UnlockTyped
<1>8. CASE TakerDies(p)
  <2>1. /\ DOMAIN take' = TakerProcs /\ \A q \in TakerProcs \ {p} : take'[q] = take[q]
        /\ take'[p] = NoTake
    BY <1>8 DEF TakerDies, Typed
  <2>2. intakeLock' \in [LockIds -> TakerProcs \cup {"free", "dead"}]
    BY <1>8 DEF TakerDies, Typed
  <2> QED BY <1>0, <1>8, <2>1, <2>2 DEF TakerDies, intakeGhosts, Typed
<1> QED BY <1>1, <1>2, <1>3, <1>4, <1>5, <1>6, <1>7, <1>8

\* A call past the lock steps has an input, and one that works was tried.
LEMMA CallIs ==
  ASSUME Typed, NEW p \in TakerProcs, ~TakeAt(p, "idle")
  PROVE  /\ take[p] # NoTake /\ TakeOf(p) /\ take[p] \in Takes
         /\ In(p) \in Inputs /\ In(p).event \in Events /\ ThreadKey(In(p)) \in Keys
         /\ Key("thread", In(p).event) = ThreadKey(In(p))
<1>1. take[p] # NoTake
  BY DEF TakeAt, NoTake
<1>2. TakeOf(p) /\ take[p] \in Takes /\ In(p) \in Inputs
  BY <1>1 DEF Typed, TakeOf, Takes, In
<1> QED BY <1>1, <1>2, InputShape, OwnedAre, KeyAre DEF ThreadKey

\* Of the steps of the locked part only the check, the writes and the deletions change
\* what a call holds, or a file.
LEMMA LockedTyped ==
  ASSUME Typed, offered' = offered, NEW p \in TakerProcs,
         DOMAIN take' = TakerProcs, \A q \in TakerProcs \ {p} : take'[q] = take[q],
         take'[p] = NoTake \/ TakeOf(p)',
         DOMAIN file' = Keys, \A k \in Keys : file'[k] = file[k] \/ FileOf(k)',
         DOMAIN intakeJournal' = Events,
         \A e \in Events : intakeJournal'[e] = intakeJournal[e] \/ intakeJournal'[e] = Absent
                             \/ GoodJob(intakeJournal[e], e)',
         tried \subseteq tried', tried' \subseteq Inputs, taken' \subseteq tried',
         overtaken' \subseteq {ThreadOf[e] : e \in Events},
         UNCHANGED <<intakeLock, intakeStolen, mishaps>>
  PROVE  Typed'
<1>1. /\ intakeLock' \in [LockIds -> TakerProcs \cup {"free", "dead"}]
      /\ intakeStolen' \in BOOLEAN
  BY DEF Typed
<1> QED BY <1>1, TypedIf

\* The thread record of a message has the message.
LEMMA ThreadWithIs ==
  ASSUME Typed, NEW in \in Inputs
  PROVE  /\ ThreadWith(in, file[ThreadKey(in)]) \in ThreadRecs
         /\ ThreadWith(in, file[ThreadKey(in)]).messages
              = Messages(ThreadOf[in.event]) \cup {in.event}
<1>1. in.event \in Events /\ ThreadKey(in) \in Keys
  BY InputShape, OwnedAre
<1>2. FileOf(ThreadKey(in)) /\ ThreadKey(in)[1] = "thread"
  BY <1>1 DEF Typed, ThreadKey
<1>3. file[ThreadKey(in)] = Absent \/ file[ThreadKey(in)] \in ThreadRecs
  BY <1>2 DEF FileOf
<1>4. \A r \in ThreadRecs : r.messages \in SUBSET Events
  BY DEF ThreadRecs
<1> QED BY <1>1, <1>3, <1>4 DEF ThreadWith, ThreadRecs, Messages, Present, ThreadKey

\* The check keeps the types.
LEMMA CheckTyped ==
  ASSUME Typed, offered' = offered, NEW p \in TakerProcs, CheckTake(p)
  PROVE  Typed'
<1> DEFINE in == In(p)
           there == file[Key("thread", in.event)]
           step == IF intakeJournal[in.event] = Absent THEN "decide" ELSE "replay"
           thr == IF in.mode = "runtime_only" THEN ThreadWith(in, there) ELSE Absent
<1>1. /\ take[p] # NoTake /\ TakeOf(p) /\ take[p] \in Takes
      /\ in \in Inputs /\ in.event \in Events
      /\ Key("thread", in.event) = ThreadKey(in)
  BY CallIs DEF CheckTake, TakeAt
<1>2. intakeStore' = intakeStore /\ UNCHANGED <<intakeLock, taken, intakeStolen, mishaps>>
  BY DEF CheckTake
<1>3. /\ DOMAIN file' = Keys /\ \A k \in Keys : file'[k] = file[k] \/ FileOf(k)'
      /\ DOMAIN intakeJournal' = Events
      /\ \A e \in Events : intakeJournal'[e] = intakeJournal[e]
  BY <1>2, StoreTyped
<1>4. CASE TakeGo(p, "release", 0) /\ UNCHANGED <<tried, overtaken>>
  <2>1. /\ DOMAIN take' = TakerProcs /\ \A q \in TakerProcs \ {p} : take'[q] = take[q]
        /\ take'[p] \in Takes /\ take'[p].step = "release"
    BY <1>1, <1>4, GoesOn DEF TakeSteps
  <2>2. TakeOf(p)'
    BY <2>1 DEF TakeOf, IntakeWorks, IntakeWrites, TakeAt
  <2>3. /\ tried \subseteq tried' /\ tried' \subseteq Inputs /\ taken' \subseteq tried'
        /\ overtaken' \subseteq {ThreadOf[e] : e \in Events}
    BY <1>2, <1>4 DEF Typed
  <2> QED BY <1>2, <1>3, <2>1, <2>2, <2>3, LockedTyped
<1>5. CASE /\ take' = [take EXCEPT ![p].step = step, ![p].pos = 0, ![p].thread = thr,
                                   ![p].job = intakeJournal[in.event]]
           /\ tried' = tried \cup {in}
           /\ overtaken' = overtaken \/ overtaken' = overtaken \cup {ThreadOf[in.event]}
  <2>1. /\ DOMAIN take' = TakerProcs /\ \A q \in TakerProcs \ {p} : take'[q] = take[q]
        /\ take'[p] = [take[p] EXCEPT !.step = step, !.pos = 0, !.thread = thr,
                                      !.job = intakeJournal[in.event]]
    BY <1>5 DEF Typed
  <2>2. thr \in ThreadRecs \cup {Absent} /\ Thread(in, thr)
    <3>1. CASE IsMessage(in)
      <4>1. thr = ThreadWith(in, file[ThreadKey(in)])
        BY <1>1, <3>1 DEF IsMessage
      <4>2. thr \in ThreadRecs /\ thr.messages = Messages(ThreadOf[in.event]) \cup {in.event}
        BY <1>1, <4>1, ThreadWithIs
      <4> QED BY <3>1, <4>2 DEF Thread
    <3>2. CASE ~IsMessage(in)
      BY <3>2 DEF IsMessage, Thread
    <3> QED BY <3>1, <3>2
  <2>3. intakeJournal[in.event] = Absent \/ GoodJob(intakeJournal[in.event], in.event)
    BY <1>1 DEF Typed
  <2>4. intakeJournal[in.event] \in Jobs \cup {Absent}
    BY <2>3 DEF GoodJob
  <2>5. step \in TakeSteps \ {"idle"} /\ step \in {"decide", "replay"}
    BY DEF TakeSteps
  <2> HIDE DEF thr
  <2>6. /\ take'[p] \in Takes /\ take'[p].step = step /\ take'[p].pos = 0
        /\ take'[p].in = in /\ take'[p].thread = thr /\ take'[p].job = intakeJournal[in.event]
    <3> DEFINE y == [take[p] EXCEPT !.step = step, !.pos = 0, !.thread = thr,
                                    !.job = intakeJournal[in.event]]
    <3> HIDE DEF step, in
    <3>1. /\ y \in Takes /\ y.step = step /\ y.pos = 0 /\ y.in = take[p].in /\ y.thread = thr
          /\ y.job = intakeJournal[in.event]
      <4> HIDE DEF thr
      <4> QED BY <1>1, <2>2, <2>4, <2>5 DEF Takes
    <3>2. take'[p] = y
      BY <2>1
    <3> HIDE DEF y
    <3> QED BY <3>1, <3>2 DEF In, in
  <2>7. step = "replay" =>
          /\ take'[p].job \in Jobs /\ take'[p].job.in.event = in.event
          /\ take'[p].job.in \in tried' /\ Thread(take'[p].job.in, take'[p].job.thread)
    BY <1>5, <2>3, <2>6 DEF GoodJob
  <2>8. \A job \in Jobs : Len(FilesOf(job.in)) \in Nat
    BY FilePositions DEF Jobs
  <2>9. TakeOf(p)'
    <3>1. in \in tried' /\ Thread(in, take'[p].thread)
      BY <1>5, <2>2, <2>6
    <3>2. take'[p].in = in
      BY <2>6
    <3>3. step = "replay" => 0 <= Len(FilesOf(take'[p].job.in))
      BY <2>7, <2>8
    <3> HIDE DEF in, step
    <3> QED BY <2>5, <2>6, <2>7, <3>1, <3>2, <3>3 DEF TakeOf, IntakeWorks, IntakeWrites, TakeAt, GoodJob, In,
               Thread, IsMessage
  <2>10. /\ tried \subseteq tried' /\ tried' \subseteq Inputs /\ taken' \subseteq tried'
         /\ overtaken' \subseteq {ThreadOf[e] : e \in Events}
    BY <1>1, <1>2, <1>5 DEF Typed
  <2> QED BY <1>2, <1>3, <2>1, <2>9, <2>10, LockedTyped
<1> QED BY <1>4, <1>5 DEF CheckTake

\* So do the writes, the deletions and the journal.
LEMMA WriteTyped ==
  ASSUME Typed, offered' = offered, NEW p \in TakerProcs,
         \/ WriteFile(p) \/ ClearTakeJournal(p) \/ DecideTake(p) \/ ResetTake(p)
         \/ WriteTakeJournal(p)
  PROVE  Typed'
<1>1. /\ take[p] # NoTake /\ TakeOf(p) /\ take[p] \in Takes
      /\ In(p) \in Inputs /\ In(p).event \in Events
      /\ IntakeWorks(p) /\ In(p) \in tried /\ Thread(In(p), take[p].thread)
      /\ UNCHANGED <<intakeLock, intakeStolen, mishaps, tried, overtaken>>
  <2>1. IntakeWorks(p)
    BY DEF WriteFile, ClearTakeJournal, DecideTake, ResetTake, WriteTakeJournal, TakeAt, IntakeWorks
  <2>2. UNCHANGED <<intakeLock, intakeStolen, mishaps, tried, overtaken>>
    BY DEF WriteFile, ClearTakeJournal, DecideTake, ResetTake, WriteTakeJournal, intakeGhosts
  <2> QED BY <2>1, <2>2, CallIs DEF IntakeWorks, TakeAt, TakeOf
<1>2. /\ tried \subseteq tried' /\ tried' \subseteq Inputs /\ taken \subseteq tried'
      /\ overtaken' \subseteq {ThreadOf[e] : e \in Events}
  BY <1>1 DEF Typed
<1>3. \A step \in TakeSteps \ {"idle"}, pos \in Nat : TakeGo(p, step, pos) =>
        /\ DOMAIN take' = TakerProcs /\ \A q \in TakerProcs \ {p} : take'[q] = take[q]
        /\ take'[p] \in Takes /\ take'[p].step = step /\ take'[p].pos = pos
        /\ take'[p].in = In(p) /\ take'[p].thread = take[p].thread /\ take'[p].job = take[p].job
  BY <1>1, GoesOn DEF In
<1>4. IntakeWrites(p) =>
        /\ GoodJob(take[p].job, In(p).event) /\ take[p].job \in Jobs /\ take[p].job.in \in Inputs
        /\ take[p].job.in \in tried
        /\ take[p].job.in.event = In(p).event /\ take[p].pos \in Nat
        /\ take[p].pos <= Len(FilesOf(take[p].job.in)) /\ Len(FilesOf(take[p].job.in)) \in Nat
        /\ Thread(take[p].job.in, take[p].job.thread)
  BY <1>1, FilePositions DEF TakeOf, GoodJob, Jobs, Takes
<1>5. DOMAIN file = Keys /\ DOMAIN intakeJournal = Events
  BY DEF Typed
<1>6. CASE WriteFile(p)
  <2> DEFINE job == take[p].job
             i == take[p].pos + 1
             kind == FilesOf(job.in)[i]
             v == IF kind = "thread" THEN job.thread ELSE BuiltFrom(kind, job.in)
  <2>1. IntakeWrites(p) /\ i <= Len(FilesOf(job.in))
    BY <1>6 DEF WriteFile, IntakeWrites
  <2>2. i \in 1 .. Len(FilesOf(job.in)) /\ i \in Nat
    BY <1>4, <2>1
  <2>3. kind \in ToSet(FilesOf(job.in)) /\ (kind = "thread" => IsMessage(job.in))
    BY <1>4, <2>1, <2>2, FilePositions
  <2>4. Key(kind, job.in.event) \in Keys /\ Key(kind, job.in.event)[1] = kind
    BY <1>1, <1>4, <2>1, <2>3, OwnedAre, KeyAre
  <2>5. take[p].step \in TakeSteps \ {"idle"}
    BY <1>1 DEF Takes
  <2>6. TakeGo(p, take[p].step, i) /\ intakeJournal' = intakeJournal /\ taken' = taken
        /\ file' = [file EXCEPT ![Key(kind, job.in.event)] = v]
    BY <1>6 DEF WriteFile, intakeGhosts
  <2>7. \A k \in Keys : k # Key(kind, job.in.event) => file'[k] = file[k]
    BY <1>5, <2>6
  <2>8. file'[Key(kind, job.in.event)] = v
    BY <1>5, <2>4, <2>6
  <2>9. \/ v \in ThreadRecs /\ kind = "thread"
        \/ kind # "thread" /\ v \in [kind : {kind}, in : Inputs]
    <3>1. CASE kind = "thread"
      <4>1. v = job.thread /\ IsMessage(job.in)
        BY <2>3, <3>1
      <4>2. Thread(job.in, job.thread)
        BY <1>4, <2>1
      <4>3. v \in ThreadRecs
        BY <4>1, <4>2 DEF Thread
      <4> HIDE DEF v, kind
      <4> QED BY <3>1, <4>3
    <3>2. CASE kind # "thread"
      <4>1. v = BuiltFrom(kind, job.in)
        BY <3>2
      <4> HIDE DEF v, kind
      <4> QED BY <1>4, <2>1, <3>2, <4>1 DEF BuiltFrom
    <3> QED BY <3>1, <3>2
  <2> HIDE DEF v, kind
  <2>10. \A k \in Keys : file'[k] = file[k] \/ FileOf(k)'
    BY <2>4, <2>7, <2>8, <2>9 DEF FileOf
  <2>11. /\ DOMAIN take' = TakerProcs /\ \A q \in TakerProcs \ {p} : take'[q] = take[q]
         /\ take'[p] \in Takes /\ take'[p].step = take[p].step /\ take'[p].pos = i
         /\ take'[p].in = In(p) /\ take'[p].thread = take[p].thread /\ take'[p].job = job
    BY <1>3, <2>2, <2>5, <2>6
  <2>12. TakeOf(p)'
    BY <1>1, <1>4, <2>1, <2>11 DEF TakeOf, IntakeWorks, IntakeWrites, TakeAt, In, GoodJob, Thread, IsMessage
  <2>13. DOMAIN file' = Keys /\ DOMAIN intakeJournal' = Events
         /\ \A e \in Events : intakeJournal'[e] = intakeJournal[e]
    BY <1>5, <2>6
  <2> QED BY <1>1, <1>2, <2>6, <2>10, <2>11, <2>12, <2>13, LockedTyped
<1>7. CASE ClearTakeJournal(p)
  <2>1. file' = file /\ intakeJournal' = [intakeJournal EXCEPT ![take[p].job.in.event] = Absent]
    BY <1>7 DEF ClearTakeJournal
  <2>2. DOMAIN file' = Keys /\ DOMAIN intakeJournal' = Events
        /\ (\A k \in Keys : file'[k] = file[k])
        /\ \A e \in Events : intakeJournal'[e] = intakeJournal[e] \/ intakeJournal'[e] = Absent
    BY <1>5, <2>1
  <2>3. \/ TakeGo(p, "decide", 0) /\ taken' = taken
        \/ TakeGo(p, "release", 0) /\ taken' = taken \cup {take[p].job.in}
    BY <1>7 DEF ClearTakeJournal
  <2>4. /\ DOMAIN take' = TakerProcs /\ \A q \in TakerProcs \ {p} : take'[q] = take[q]
        /\ take'[p] \in Takes /\ take'[p].step \in {"decide", "release"}
        /\ take'[p].in = In(p) /\ take'[p].thread = take[p].thread
    BY <1>3, <2>3 DEF TakeSteps
  <2>5. TakeOf(p)'
    BY <1>1, <2>4 DEF TakeOf, IntakeWorks, IntakeWrites, TakeAt, In, Thread, IsMessage
  <2>6. taken' \subseteq tried'
    BY <1>2, <1>4, <1>7, <2>3, <1>1 DEF ClearTakeJournal, IntakeWrites
  <2> QED BY <1>1, <1>2, <2>2, <2>4, <2>5, <2>6, LockedTyped
<1>8. CASE DecideTake(p)
  <2>1. file' = file /\ intakeJournal' = intakeJournal
    BY <1>8 DEF DecideTake, intakeStore
  <2>2. DOMAIN file' = Keys /\ DOMAIN intakeJournal' = Events
        /\ (\A k \in Keys : file'[k] = file[k])
        /\ \A e \in Events : intakeJournal'[e] = intakeJournal[e]
    BY <1>5, <2>1
  <2>3. /\ \E step \in {"release", "journal", "reset"} : TakeGo(p, step, 0)
        /\ taken' = taken \/ taken' = taken \cup {In(p)}
    BY <1>8 DEF DecideTake
  <2>4. /\ DOMAIN take' = TakerProcs /\ \A q \in TakerProcs \ {p} : take'[q] = take[q]
        /\ take'[p] \in Takes /\ take'[p].step \in {"release", "journal", "reset"}
        /\ take'[p].in = In(p) /\ take'[p].thread = take[p].thread
    BY <1>3, <2>3 DEF TakeSteps
  <2>5. TakeOf(p)'
    BY <1>1, <2>4 DEF TakeOf, IntakeWorks, IntakeWrites, TakeAt, In, Thread, IsMessage
  <2>6. taken' \subseteq tried'
    BY <1>1, <1>2, <2>3
  <2> QED BY <1>1, <1>2, <2>2, <2>4, <2>5, <2>6, LockedTyped
<1>9. CASE ResetTake(p)
  <2>1. intakeJournal' = intakeJournal /\ taken' = taken
    BY <1>9 DEF ResetTake, intakeGhosts
  <2>2. DOMAIN intakeJournal' = Events /\ \A e \in Events : intakeJournal'[e] = intakeJournal[e]
    BY <1>5, <2>1
  <2>3. CASE TakeGo(p, "journal", 0) /\ UNCHANGED file
    <3>1. /\ DOMAIN take' = TakerProcs /\ \A q \in TakerProcs \ {p} : take'[q] = take[q]
          /\ take'[p] \in Takes /\ take'[p].step = "journal"
          /\ take'[p].in = In(p) /\ take'[p].thread = take[p].thread
      BY <1>3, <2>3 DEF TakeSteps
    <3>2. TakeOf(p)'
      BY <1>1, <3>1 DEF TakeOf, IntakeWorks, IntakeWrites, TakeAt, In, Thread, IsMessage
    <3>3. DOMAIN file' = Keys /\ \A k \in Keys : file'[k] = file[k]
      BY <1>5, <2>3
    <3> QED BY <1>1, <1>2, <2>1, <2>2, <3>1, <3>2, <3>3, LockedTyped
  <2>4. CASE UNCHANGED take /\ \E k : file' = [file EXCEPT ![k] = Absent]
    <3>1. DOMAIN file' = Keys /\ \A k \in Keys : file'[k] = file[k] \/ file'[k] = Absent
      BY <1>5, <2>4
    <3>2. \A k \in Keys : file'[k] = file[k] \/ FileOf(k)'
      BY <3>1 DEF FileOf, Absent
    <3>3. DOMAIN take' = TakerProcs /\ \A q \in TakerProcs : take'[q] = take[q]
      BY <2>4 DEF Typed
    <3>4. TakeOf(p)'
      BY <1>1, <3>3, CallStays DEF NoTake
    <3> QED BY <1>1, <1>2, <2>1, <2>2, <3>1, <3>2, <3>3, <3>4, LockedTyped
  <2> QED BY <1>9, <2>3, <2>4 DEF ResetTake
<1>10. CASE WriteTakeJournal(p)
  <2> DEFINE job == Job(In(p), take[p].thread)
  <2>1. /\ intakeJournal' = [intakeJournal EXCEPT ![In(p).event] = job]
        /\ take' = [take EXCEPT ![p].step = "write", ![p].pos = 0, ![p].job = job]
        /\ file' = file /\ taken' = taken
    BY <1>10 DEF WriteTakeJournal, intakeGhosts
  <2>2. /\ job \in Jobs /\ job.in = In(p) /\ job.thread = take[p].thread
    BY <1>1 DEF Job, Jobs, Takes
  <2>3. /\ DOMAIN take' = TakerProcs /\ \A q \in TakerProcs \ {p} : take'[q] = take[q]
        /\ take'[p] = [take[p] EXCEPT !.step = "write", !.pos = 0, !.job = job]
    BY <2>1 DEF Typed
  <2> HIDE DEF job
  <2>4. /\ take'[p] \in Takes /\ take'[p].step = "write" /\ take'[p].pos = 0
        /\ take'[p].in = In(p) /\ take'[p].thread = take[p].thread /\ take'[p].job = job
    <3>1. take'[p] = [take[p] EXCEPT !.step = "write", !.pos = 0, !.thread = take[p].thread,
                                     !.job = job]
      BY <1>1, <2>3 DEF Takes
    <3>2. take[p].thread \in ThreadRecs \cup {Absent} /\ "write" \in TakeSteps \ {"idle"}
      BY <1>1 DEF Takes, TakeSteps
    <3> DEFINE y == [take[p] EXCEPT !.step = "write", !.pos = 0, !.thread = take[p].thread,
                                    !.job = job]
    <3>3. /\ y \in Takes /\ y.step = "write" /\ y.pos = 0 /\ y.in = take[p].in
          /\ y.thread = take[p].thread /\ y.job = job
      BY <1>1, <2>2, <3>2 DEF Takes
    <3>4. take'[p] = y
      BY <3>1
    <3> HIDE DEF y
    <3> QED BY <3>3, <3>4 DEF In
  <2>5. 0 <= Len(FilesOf(job.in))
    BY <1>1, <2>2, FilePositions
  <2>6. job.in.event = In(p).event /\ job.in \in tried' /\ Thread(job.in, job.thread)
    BY <1>1, <2>2
  <2>7. TakeOf(p)'
    <3>1. /\ take'[p].in = In(p) /\ take'[p].in \in tried'
          /\ Thread(take'[p].in, take'[p].thread)
      BY <1>1, <2>4
    <3>2. take'[p].job = Job(take'[p].in, take'[p].thread)
      BY <2>4 DEF job
    <3> QED BY <1>1, <2>2, <2>4, <2>5, <2>6, <3>1, <3>2
            DEF TakeOf, IntakeWorks, IntakeWrites, TakeAt, In, GoodJob, Thread, IsMessage
  <2>8. /\ DOMAIN intakeJournal' = Events /\ intakeJournal'[In(p).event] = job
        /\ \A e \in Events : e # In(p).event => intakeJournal'[e] = intakeJournal[e]
    BY <1>1, <1>5, <2>1
  <2>9. ASSUME NEW e \in Events
        PROVE  intakeJournal'[e] = intakeJournal[e] \/ GoodJob(intakeJournal[e], e)'
    BY <2>2, <2>6, <2>8 DEF GoodJob, Thread, IsMessage
  <2>10. DOMAIN file' = Keys /\ \A k \in Keys : file'[k] = file[k]
    BY <1>5, <2>1
  <2> QED BY <1>1, <1>2, <2>1, <2>3, <2>7, <2>8, <2>9, <2>10, LockedTyped
<1> QED BY <1>6, <1>7, <1>8, <1>9, <1>10

\* Every step keeps the types.
LEMMA TypedStep ==
  ASSUME Typed, [IntakeNext]_intakeVars
  PROVE  Typed'
<1>1. CASE UNCHANGED intakeVars
  BY <1>1 DEF intakeVars, Typed, FileOf, TakeOf, GoodJob, Thread, IsMessage, IntakeWorks, IntakeWrites,
              TakeAt, In
<1>2. CASE IntakeNext
  <2>1. offered' = offered
    BY <1>2 DEF IntakeNext
  <2>2. PICK p \in TakerProcs :
          \/ \E in \in offered : BeginTake(p, in)
          \/ TakeLock(p) \/ FindStaleTake(p) \/ RemoveStaleTake(p)
          \/ TakeTimesOut(p) \/ ReleaseTake(p)
          \/ CheckTake(p) \/ WriteFile(p) \/ ClearTakeJournal(p)
          \/ DecideTake(p) \/ ResetTake(p) \/ WriteTakeJournal(p)
          \/ TakeFails(p) \/ TakerDies(p)
    BY <1>2 DEF IntakeNext
  <2> QED BY <2>1, <2>2, LocksTyped, CheckTyped, WriteTyped
<1> QED BY <1>1, <1>2

\* The variables of IntakeStore keep their types: what every file, journal and call may
\* hold, and that a job that is pending or under way is about an input that was tried.
THEOREM IntakeTyped == IntakeSpec => []IntakeTypeOK
<1>1. Typed => IntakeTypeOK
  <2> SUFFICES ASSUME Typed  PROVE IntakeTypeOK
    OBVIOUS
  <2>1. \A k \in Keys : file[k] = Absent \/ file[k].kind = k[1]
    BY DEF Typed, FileOf, ThreadRecs
  <2>2. \A p \in TakerProcs : take[p].step \in TakeSteps
    BY DEF Typed, TakeOf, Takes, NoTake, TakeSteps
  <2>3. mishaps \in 0 .. MaxMishaps
    BY IntakeAssumption DEF Typed
  <2> QED BY <2>1, <2>2, <2>3 DEF Typed, IntakeTypeOK
<1> QED BY <1>1, TypedInit, TypedStep, PTL DEF IntakeSpec

-----------------------------------------------------------------------------
\* The locks.

IntakeInside(p) == ~(take[p].step \in {"idle", "lock", "unlock"})

\* Of the calls inside one has a payload, and one has a thread as a message.
LEMMA IntakeExclusive ==
  ASSUME Typed, LocksHeld, NEW p \in TakerProcs, NEW q \in TakerProcs,
         IntakeInside(p), IntakeInside(q),
         \/ In(p).event = In(q).event
         \/ ContentOf[In(p).event] = ContentOf[In(q).event]
         \/ IsMessage(In(p)) /\ IsMessage(In(q)) /\ ThreadOf[In(p).event] = ThreadOf[In(q).event]
  PROVE  p = q
<1>1. In(p) \in Inputs /\ In(q) \in Inputs
  BY CallIs DEF IntakeInside, TakeAt
<1>2. Holds(p) = ToSet(LocksOf(In(p))) /\ Holds(q) = ToSet(LocksOf(In(q)))
  BY DEF Holds, IntakeInside, TakeAt
<1>3. \E l : l \in Holds(p) /\ l \in Holds(q)
  <2>1. CASE ContentOf[In(p).event] = ContentOf[In(q).event]
    <3> DEFINE l == <<"content_ref", ContentOf[In(p).event]>>
    <3>1. l \in ToSet(LocksOf(In(p)))
      BY <1>1, LocksAre
    <3>2. <<"content_ref", ContentOf[In(q).event]>> \in ToSet(LocksOf(In(q)))
      BY <1>1, LocksAre
    <3> QED BY <1>2, <2>1, <3>1, <3>2
  <2>2. CASE IsMessage(In(p)) /\ IsMessage(In(q))
               /\ ThreadOf[In(p).event] = ThreadOf[In(q).event]
    <3> DEFINE l == <<"runtime_identity", ThreadOf[In(p).event]>>
    <3>1. l \in ToSet(LocksOf(In(p)))
      BY <1>1, <2>2, LocksAre
    <3>2. <<"runtime_identity", ThreadOf[In(q).event]>> \in ToSet(LocksOf(In(q)))
      BY <1>1, <2>2, LocksAre
    <3> QED BY <1>2, <2>2, <3>1, <3>2
  <2> QED BY <2>1, <2>2
<1>4. PICK l : l \in Holds(p) /\ l \in Holds(q)
  BY <1>3
<1>5. intakeLock[l] = p /\ intakeLock[l] = q
  BY <1>4 DEF LocksHeld
<1> QED BY <1>5

\* What a call holds are locks there are.
LEMMA HoldsLocks ==
  ASSUME Typed, NEW p \in TakerProcs
  PROVE  Holds(p) \subseteq LockIds
<1>1. CASE TakeAt(p, "idle")
  BY <1>1 DEF Holds, TakeAt
<1>2. CASE take[p].step \in {"lock", "unlock"}
  BY <1>2, NextLockIs DEF Holds, TakeAt
<1>3. CASE IntakeInside(p)
  BY <1>3, CallIs, LocksAre DEF Holds, IntakeInside, TakeAt
<1> QED BY <1>1, <1>2, <1>3 DEF IntakeInside, TakeAt

\* A call that does nothing holds what it held.
LEMMA HoldsSame ==
  ASSUME NEW q \in TakerProcs, take'[q] = take[q]
  PROVE  Holds(q)' = Holds(q)
BY DEF Holds, TakeAt, In

\* Taking one more lock, or holding no more, takes none from another.
LEMMA HeldIf ==
  ASSUME Typed, LocksHeld, NEW p \in TakerProcs,
         \A q \in TakerProcs \ {p} : take'[q] = take[q],
         \A q \in TakerProcs \ {p} : \A l \in Holds(q) : intakeLock'[l] = intakeLock[l],
         \A l \in Holds(p)' : intakeLock'[l] = p
  PROVE  LocksHeld'
<1>1. \A q \in TakerProcs \ {p} : Holds(q)' = Holds(q)
  BY HoldsSame
<1> QED BY <1>1 DEF LocksHeld

\* Locks that are removed, none of them another's, leave the others their locks.
LEMMA UnlockHeld ==
  ASSUME Typed, LocksHeld, NEW p \in TakerProcs, NEW locks, Unlocked(p, locks), ~intakeStolen'
  PROVE  LocksHeld'
<1>1. /\ \A q \in TakerProcs \ {p} : take'[q] = take[q]
      /\ take'[p] = NoTake
  BY DEF Unlocked, Typed
<1>2. \A l \in locks : intakeLock[l] \notin TakerProcs \ {p}
  BY DEF Unlocked
<1>3. ASSUME NEW q \in TakerProcs \ {p}, NEW l \in Holds(q)  PROVE intakeLock'[l] = intakeLock[l]
  <2>1. intakeLock[l] = q /\ l \in LockIds
    BY HoldsLocks DEF LocksHeld
  <2> QED BY <1>2, <2>1 DEF Unlocked
<1>4. Holds(p)' = {}
  BY <1>1 DEF Holds, TakeAt, NoTake
<1> QED BY <1>1, <1>3, <1>4, HeldIf

\* The steps that take and release locks: those a call holds stay its own.
LEMMA LocksStep ==
  ASSUME Typed, LocksHeld, ~intakeStolen', NEW p \in TakerProcs,
         \/ \E in \in offered : BeginTake(p, in)
         \/ TakeLock(p) \/ FindStaleTake(p) \/ RemoveStaleTake(p)
         \/ TakeTimesOut(p) \/ ReleaseTake(p) \/ TakeFails(p) \/ TakerDies(p)
  PROVE  LocksHeld'
<1>1. CASE \E in \in offered : BeginTake(p, in)
  <2>1. PICK in \in offered : BeginTake(p, in)
    BY <1>1
  <2>2. /\ \A q \in TakerProcs \ {p} : take'[q] = take[q]
        /\ take'[p] = NewTake(in) /\ intakeLock' = intakeLock
    BY <2>1 DEF BeginTake, Typed
  <2>3. Holds(p)' = {}
    BY <2>2 DEF Holds, TakeAt, NewTake
  <2> QED BY <2>2, <2>3, HeldIf
<1>2. CASE TakeLock(p)
  <2>1. /\ take[p] # NoTake /\ TakeOf(p) /\ In(p) \in Inputs /\ take[p].pos \in Nat
        /\ take[p].pos + 1 \in 1 .. Len(LocksOf(In(p))) /\ NextLock(p) \in LockIds
    BY <1>2, NextLockIs DEF TakeLock, TakeAt
  <2>2. /\ \A q \in TakerProcs \ {p} : take'[q] = take[q]
        /\ take'[p].in = take[p].in
    BY <1>2, <2>1, GoesOn DEF TakeLock
  <2>3. /\ intakeLock[NextLock(p)] = "free"
        /\ \A l \in LockIds : intakeLock'[l] = IF l = NextLock(p) THEN p ELSE intakeLock[l]
    BY <1>2 DEF TakeLock, Typed
  <2>4. "free" \notin TakerProcs
    BY IntakeAssumption
  <2>5. ASSUME NEW q \in TakerProcs \ {p}, NEW l \in Holds(q)  PROVE intakeLock'[l] = intakeLock[l]
    <3>1. l \in LockIds /\ intakeLock[l] = q
      BY HoldsLocks DEF LocksHeld
    <3> QED BY <2>3, <2>4, <3>1
  <2>6. \A i \in 1 .. take[p].pos : intakeLock[LocksOf(In(p))[i]] = p
    BY <1>2 DEF LocksHeld, Holds, TakeLock, TakeAt
  <2>7. \A i \in 1 .. take[p].pos + 1 : intakeLock'[LocksOf(In(p))[i]] = p
    <3>1. \A i \in 1 .. take[p].pos : LocksOf(In(p))[i] \in LockIds
      BY <1>2, NextLockIs DEF TakeLock, TakeAt
    <3> QED BY <2>1, <2>3, <2>6, <3>1 DEF NextLock
  <2>8. ASSUME NEW l \in Holds(p)'  PROVE intakeLock'[l] = p
    <3>1. CASE take[p].pos + 1 = Len(LocksOf(In(p))) /\ TakeGo(p, "check", 0)
      <4>1. take'[p].step = "check"
        BY <2>1, <3>1, GoesOn
      <4>2. l \in ToSet(LocksOf(In(p)))
        BY <2>2, <4>1 DEF Holds, TakeAt, In
      <4>3. \E i \in 1 .. take[p].pos + 1 : LocksOf(In(p))[i] = l
        BY <2>1, <3>1, <4>2, LocksAre
      <4> QED BY <2>7, <4>3
    <3>2. CASE TakeGo(p, "lock", take[p].pos + 1)
      <4>1. take'[p].step = "lock" /\ take'[p].pos = take[p].pos + 1
        BY <2>1, <3>2, GoesOn
      <4>2. l \in {LocksOf(In(p))[i] : i \in 1 .. take[p].pos + 1}
        BY <2>2, <4>1 DEF Holds, TakeAt, In
      <4> QED BY <2>7, <4>2
    <3> QED BY <1>2, <3>1, <3>2 DEF TakeLock
  <2> QED BY <2>2, <2>5, <2>8, HeldIf
<1>3. CASE FindStaleTake(p)
  <2>1. take[p] # NoTake
    BY <1>3 DEF FindStaleTake, TakeAt, NoTake
  <2>2. /\ \A q \in TakerProcs \ {p} : take'[q] = take[q]
        /\ take'[p].in = take[p].in /\ take'[p].step = "unlock" /\ take'[p].pos = take[p].pos
        /\ intakeLock' = intakeLock
    BY <1>3, <2>1, GoesOn DEF FindStaleTake
  <2>3. Holds(p)' = Holds(p)
    BY <1>3, <2>2 DEF FindStaleTake, Holds, TakeAt, In
  <2> QED BY <2>2, <2>3, HeldIf DEF LocksHeld
<1>4. CASE RemoveStaleTake(p)
  <2>1. take[p] # NoTake
    BY <1>4 DEF RemoveStaleTake, TakeAt, NoTake
  <2>2. /\ \A q \in TakerProcs \ {p} : take'[q] = take[q]
        /\ take'[p].in = take[p].in /\ take'[p].step = "lock" /\ take'[p].pos = take[p].pos
    BY <1>4, <2>1, GoesOn DEF RemoveStaleTake
  <2>3. Holds(p)' = Holds(p)
    BY <1>4, <2>2 DEF RemoveStaleTake, Holds, TakeAt, In
  <2>4. /\ intakeLock[NextLock(p)] \notin TakerProcs
        /\ \A l \in LockIds : l # NextLock(p) => intakeLock'[l] = intakeLock[l]
    BY <1>4 DEF RemoveStaleTake, Typed
  <2>5. \A q \in TakerProcs : \A l \in Holds(q) : intakeLock'[l] = intakeLock[l]
    BY <2>4, HoldsLocks DEF LocksHeld
  <2> QED BY <2>2, <2>3, <2>5, HeldIf DEF LocksHeld
<1>5. CASE TakeTimesOut(p) \/ ReleaseTake(p) \/ TakeFails(p)
  BY <1>5, UnlockHeld DEF TakeTimesOut, ReleaseTake, TakeFails
<1>6. CASE TakerDies(p)
  <2>1. /\ \A q \in TakerProcs \ {p} : take'[q] = take[q]
        /\ take'[p] = NoTake
    BY <1>6 DEF TakerDies, Typed
  <2>2. Holds(p)' = {}
    BY <2>1 DEF Holds, TakeAt, NoTake
  <2>3. \A q \in TakerProcs \ {p} : \A l \in Holds(q) : intakeLock'[l] = intakeLock[l]
    BY <1>6, HoldsLocks DEF TakerDies, LocksHeld
  <2> QED BY <2>1, <2>2, <2>3, HeldIf
<1> QED BY <1>1, <1>2, <1>3, <1>4, <1>5, <1>6

\* The steps of the locked part change no lock.
LEMMA InsideStep ==
  ASSUME Typed, LocksHeld, NEW p \in TakerProcs,
         \/ CheckTake(p) \/ WriteFile(p) \/ ClearTakeJournal(p)
         \/ DecideTake(p) \/ ResetTake(p) \/ WriteTakeJournal(p)
  PROVE  /\ LocksHeld' /\ intakeStolen' = intakeStolen
         /\ IntakeInside(p) /\ In(p) \in Inputs /\ In(p).event \in Events
         /\ \A q \in TakerProcs \ {p} : take'[q] = take[q]
         /\ take'[p].in = In(p)
<1>1. IntakeInside(p)
  BY DEF CheckTake, WriteFile, ClearTakeJournal, DecideTake, ResetTake, WriteTakeJournal,
         IntakeInside, TakeAt
<1>2. take[p] # NoTake /\ TakeOf(p) /\ take[p] \in Takes /\ In(p) \in Inputs /\ In(p).event \in Events
  BY <1>1, CallIs DEF IntakeInside, TakeAt
<1>3. intakeLock' = intakeLock /\ intakeStolen' = intakeStolen
  BY DEF CheckTake, WriteFile, ClearTakeJournal, DecideTake, ResetTake, WriteTakeJournal,
         intakeGhosts
<1>4. /\ \A q \in TakerProcs \ {p} : take'[q] = take[q]
      /\ take'[p].in = In(p) /\ ~(take'[p].step \in {"idle", "lock", "unlock"})
  <2>1. CASE \E step \in {"replay", "write", "decide", "release", "reset", "journal"} :
               \E pos : TakeGo(p, step, pos)
    <3>1. PICK step \in {"replay", "write", "decide", "release", "reset", "journal"} :
               \E pos : TakeGo(p, step, pos)
      BY <2>1
    <3>2. PICK pos : TakeGo(p, step, pos)
      BY <3>1
    <3> QED BY <1>2, <3>1, <3>2, GoesOn DEF In
  <2>2. CASE CheckTake(p)
    <3>1. CASE TakeGo(p, "release", 0)
      BY <2>1, <3>1
    <3>2. CASE \E step \in {"replay", "decide"} : \E thr, job :
                 take' = [take EXCEPT ![p].step = step, ![p].pos = 0, ![p].thread = thr,
                                      ![p].job = job]
      BY <1>2, <3>2 DEF Typed, In, Takes
    <3> DEFINE step == IF intakeJournal[In(p).event] = Absent THEN "decide" ELSE "replay"
               thr == IF In(p).mode = "runtime_only"
                      THEN ThreadWith(In(p), file[Key("thread", In(p).event)]) ELSE Absent
               job == intakeJournal[In(p).event]
    <3>3. \/ TakeGo(p, "release", 0)
          \/ take' = [take EXCEPT ![p].step = step, ![p].pos = 0, ![p].thread = thr,
                                  ![p].job = job]
      BY <2>2 DEF CheckTake
    <3>4. step \in {"replay", "decide"}
      OBVIOUS
    <3> HIDE DEF step, thr, job
    <3> QED BY <3>1, <3>2, <3>3, <3>4
  <2>3. CASE WriteFile(p)
    BY <2>1, <2>3 DEF WriteFile
  <2>4. CASE ClearTakeJournal(p)
    BY <2>1, <2>4 DEF ClearTakeJournal
  <2>5. CASE DecideTake(p)
    BY <2>1, <2>5 DEF DecideTake
  <2>6. CASE ResetTake(p)
    <3>1. CASE UNCHANGED take
      BY <1>1, <3>1 DEF In, IntakeInside
    <3> QED BY <2>1, <2>6, <3>1 DEF ResetTake
  <2>7. CASE WriteTakeJournal(p)
    BY <1>2, <2>7 DEF WriteTakeJournal, Typed, In, Takes
  <2> QED BY <2>2, <2>3, <2>4, <2>5, <2>6, <2>7
<1>5. Holds(p)' = Holds(p)
  BY <1>1, <1>4 DEF Holds, TakeAt, In, IntakeInside
<1> QED BY <1>1, <1>2, <1>3, <1>4, <1>5, HeldIf DEF LocksHeld

-----------------------------------------------------------------------------
\* What is kept of the intakes.

\* Calls and intakes as IntakeKept has them.
Intakes ==
  /\ \A p \in TakerProcs : IntakeWorks(p) => Working(p)
  /\ \A in \in taken : Answered(in)

\* A call that works was tried, has the event of its job and is inside.
LEMMA WorksIs ==
  ASSUME Typed, NEW p \in TakerProcs, IntakeWorks(p)
  PROVE  /\ IntakeInside(p) /\ take[p] # NoTake /\ TakeOf(p) /\ take[p] \in Takes
         /\ In(p) \in Inputs /\ In(p).event \in Events /\ In(p) \in tried
         /\ Thread(In(p), take[p].thread)
         /\ IntakeWrites(p) => /\ GoodJob(take[p].job, In(p).event) /\ take[p].job.in \in Inputs
                         /\ take[p].job.in.event = In(p).event /\ take[p].job.in \in tried
                         /\ Thread(take[p].job.in, take[p].job.thread)
         /\ TakeAt(p, "write") => /\ take[p].job = Job(In(p), take[p].thread)
                                  /\ take[p].job.in = In(p)
                                  /\ take[p].job.thread = take[p].thread
<1>1. IntakeInside(p) /\ ~TakeAt(p, "idle")
  BY DEF IntakeWorks, IntakeInside, TakeAt
<1>2. TakeOf(p) /\ take[p] # NoTake /\ take[p] \in Takes /\ In(p) \in Inputs /\ In(p).event \in Events
  BY <1>1, CallIs
<1>3. TakeAt(p, "write") => take[p].job = Job(In(p), take[p].thread)
  BY <1>2 DEF TakeOf
<1> QED BY <1>1, <1>2, <1>3 DEF TakeOf, GoodJob, Jobs, Job

\* That an input is the only one of its event was so before.
LEMMA OnlyBefore ==
  ASSUME tried \subseteq tried', NEW in, Only(in)'
  PROVE  Only(in)
BY DEF Only

\* The steps that change no file, no journal and no record of what was tried or answered.
LEMMA QuietIntakes ==
  ASSUME Intakes, NEW p \in TakerProcs, UNCHANGED <<file, intakeJournal, taken, tried>>,
         \A q \in TakerProcs \ {p} : take'[q] = take[q], ~IntakeWorks(p)'
  PROVE  Intakes'
<1>1. ASSUME NEW q \in TakerProcs, IntakeWorks(q)'  PROVE Working(q)'
  <2>1. q # p
    BY <1>1
  <2>2. take'[q] = take[q]
    BY <2>1
  <2>3. Working(q)
    BY <1>1, <2>2 DEF IntakeWorks, Intakes
  <2> QED BY <2>2, <2>3 DEF Working, JobKnown, ContentTaken, Only, WrittenSoFar, IntakeWrites, TakeAt,
            In, Present
<1>2. \A in \in taken' : Answered(in)'
  BY DEF Intakes, Answered, Whole, Only, Present, IsMessage, ThreadKey
<1> QED BY <1>1, <1>2 DEF Intakes

\* The check: the call finds its content free and its journal as it takes it up.
LEMMA CheckIntakes ==
  ASSUME Typed, LocksHeld, Intakes, NEW p \in TakerProcs, CheckTake(p)
  PROVE  Intakes'
<1> DEFINE e == In(p).event
           step == IF intakeJournal[e] = Absent THEN "decide" ELSE "replay"
           thr == IF In(p).mode = "runtime_only"
                  THEN ThreadWith(In(p), file[Key("thread", e)]) ELSE Absent
<1>1. /\ \A q \in TakerProcs \ {p} : take'[q] = take[q]
      /\ take'[p].in = In(p)
  BY InsideStep
<1>2. UNCHANGED <<file, intakeJournal, taken>> /\ tried \subseteq tried'
  BY DEF CheckTake, intakeStore
<1>3. ASSUME NEW q \in TakerProcs, q # p, IntakeWorks(q)'  PROVE Working(q)'
  <2>1. take'[q] = take[q]
    BY <1>1, <1>3
  <2>2. Working(q)
    BY <1>3, <2>1 DEF IntakeWorks, Intakes
  <2>3. Only(In(q))' => Only(In(q))
    BY <1>2, <2>1 DEF Only, In
  <2> QED BY <1>2, <2>1, <2>2, <2>3 DEF Working, JobKnown, ContentTaken, WrittenSoFar, IntakeWrites,
            TakeAt, In, Present
<1>4. ASSUME IntakeWorks(p)'  PROVE Working(p)'
  <2>1. ~TakeGo(p, "release", 0)
    <3>1. take[p] # NoTake
      BY DEF CheckTake, TakeAt, NoTake
    <3>2. TakeGo(p, "release", 0) => take'[p].step = "release"
      BY <3>1, GoesOn
    <3> QED BY <1>4, <3>2 DEF IntakeWorks
  <2>2. /\ ~ContentTaken(In(p))
        /\ take' = [take EXCEPT ![p].step = step, ![p].pos = 0, ![p].thread = thr,
                                ![p].job = intakeJournal[e]]
    BY <2>1 DEF CheckTake
  <2>3. take[p] \in Takes
    BY CallIs DEF CheckTake, TakeAt
  <2> HIDE DEF thr
  <2>4. take'[p].step = step /\ take'[p].job = intakeJournal[e]
    BY <2>2, <2>3 DEF Typed, Takes
  <2>5. JobKnown(p)'
    BY <1>1, <1>2, <2>4 DEF JobKnown, IntakeWrites, In
  <2>6. ~ContentTaken(In(p))'
    BY <1>1, <1>2, <2>2 DEF ContentTaken, Present, In
  <2>7. ASSUME ~TakeAt(p, "decide")', Only(In(p))'  PROVE In(p)' \notin taken'
    <3>1. Only(In(p))
      BY <1>1, <1>2, <2>7 DEF Only, In
    <3>2. intakeJournal[e] # Absent
      BY <2>4, <2>7 DEF TakeAt
    <3> QED BY <1>1, <1>2, <3>1, <3>2 DEF Intakes, Answered, In
  <2>8. ~TakeAt(p, "write")'
    BY <2>4 DEF TakeAt
  <2> QED BY <2>5, <2>6, <2>7, <2>8 DEF Working
<1>5. ASSUME NEW in \in taken'  PROVE Answered(in)'
  <2>1. Only(in)' => Only(in)
    BY <1>2, OnlyBefore
  <2>2. Answered(in)
    BY <1>2, <1>5 DEF Intakes
  <2> QED BY <1>2, <2>1, <2>2 DEF Answered, Whole, Present, IsMessage, ThreadKey
<1> QED BY <1>3, <1>4, <1>5 DEF Intakes

\* A place of a call that works is not one of an intake that stands answered, unless
\* they are about one event or it is the place of their thread.
LEMMA PlaceApart ==
  ASSUME Typed, LocksHeld, Intakes, NEW p \in TakerProcs, IntakeWorks(p),
         NEW a \in Inputs, a.event = In(p).event, NEW kind \in ToSet(FilesOf(a)),
         NEW in \in taken, Only(in), NEW k \in OwnedOf(in), k = Key(kind, a.event)
  PROVE  in.event = In(p).event /\ kind # "thread" /\ k[1] = kind
<1>1. in \in Inputs
  BY DEF Typed
<1>2. PICK j \in ToSet(FilesOf(in)) : k = Key(j, in.event)
  BY <1>1, OwnedAre
<1>3. /\ j = kind
      /\ \/ a.event = in.event
         \/ kind = "raw" /\ ContentOf[a.event] = ContentOf[in.event]
         \/ kind = "thread" /\ ThreadOf[a.event] = ThreadOf[in.event]
  <2>1. Key(kind, a.event) = Key(j, in.event)
    BY <1>2
  <2> QED BY <1>1, <2>1, SharedKeys
<1>4. k[1] = kind
  BY <1>1, <1>2, <1>3, InputShape, KeyAre
<1>5. kind # "thread"
  BY <1>1, <1>4, OwnedAre
<1>6. CASE kind = "raw" /\ ContentOf[a.event] = ContentOf[in.event] /\ in.event # In(p).event
  <2>1. Key("source", in.event) \in OwnedOf(in) /\ Key("source", in.event) = <<"source", in.event>>
    BY <1>1, OwnedAre, KeyAre, InputShape
  <2>2. file[<<"source", in.event>>] = BuiltFrom(Key("source", in.event)[1], in)
    BY <2>1 DEF Intakes, Answered, Whole
  <2>3. Present(<<"source", in.event>>)
    BY <2>1, <2>2 DEF Present, BuiltFrom, Absent
  <2>4. ContentTaken(In(p))
    BY <1>1, <1>6, <2>3, InputShape DEF ContentTaken
  <2> QED BY <2>4 DEF Intakes, Working
<1> QED BY <1>3, <1>4, <1>5, <1>6

\* A place of a call that works is not one of another call that works, unless it is the
\* place of their thread.
LEMMA PlaceOwn ==
  ASSUME Typed, LocksHeld, NEW p \in TakerProcs, IntakeWorks(p), NEW q \in TakerProcs, IntakeWorks(q), p # q,
         NEW a \in Inputs, a.event = In(p).event, NEW kind \in ToSet(FilesOf(a)),
         NEW j \in ToSet(FilesOf(In(q))), Key(j, In(q).event) = Key(kind, a.event)
  PROVE  kind = "thread" /\ j = "thread"
<1>1. IntakeInside(p) /\ IntakeInside(q) /\ In(q) \in Inputs
  BY WorksIs
<1>2. /\ j = kind
      /\ \/ a.event = In(q).event
         \/ kind = "raw" /\ ContentOf[a.event] = ContentOf[In(q).event]
         \/ kind = "thread" /\ ThreadOf[a.event] = ThreadOf[In(q).event]
  BY <1>1, SharedKeys
<1> QED BY <1>1, <1>2, IntakeExclusive

\* What a write does to the files.
LEMMA WriteFileIs ==
  ASSUME Typed, NEW p \in TakerProcs, WriteFile(p)
  PROVE  \E i \in 1 .. Len(FilesOf(take[p].job.in)), kind \in ToSet(FilesOf(take[p].job.in)) :
           /\ IntakeWrites(p) /\ kind = FilesOf(take[p].job.in)[i] /\ i = take[p].pos + 1
           /\ take[p].pos \in Nat
           /\ take'[p] = [take[p] EXCEPT !.pos = i]
           /\ Key(kind, In(p).event) \in Keys /\ Key(kind, In(p).event)[1] = kind
           /\ \A k \in Keys : k # Key(kind, In(p).event) => file'[k] = file[k]
           /\ IF kind = "thread"
              THEN /\ IsMessage(take[p].job.in)
                   /\ file'[Key(kind, In(p).event)] = take[p].job.thread
                   /\ take[p].job.thread \in ThreadRecs
              ELSE file'[Key(kind, In(p).event)] = BuiltFrom(kind, take[p].job.in)
           /\ UNCHANGED <<intakeJournal, taken, tried, overtaken>>
<1> DEFINE job == take[p].job
           i == take[p].pos + 1
           kind == FilesOf(job.in)[i]
<1>1. IntakeWrites(p) /\ IntakeWorks(p) /\ i <= Len(FilesOf(job.in))
  BY DEF WriteFile, IntakeWrites, IntakeWorks
<1>2. /\ take[p] # NoTake /\ take[p] \in Takes /\ In(p) \in Inputs /\ In(p).event \in Events
      /\ job.in \in Inputs /\ job.in.event = In(p).event /\ Thread(job.in, job.thread)
      /\ take[p].pos \in Nat
  BY <1>1, WorksIs DEF Takes
<1>3. i \in 1 .. Len(FilesOf(job.in))
  BY <1>1, <1>2, FilePositions
<1>4. kind \in ToSet(FilesOf(job.in)) /\ (kind = "thread" => IsMessage(job.in))
  BY <1>2, <1>3, FilePositions
<1>5. Key(kind, In(p).event) \in Keys /\ Key(kind, In(p).event)[1] = kind
  BY <1>2, <1>4, OwnedAre, KeyAre
<1>6. /\ file' = [file EXCEPT ![Key(kind, In(p).event)] =
                    IF kind = "thread" THEN job.thread ELSE BuiltFrom(kind, job.in)]
      /\ UNCHANGED <<intakeJournal, taken, tried, overtaken>> /\ TakeGo(p, take[p].step, i)
  BY <1>2 DEF WriteFile, intakeGhosts
<1>7. take'[p] = [take[p] EXCEPT !.pos = i]
  BY <1>2, <1>6 DEF TakeGo, Typed, Takes
<1>8. DOMAIN file = Keys
  BY DEF Typed
<1>9. \A k \in Keys : k # Key(kind, In(p).event) => file'[k] = file[k]
  BY <1>6, <1>8
<1>10. file'[Key(kind, In(p).event)]
         = IF kind = "thread" THEN job.thread ELSE BuiltFrom(kind, job.in)
  BY <1>5, <1>6, <1>8
<1>11. kind = "thread" => job.thread \in ThreadRecs
  BY <1>2, <1>4 DEF Thread
<1>12. kind = FilesOf(job.in)[i] /\ i = take[p].pos + 1
  OBVIOUS
<1> HIDE DEF kind, i
<1>13. /\ IntakeWrites(p) /\ kind = FilesOf(job.in)[i] /\ i = take[p].pos + 1
       /\ take[p].pos \in Nat
       /\ take'[p] = [take[p] EXCEPT !.pos = i]
       /\ Key(kind, In(p).event) \in Keys /\ Key(kind, In(p).event)[1] = kind
       /\ \A k \in Keys : k # Key(kind, In(p).event) => file'[k] = file[k]
       /\ UNCHANGED <<intakeJournal, taken, tried, overtaken>>
  BY <1>12, <1>1, <1>2, <1>5, <1>6, <1>7, <1>9
<1>14. IF kind = "thread"
       THEN /\ IsMessage(job.in) /\ file'[Key(kind, In(p).event)] = job.thread
            /\ job.thread \in ThreadRecs
       ELSE file'[Key(kind, In(p).event)] = BuiltFrom(kind, job.in)
  BY <1>4, <1>10, <1>11
<1> QED BY <1>3, <1>4, <1>13, <1>14

\* A write: the file is the call's own, or the thread's.
LEMMA WriteIntakes ==
  ASSUME Typed, Typed', LocksHeld, Intakes, NEW p \in TakerProcs, WriteFile(p)
  PROVE  Intakes'
<1> DEFINE job == take[p].job
<1>1. PICK i \in 1 .. Len(FilesOf(job.in)), kind \in ToSet(FilesOf(job.in)) :
        /\ IntakeWrites(p) /\ kind = FilesOf(job.in)[i] /\ i = take[p].pos + 1
        /\ take[p].pos \in Nat
        /\ take'[p] = [take[p] EXCEPT !.pos = i]
        /\ Key(kind, In(p).event) \in Keys /\ Key(kind, In(p).event)[1] = kind
        /\ \A k \in Keys : k # Key(kind, In(p).event) => file'[k] = file[k]
        /\ IF kind = "thread"
           THEN /\ IsMessage(job.in)
                /\ file'[Key(kind, In(p).event)] = job.thread
                /\ job.thread \in ThreadRecs
           ELSE file'[Key(kind, In(p).event)] = BuiltFrom(kind, job.in)
        /\ UNCHANGED <<intakeJournal, taken, tried, overtaken>>
  BY WriteFileIs
<1> DEFINE K == Key(kind, In(p).event)
<1>0. /\ K \in Keys /\ K[1] = kind /\ K = Key(kind, In(p).event)
      /\ \A k \in Keys : k # K => file'[k] = file[k]
      /\ kind = "thread" => file'[K] = job.thread /\ job.thread \in ThreadRecs
      /\ kind # "thread" => file'[K] = BuiltFrom(kind, job.in)
  BY <1>1
<1> HIDE DEF K
<1>2. IntakeWorks(p)
  BY <1>1 DEF IntakeWrites, IntakeWorks
<1>3. /\ IntakeInside(p) /\ take[p] \in Takes /\ In(p) \in Inputs /\ In(p).event \in Events
      /\ job.in \in Inputs /\ job.in.event = In(p).event /\ job.in \in tried
      /\ TakeAt(p, "write") => job.in = In(p)
  BY <1>1, <1>2, WorksIs
<1>4. /\ \A q \in TakerProcs \ {p} : take'[q] = take[q]
      /\ take'[p].in = In(p) /\ take'[p].step = take[p].step /\ take'[p].job = job
      /\ take'[p].pos = i
  BY <1>1, <1>3, InsideStep DEF Takes, In
<1>5. file'[K] # Absent
  <2>1. kind # "absent"
    BY <1>3, IntakeFilesAre
  <2>2. file'[K].kind # "absent"
    BY <1>0, <2>1 DEF BuiltFrom, ThreadRecs
  <2> QED BY <2>2 DEF Absent
<1>6. \A k \in Keys : Present(k) => Present(k)'
  BY <1>0, <1>5 DEF Present
<1>7. ASSUME NEW q \in TakerProcs, IntakeWorks(q)'  PROVE Working(q)'
  <2>1. /\ IntakeWorks(q) /\ In(q)' = In(q) /\ take'[q].step = take[q].step /\ take'[q].job = take[q].job
    BY <1>4, <1>7 DEF IntakeWorks, In
  <2>2. Working(q) /\ IntakeInside(q) /\ In(q) \in Inputs
    BY <2>1, WorksIs DEF Intakes
  <2>3. JobKnown(q)'
    BY <1>1, <2>1, <2>2 DEF Working, JobKnown, IntakeWrites
  <2>4. ASSUME ContentTaken(In(q))'  PROVE FALSE
    <3>1. PICK e \in Events \ {In(q).event} :
            ContentOf[e] = ContentOf[In(q).event] /\ Present(<<"source", e>>)'
      BY <2>1, <2>4 DEF ContentTaken
    <3>2. ~Present(<<"source", e>>)
      BY <2>2, <3>1 DEF Working, ContentTaken
    <3>3. <<"source", e>> \in Keys
      <4> DEFINE in == [event |-> e, mode |-> "runtime_only"]
      <4>1. in \in Inputs /\ in.event = e
        BY DEF Inputs, Modes
      <4> HIDE DEF in
      <4>2. Key("source", e) \in Keys
        BY <4>1, OwnedAre
      <4> QED BY <4>2, KeyAre
    <3>4. <<"source", e>> = K
      BY <1>0, <3>1, <3>2, <3>3 DEF Present
    <3>5. kind = "source"
      BY <1>0, <3>4
    <3>6. e = In(p).event
      BY <1>0, <1>3, <3>4, <3>5, KeyAre
    <3>7. p = q
      BY <1>3, <2>2, <3>1, <3>6, IntakeExclusive
    <3> QED BY <3>6, <3>7
  <2>5. ~TakeAt(q, "decide")' /\ Only(In(q))' => In(q)' \notin taken'
    BY <1>1, <2>1, <2>2 DEF Working, TakeAt, Only
  <2>6. ASSUME TakeAt(q, "write"), NEW n \in 1 .. take'[q].pos,
               NEW k, k = Key(FilesOf(In(q))[n], In(q).event)
        PROVE  IF k[1] = "thread" THEN Present(k)' ELSE file'[k] = BuiltFrom(k[1], In(q))
    <3>1. take'[q] \in Takes /\ TakeOf(q)'
      BY <1>7 DEF Typed, IntakeWorks, NoTake, TakeOf
    <3>2. n \in 1 .. Len(FilesOf(In(q))) /\ (n <= take[q].pos \/ (q = p /\ n = i))
      <4>1. take'[q].pos \in Nat /\ take'[q].pos <= Len(FilesOf(take[q].job.in))
        BY <2>1, <2>6, <3>1 DEF TakeOf, Takes, IntakeWrites, TakeAt
      <4>2. take[q].job.in = In(q)
        BY <2>1, <2>6, WorksIs
      <4>3. Len(FilesOf(In(q))) \in Nat
        BY <2>2, FilePositions
      <4>4. n \in Nat /\ n >= 1 /\ n <= Len(FilesOf(In(q))) /\ n <= take'[q].pos
        BY <4>1, <4>2, <4>3
      <4>5. CASE q = p
        <5>1. i = take[p].pos + 1 /\ take[p].pos \in Nat
          BY <1>1
        <5>2. n <= i
          BY <1>4, <4>4, <4>5
        <5>3. n <= take[p].pos \/ n = i
          BY <4>4, <5>1, <5>2
        <5> QED BY <4>3, <4>4, <4>5, <5>3
      <4>6. CASE q # p
        BY <1>4, <4>3, <4>4, <4>6
      <4> QED BY <4>5, <4>6
    <3> DEFINE j == FilesOf(In(q))[n]
    <3>3. j \in ToSet(FilesOf(In(q))) /\ k \in Keys /\ k[1] = j
      BY <2>2, <2>6, <3>2, FilePositions, OwnedAre, InputShape, KeyAre
    <3> HIDE DEF j
    <3>4. CASE k # K
      <4>1. file'[k] = file[k]
        BY <1>0, <3>3, <3>4
      <4>2. n <= take[q].pos
        <5>1. CASE q = p /\ n = i
          BY <1>0, <1>1, <1>3, <2>6, <3>4, <5>1
        <5> QED BY <3>2, <5>1
      <4>3. IF k[1] = "thread" THEN Present(k) ELSE file[k] = BuiltFrom(k[1], In(q))
        <5>1. take[q].pos \in Nat
          BY <2>1, WorksIs DEF Takes
        <5>2. n \in 1 .. take[q].pos
          BY <3>2, <4>2, <5>1
        <5> QED BY <2>2, <2>6, <5>2 DEF Working, WrittenSoFar
      <4> QED BY <4>1, <4>3 DEF Present
    <3>5. CASE k = K
      <4>1. CASE q = p
        <5>1. job.in = In(q)
          BY <1>3, <2>6, <4>1
        <5>2. k[1] = kind
          BY <1>0, <3>5
        <5> QED BY <1>0, <1>5, <3>5, <5>1, <5>2 DEF Present
      <4>2. CASE q # p
        <5>1. kind = "thread" /\ j = "thread"
          <6>1. Key(j, In(q).event) = Key(kind, job.in.event)
            BY <1>0, <1>3, <2>6, <3>5 DEF j
          <6> QED BY <1>1, <1>2, <1>3, <2>1, <3>3, <4>2, <6>1, PlaceOwn
        <5> QED BY <1>5, <3>3, <3>5, <5>1 DEF Present
      <4> QED BY <4>1, <4>2
    <3> QED BY <3>4, <3>5
  <2>7. TakeAt(q, "write")' => WrittenSoFar(q)'
    BY <2>1, <2>6 DEF WrittenSoFar, TakeAt, Present
  <2> QED BY <2>3, <2>4, <2>5, <2>7 DEF Working
<1>8. ASSUME NEW in \in taken  PROVE Answered(in)'
  <2>1. in \in Inputs /\ Answered(in)
    BY DEF Typed, Intakes
  <2>2. IsMessage(in) => Present(ThreadKey(in))'
    BY <1>6, <2>1, OwnedAre DEF Answered
  <2>3. ASSUME Only(in), NEW k \in OwnedOf(in)  PROVE file'[k] = BuiltFrom(k[1], in)
    <3>1. file[k] = BuiltFrom(k[1], in)
      BY <2>1, <2>3 DEF Answered, Whole
    <3>2. CASE k = K
      <4>1. in.event = In(p).event /\ kind # "thread" /\ k[1] = kind
        <5>1. k = Key(kind, job.in.event)
          BY <1>0, <1>3, <3>2
        <5> QED BY <1>1, <1>2, <1>3, <2>3, <5>1, PlaceApart
      <4>2. job.in = in
        BY <1>3, <2>3, <4>1 DEF Only
      <4> QED BY <1>0, <3>2, <4>1, <4>2
    <3>3. CASE k # K
      BY <1>0, <2>1, <3>1, <3>3, OwnedAre
    <3> QED BY <3>2, <3>3
  <2>4. Only(in)' => Only(in)
    BY <1>1 DEF Only
  <2> QED BY <1>1, <2>1, <2>2, <2>3, <2>4 DEF Answered, Whole, IsMessage, ThreadKey
<1> QED BY <1>1, <1>7, <1>8 DEF Intakes

\* The journal is removed: the intake of a write is answered, all its files being there.
LEMMA ClearIntakes ==
  ASSUME Typed, LocksHeld, Intakes, NEW p \in TakerProcs, ClearTakeJournal(p)
  PROVE  Intakes'
<1> DEFINE e == In(p).event
<1>1. IntakeWrites(p) /\ IntakeWorks(p)
  BY DEF ClearTakeJournal, IntakeWrites, IntakeWorks
<1>2. /\ IntakeInside(p) /\ take[p] # NoTake /\ In(p) \in Inputs /\ e \in Events
      /\ take[p].job.in.event = e /\ (TakeAt(p, "write") => take[p].job.in = In(p))
  BY <1>1, WorksIs
<1>3. \A q \in TakerProcs \ {p} : take'[q] = take[q]
  BY InsideStep
<1>4. /\ UNCHANGED <<file, tried>> /\ intakeJournal'[e] = Absent
      /\ \A d \in Events : d # e => intakeJournal'[d] = intakeJournal[d]
  BY <1>2 DEF ClearTakeJournal, Typed
<1>5. \/ TakeAt(p, "replay") /\ take'[p].step = "decide" /\ taken' = taken
      \/ TakeAt(p, "write") /\ take'[p].step = "release" /\ taken' = taken \cup {In(p)}
  BY <1>1, <1>2, GoesOn DEF ClearTakeJournal, IntakeWrites, TakeAt
<1>6. take'[p].in = In(p)
  BY InsideStep
<1>7. ASSUME NEW q \in TakerProcs, IntakeWorks(q)'  PROVE Working(q)'
  <2>1. CASE q # p
    <3>1. take'[q] = take[q]
      BY <1>3, <2>1
    <3>2. IntakeWorks(q) /\ Working(q) /\ IntakeInside(q) /\ In(q) \in Inputs /\ In(q).event \in Events
      BY <1>7, <3>1, WorksIs DEF IntakeWorks, Intakes
    <3>3. In(q).event # e
      BY <1>2, <2>1, <3>2, IntakeExclusive
    <3>4. JobKnown(q)'
      BY <1>4, <3>1, <3>2, <3>3 DEF Working, JobKnown, IntakeWrites, In
    <3>5. In(q) \notin taken => In(q)' \notin taken'
      BY <1>5, <3>1, <3>3 DEF In
    <3> QED BY <1>4, <3>1, <3>2, <3>4, <3>5 DEF Working, ContentTaken, Only, WrittenSoFar, IntakeWrites,
              TakeAt, In, Present
  <2>2. CASE q = p
    <3>1. TakeAt(p, "replay") /\ take'[p].step = "decide" /\ taken' = taken
      BY <1>5, <1>7, <2>2 DEF IntakeWorks
    <3>2. Working(p)
      BY <1>1 DEF Intakes
    <3>3. JobKnown(p)'
      BY <1>4, <1>6, <3>1 DEF JobKnown, IntakeWrites, In
    <3> QED BY <1>4, <1>6, <2>2, <3>1, <3>2, <3>3 DEF Working, ContentTaken, Present, TakeAt, In
  <2> QED BY <2>1, <2>2
<1>8. ASSUME NEW in \in taken  PROVE Answered(in)'
  <2>1. Answered(in) /\ in.event \in Events
    BY InputShape DEF Intakes, Typed
  <2> QED BY <1>4, <2>1 DEF Answered, Whole, Only, Present, IsMessage, ThreadKey
<1>9. ASSUME TakeAt(p, "write")  PROVE Answered(In(p))'
  <2>1. take[p].pos = Len(FilesOf(In(p)))
    BY <1>2, <1>9 DEF ClearTakeJournal
  <2>2. WrittenSoFar(p)
    BY <1>1, <1>9 DEF Intakes, Working
  <2>3. ASSUME NEW kind \in ToSet(FilesOf(In(p))), NEW k, k = Key(kind, e)
        PROVE  /\ k[1] = kind
               /\ IF kind = "thread" THEN Present(k) ELSE file[k] = BuiltFrom(kind, In(p))
    <3>1. PICK i \in 1 .. Len(FilesOf(In(p))) : FilesOf(In(p))[i] = kind
      BY <1>2, FilePositions
    <3>2. k[1] = kind
      BY <1>2, <2>3, KeyAre
    <3> QED BY <2>1, <2>2, <2>3, <3>1, <3>2 DEF WrittenSoFar
  <2>4. \A k \in OwnedOf(In(p)) : file[k] = BuiltFrom(k[1], In(p))
    <3> SUFFICES ASSUME NEW k \in OwnedOf(In(p))  PROVE file[k] = BuiltFrom(k[1], In(p))
      OBVIOUS
    <3>1. PICK kind \in ToSet(FilesOf(In(p))) : k = Key(kind, e)
      BY <1>2, OwnedAre
    <3>2. k[1] # "thread"
      BY <1>2, OwnedAre
    <3> QED BY <2>3, <3>1, <3>2
  <2>5. IsMessage(In(p)) => Present(ThreadKey(In(p)))
    <3> SUFFICES ASSUME IsMessage(In(p))  PROVE Present(ThreadKey(In(p)))
      OBVIOUS
    <3>1. "thread" \in ToSet(FilesOf(In(p)))
      BY <1>2, IntakeFilesAre
    <3>2. ThreadKey(In(p)) = Key("thread", e)
      BY <1>2, KeyAre DEF ThreadKey
    <3> QED BY <2>3, <3>1, <3>2
  <2>6. In(p)' = In(p)
    BY <1>6 DEF In
  <2> QED BY <1>4, <2>4, <2>5, <2>6 DEF Answered, Whole, Present, IsMessage, ThreadKey
<1>10. \A in \in taken' : Answered(in)'
  <2>1. In(p)' = In(p)
    BY <1>6 DEF In
  <2> QED BY <1>5, <1>8, <1>9, <2>1
<1> QED BY <1>7, <1>10 DEF Intakes

\* The decision: what is answered is whole, and what is begun was not answered.
LEMMA DecideIntakes ==
  ASSUME Typed, LocksHeld, Intakes, NEW p \in TakerProcs, DecideTake(p)
  PROVE  Intakes'
<1> DEFINE e == In(p).event
           present == {k \in KeysOf(In(p)) : Present(k)}
<1>1. IntakeWorks(p) /\ TakeAt(p, "decide")
  BY DEF DecideTake, TakeAt, IntakeWorks
<1>2. /\ IntakeInside(p) /\ take[p] # NoTake /\ In(p) \in Inputs /\ e \in Events
      /\ Working(p)
  BY <1>1, WorksIs DEF Intakes
<1>3. (\A q \in TakerProcs \ {p} : take'[q] = take[q]) /\ take'[p].in = In(p)
  BY InsideStep
<1>4. UNCHANGED <<file, intakeJournal, tried>> /\ intakeJournal[e] = Absent
  BY <1>1, <1>2 DEF DecideTake, intakeStore, Working, JobKnown, IntakeWrites, TakeAt
<1>5. \/ take'[p].step = "release" /\ taken' = taken
      \/ /\ take'[p].step = "release" /\ present = KeysOf(In(p)) /\ MatchesInput(p)
         /\ taken' = taken \cup {In(p)}
      \/ /\ take'[p].step \in {"journal", "reset"} /\ present # KeysOf(In(p))
         /\ taken' = taken
  BY <1>2, GoesOn DEF DecideTake
<1> HIDE DEF present
<1>6. ASSUME NEW q \in TakerProcs, IntakeWorks(q)'  PROVE Working(q)'
  <2>1. CASE q # p
    <3>1. take'[q] = take[q]
      BY <1>3, <2>1
    <3>2. IntakeWorks(q) /\ Working(q) /\ IntakeInside(q)
      BY <1>6, <3>1, WorksIs DEF IntakeWorks, Intakes
    <3>3. In(q).event # e
      BY <1>2, <2>1, <3>2, IntakeExclusive
    <3>4. In(q) \notin taken => In(q)' \notin taken'
      BY <1>5, <3>1, <3>3 DEF In
    <3> QED BY <1>4, <3>1, <3>2, <3>4 DEF Working, JobKnown, ContentTaken, Only, WrittenSoFar,
              IntakeWrites, TakeAt, In, Present
  <2>2. CASE q = p
    <3>1. take'[p].step \in {"journal", "reset"} /\ present # KeysOf(In(p)) /\ taken' = taken
      BY <1>5, <1>6, <2>2 DEF IntakeWorks
    <3>2. ASSUME Only(In(p)), In(p) \in taken  PROVE FALSE
      <4>1. Whole(In(p)) /\ (IsMessage(In(p)) => Present(ThreadKey(In(p))))
        BY <3>2 DEF Intakes, Answered
      <4>2. ASSUME NEW k \in KeysOf(In(p))  PROVE Present(k)
        <5>1. CASE k[1] = "thread"
          <6>1. PICK kind \in ToSet(FilesOf(In(p))) : k = Key(kind, e)
            BY <1>2, OwnedAre
          <6>2. kind = "thread"
            BY <1>2, <5>1, <6>1, KeyAre
          <6>3. k = ThreadKey(In(p)) /\ IsMessage(In(p))
            BY <1>2, <6>1, <6>2, KeyAre, IntakeFilesAre DEF ThreadKey
          <6> QED BY <4>1, <6>3
        <5>2. CASE k[1] # "thread"
          <6>1. k \in OwnedOf(In(p))
            BY <5>2 DEF OwnedOf
          <6>2. file[k] = BuiltFrom(k[1], In(p))
            BY <4>1, <6>1 DEF Whole
          <6> QED BY <6>2 DEF Present, BuiltFrom, Absent
        <5> QED BY <5>1, <5>2
      <4> QED BY <3>1, <4>2 DEF present
    <3>3. JobKnown(p)' /\ ~TakeAt(p, "write")'
      BY <1>3, <1>4, <3>1 DEF JobKnown, IntakeWrites, In, TakeAt
    <3>4. ~ContentTaken(In(p))'
      BY <1>2, <1>3, <1>4 DEF Working, ContentTaken, Present, In
    <3>5. Only(In(p))' => In(p)' \notin taken'
      BY <1>3, <1>4, <3>1, <3>2 DEF Only, In
    <3> QED BY <2>2, <3>3, <3>4, <3>5 DEF Working
  <2> QED BY <2>1, <2>2
<1>7. ASSUME NEW in \in taken  PROVE Answered(in)'
  <2>1. Answered(in)
    BY DEF Intakes
  <2> QED BY <1>4, <2>1 DEF Answered, Whole, Only, Present, IsMessage, ThreadKey
<1>8. ASSUME present = KeysOf(In(p)), MatchesInput(p)  PROVE Answered(In(p))'
  <2>1. \A k \in KeysOf(In(p)) : Present(k)
    BY <1>8 DEF present
  <2>2. ASSUME NEW k \in OwnedOf(In(p))  PROVE file[k] = BuiltFrom(k[1], In(p))
    <3>1. k \in Keys /\ k \in KeysOf(In(p)) /\ k[1] # "thread"
      BY <1>2, OwnedAre
    <3>2. file[k] \in [kind : {k[1]}, in : Inputs]
      BY <2>1, <3>1 DEF Typed, FileOf, Present
    <3>3. file[k].in = In(p)
      BY <1>8 DEF MatchesInput
    <3> QED BY <3>2, <3>3 DEF BuiltFrom
  <2>3. IsMessage(In(p)) => Present(ThreadKey(In(p)))
    BY <1>2, <2>1, OwnedAre
  <2>4. In(p)' = In(p)
    BY <1>3 DEF In
  <2> QED BY <1>4, <2>2, <2>3, <2>4 DEF Answered, Whole, Present, IsMessage, ThreadKey
<1>9. \A in \in taken' : Answered(in)'
  <2>1. In(p)' = In(p)
    BY <1>3 DEF In
  <2> QED BY <1>5, <1>7, <1>8, <2>1
<1> QED BY <1>6, <1>9 DEF Intakes

\* A deletion: of a call's own files, none of an answered intake.
LEMMA ResetIntakes ==
  ASSUME Typed, LocksHeld, Intakes, NEW p \in TakerProcs, ResetTake(p)
  PROVE  Intakes'
<1>1. IntakeWorks(p) /\ TakeAt(p, "reset")
  BY DEF ResetTake, TakeAt, IntakeWorks
<1>2. /\ IntakeInside(p) /\ take[p] # NoTake /\ In(p) \in Inputs /\ In(p).event \in Events
      /\ In(p) \in tried /\ Working(p)
  BY <1>1, WorksIs DEF Intakes
<1>3. (\A q \in TakerProcs \ {p} : take'[q] = take[q]) /\ take'[p].in = In(p)
  BY InsideStep
<1>4. UNCHANGED <<intakeJournal, tried, taken>>
  BY DEF ResetTake, intakeGhosts
<1>5. CASE TakeGo(p, "journal", 0) /\ UNCHANGED file
  <2>1. take'[p].step = "journal"
    BY <1>2, <1>5, GoesOn
  <2>2. ASSUME NEW q \in TakerProcs, IntakeWorks(q)'  PROVE Working(q)'
    <3>1. IntakeWorks(q) /\ In(q)' = In(q)
      BY <1>1, <1>3, <2>2 DEF IntakeWorks, In
    <3>2. Working(q)
      BY <3>1 DEF Intakes
    <3>3. take'[q] = take[q] \/ q = p
      BY <1>3
    <3>4. CASE take'[q] = take[q]
      BY <1>4, <1>5, <3>1, <3>2, <3>4 DEF Working, JobKnown, ContentTaken, Only, WrittenSoFar, IntakeWrites,
         TakeAt, Present
    <3>5. CASE q = p
      BY <1>1, <1>4, <1>5, <2>1, <3>1, <3>2, <3>5 DEF Working, JobKnown, ContentTaken, Only,
         IntakeWrites, TakeAt, Present
    <3> QED BY <3>3, <3>4, <3>5
  <2>3. \A in \in taken' : Answered(in)'
    BY <1>4, <1>5 DEF Intakes, Answered, Whole, Only, Present, IsMessage, ThreadKey
  <2> QED BY <2>2, <2>3 DEF Intakes
<1>6. CASE UNCHANGED take /\ \E i \in LeftToReset(In(p)) :
             file' = [file EXCEPT ![Key(ResetOrder[i], In(p).event)] = Absent]
  <2>1. PICK i \in LeftToReset(In(p)) :
          file' = [file EXCEPT ![Key(ResetOrder[i], In(p).event)] = Absent]
    BY <1>6
  <2> DEFINE kind == ResetOrder[i]
             K == Key(kind, In(p).event)
  <2>2. kind \in ToSet(FilesOf(In(p))) /\ kind # "thread"
    BY DEF LeftToReset, ResetOrder
  <2>3. K[1] = kind /\ \A k \in Keys : k # K => file'[k] = file[k]
    BY <1>2, <2>1, KeyAre DEF Typed
  <2>4. K = Key(kind, In(p).event) /\ \A k \in Keys : file'[k] # Absent => Present(k)
    BY <2>1 DEF Typed, Present
  <2> HIDE DEF K, kind
  <2>5. ASSUME NEW q \in TakerProcs, IntakeWorks(q)'  PROVE Working(q)'
    <3>1. take'[q] = take[q] /\ IntakeWorks(q) /\ In(q)' = In(q)
      BY <1>6, <2>5 DEF IntakeWorks, In
    <3>2. Working(q) /\ In(q) \in Inputs /\ In(q).event \in Events /\ take[q] \in Takes
      BY <3>1, WorksIs DEF Intakes
    <3>3. ~ContentTaken(In(q))'
      <4>1. \A d \in Events : Present(<<"source", d>>)' => Present(<<"source", d>>)
        <5> SUFFICES ASSUME NEW d \in Events  PROVE <<"source", d>> \in Keys
          BY <2>4 DEF Present
        <5> DEFINE in == [event |-> d, mode |-> "runtime_only"]
        <5>1. in \in Inputs /\ in.event = d
          BY DEF Inputs, Modes
        <5> HIDE DEF in
        <5>2. Key("source", d) \in Keys
          BY <5>1, OwnedAre DEF OwnedOf
        <5> QED BY <5>2, KeyAre
      <4> QED BY <3>1, <3>2, <4>1 DEF Working, ContentTaken
    <3>4. ASSUME TakeAt(q, "write"), NEW n \in 1 .. take[q].pos,
                 NEW k, k = Key(FilesOf(In(q))[n], In(q).event)
          PROVE  IF k[1] = "thread" THEN file'[k] # Absent ELSE file'[k] = BuiltFrom(k[1], In(q))
      <4> DEFINE j == FilesOf(In(q))[n]
      <4>1. j \in ToSet(FilesOf(In(q))) /\ k \in Keys
        <5>1. take[q].pos \in Nat /\ take[q].pos <= Len(FilesOf(In(q)))
          BY <3>1, <3>2, <3>4, WorksIs DEF TakeOf, Takes, IntakeWrites, TakeAt
        <5>2. n \in 1 .. Len(FilesOf(In(q)))
          BY <3>2, <5>1, FilePositions
        <5> QED BY <3>2, <3>4, <5>2, FilePositions, OwnedAre
      <4>2. k = Key(j, In(q).event)
        BY <3>4
      <4> HIDE DEF j
      <4>3. k # K
        <5>1. q # p
          BY <1>1, <3>4 DEF TakeAt
        <5> QED BY <1>1, <1>2, <2>2, <2>4, <3>1, <4>1, <4>2, <5>1, PlaceOwn
      <4>4. IF k[1] = "thread" THEN Present(k) ELSE file[k] = BuiltFrom(k[1], In(q))
        BY <3>2, <3>4 DEF Working, WrittenSoFar
      <4> QED BY <2>3, <4>1, <4>3, <4>4 DEF Present
    <3>5. TakeAt(q, "write")' => WrittenSoFar(q)'
      BY <3>1, <3>4 DEF WrittenSoFar, TakeAt, Present
    <3> QED BY <1>4, <3>1, <3>2, <3>3, <3>5 DEF Working, JobKnown, Only, IntakeWrites, TakeAt
  <2>6. ASSUME NEW in \in taken  PROVE Answered(in)'
    <3>1. in \in Inputs /\ Answered(in)
      BY DEF Typed, Intakes
    <3>2. IsMessage(in) => Present(ThreadKey(in))'
      <4>1. ThreadKey(in) \in Keys /\ ThreadKey(in) # K
        BY <2>2, <2>3, <3>1, OwnedAre DEF ThreadKey
      <4> QED BY <2>3, <3>1, <4>1 DEF Answered, Present, ThreadKey
    <3>3. ASSUME Only(in), NEW k \in OwnedOf(in)  PROVE file'[k] = BuiltFrom(k[1], in)
      <4>1. file[k] = BuiltFrom(k[1], in) /\ k \in Keys
        BY <3>1, <3>3, OwnedAre DEF Answered, Whole
      <4>2. ASSUME k = K  PROVE FALSE
        <5>1. in.event = In(p).event
          BY <1>1, <1>2, <2>2, <2>4, <3>3, <4>2, PlaceApart
        <5>2. In(p) = in
          BY <1>2, <3>3, <5>1 DEF Only
        <5> QED BY <1>1, <1>2, <3>3, <5>2 DEF Working, TakeAt
      <4> QED BY <2>3, <4>1, <4>2
    <3> QED BY <1>4, <3>1, <3>2, <3>3 DEF Answered, Whole, Only, IsMessage, ThreadKey
  <2> QED BY <1>4, <2>5, <2>6 DEF Intakes
<1> QED BY <1>5, <1>6 DEF ResetTake

\* The journal is written for an intake that was not answered.
LEMMA JournalIntakes ==
  ASSUME Typed, LocksHeld, Intakes, NEW p \in TakerProcs, WriteTakeJournal(p)
  PROVE  Intakes'
<1> DEFINE e == In(p).event
           job == Job(In(p), take[p].thread)
<1>1. IntakeWorks(p) /\ TakeAt(p, "journal")
  BY DEF WriteTakeJournal, TakeAt, IntakeWorks
<1>2. /\ IntakeInside(p) /\ take[p] \in Takes /\ In(p) \in Inputs /\ In(p).event \in Events
      /\ In(p) \in tried /\ Working(p)
  BY <1>1, WorksIs DEF Intakes
<1>3. (\A q \in TakerProcs \ {p} : take'[q] = take[q]) /\ take'[p].in = In(p)
  BY InsideStep
<1>4. /\ UNCHANGED <<file, tried, taken>>
      /\ take' = [take EXCEPT ![p].step = "write", ![p].pos = 0, ![p].job = job]
      /\ intakeJournal' = [intakeJournal EXCEPT ![e] = job]
  BY DEF WriteTakeJournal, intakeGhosts
<1> HIDE DEF job
<1>5. take'[p].step = "write" /\ take'[p].pos = 0 /\ take'[p].job = job
  BY <1>2, <1>4 DEF Typed, Takes
<1>6. /\ intakeJournal'[e] = job
      /\ \A d \in Events : d # e => intakeJournal'[d] = intakeJournal[d]
  BY <1>2, <1>4 DEF Typed
<1>7. ASSUME NEW q \in TakerProcs, IntakeWorks(q)'  PROVE Working(q)'
  <2>1. CASE q # p
    <3>1. take'[q] = take[q]
      BY <1>3, <2>1
    <3>2. IntakeWorks(q) /\ Working(q) /\ IntakeInside(q) /\ In(q).event \in Events
      BY <1>7, <3>1, WorksIs DEF IntakeWorks, Intakes
    <3>3. In(q).event # e
      BY <1>2, <2>1, <3>2, IntakeExclusive
    <3>4. JobKnown(q)'
      BY <1>6, <3>1, <3>2, <3>3 DEF Working, JobKnown, IntakeWrites, In
    <3>5. UNCHANGED <<file, tried, taken>>
      BY <1>4
    <3> QED BY <3>1, <3>2, <3>4, <3>5 DEF Working, ContentTaken, Only, WrittenSoFar, IntakeWrites,
              TakeAt, In, Present
  <2>2. CASE q = p
    <3>1. JobKnown(p)'
      BY <1>3, <1>5, <1>6 DEF JobKnown, IntakeWrites, In
    <3>2. ~ContentTaken(In(p))' /\ (Only(In(p))' => In(p)' \notin taken')
      BY <1>1, <1>2, <1>3, <1>4 DEF Working, ContentTaken, Present, In, Only, TakeAt
    <3>3. WrittenSoFar(p)'
      BY <1>5 DEF WrittenSoFar
    <3> QED BY <2>2, <3>1, <3>2, <3>3 DEF Working
  <2> QED BY <2>1, <2>2
<1>8. ASSUME NEW in \in taken  PROVE Answered(in)'
  <2>1. Answered(in) /\ in.event \in Events
    BY InputShape DEF Intakes, Typed
  <2>2. Only(in) => in.event # e
    BY <1>1, <1>2, <1>8 DEF Only, Working, TakeAt
  <2> QED BY <1>4, <1>6, <2>1, <2>2 DEF Answered, Whole, Only, Present, IsMessage, ThreadKey
<1> QED BY <1>4, <1>7, <1>8 DEF Intakes

-----------------------------------------------------------------------------
\* What is kept of the threads.

Threads == {ThreadOf[e] : e \in Events}

\* A step may take threads out of account.
LEMMA ThreadsIf ==
  ASSUME ThreadsKept, overtaken \subseteq overtaken',
         \A t \in Threads \ overtaken' :
           OneAtATime(t) /\ InStep(t) => OneAtATime(t)' /\ InStep(t)'
  PROVE  ThreadsKept'
BY DEF ThreadsKept, Threads

\* The steps that change no file and no journal, after which their call does not work.
LEMMA QuietThreads ==
  ASSUME ThreadsKept, NEW p \in TakerProcs, UNCHANGED <<file, intakeJournal, taken, overtaken>>,
         \A q \in TakerProcs \ {p} : take'[q] = take[q], ~IntakeWorks(p)'
  PROVE  ThreadsKept'
<1> SUFFICES ASSUME NEW t \in Threads \ overtaken', OneAtATime(t), InStep(t)
             PROVE  OneAtATime(t)' /\ InStep(t)'
  BY ThreadsIf
<1>1. \A q \in TakerProcs : WorksOn(q, t)' => take'[q] = take[q] /\ WorksOn(q, t)
  BY DEF WorksOn, IntakeWorks, IsMessage, In
<1>2. (\A e \in Events : Queued(e)' = Queued(e)) /\ (\A s : Messages(s)' = Messages(s))
  BY DEF Queued, Messages, Present, IsMessage
<1>3. OneAtATime(t)'
  BY <1>1, <1>2 DEF OneAtATime, In
<1>4. InStep(t)'
  BY <1>1, <1>2 DEF InStep, In, TakeAt, Extends, IsMessage
<1> QED BY <1>3, <1>4

\* The check: the thread is out of account if another message is pending, and else the
\* call has it as it is.
LEMMA CheckThreads ==
  ASSUME Typed, LocksHeld, ThreadsKept, NEW p \in TakerProcs, CheckTake(p)
  PROVE  ThreadsKept'
<1> DEFINE e == In(p).event
           step == IF intakeJournal[e] = Absent THEN "decide" ELSE "replay"
           thr == IF In(p).mode = "runtime_only"
                  THEN ThreadWith(In(p), file[Key("thread", e)]) ELSE Absent
<1>1. /\ \A q \in TakerProcs \ {p} : take'[q] = take[q]
      /\ take'[p].in = In(p)
      /\ take[p] # NoTake /\ take[p] \in Takes /\ In(p) \in Inputs /\ e \in Events
      /\ Key("thread", e) = ThreadKey(In(p))
  BY InsideStep, CallIs DEF CheckTake, TakeAt
<1>2. UNCHANGED <<file, intakeJournal, taken>> /\ overtaken \subseteq overtaken'
  BY DEF CheckTake, intakeStore
<1> SUFFICES ASSUME NEW t \in Threads \ overtaken', OneAtATime(t), InStep(t)
             PROVE  OneAtATime(t)' /\ InStep(t)'
  BY <1>2, ThreadsIf
<1>3. (\A d \in Events : Queued(d)' = Queued(d)) /\ (\A s : Messages(s)' = Messages(s))
  BY <1>2 DEF Queued, Messages, Present, IsMessage
<1>4. \A q \in TakerProcs \ {p} : WorksOn(q, t)' => take'[q] = take[q] /\ WorksOn(q, t)
  BY <1>1 DEF WorksOn, IntakeWorks, IsMessage, In
<1>5. ASSUME WorksOn(p, t)'
      PROVE  /\ IsMessage(In(p)) /\ ThreadOf[e] = t /\ ~TakeAt(p, "write")'
             /\ take'[p].thread.messages = Messages(t) \cup {e}
             /\ \A d \in Events : Queued(d) /\ ThreadOf[d] = t => e = d
  <2>1. IsMessage(In(p)) /\ ThreadOf[e] = t
    BY <1>1, <1>5 DEF WorksOn, In, IsMessage
  <2>2. ~TakeGo(p, "release", 0)
    <3>1. TakeGo(p, "release", 0) => take'[p].step = "release"
      BY <1>1, GoesOn
    <3> QED BY <1>5, <3>1 DEF WorksOn, IntakeWorks
  <2>3. /\ take' = [take EXCEPT ![p].step = step, ![p].pos = 0, ![p].thread = thr,
                                ![p].job = intakeJournal[e]]
        /\ (\E d \in Events \ {e} : ThreadOf[d] = ThreadOf[e] /\ intakeJournal[d] # Absent)
             => t \in overtaken'
    BY <2>1, <2>2 DEF CheckTake
  <2>4. thr = ThreadWith(In(p), file[ThreadKey(In(p))])
    BY <1>1, <2>1 DEF IsMessage
  <2>5. step # "write"
    OBVIOUS
  <2> HIDE DEF thr, step
  <2>6. take'[p].thread = thr /\ take'[p].step = step
    BY <1>1, <2>3 DEF Typed, Takes
  <2>7. thr.messages = Messages(t) \cup {e}
    BY <1>1, <2>1, <2>4, ThreadWithIs
  <2> QED BY <2>1, <2>3, <2>5, <2>6, <2>7 DEF Queued, TakeAt
<1>6. OneAtATime(t)'
  <2>1. ASSUME NEW q \in TakerProcs, NEW d \in Events, WorksOn(q, t)', Queued(d)', ThreadOf[d] = t
        PROVE  In(q)'.event = d
    <3>1. CASE q = p
      BY <1>1, <1>3, <1>5, <2>1, <3>1 DEF In
    <3>2. CASE q # p
      BY <1>3, <1>4, <2>1, <3>2 DEF OneAtATime, In
    <3> QED BY <3>1, <3>2
  <2> QED BY <1>3, <2>1 DEF OneAtATime
<1>7. InStep(t)'
  <2>1. ASSUME NEW q \in TakerProcs, WorksOn(q, t)'
        PROVE  /\ Extends(take[q].thread, In(q).event)'
               /\ TakeAt(q, "write")' /\ take'[q].pos >= 3 => In(q)'.event \in Messages(t)'
    <3>1. CASE q = p
      BY <1>1, <1>3, <1>5, <2>1, <3>1 DEF Extends, In
    <3>2. CASE q # p
      BY <1>3, <1>4, <2>1, <3>2 DEF InStep, Extends, In, TakeAt
    <3> QED BY <3>1, <3>2
  <2>2. \A d \in Events : Queued(d)' /\ ThreadOf[d] = t => Extends(intakeJournal[d].thread, d)'
    BY <1>2, <1>3 DEF InStep, Extends
  <2>3. \A in \in taken' : IsMessage(in)' /\ ThreadOf[in.event] = t => in.event \in Messages(t)'
    BY <1>2, <1>3 DEF InStep, IsMessage
  <2> QED BY <2>1, <2>2, <2>3 DEF InStep
<1> QED BY <1>6, <1>7

\* A write: if it is of the thread, of the one message that is under way in it.
LEMMA WriteThreads ==
  ASSUME Typed, LocksHeld, Intakes, ThreadsKept, NEW p \in TakerProcs, WriteFile(p)
  PROVE  ThreadsKept'
<1> DEFINE job == take[p].job
           e == In(p).event
<1>1. PICK i \in 1 .. Len(FilesOf(job.in)), kind \in ToSet(FilesOf(job.in)) :
        /\ IntakeWrites(p) /\ kind = FilesOf(job.in)[i] /\ i = take[p].pos + 1
        /\ take[p].pos \in Nat
        /\ take'[p] = [take[p] EXCEPT !.pos = i]
        /\ Key(kind, e) \in Keys /\ Key(kind, e)[1] = kind
        /\ \A k \in Keys : k # Key(kind, e) => file'[k] = file[k]
        /\ IF kind = "thread"
           THEN /\ IsMessage(job.in)
                /\ file'[Key(kind, e)] = job.thread
                /\ job.thread \in ThreadRecs
           ELSE file'[Key(kind, e)] = BuiltFrom(kind, job.in)
        /\ UNCHANGED <<intakeJournal, taken, tried, overtaken>>
  BY WriteFileIs
<1>2. IntakeWorks(p) /\ e \in Events /\ In(p) \in Inputs /\ take[p] \in Takes
  BY <1>1, WorksIs DEF IntakeWrites, IntakeWorks
<1>3. intakeJournal[e] = job /\ IntakeWrites(p) /\ job.in \in Inputs
  BY <1>1, <1>2, WorksIs DEF Intakes, Working, JobKnown
<1>4. /\ \A q \in TakerProcs \ {p} : take'[q] = take[q]
      /\ take'[p].in = In(p) /\ take'[p].step = take[p].step /\ take'[p].pos = i
      /\ take'[p].thread = take[p].thread
  BY <1>1, <1>2, InsideStep DEF Takes, In
<1> SUFFICES ASSUME NEW t \in Threads \ overtaken', OneAtATime(t), InStep(t)
             PROVE  OneAtATime(t)' /\ InStep(t)'
  BY <1>1, ThreadsIf
<1>5. UNCHANGED <<intakeJournal, taken>>
  BY <1>1
<1>6. \A d \in Events : Queued(d)' = Queued(d)
  BY <1>5 DEF Queued, IsMessage
<1>7. \A q \in TakerProcs : /\ WorksOn(q, t)' = WorksOn(q, t) /\ In(q)' = In(q)
                            /\ take'[q].step = take[q].step /\ take'[q].thread = take[q].thread
  BY <1>4 DEF WorksOn, IntakeWorks, IsMessage, In
<1>8. OneAtATime(t)'
  BY <1>6, <1>7 DEF OneAtATime
<1>9. <<"thread", t>> \in Keys
  <2>1. PICK d \in Events : t = ThreadOf[d]
    BY DEF Threads
  <2> DEFINE in == [event |-> d, mode |-> "runtime_only"]
  <2>2. in \in Inputs /\ in.event = d
    BY DEF Inputs, Modes
  <2> HIDE DEF in
  <2> QED BY <2>1, <2>2, OwnedAre DEF ThreadKey
<1>10. CASE kind = "thread" /\ ThreadOf[e] = t
  <2>1. Key(kind, e) = <<"thread", t>>
    BY <1>2, <1>10, KeyAre
  <2>2. Queued(e)
    <3>1. job # Absent
      BY <1>1, <1>2, WorksIs DEF GoodJob, Jobs, Absent
    <3> QED BY <1>1, <1>3, <1>10, <3>1 DEF Queued
  <2>3. Extends(job.thread, e)
    BY <1>2, <1>3, <1>10, <2>2 DEF InStep
  <2>4. Messages(t)' = job.thread.messages
    <3>1. file'[<<"thread", t>>] = job.thread /\ job.thread # Absent
      BY <1>1, <1>10, <2>1 DEF ThreadRecs, Absent
    <3> QED BY <3>1 DEF Messages, Present
  <2>5. Messages(t)' = Messages(t) \cup {e}
    BY <1>10, <2>3, <2>4 DEF Extends
  <2>6. ASSUME NEW d \in Events, Queued(d)', ThreadOf[d] = t
        PROVE  Extends(intakeJournal[d].thread, d)'
    <3>1. d = e
      BY <1>2, <1>6, <1>10, <2>2, <2>6 DEF OneAtATime
    <3> QED BY <1>3, <1>5, <1>10, <2>3, <2>4, <2>5, <3>1 DEF Extends
  <2>7. ASSUME NEW q \in TakerProcs, WorksOn(q, t)'
        PROVE  Extends(take[q].thread, In(q).event)' /\ In(q)'.event \in Messages(t)'
    <3>1. WorksOn(q, t) /\ In(q).event = e
      BY <1>2, <1>7, <1>10, <2>2, <2>7 DEF OneAtATime
    <3>2. take[q].thread.messages = Messages(t) \cup {e}
      BY <1>10, <3>1 DEF InStep, Extends
    <3> QED BY <1>7, <1>10, <2>5, <3>1, <3>2 DEF Extends
  <2>8. \A in \in taken' : IsMessage(in)' /\ ThreadOf[in.event] = t => in.event \in Messages(t)'
    BY <1>5, <2>5 DEF InStep, IsMessage
  <2>9. InStep(t)'
    BY <2>6, <2>7, <2>8 DEF InStep
  <2> QED BY <1>8, <2>9
<1>11. CASE ~(kind = "thread" /\ ThreadOf[e] = t)
  <2>1. Key(kind, e) # <<"thread", t>>
    <3>1. CASE kind = "thread"
      BY <1>2, <1>11, <3>1, KeyAre
    <3>2. CASE kind # "thread"
      BY <1>1, <3>2
    <3> QED BY <3>1, <3>2
  <2>2. file'[<<"thread", t>>] = file[<<"thread", t>>]
    BY <1>1, <1>9, <2>1
  <2>3. Messages(t)' = Messages(t)
    BY <2>2 DEF Messages, Present
  <2>4. ASSUME NEW q \in TakerProcs, WorksOn(q, t), TakeAt(q, "write"), take'[q].pos >= 3
        PROVE  take[q].pos >= 3
    <3>1. CASE q # p
      BY <1>4, <2>4, <3>1
    <3>2. CASE q = p
      <4>1. job.in = In(p) /\ IsMessage(In(p)) /\ ThreadOf[e] = t
        BY <1>2, <2>4, <3>2, WorksIs DEF WorksOn
      <4>2. i # 3
        BY <1>1, <1>2, <1>11, <4>1, FilePositions
      <4>3. i = take[p].pos + 1 /\ take[p].pos \in Nat /\ i >= 3
        BY <1>1, <1>4, <2>4, <3>2
      <4>4. take[p].pos >= 3
        BY <4>2, <4>3
      <4> QED BY <3>2, <4>4
    <3> QED BY <3>1, <3>2
  <2>5. \A q \in TakerProcs : WorksOn(q, t)' => Extends(take[q].thread, In(q).event)'
    <3> SUFFICES ASSUME NEW q \in TakerProcs, WorksOn(q, t)'
                 PROVE  Extends(take[q].thread, In(q).event)'
      OBVIOUS
    <3>1. WorksOn(q, t) /\ ThreadOf[In(q).event] = t
      BY <1>7 DEF WorksOn
    <3>2. take[q].thread.messages = Messages(t) \cup {In(q).event}
      BY <3>1 DEF InStep, Extends
    <3> QED BY <1>7, <2>3, <3>1, <3>2 DEF Extends
  <2>6. ASSUME NEW q \in TakerProcs, WorksOn(q, t)', TakeAt(q, "write")', take'[q].pos >= 3
        PROVE  In(q)'.event \in Messages(t)'
    <3>1. WorksOn(q, t) /\ TakeAt(q, "write")
      BY <1>7, <2>6 DEF TakeAt
    <3>2. take[q].pos >= 3
      BY <2>4, <2>6, <3>1
    <3> QED BY <1>7, <2>3, <3>1, <3>2 DEF InStep
  <2>7. ASSUME NEW d \in Events, Queued(d)', ThreadOf[d] = t
        PROVE  Extends(intakeJournal[d].thread, d)'
    <3>1. intakeJournal[d].thread.messages = Messages(t) \cup {d}
      BY <1>6, <2>7 DEF InStep, Extends
    <3> QED BY <1>5, <2>3, <2>7, <3>1 DEF Extends
  <2>8. \A in \in taken' : IsMessage(in)' /\ ThreadOf[in.event] = t => in.event \in Messages(t)'
    BY <1>5, <2>3 DEF InStep, IsMessage
  <2>9. InStep(t)'
    BY <2>5, <2>6, <2>7, <2>8 DEF InStep
  <2> QED BY <1>8, <2>9
<1> QED BY <1>10, <1>11

\* A thread whose file, journals and calls a step leaves: it may take a message less as
\* under way, and answer one that is in the thread.
LEMMA ThreadSteady ==
  ASSUME NEW t, OneAtATime(t), InStep(t), NEW p \in TakerProcs,
         Messages(t)' = Messages(t),
         \A q \in TakerProcs \ {p} : take'[q] = take[q],
         take'[p].in = In(p), take'[p].thread = take[p].thread,
         IntakeWorks(p), ~TakeAt(p, "write")',
         \A e \in Events : intakeJournal'[e] = intakeJournal[e] \/ intakeJournal'[e] = Absent,
         \A in \in taken' \ taken : IsMessage(in) /\ ThreadOf[in.event] = t
                                      => in.event \in Messages(t)
  PROVE  OneAtATime(t)' /\ InStep(t)'
<1>1. \A e \in Events : Queued(e)' => Queued(e) /\ intakeJournal'[e] = intakeJournal[e]
  BY DEF Queued, IsMessage
<1>2. ASSUME NEW q \in TakerProcs, WorksOn(q, t)'
      PROVE  /\ WorksOn(q, t) /\ In(q)' = In(q) /\ take'[q].thread = take[q].thread
             /\ TakeAt(q, "write")' => q # p /\ take'[q] = take[q]
  <2>1. CASE q = p
    BY <1>2, <2>1 DEF WorksOn, In, IsMessage
  <2>2. CASE q # p
    BY <1>2, <2>2 DEF WorksOn, IntakeWorks, In, IsMessage
  <2> QED BY <2>1, <2>2
<1>3. OneAtATime(t)'
  BY <1>1, <1>2 DEF OneAtATime
<1>4. ASSUME NEW e \in Events, Queued(e)', ThreadOf[e] = t
      PROVE  Extends(intakeJournal[e].thread, e)'
  <2>1. intakeJournal'[e].thread.messages = Messages(t) \cup {e}
    BY <1>1, <1>4 DEF InStep, Extends
  <2> QED BY <1>4, <2>1 DEF Extends
<1>5. ASSUME NEW q \in TakerProcs, WorksOn(q, t)'
      PROVE  /\ Extends(take[q].thread, In(q).event)'
             /\ TakeAt(q, "write")' /\ take'[q].pos >= 3 => In(q)'.event \in Messages(t)'
  <2>1. ThreadOf[In(q).event] = t /\ take[q].thread.messages = Messages(t) \cup {In(q).event}
    BY <1>2, <1>5 DEF InStep, Extends, WorksOn
  <2>2. Extends(take[q].thread, In(q).event)'
    BY <1>2, <1>5, <2>1 DEF Extends
  <2>3. TakeAt(q, "write")' /\ take'[q].pos >= 3 => In(q)'.event \in Messages(t)'
    BY <1>2, <1>5 DEF InStep, TakeAt
  <2> QED BY <2>2, <2>3
<1>6. \A in \in taken' : IsMessage(in)' /\ ThreadOf[in.event] = t => in.event \in Messages(t)'
  BY DEF InStep, IsMessage
<1>7. InStep(t)'
  BY <1>4, <1>5, <1>6 DEF InStep
<1> QED BY <1>3, <1>7

\* The removal of a journal: an answered message is in its thread.
LEMMA ClearThreads ==
  ASSUME Typed, LocksHeld, Intakes, ThreadsKept, NEW p \in TakerProcs, ClearTakeJournal(p)
  PROVE  ThreadsKept'
<1>1. IntakeWrites(p) /\ IntakeWorks(p)
  BY DEF ClearTakeJournal, IntakeWrites, IntakeWorks
<1>2. /\ take[p] # NoTake /\ In(p) \in Inputs /\ In(p).event \in Events
      /\ (TakeAt(p, "write") => take[p].job.in = In(p))
  BY <1>1, WorksIs
<1>3. UNCHANGED <<file, overtaken>>
      /\ \A d \in Events : intakeJournal'[d] = intakeJournal[d] \/ intakeJournal'[d] = Absent
  BY DEF ClearTakeJournal, Typed
<1>4. /\ \A q \in TakerProcs \ {p} : take'[q] = take[q]
      /\ take'[p].in = In(p)
  BY InsideStep
<1>5. /\ \/ TakeAt(p, "replay") /\ take'[p].step = "decide" /\ taken' = taken
         \/ TakeAt(p, "write") /\ take'[p].step = "release" /\ taken' = taken \cup {In(p)}
      /\ take'[p].thread = take[p].thread
  BY <1>1, <1>2, GoesOn DEF ClearTakeJournal, IntakeWrites, TakeAt
<1> SUFFICES ASSUME NEW t \in Threads \ overtaken', OneAtATime(t), InStep(t)
             PROVE  OneAtATime(t)' /\ InStep(t)'
  BY <1>3, ThreadsIf
<1>6. Messages(t)' = Messages(t)
  BY <1>3 DEF Messages, Present
<1>7. ASSUME NEW in \in taken' \ taken, IsMessage(in), ThreadOf[in.event] = t
      PROVE  in.event \in Messages(t)
  <2>1. TakeAt(p, "write") /\ in = In(p)
    BY <1>5
  <2>2. take[p].pos >= 3
    <3>1. take[p].pos = Len(FilesOf(In(p)))
      BY <1>2, <2>1 DEF ClearTakeJournal
    <3>2. Len(FilesOf(In(p))) = 5
      BY <1>2, <1>7, <2>1, IntakeFilesAre
    <3> QED BY <3>1, <3>2
  <2> QED BY <1>1, <1>7, <2>1, <2>2 DEF InStep, WorksOn
<1>8. ~TakeAt(p, "write")'
  BY <1>5 DEF TakeAt
<1> QED BY <1>1, <1>3, <1>4, <1>5, <1>6, <1>7, <1>8, ThreadSteady

\* The decision: a message that is reused is in its thread.
LEMMA DecideThreads ==
  ASSUME Typed, LocksHeld, Intakes, ThreadsKept, NEW p \in TakerProcs, DecideTake(p)
  PROVE  ThreadsKept'
<1>1. IntakeWorks(p)
  BY DEF DecideTake, TakeAt, IntakeWorks
<1>2. /\ take[p] # NoTake /\ In(p) \in Inputs /\ In(p).event \in Events
      /\ Thread(In(p), take[p].thread)
  BY <1>1, WorksIs
<1>3. UNCHANGED <<file, intakeJournal, overtaken>>
  BY DEF DecideTake, intakeStore
<1>4. /\ \A q \in TakerProcs \ {p} : take'[q] = take[q]
      /\ take'[p].in = In(p)
  BY InsideStep
<1>5. /\ take'[p].step # "write" /\ take'[p].thread = take[p].thread
      /\ taken' # taken => /\ {k \in KeysOf(In(p)) : Present(k)} = KeysOf(In(p))
                           /\ MatchesInput(p) /\ taken' = taken \cup {In(p)}
  BY <1>2, GoesOn DEF DecideTake
<1> SUFFICES ASSUME NEW t \in Threads \ overtaken', OneAtATime(t), InStep(t)
             PROVE  OneAtATime(t)' /\ InStep(t)'
  BY <1>3, ThreadsIf
<1>6. Messages(t)' = Messages(t)
  BY <1>3 DEF Messages, Present
<1>7. ASSUME NEW in \in taken' \ taken, IsMessage(in), ThreadOf[in.event] = t
      PROVE  in.event \in Messages(t)
  <2>1. /\ {k \in KeysOf(In(p)) : Present(k)} = KeysOf(In(p)) /\ MatchesInput(p) /\ in = In(p)
    BY <1>5, <1>7
  <2>2. ThreadKey(In(p)) \in KeysOf(In(p)) /\ ThreadKey(In(p)) = <<"thread", t>>
        /\ ThreadKey(In(p)) = Key("thread", In(p).event)
    BY <1>2, <1>7, <2>1, OwnedAre, KeyAre DEF ThreadKey
  <2>3. Present(<<"thread", t>>)
    BY <2>1, <2>2
  <2>4. file[<<"thread", t>>] = take[p].thread
    BY <1>7, <2>1, <2>2 DEF MatchesInput, IsMessage
  <2>5. In(p).event \in take[p].thread.messages
    BY <1>2, <1>7, <2>1 DEF Thread
  <2> QED BY <2>1, <2>3, <2>4, <2>5 DEF Messages
<1>8. ~TakeAt(p, "write")'
  BY <1>5 DEF TakeAt
<1> QED BY <1>1, <1>3, <1>4, <1>5, <1>6, <1>7, <1>8, ThreadSteady

\* A deletion is of no thread record.
LEMMA ResetThreads ==
  ASSUME Typed, LocksHeld, Intakes, ThreadsKept, NEW p \in TakerProcs, ResetTake(p)
  PROVE  ThreadsKept'
<1>1. IntakeWorks(p) /\ TakeAt(p, "reset")
  BY DEF ResetTake, TakeAt, IntakeWorks
<1>2. take[p] # NoTake /\ In(p) \in Inputs /\ In(p).event \in Events /\ take[p] \in Takes
  BY <1>1, WorksIs
<1>3. UNCHANGED <<intakeJournal, taken, overtaken>>
  BY DEF ResetTake, intakeGhosts
<1>4. /\ \A q \in TakerProcs \ {p} : take'[q] = take[q]
      /\ take'[p].in = In(p)
  BY InsideStep
<1>5. take'[p].step \in {"reset", "journal"} /\ take'[p].thread = take[p].thread
  <2>1. CASE TakeGo(p, "journal", 0)
    BY <1>2, <2>1, GoesOn
  <2>2. CASE UNCHANGED take
    BY <1>1, <2>2 DEF TakeAt
  <2> QED BY <2>1, <2>2 DEF ResetTake
<1> SUFFICES ASSUME NEW t \in Threads \ overtaken', OneAtATime(t), InStep(t)
             PROVE  OneAtATime(t)' /\ InStep(t)'
  BY <1>3, ThreadsIf
<1>6. file'[<<"thread", t>>] = file[<<"thread", t>>]
  <2>1. CASE UNCHANGED file
    BY <2>1
  <2>2. CASE \E i \in LeftToReset(In(p)) :
               file' = [file EXCEPT ![Key(ResetOrder[i], In(p).event)] = Absent]
    <3>1. PICK i \in LeftToReset(In(p)) :
                 file' = [file EXCEPT ![Key(ResetOrder[i], In(p).event)] = Absent]
      BY <2>2
    <3>2. ResetOrder[i] # "thread"
      BY DEF LeftToReset, ResetOrder
    <3>3. Key(ResetOrder[i], In(p).event)[1] = ResetOrder[i]
      BY <1>2, KeyAre
    <3>4. Key(ResetOrder[i], In(p).event) # <<"thread", t>>
      BY <3>2, <3>3
    <3> QED BY <3>1, <3>4
  <2> QED BY <2>1, <2>2 DEF ResetTake
<1>7. Messages(t)' = Messages(t)
  BY <1>6 DEF Messages, Present
<1>8. ~TakeAt(p, "write")'
  BY <1>5 DEF TakeAt
<1> QED BY <1>1, <1>3, <1>4, <1>5, <1>7, <1>8, ThreadSteady

\* The journal: no other message of the thread is pending or under way.
LEMMA JournalThreads ==
  ASSUME Typed, LocksHeld, Intakes, ThreadsKept, NEW p \in TakerProcs, WriteTakeJournal(p)
  PROVE  ThreadsKept'
<1> DEFINE e == In(p).event
           job == Job(In(p), take[p].thread)
<1>1. IntakeWorks(p)
  BY DEF WriteTakeJournal, TakeAt, IntakeWorks
<1>2. /\ take[p] # NoTake /\ In(p) \in Inputs /\ In(p).event \in Events /\ take[p] \in Takes
      /\ IntakeInside(p)
  BY <1>1, WorksIs
<1>3. /\ UNCHANGED <<file, taken, overtaken>>
      /\ take' = [take EXCEPT ![p].step = "write", ![p].pos = 0, ![p].job = job]
      /\ intakeJournal' = [intakeJournal EXCEPT ![e] = job]
  BY DEF WriteTakeJournal, intakeGhosts
<1>4. job.in = In(p) /\ job.thread = take[p].thread /\ job # Absent
  BY DEF Job, Absent
<1> HIDE DEF job
<1>5. /\ intakeJournal'[e] = job
      /\ \A d \in Events : d # e => intakeJournal'[d] = intakeJournal[d]
  BY <1>2, <1>3 DEF Typed
<1>6. /\ \A q \in TakerProcs \ {p} : take'[q] = take[q]
      /\ take'[p].in = In(p) /\ take'[p].thread = take[p].thread /\ take'[p].pos = 0
  BY <1>2, <1>3 DEF Typed, Takes, In
<1> SUFFICES ASSUME NEW t \in Threads \ overtaken', OneAtATime(t), InStep(t)
             PROVE  OneAtATime(t)' /\ InStep(t)'
  BY <1>3, ThreadsIf
<1>7. Messages(t)' = Messages(t)
  BY <1>3 DEF Messages, Present
<1>8. ASSUME NEW d \in Events, Queued(d)', ThreadOf[d] = t
      PROVE  \/ d = e /\ IsMessage(In(p)) /\ ThreadOf[e] = t /\ WorksOn(p, t)
             \/ d # e /\ Queued(d) /\ intakeJournal'[d] = intakeJournal[d]
  <2>1. CASE d = e
    BY <1>1, <1>4, <1>5, <1>8, <2>1 DEF Queued, IsMessage, WorksOn
  <2>2. CASE d # e
    BY <1>5, <1>8, <2>2 DEF Queued, IsMessage
  <2> QED BY <2>1, <2>2
<1>9. ASSUME NEW q \in TakerProcs, WorksOn(q, t)'
      PROVE  /\ WorksOn(q, t) /\ In(q)' = In(q) /\ take'[q].thread = take[q].thread
             /\ take'[q].pos >= 3 => q # p /\ take'[q] = take[q]
  <2>1. CASE q = p
    BY <1>1, <1>6, <1>9, <2>1 DEF WorksOn, In, IsMessage
  <2>2. CASE q # p
    BY <1>6, <1>9, <2>2 DEF WorksOn, IntakeWorks, In, IsMessage
  <2> QED BY <2>1, <2>2
<1>10. \A c, d \in Events :
         Queued(c)' /\ Queued(d)' /\ ThreadOf[c] = t /\ ThreadOf[d] = t => c = d
  BY <1>1, <1>8 DEF OneAtATime
<1>11. ASSUME NEW q \in TakerProcs, NEW d \in Events,
              WorksOn(q, t)', Queued(d)', ThreadOf[d] = t
       PROVE  In(q)'.event = d
  <2>1. WorksOn(q, t) /\ In(q)' = In(q)
    BY <1>9, <1>11
  <2>2. CASE d = e /\ IsMessage(In(p)) /\ ThreadOf[e] = t
    <3>1. IntakeInside(q) /\ IsMessage(In(q)) /\ ThreadOf[In(q).event] = t
      BY <2>1, WorksIs DEF WorksOn
    <3>2. p = q
      BY <1>2, <2>2, <3>1, IntakeExclusive
    <3> QED BY <2>1, <2>2, <3>2
  <2>3. CASE Queued(d)
    BY <1>11, <2>1, <2>3 DEF OneAtATime
  <2> QED BY <1>8, <1>11, <2>2, <2>3
<1>12. OneAtATime(t)'
  BY <1>10, <1>11 DEF OneAtATime
<1>13. ASSUME NEW d \in Events, Queued(d)', ThreadOf[d] = t
       PROVE  Extends(intakeJournal[d].thread, d)'
  <2>1. intakeJournal'[d].thread.messages = Messages(t) \cup {d}
    <3>1. CASE d = e /\ WorksOn(p, t)
      BY <1>4, <1>5, <1>13, <3>1 DEF InStep, Extends
    <3>2. CASE Queued(d) /\ intakeJournal'[d] = intakeJournal[d]
      BY <1>13, <3>2 DEF InStep, Extends
    <3> QED BY <1>8, <1>13, <3>1, <3>2
  <2> QED BY <1>7, <1>13, <2>1 DEF Extends
<1>14. ASSUME NEW q \in TakerProcs, WorksOn(q, t)'
       PROVE  /\ Extends(take[q].thread, In(q).event)'
              /\ TakeAt(q, "write")' /\ take'[q].pos >= 3 => In(q)'.event \in Messages(t)'
  <2>1. ThreadOf[In(q).event] = t /\ take[q].thread.messages = Messages(t) \cup {In(q).event}
    BY <1>9, <1>14 DEF InStep, Extends, WorksOn
  <2>2. Extends(take[q].thread, In(q).event)'
    BY <1>7, <1>9, <1>14, <2>1 DEF Extends
  <2>3. TakeAt(q, "write")' /\ take'[q].pos >= 3 => In(q)'.event \in Messages(t)'
    BY <1>7, <1>9, <1>14 DEF InStep, TakeAt
  <2> QED BY <2>2, <2>3
<1>15. \A in \in taken' : IsMessage(in)' /\ ThreadOf[in.event] = t => in.event \in Messages(t)'
  BY <1>3, <1>7 DEF InStep, IsMessage
<1>16. InStep(t)'
  BY <1>13, <1>14, <1>15 DEF InStep
<1> QED BY <1>12, <1>16

-----------------------------------------------------------------------------
\* The invariant and what follows from it.

\* The invariant holds at first.
LEMMA IntakeBegins == IntakeInit => IntakeInv
<1> SUFFICES ASSUME IntakeInit  PROVE IntakeInv
  OBVIOUS
<1>1. \A p \in TakerProcs : take[p] = NoTake
  BY DEF IntakeInit
<1>2. \A p \in TakerProcs : ~IntakeWorks(p) /\ Holds(p) = {}
  BY <1>1 DEF IntakeWorks, NoTake, Holds, TakeAt
<1>3. IntakeKept
  BY <1>2 DEF IntakeKept, LocksHeld, IntakeInit
<1>4. \A e \in Events : ~Queued(e)
  BY DEF IntakeInit, Queued
<1>5. ThreadsKept
  BY <1>2, <1>4 DEF ThreadsKept, OneAtATime, InStep, WorksOn, IntakeInit
<1> QED BY <1>3, <1>5, TypedInit DEF IntakeInv

\* A lock that was taken from its holder counts for ever.
LEMMA IntakeStolenStays ==
  ASSUME Typed, IntakeNext, ~intakeStolen'
  PROVE  ~intakeStolen
BY DEF Typed, IntakeNext, BeginTake, TakeLock, FindStaleTake, RemoveStaleTake, TakeTimesOut,
       ReleaseTake, CheckTake, WriteFile, ClearTakeJournal, DecideTake, ResetTake,
       WriteTakeJournal, TakeFails, TakerDies, Unlocked, intakeGhosts

\* Every step keeps the invariant.
LEMMA IntakeStep ==
  ASSUME IntakeInv, [IntakeNext]_intakeVars
  PROVE  IntakeInv'
<1>1. Typed /\ Typed'
  BY TypedStep DEF IntakeInv
<1>2. CASE UNCHANGED intakeVars
  <2>1. LocksHeld => LocksHeld'
    BY <1>2 DEF intakeVars, LocksHeld, Holds, TakeAt, In
  <2>2. (\A p \in TakerProcs : IntakeWorks(p) => Working(p))
          => (\A p \in TakerProcs : IntakeWorks(p) => Working(p))'
    BY <1>2 DEF intakeVars, IntakeWorks, Working, JobKnown, ContentTaken, Only, WrittenSoFar, IntakeWrites,
                TakeAt, In, Present
  <2>3. (\A in \in taken : Answered(in)) => (\A in \in taken : Answered(in))'
    BY <1>2 DEF intakeVars, Answered, Whole, Only, Present, IsMessage, ThreadKey
  <2>4. ThreadsKept => ThreadsKept'
    BY <1>2 DEF intakeVars, ThreadsKept, OneAtATime, InStep, WorksOn, IntakeWorks, Queued, Extends,
                Messages, Present, TakeAt, In, IsMessage
  <2>5. intakeStolen' = intakeStolen
    BY <1>2 DEF intakeVars
  <2> QED BY <1>1, <2>1, <2>2, <2>3, <2>4, <2>5 DEF IntakeInv, IntakeKept
<1>3. CASE IntakeNext
  <2> SUFFICES ASSUME ~intakeStolen'  PROVE IntakeKept' /\ ThreadsKept'
    BY <1>1 DEF IntakeInv
  <2>1. LocksHeld /\ Intakes /\ ThreadsKept
    BY <1>1, <1>3, IntakeStolenStays DEF IntakeInv, IntakeKept, Intakes
  <2>2. ASSUME NEW p \in TakerProcs,
               \/ \E in \in offered : BeginTake(p, in)
               \/ TakeLock(p) \/ FindStaleTake(p) \/ RemoveStaleTake(p)
               \/ TakeTimesOut(p) \/ ReleaseTake(p) \/ TakeFails(p) \/ TakerDies(p)
        PROVE  LocksHeld' /\ Intakes' /\ ThreadsKept'
    <3>1. UNCHANGED <<file, intakeJournal, taken, tried, overtaken>>
      BY <2>2 DEF BeginTake, TakeLock, FindStaleTake, RemoveStaleTake, TakeTimesOut,
         ReleaseTake, TakeFails, TakerDies, intakeGhosts, intakeStore
    <3>2. (\A q \in TakerProcs \ {p} : take'[q] = take[q]) /\ ~IntakeWorks(p)'
      BY <1>1, <2>2 DEF BeginTake, TakeLock, FindStaleTake, RemoveStaleTake, TakeTimesOut,
         ReleaseTake, TakeFails, TakerDies, Unlocked, TakeGo, IntakeWorks, NoTake, NewTake, Typed,
         TakeAt, TakeOf, Takes
    <3>3. LocksHeld'
      BY <1>1, <2>1, <2>2, LocksStep
    <3> QED BY <2>1, <3>1, <3>2, <3>3, QuietIntakes, QuietThreads
  <2>3. ASSUME NEW p \in TakerProcs,
               \/ CheckTake(p) \/ WriteFile(p) \/ ClearTakeJournal(p)
               \/ DecideTake(p) \/ ResetTake(p) \/ WriteTakeJournal(p)
        PROVE  LocksHeld' /\ Intakes' /\ ThreadsKept'
    <3>1. LocksHeld'
      BY <1>1, <2>1, <2>3, InsideStep
    <3>2. Intakes'
      BY <1>1, <2>1, <2>3, CheckIntakes, WriteIntakes, ClearIntakes, DecideIntakes,
         ResetIntakes, JournalIntakes
    <3>3. ThreadsKept'
      BY <1>1, <2>1, <2>3, CheckThreads, WriteThreads, ClearThreads, DecideThreads,
         ResetThreads, JournalThreads
    <3> QED BY <3>1, <3>2, <3>3
  <2>4. LocksHeld' /\ Intakes' /\ ThreadsKept'
    BY <1>3, <2>2, <2>3 DEF IntakeNext
  <2> QED BY <2>4 DEF IntakeKept, Intakes
<1> QED BY <1>2, <1>3

\* The inductive invariant of IntakeStore: the types, and until a lock is removed under a
\* live holder, that a call knows its event's journal and has its payload for itself, that
\* what it has written of its job is there, and that of a thread that was not overtaken one
\* message at a time is pending or under way, with the thread's messages and its own.
THEOREM IntakeInvariance == IntakeSpec => []IntakeInv
BY IntakeBegins, IntakeStep, PTL DEF IntakeSpec

\* However intakes fail, are repeated and overlap, an event that was answered in one mode
\* only keeps all its evidence, for any events, payloads and callers.
THEOREM AnsweredIsWhole == IntakeSpec => []IntakeWhole
<1>1. IntakeInv => IntakeWhole
  <2> SUFFICES ASSUME IntakeInv, ~intakeStolen, NEW in \in taken, OneMode(in.event),
                      NEW k \in OwnedOf(in)
               PROVE  Present(k) /\ file[k].in = in
    BY DEF IntakeWhole
  <2>1. in \in tried /\ tried \subseteq Inputs
    BY DEF IntakeInv, Typed
  <2>2. Only(in)
    BY <2>1, OnlyOne
  <2>3. file[k] = BuiltFrom(k[1], in)
    BY <2>2 DEF IntakeInv, IntakeKept, Answered, Whole
  <2> QED BY <2>3 DEF Present, BuiltFrom, Absent
<1> QED BY <1>1, IntakeInvariance, PTL

\* With the same generality a thread keeps the messages of the events it answered for,
\* unless an intake into it ran while another one's journal was pending.
THEOREM MessagesKept == IntakeSpec => []ThreadKeepsMessages
<1>1. IntakeInv => ThreadKeepsMessages
  <2> SUFFICES ASSUME IntakeInv, ~intakeStolen, NEW in \in taken, in.mode = "runtime_only",
                      ThreadOf[in.event] \notin overtaken
               PROVE  in.event \in file[<<"thread", ThreadOf[in.event]>>].messages
    BY DEF ThreadKeepsMessages
  <2>1. in.event \in Events
    BY InputShape DEF IntakeInv, Typed
  <2>2. InStep(ThreadOf[in.event])
    BY <2>1 DEF IntakeInv, ThreadsKept
  <2>3. in.event \in Messages(ThreadOf[in.event])
    BY <2>2 DEF InStep, IsMessage
  <2> QED BY <2>3 DEF Messages
<1> QED BY <1>1, IntakeInvariance, PTL
==============================================================================
