------------------------ MODULE SessionContinuityProofs ------------------------
(***************************************************************************)
(* Proofs about SessionContinuity for any checkpoints, threads, callers    *)
(* and bound on failures.                                                  *)
(***************************************************************************)
EXTENDS SessionContinuity, TLAPS

\* A checkpoint on file has a generation, and so has what a call found on file; a
\* call that packs one asked for it on behalf of an adapter.
GenOK ==
  /\ \A c \in Checkpoints : checkpoint[c].status # "none" => checkpoint[c].gen # 0
  /\ \A p \in Callers :
       /\ call[p].step \in {"supersede", "artifact", "manifest"} => call[p].gen # 0
       /\ call[p].step \in {"artifact", "manifest"} => call[p].req.adapter \in Adapters
       /\ At(p, "supersede") => call[p].prev \in Checkpoints
       /\ call[p].step \in {"supersede", "create", "artifact", "manifest"} =>
            call[p].cp \in Checkpoints

TypeInv == TypeOK /\ GenOK

\* A request for a checkpoint names one.
LEMMA CheckpointNamed ==
  ASSUME NEW r \in Asked \cup {NoRequest}, r.kind = "checkpoint"
  PROVE  r.cp \in Checkpoints
BY ContinuityAssumption DEF Requests, Kinds, NoRequest

\* What a pack is compiled of is an active checkpoint.
LEMMA ChosenActive ==
  ASSUME NEW u, NEW c \in Chosen(u), u \in Checkpoints \cup {Unnamed}
  PROVE  c \in Checkpoints /\ checkpoint[c].status = "active"
BY DEF Chosen

\* A request that can be for a pack names a checkpoint or none.
LEMMA PackNamed ==
  ASSUME NEW r \in Asked \cup {NoRequest}, r.kind \in {"pack", "resume", "receipt"}
  PROVE  r.cp \in Checkpoints \cup {Unnamed} /\ r.adapter \in Adapters
BY ContinuityAssumption DEF Requests, Kinds, NoRequest

\* The type invariant holds at the start.
LEMMA TypeInit == Init => TypeInv
<1> SUFFICES ASSUME Init PROVE TypeInv
  OBVIOUS
<1>1. NoRecord \in CheckpointType /\ Idle \in CallType
  BY DEF NoRecord, CheckpointType, Idle, NewCall, CallType, Steps
<1>2. TypeOK
  <2>1. checkpoint \in [Checkpoints -> CheckpointType] /\ call \in [Callers -> CallType]
    BY <1>1 DEF Init
  <2>2. artifact \subseteq Packs /\ manifest \subseteq Packs /\ receipt \subseteq Packs
    BY DEF Init
  <2>3. lock \in {"free", "dead"} \cup Callers /\ failures \in 0 .. MaxFailures
    BY ContinuityAssumption DEF Init
  <2>4. stolen \in BOOLEAN
    BY DEF Init
  <2> QED BY <2>1, <2>2, <2>3, <2>4 DEF TypeOK
<1>3. GenOK
  BY DEF Init, GenOK, At, NoRecord, Idle, NewCall
<1> QED BY <1>2, <1>3 DEF TypeInv

\* Every step of a caller keeps the type invariant.
LEMMA TypeStep == TypeInv /\ [Next]_vars => TypeInv'
<1> SUFFICES ASSUME TypeInv, [Next]_vars PROVE TypeInv'
  OBVIOUS
<1> USE DEF TypeInv, TypeOK, GenOK, At, CheckpointType, CallType, Steps
<1>1. CASE UNCHANGED vars
  BY <1>1 DEF vars
<1>2. ASSUME NEW p \in Callers, NEW r \in Asked, Start(p, r) PROVE TypeInv'
  BY <1>2 DEF Start, NewCall, records
<1>3. ASSUME NEW p \in Callers,
             \/ Acquire(p) \/ FindStale(p) \/ RemoveStale(p) \/ TimeOut(p) \/ Release(p)
      PROVE TypeInv'
  <2>1. CASE Acquire(p)
    BY <2>1 DEF Acquire, GoOn, Goto, Req, records
  <2>2. CASE FindStale(p)
    BY <2>2, ContinuityAssumption DEF FindStale, GoOn, Goto, Req, records
  <2>3. CASE RemoveStale(p)
    BY <2>3 DEF RemoveStale, GoOn, Goto, Req, records
  <2>4. CASE TimeOut(p)
    BY <2>4 DEF TimeOut, End, Idle, NewCall, records
  <2>5. CASE Release(p)
    BY <2>5 DEF Release, GoOn, Goto, End, Idle, NewCall, Req, records
  <2> QED BY <1>3, <2>1, <2>2, <2>3, <2>4, <2>5
<1>4. ASSUME NEW p \in Callers, ReturnCheckpoint(p) PROVE TypeInv'
  BY <1>4 DEF ReturnCheckpoint, GoOn, Goto, Req, records
<1>5. ASSUME NEW p \in Callers, PlanFirstCheckpoint(p) PROVE TypeInv'
  BY <1>5, CheckpointNamed DEF PlanFirstCheckpoint, Loading, Goto, Req, records
<1>6. ASSUME NEW p \in Callers, PlanNextCheckpoint(p) PROVE TypeInv'
  <2>1. Req(p).cp \in Checkpoints
    BY <1>6, CheckpointNamed DEF PlanNextCheckpoint, Loading, Req
  <2>2. PICK prev \in Latest(ActiveOf(ThreadOf[Req(p).cp])) :
          Goto(p, "supersede", Req(p).cp, checkpoint[prev].gen, prev)
    BY <1>6 DEF PlanNextCheckpoint
  <2>3. prev \in Checkpoints /\ checkpoint[prev].gen \in Nat \ {0}
    BY DEF Latest, ActiveOf
  <2> QED BY <1>6, <2>1, <2>2, <2>3 DEF PlanNextCheckpoint, Goto, Req, records
<1>7. ASSUME NEW p \in Callers, WriteSuperseded(p) PROVE TypeInv'
  BY <1>7 DEF WriteSuperseded, GoOn, Goto, Req
<1>8. ASSUME NEW p \in Callers, WriteCheckpoint(p) PROVE TypeInv'
  BY <1>8 DEF WriteCheckpoint, NextGen, GoOn, Goto, Req
<1>9. ASSUME NEW p \in Callers, RefusePack(p) PROVE TypeInv'
  BY <1>9 DEF RefusePack, End, Idle, NewCall, records
<1>10. ASSUME NEW p \in Callers, ReusePack(p) \/ PlanPack(p) PROVE TypeInv'
  <2>1. PICK c \in Chosen(Req(p).cp), s \in {"release", "artifact"} :
          Goto(p, s, c, checkpoint[c].gen, None)
    BY <1>10 DEF ReusePack, PlanPack
  <2>2. c \in Checkpoints /\ checkpoint[c].status = "active"
    BY <1>10, PackNamed, ChosenActive DEF ReusePack, PlanPack, Loading, Req
  <2>3. UNCHANGED <<records, lock, stolen, failures>> /\ Req(p).adapter \in Adapters
    BY <1>10, PackNamed DEF ReusePack, PlanPack, Loading, Req
  <2> QED BY <2>1, <2>2, <2>3 DEF Goto, Req, records
<1>11. ASSUME NEW p \in Callers, WriteArtifact(p) \/ WriteManifest(p) PROVE TypeInv'
  <2>1. Pack(p) \in Packs
    BY <1>11 DEF WriteArtifact, WriteManifest, Pack, Packs, Generations, Req
  <2> QED BY <1>11, <2>1 DEF WriteArtifact, WriteManifest, GoOn, Goto, Req
<1>12. ASSUME NEW p \in Callers, RecordReceipt(p) \/ RefuseReceipt(p) PROVE TypeInv'
  BY <1>12 DEF RecordReceipt, RefuseReceipt, ManifestsFor, End, Idle, NewCall, records
<1>13. ASSUME NEW p \in Callers, Throw(p) \/ Crash(p) PROVE TypeInv'
  BY <1>13, ContinuityAssumption DEF Throw, Crash, End, Idle, NewCall, records
<1> QED
  BY <1>1, <1>2, <1>3, <1>4, <1>5, <1>6, <1>7, <1>8, <1>9, <1>10, <1>11, <1>12, <1>13 DEF Next
-----------------------------------------------------------------------------
\* A caller is under the lock, by its own account.
Inside(p) ==
  call[p].step \in {"load", "supersede", "create", "artifact", "manifest", "release"}

\* Mutual exclusion: a caller under the lock is the one the lock names.
Exclusive == \A p \in Callers : Inside(p) => lock = p

\* What a caller found out when it loaded the records is still so when it writes:
\* the checkpoint it makes is new, the one it supersedes is the active one of the
\* thread, or there is none, and the one it packs is active.
PlanHolds(p) ==
  /\ call[p].step \in {"supersede", "create"} => checkpoint[call[p].cp].status = "none"
  /\ At(p, "supersede") =>
       /\ checkpoint[call[p].prev].status = "active"
       /\ ActiveOf(ThreadOf[call[p].cp]) \subseteq {call[p].prev}
  /\ At(p, "create") => ActiveOf(ThreadOf[call[p].cp]) = {}
  /\ call[p].step \in {"artifact", "manifest"} =>
       /\ checkpoint[call[p].cp].status = "active"
       /\ checkpoint[call[p].cp].gen = call[p].gen

Unstolen ==
  /\ Exclusive
  /\ \A p \in Callers : PlanHolds(p)
  /\ \A c, d \in Checkpoints :
       checkpoint[c].status = "active" /\ checkpoint[d].status = "active"
         /\ ThreadOf[c] = ThreadOf[d]
       => c = d

IInv == TypeInv /\ (~stolen => Unstolen)

\* A step leaves alone what another caller's plan was made of.
LEMMA PlansKept ==
  ASSUME NEW q \in Callers, PlanHolds(q), UNCHANGED checkpoint, call'[q] = call[q]
  PROVE  PlanHolds(q)'
BY DEF PlanHolds, At, ActiveOf

\* A step of a caller that is inside touches no other caller that is.
LEMMA OneInside ==
  ASSUME Exclusive, NEW p \in Callers, NEW q \in Callers, Inside(p), Inside(q)
  PROVE  p = q
BY DEF Exclusive

\* A caller that is outside has no plan.
LEMMA OutsideNoPlan ==
  ASSUME NEW q \in Callers, ~Inside(q)
  PROVE  PlanHolds(q)
BY DEF PlanHolds, Inside, At

\* While the lock was not stolen, one caller at a time is under it.
LEMMA ExclusiveStep ==
  ASSUME IInv, [Next]_vars, ~stolen, ~stolen'
  PROVE  Exclusive'
<1> USE DEF Inside, Exclusive, IInv, Unstolen, TypeInv, TypeOK, CallType
<1>1. CASE UNCHANGED vars
  BY <1>1 DEF vars
<1>2. ASSUME NEW p \in Callers, NEW r \in Asked, Start(p, r) PROVE Exclusive'
  BY <1>2 DEF Start, NewCall
<1>3. ASSUME NEW p \in Callers, Acquire(p) PROVE Exclusive'
  BY <1>3, ContinuityAssumption DEF Acquire, GoOn, Goto, Req, At
<1>4. ASSUME NEW p \in Callers, FindStale(p) \/ TimeOut(p) PROVE Exclusive'
  BY <1>4 DEF FindStale, TimeOut, End, Idle, NewCall, GoOn, Goto, Req, At
<1>5. ASSUME NEW p \in Callers, RemoveStale(p) PROVE Exclusive'
  BY <1>5 DEF RemoveStale, GoOn, Goto, Req, At
<1>6. ASSUME NEW p \in Callers, Release(p) \/ RefusePack(p) PROVE Exclusive'
  BY <1>6 DEF Release, RefusePack, Loading, GoOn, Goto, Req, At, End, Idle, NewCall
<1>7. ASSUME NEW p \in Callers,
             \/ ReturnCheckpoint(p) \/ PlanFirstCheckpoint(p) \/ PlanNextCheckpoint(p)
             \/ WriteSuperseded(p) \/ WriteCheckpoint(p) \/ ReusePack(p) \/ PlanPack(p)
             \/ WriteArtifact(p) \/ WriteManifest(p)
      PROVE Exclusive'
  <2>1. Inside(p) /\ UNCHANGED lock
    BY <1>7 DEF ReturnCheckpoint, PlanFirstCheckpoint, PlanNextCheckpoint, WriteSuperseded,
                WriteCheckpoint, ReusePack, PlanPack, WriteArtifact, WriteManifest, Loading, At
  <2>2. \A q \in Callers \ {p} : call'[q] = call[q]
    BY <1>7 DEF ReturnCheckpoint, PlanFirstCheckpoint, PlanNextCheckpoint, WriteSuperseded,
                WriteCheckpoint, ReusePack, PlanPack, WriteArtifact, WriteManifest, GoOn, Goto
  <2> QED BY <2>1, <2>2
<1>8. ASSUME NEW p \in Callers, RecordReceipt(p) \/ RefuseReceipt(p) PROVE Exclusive'
  BY <1>8 DEF RecordReceipt, RefuseReceipt, End, Idle, NewCall
<1>9. ASSUME NEW p \in Callers, Throw(p) PROVE Exclusive'
  BY <1>9 DEF Throw, End, Idle, NewCall, At, Steps
<1>10. ASSUME NEW p \in Callers, Crash(p) PROVE Exclusive'
  BY <1>10 DEF Crash, End, Idle, NewCall, At
<1> QED
  BY <1>1, <1>2, <1>3, <1>4, <1>5, <1>6, <1>7, <1>8, <1>9, <1>10 DEF Next

\* While the lock was not stolen, what callers found out is not invalidated, and a
\* thread has one active checkpoint.
LEMMA PlanStep ==
  ASSUME IInv, [Next]_vars, ~stolen, ~stolen'
  PROVE  Unstolen'
<1> DEFINE One == \A c, d \in Checkpoints :
                    checkpoint[c].status = "active" /\ checkpoint[d].status = "active"
                      /\ ThreadOf[c] = ThreadOf[d]
                    => c = d
           Kept(p) == \A q \in Callers \ {p} : call'[q] = call[q]
<1>1. Exclusive /\ Exclusive' /\ One /\ \A q \in Callers : PlanHolds(q)
  BY ExclusiveStep DEF IInv, Unstolen
<1>2. TypeOK /\ GenOK
  BY DEF IInv, TypeInv
\* Steps that leave the checkpoints alone.
<1>3. ASSUME NEW p \in Callers, Kept(p), UNCHANGED checkpoint, ~Inside(p)' \/ PlanHolds(p)'
      PROVE  Unstolen'
  <2>1. One'
    BY <1>1, <1>3
  <2>2. PlanHolds(p)'
    BY <1>3 DEF PlanHolds, Inside, At
  <2>3. \A q \in Callers \ {p} : PlanHolds(q)'
    BY <1>1, <1>3, PlansKept
  <2> QED BY <1>1, <2>1, <2>2, <2>3 DEF Unstolen
\* Steps that write a checkpoint: the other callers are outside.
<1>4. ASSUME NEW p \in Callers, Kept(p), Inside(p), One', PlanHolds(p)'
      PROVE  Unstolen'
  <2>1. ASSUME NEW q \in Callers \ {p} PROVE PlanHolds(q)'
    <3>1. ~Inside(q)
      BY <1>1, <1>4, OneInside
    <3>2. ~Inside(q)'
      BY <1>4, <3>1 DEF Inside
    <3> QED BY <3>2 DEF PlanHolds, Inside, At
  <2> QED BY <1>1, <1>4, <2>1 DEF Unstolen
<1>5. CASE UNCHANGED vars
  BY <1>1, <1>5 DEF vars, Unstolen, PlanHolds, At, ActiveOf
<1>6. ASSUME NEW p \in Callers, NEW r \in Asked, Start(p, r) PROVE Unstolen'
  <2>1. Kept(p) /\ UNCHANGED checkpoint /\ ~Inside(p)'
    BY <1>2, <1>6 DEF Start, NewCall, records, Inside, TypeOK
  <2> QED BY <1>3, <2>1
<1>7. ASSUME NEW p \in Callers,
             \/ FindStale(p) \/ RemoveStale(p) \/ TimeOut(p) \/ RefusePack(p)
             \/ RecordReceipt(p) \/ RefuseReceipt(p) \/ Throw(p) \/ Crash(p)
      PROVE Unstolen'
  <2>1. Kept(p) /\ UNCHANGED checkpoint /\ ~Inside(p)'
    BY <1>2, <1>7 DEF FindStale, RemoveStale, TimeOut, RefusePack, RecordReceipt,
       RefuseReceipt, Throw, Crash, End, Idle, NewCall, GoOn, Goto, Req, records, Inside, TypeOK
  <2> QED BY <1>3, <2>1
<1>8. ASSUME NEW p \in Callers, Acquire(p) \/ Release(p) \/ ReturnCheckpoint(p)
      PROVE Unstolen'
  <2>1. Kept(p) /\ UNCHANGED checkpoint /\ call'[p].step \in {"load", "release", "receipt", "idle"}
    BY <1>2, <1>8 DEF Acquire, Release, ReturnCheckpoint, End, Idle, NewCall, GoOn, Goto, Req,
       records, TypeOK
  <2> QED BY <1>3, <2>1 DEF PlanHolds, At
<1>9. ASSUME NEW p \in Callers, PlanFirstCheckpoint(p) PROVE Unstolen'
  <2>1. Kept(p) /\ UNCHANGED checkpoint
    BY <1>9 DEF PlanFirstCheckpoint, Goto, records
  <2>2. PlanHolds(p)'
    BY <1>2, <1>9, CheckpointNamed
       DEF PlanFirstCheckpoint, Loading, Goto, Req, records, PlanHolds, At, Repeated, TypeOK,
           CheckpointType, ActiveOf
  <2> QED BY <1>3, <2>1, <2>2
<1>10. ASSUME NEW p \in Callers, PlanNextCheckpoint(p) PROVE Unstolen'
  <2>1. PICK prev \in Latest(ActiveOf(ThreadOf[Req(p).cp])) :
          Goto(p, "supersede", Req(p).cp, checkpoint[prev].gen, prev)
    BY <1>10 DEF PlanNextCheckpoint
  <2>2. Kept(p) /\ UNCHANGED checkpoint
    BY <1>10 DEF PlanNextCheckpoint, Goto, records
  <2>3. ActiveOf(ThreadOf[Req(p).cp]) \subseteq {prev} /\ checkpoint[prev].status = "active"
    BY <1>1 DEF Latest, ActiveOf
  <2>4. checkpoint[Req(p).cp].status = "none"
    BY <1>10 DEF PlanNextCheckpoint, Repeated
  <2>5. /\ call'[p].step = "supersede" /\ call'[p].cp = Req(p).cp
        /\ call'[p].prev = prev
    BY <1>2, <2>1 DEF Goto, TypeOK
  <2>6. PlanHolds(p)'
    BY <2>2, <2>3, <2>4, <2>5 DEF PlanHolds, At, ActiveOf
  <2> QED BY <1>3, <2>2, <2>6
<1>11. ASSUME NEW p \in Callers, WriteSuperseded(p) PROVE Unstolen'
  <2> DEFINE prev == call[p].prev
             c == call[p].cp
  <2>1. /\ prev \in Checkpoints /\ c \in Checkpoints /\ prev # c
        /\ checkpoint[c].status = "none" /\ ActiveOf(ThreadOf[c]) \subseteq {prev}
    BY <1>1, <1>2, <1>11 DEF WriteSuperseded, GenOK, PlanHolds, At
  <2>2. /\ \A d \in Checkpoints \ {prev} : checkpoint'[d] = checkpoint[d]
        /\ checkpoint'[prev].status = "superseded"
    BY <1>2, <1>11, <2>1 DEF WriteSuperseded, TypeOK
  <2>3. Kept(p) /\ call'[p].step = "create" /\ call'[p].cp = c
    BY <1>2, <1>11 DEF WriteSuperseded, GoOn, Goto, TypeOK
  <2>4. One'
    BY <1>1, <2>1, <2>2
  <2>5. \A d \in Checkpoints : ThreadOf[d] = ThreadOf[c] => checkpoint'[d].status # "active"
    BY <2>1, <2>2 DEF ActiveOf
  <2>6. PlanHolds(p)'
    BY <2>1, <2>2, <2>3, <2>5 DEF PlanHolds, At, ActiveOf
  <2> QED BY <1>4, <1>11, <2>3, <2>4, <2>6 DEF WriteSuperseded, Inside, At
<1>12. ASSUME NEW p \in Callers, WriteCheckpoint(p) PROVE Unstolen'
  <2> DEFINE c == call[p].cp
  <2>1. c \in Checkpoints /\ ActiveOf(ThreadOf[c]) = {}
    BY <1>1, <1>2, <1>12 DEF WriteCheckpoint, GenOK, PlanHolds, At
  <2>2. \A d \in Checkpoints \ {c} : checkpoint'[d] = checkpoint[d]
    BY <1>2, <1>12 DEF WriteCheckpoint, TypeOK
  <2>3. Kept(p) /\ call'[p].step = "release"
    BY <1>2, <1>12 DEF WriteCheckpoint, GoOn, Goto, TypeOK
  <2>4. One'
    BY <1>1, <2>1, <2>2 DEF ActiveOf
  <2>5. PlanHolds(p)'
    BY <2>3 DEF PlanHolds, At
  <2> QED BY <1>4, <1>12, <2>3, <2>4, <2>5 DEF WriteCheckpoint, Inside, At
<1>13. ASSUME NEW p \in Callers, ReusePack(p) \/ PlanPack(p) PROVE Unstolen'
  <2>1. PICK c \in Chosen(Req(p).cp), s \in {"release", "artifact"} :
          Goto(p, s, c, checkpoint[c].gen, None)
    BY <1>13 DEF ReusePack, PlanPack
  <2>2. Kept(p) /\ UNCHANGED checkpoint
    <3>1. UNCHANGED checkpoint
      BY <1>13 DEF ReusePack, PlanPack, records
    <3> QED BY <2>1, <3>1 DEF Goto
  <2>3. checkpoint[c].status = "active"
    BY DEF Chosen
  <2>4. PlanHolds(p)'
    BY <1>2, <2>1, <2>2, <2>3 DEF Goto, PlanHolds, At, TypeOK
  <2> QED BY <1>3, <2>2, <2>4
<1>14. ASSUME NEW p \in Callers, WriteArtifact(p) \/ WriteManifest(p) PROVE Unstolen'
  <2>1. Kept(p) /\ UNCHANGED checkpoint
    <3>1. CASE WriteArtifact(p)
      BY <3>1 DEF WriteArtifact, GoOn, Goto
    <3>2. CASE WriteManifest(p)
      BY <3>2 DEF WriteManifest, GoOn, Goto
    <3> QED BY <1>14, <3>1, <3>2
  <2>2. /\ call'[p].step \in {"manifest", "release"} /\ call[p].step \in {"artifact", "manifest"}
        /\ call'[p].cp = call[p].cp /\ call'[p].gen = call[p].gen
    BY <1>2, <1>14 DEF WriteArtifact, WriteManifest, GoOn, Goto, At, TypeOK
  <2>3. PlanHolds(p)'
    BY <1>1, <2>1, <2>2 DEF PlanHolds, At
  <2> QED BY <1>3, <2>1, <2>3
<1> HIDE DEF One, Kept
<1> QED
  BY <1>5, <1>6, <1>7, <1>8, <1>9, <1>10, <1>11, <1>12, <1>13, <1>14 DEF Next
-----------------------------------------------------------------------------
\* stolen is never taken back.
LEMMA StolenStays ==
  ASSUME TypeOK, [Next]_vars, stolen
  PROVE  stolen'
BY DEF Next, vars, Start, Acquire, FindStale, RemoveStale, TimeOut, Release, ReturnCheckpoint,
       PlanFirstCheckpoint, PlanNextCheckpoint, WriteSuperseded, WriteCheckpoint, RefusePack,
       ReusePack, PlanPack, WriteArtifact, WriteManifest, RecordReceipt, RefuseReceipt, Throw,
       Crash

\* The inductive invariant.  While the lock was not removed under a live holder it
\* gives mutual exclusion, and that what a call loaded is still true when it writes.
THEOREM ContinuityInvariance == Spec => []IInv
<1>1. Init => IInv
  <2> SUFFICES ASSUME Init PROVE Unstolen /\ TypeInv
    BY DEF IInv
  <2>1. \A p \in Callers : call[p].step = "idle"
    BY DEF Init, Idle, NewCall
  <2>2. \A c \in Checkpoints : checkpoint[c].status = "none"
    BY DEF Init, NoRecord
  <2> QED BY <2>1, <2>2, TypeInit DEF Unstolen, Exclusive, Inside, PlanHolds, At
<1>2. IInv /\ [Next]_vars => IInv'
  <2> SUFFICES ASSUME IInv, [Next]_vars PROVE IInv'
    OBVIOUS
  <2>1. TypeInv'
    BY TypeStep DEF IInv
  <2>2. ~stolen' => Unstolen'
    BY StolenStays, PlanStep DEF IInv, TypeInv
  <2> QED BY <2>1, <2>2 DEF IInv
<1> QED BY <1>1, <1>2, PTL DEF Spec

\* A thread has at most one active checkpoint, whatever fails and overlaps, unless
\* the session lock was removed under a live holder (createWorkingMemoryCheckpoint-
\* ToStore, withSessionContinuityLock).
THEOREM OneActiveCheckpoint == Spec => []OneActive
<1>1. IInv => OneActive
  BY DEF IInv, Unstolen, OneActive
<1> QED BY <1>1, ContinuityInvariance, PTL

\* With the same exception a superseded checkpoint is never written again
\* (createWorkingMemoryCheckpointToStore).
THEOREM HistoryKept == Spec => SupersededStays
<1>1. ASSUME IInv, [Next]_vars, ~stolen', NEW c \in Checkpoints,
             checkpoint[c].status = "superseded"
      PROVE  checkpoint'[c] = checkpoint[c]
  <2>1. TypeOK /\ GenOK /\ \A q \in Callers : PlanHolds(q)
    BY <1>1, StolenStays DEF IInv, TypeInv, Unstolen
  <2>2. CASE UNCHANGED checkpoint
    BY <2>2
  <2>3. ASSUME NEW p \in Callers, WriteSuperseded(p) PROVE checkpoint'[c] = checkpoint[c]
    BY <1>1, <2>1, <2>3 DEF WriteSuperseded, PlanHolds, At, TypeOK
  <2>4. ASSUME NEW p \in Callers, WriteCheckpoint(p) PROVE checkpoint'[c] = checkpoint[c]
    BY <1>1, <2>1, <2>4 DEF WriteCheckpoint, PlanHolds, At, TypeOK
  <2> QED
    BY <1>1, <2>2, <2>3, <2>4
       DEF Next, vars, records, Start, Acquire, FindStale, RemoveStale, TimeOut, Release,
           ReturnCheckpoint, PlanFirstCheckpoint, PlanNextCheckpoint, RefusePack, ReusePack,
           PlanPack, WriteArtifact, WriteManifest, RecordReceipt, RefuseReceipt, Throw, Crash
<1>2. IInv /\ [Next]_vars =>
        [~stolen' => \A c \in Checkpoints :
           checkpoint[c].status = "superseded" => checkpoint'[c] = checkpoint[c]]_vars
  BY <1>1
<1> QED BY <1>2, ContinuityInvariance, PTL DEF Spec, SupersededStays

\* With the same exception a pack is completed only while its checkpoint is the active
\* one, in the generation the pack carries (compileSessionPackToStore).
THEOREM PacksAreCurrent == Spec => PackOfActive
<1>1. ASSUME IInv, [Next]_vars, ~stolen', NEW k \in manifest', k \notin manifest
      PROVE  checkpoint[k.cp].status = "active" /\ checkpoint[k.cp].gen = k.gen
  <2>1. \A q \in Callers : PlanHolds(q)
    BY <1>1, StolenStays DEF IInv, TypeInv, Unstolen
  <2>2. PICK p \in Callers : WriteManifest(p)
    BY <1>1
       DEF Next, vars, records, Start, Acquire, FindStale, RemoveStale, TimeOut, Release,
           ReturnCheckpoint, PlanFirstCheckpoint, PlanNextCheckpoint, WriteSuperseded,
           WriteCheckpoint, RefusePack, ReusePack, PlanPack, WriteArtifact, RecordReceipt,
           RefuseReceipt, Throw, Crash
  <2> QED BY <1>1, <2>1, <2>2 DEF WriteManifest, PlanHolds, Pack, At
<1>2. IInv /\ [Next]_vars =>
        [~stolen' => \A k \in manifest' \ manifest :
           checkpoint[k.cp].status = "active" /\ checkpoint[k.cp].gen = k.gen]_vars
  BY <1>1
<1> QED BY <1>2, ContinuityInvariance, PTL DEF Spec, PackOfActive

\* Every variable keeps its type.
THEOREM SessionTypeCorrect == Spec => []TypeOK
<1>1. IInv => TypeOK
  BY DEF IInv, TypeInv
<1> QED BY <1>1, ContinuityInvariance, PTL

-----------------------------------------------------------------------------
\* What a pack in the making rests on is on file.
Traced ==
  /\ Traceable
  /\ \A p \in Callers :
       /\ call[p].step \in {"artifact", "manifest"} => checkpoint[call[p].cp].status # "none"
       /\ At(p, "manifest") => Pack(p) \in artifact

\* A step that adds no record of a pack, and after which a caller is at no later step
\* of one, keeps what packs rest on.
LEMMA NothingPacked ==
  ASSUME Traced, NEW p \in Callers, UNCHANGED <<artifact, manifest, receipt>>,
         \A c \in Checkpoints : checkpoint[c].status # "none" => checkpoint'[c].status # "none",
         artifact \subseteq Packs, GenOK,
         \A q \in Callers \ {p} : call'[q] = call[q],
         call'[p].step \notin {"artifact", "manifest"}
  PROVE  Traced'
<1>1. Traceable'
  BY DEF Traced, Traceable, Packs
<1>2. ASSUME NEW q \in Callers \ {p}, call[q].step \in {"artifact", "manifest"}
      PROVE  checkpoint'[call[q].cp].status # "none"
  BY <1>2 DEF Traced, GenOK
<1> QED BY <1>1, <1>2 DEF Traced, At, Pack, Req

\* However calls overlap and fail, and whatever happens to the lock, a receipt has its
\* manifest, artifact record and checkpoint on file (compileSessionPackToStore, record-
\* SessionResumeReceiptToStore).
THEOREM ReceiptsTraceable == Spec => []Traceable
<1>1. Init => Traced
  BY DEF Init, Traced, Traceable, At, Idle, NewCall
<1>2. TypeInv /\ Traced /\ [Next]_vars => Traced'
  <2> SUFFICES ASSUME TypeInv, Traced, [Next]_vars PROVE Traced'
    OBVIOUS
  <2>1. TypeOK /\ GenOK
    BY DEF TypeInv
  <2>2. CASE UNCHANGED vars
    BY <2>2 DEF vars, Traced, Traceable, At, Pack, Req
  <2>3. ASSUME NEW p \in Callers, NEW r \in Asked, Start(p, r) PROVE Traced'
    <3>1. call'[p].step \notin {"artifact", "manifest"}
      BY <2>1, <2>3 DEF Start, NewCall, TypeOK
    <3> QED BY <2>1, <2>3, <3>1, NothingPacked DEF Start, records, TypeOK
  <2>4. ASSUME NEW p \in Callers,
               \/ Acquire(p) \/ FindStale(p) \/ RemoveStale(p) \/ TimeOut(p) \/ Release(p)
               \/ ReturnCheckpoint(p) \/ PlanFirstCheckpoint(p) \/ PlanNextCheckpoint(p)
               \/ RefusePack(p) \/ ReusePack(p) \/ RefuseReceipt(p) \/ Throw(p) \/ Crash(p)
        PROVE Traced'
    <3>1. /\ UNCHANGED records
          /\ \A q \in Callers \ {p} : call'[q] = call[q]
          /\ call'[p].step \notin {"artifact", "manifest"}
      BY <2>1, <2>4
         DEF Acquire, FindStale, RemoveStale, TimeOut, Release, ReturnCheckpoint,
             PlanFirstCheckpoint, PlanNextCheckpoint, RefusePack, ReusePack, RefuseReceipt,
             Throw, Crash, GoOn, Goto, End, Idle, NewCall, Req, TypeOK
    <3> QED BY <2>1, <3>1, NothingPacked DEF records, TypeOK
  <2>5. ASSUME NEW p \in Callers, WriteSuperseded(p) \/ WriteCheckpoint(p) PROVE Traced'
    <3>1. /\ UNCHANGED <<artifact, manifest, receipt>>
          /\ \A q \in Callers \ {p} : call'[q] = call[q]
          /\ call'[p].step \in {"create", "release"}
      BY <2>1, <2>5 DEF WriteSuperseded, WriteCheckpoint, GoOn, Goto, TypeOK
    <3>2. \A c \in Checkpoints :
            checkpoint[c].status # "none" => checkpoint'[c].status # "none"
      BY <2>1, <2>5 DEF WriteSuperseded, WriteCheckpoint, TypeOK
    <3> QED BY <2>1, <3>1, <3>2, NothingPacked DEF TypeOK
  <2>6. ASSUME NEW p \in Callers, PlanPack(p) PROVE Traced'
    <3>1. PICK c \in Chosen(Req(p).cp) : Goto(p, "artifact", c, checkpoint[c].gen, None)
      BY <2>6 DEF PlanPack
    <3>2. /\ UNCHANGED records
          /\ \A q \in Callers \ {p} : call'[q] = call[q]
          /\ call'[p].step = "artifact" /\ call'[p].cp = c
      BY <2>1, <2>6, <3>1 DEF PlanPack, Goto, TypeOK
    <3>3. checkpoint[c].status # "none"
      BY DEF Chosen
    <3> QED BY <3>2, <3>3 DEF records, Traced, Traceable, At, Pack, Req
  <2>7. ASSUME NEW p \in Callers, WriteArtifact(p) PROVE Traced'
    <3>1. /\ UNCHANGED <<checkpoint, manifest, receipt>> /\ artifact' = artifact \cup {Pack(p)}
          /\ \A q \in Callers \ {p} : call'[q] = call[q]
          /\ call'[p].step = "manifest" /\ call'[p].cp = call[p].cp
          /\ call'[p].gen = call[p].gen /\ call'[p].req = call[p].req
          /\ call[p].step = "artifact"
      BY <2>1, <2>7 DEF WriteArtifact, GoOn, Goto, Req, At, TypeOK
    <3> QED BY <3>1 DEF Traced, Traceable, At, Pack, Req
  <2>8. ASSUME NEW p \in Callers, WriteManifest(p) PROVE Traced'
    <3>1. /\ UNCHANGED <<checkpoint, artifact, receipt>> /\ manifest' = manifest \cup {Pack(p)}
          /\ \A q \in Callers \ {p} : call'[q] = call[q]
          /\ call'[p].step = "release" /\ At(p, "manifest")
      BY <2>1, <2>8 DEF WriteManifest, GoOn, Goto, At, TypeOK
    <3> QED BY <3>1 DEF Traced, Traceable, At, Pack, Req
  <2>9. ASSUME NEW p \in Callers, RecordReceipt(p) PROVE Traced'
    <3>1. PICK k \in ManifestsFor(p) : receipt' = receipt \cup {k}
      BY <2>9 DEF RecordReceipt
    <3>2. /\ UNCHANGED <<checkpoint, artifact, manifest>> /\ k \in manifest
          /\ \A q \in Callers \ {p} : call'[q] = call[q]
          /\ call'[p].step = "idle"
      BY <2>1, <2>9, <3>1 DEF RecordReceipt, ManifestsFor, End, Idle, NewCall, TypeOK
    <3> QED BY <3>1, <3>2 DEF Traced, Traceable, At, Pack, Req
  <2> QED
    BY <2>2, <2>3, <2>4, <2>5, <2>6, <2>7, <2>8, <2>9 DEF Next
<1>3. IInv => TypeInv
  BY DEF IInv
<1>4. Traced => Traceable
  BY DEF Traced
<1> QED BY <1>1, <1>2, <1>3, <1>4, ContinuityInvariance, PTL DEF Spec

-----------------------------------------------------------------------------
\* A superseded checkpoint has its follower on file, a generation later, or the call
\* that superseded it is about to write it.
Followed(c) ==
  LET d == checkpoint[c].by
  IN /\ d \in Checkpoints
     /\ \/ checkpoint[d].status # "none" /\ checkpoint[d].gen = checkpoint[c].gen + 1
        \/ \E p \in Callers : /\ At(p, "create") /\ call[p].prev = c /\ call[p].cp = d
                              /\ call[p].gen = checkpoint[c].gen

\* Until a call fails or stalls: the lock is never dead and never found stale, and a
\* call that is to supersede a checkpoint has its generation.
Uninterrupted ==
  /\ ~stolen /\ lock # "dead" /\ \A p \in Callers : ~At(p, "unlock")
  /\ \A p \in Callers : At(p, "supersede") => call[p].gen = checkpoint[call[p].prev].gen
  /\ \A c \in Checkpoints : checkpoint[c].status = "superseded" => Followed(c)

\* Steps that write no checkpoint, of a caller that does not come from "create" or go to
\* "supersede" or "unlock".
LEMMA NothingWritten ==
  ASSUME Uninterrupted, NEW p \in Callers, UNCHANGED <<checkpoint, stolen>>, lock' # "dead",
         \A q \in Callers \ {p} : call'[q] = call[q],
         ~At(p, "create"), ~At(p, "unlock")',
         At(p, "supersede")' => call'[p].gen = checkpoint[call'[p].prev].gen
  PROVE  Uninterrupted'
<1>1. ASSUME NEW c \in Checkpoints, Followed(c) PROVE Followed(c)'
  <2>1. CASE \E q \in Callers :
               /\ At(q, "create") /\ call[q].prev = c /\ call[q].cp = checkpoint[c].by
               /\ call[q].gen = checkpoint[c].gen
    <3>1. PICK q \in Callers :
               /\ At(q, "create") /\ call[q].prev = c /\ call[q].cp = checkpoint[c].by
               /\ call[q].gen = checkpoint[c].gen
      BY <2>1
    <3>2. call'[q] = call[q]
      BY <3>1
    <3> QED BY <1>1, <3>1, <3>2 DEF Followed, At
  <2> QED BY <1>1, <2>1 DEF Followed
<1> QED BY <1>1 DEF Uninterrupted, At

\* While nothing was interrupted, checkpoints follow their generation.
LEMMA FollowedStep ==
  ASSUME IInv, [Next]_vars, failures = 0, failures' = 0, Uninterrupted
  PROVE  Uninterrupted'
<1>1. TypeOK /\ GenOK /\ Exclusive /\ \A q \in Callers : PlanHolds(q)
  BY DEF IInv, TypeInv, Unstolen, Uninterrupted
<1>2. CASE UNCHANGED vars
  BY <1>2 DEF vars, Uninterrupted, Followed, At
<1>3. ASSUME NEW p \in Callers, NEW r \in Asked, Start(p, r) PROVE Uninterrupted'
  <2>1. /\ UNCHANGED <<checkpoint, stolen, lock>> /\ ~At(p, "create")
        /\ \A q \in Callers \ {p} : call'[q] = call[q]
        /\ call'[p].step \in {"receipt", "lock"}
    BY <1>1, <1>3 DEF Start, NewCall, records, TypeOK, At
  <2> QED BY <2>1, NothingWritten DEF Uninterrupted, At
<1>4. ASSUME NEW p \in Callers,
             \/ Acquire(p) \/ TimeOut(p) \/ Release(p) \/ ReturnCheckpoint(p)
             \/ RefusePack(p) \/ WriteArtifact(p) \/ WriteManifest(p)
             \/ RecordReceipt(p) \/ RefuseReceipt(p)
      PROVE Uninterrupted'
  <2>1. /\ UNCHANGED <<checkpoint, stolen>> /\ ~At(p, "create")
        /\ lock' \in {"free", p, lock}
        /\ \A q \in Callers \ {p} : call'[q] = call[q]
        /\ call'[p].step \in {"load", "idle", "receipt", "release", "manifest"}
    BY <1>1, <1>4 DEF Acquire, TimeOut, Release, ReturnCheckpoint, RefusePack, WriteArtifact,
       WriteManifest, RecordReceipt, RefuseReceipt, Loading, End, Idle, NewCall, GoOn, Goto,
       Req, records, TypeOK, At
  <2>2. lock' # "dead"
    BY <2>1, ContinuityAssumption DEF Uninterrupted
  <2> QED BY <2>1, <2>2, NothingWritten DEF At
<1>5. ASSUME NEW p \in Callers, FindStale(p) \/ RemoveStale(p) PROVE Uninterrupted'
  BY <1>1, <1>5, ContinuityAssumption DEF FindStale, RemoveStale, Uninterrupted, At
<1>6. ASSUME NEW p \in Callers, PlanFirstCheckpoint(p) \/ ReusePack(p) \/ PlanPack(p)
      PROVE Uninterrupted'
  <2>1. /\ UNCHANGED <<checkpoint, stolen, lock>> /\ ~At(p, "create")
        /\ \E s \in {"create", "release", "artifact"} : \E c, g, prev : Goto(p, s, c, g, prev)
    BY <1>6 DEF PlanFirstCheckpoint, ReusePack, PlanPack, Loading, records, At
  <2>2. PICK s \in {"create", "release", "artifact"} : \E c, g, prev : Goto(p, s, c, g, prev)
    BY <2>1
  <2>3. call'[p].step = s /\ \A q \in Callers \ {p} : call'[q] = call[q]
    BY <1>1, <2>2 DEF Goto, TypeOK
  <2> QED BY <2>1, <2>3, NothingWritten DEF Uninterrupted, At
<1>7. ASSUME NEW p \in Callers, PlanNextCheckpoint(p) PROVE Uninterrupted'
  <2>1. PICK prev \in Latest(ActiveOf(ThreadOf[Req(p).cp])) :
          Goto(p, "supersede", Req(p).cp, checkpoint[prev].gen, prev)
    BY <1>7 DEF PlanNextCheckpoint
  <2>2. /\ call'[p].step = "supersede" /\ call'[p].gen = checkpoint[prev].gen
        /\ call'[p].prev = prev /\ \A q \in Callers \ {p} : call'[q] = call[q]
    BY <1>1, <2>1 DEF Goto, TypeOK
  <2>3. UNCHANGED <<checkpoint, stolen, lock>> /\ ~At(p, "create")
    BY <1>7 DEF PlanNextCheckpoint, Loading, records, At
  <2> QED BY <2>2, <2>3, NothingWritten DEF Uninterrupted, At
<1>8. ASSUME NEW p \in Callers, WriteSuperseded(p) PROVE Uninterrupted'
  <2> DEFINE prev == call[p].prev
             c == call[p].cp
  <2>1. /\ prev \in Checkpoints /\ c \in Checkpoints
        /\ checkpoint[prev].status = "active" /\ checkpoint[prev].gen = call[p].gen
    BY <1>1, <1>8 DEF WriteSuperseded, GenOK, PlanHolds, At, Uninterrupted
  <2>2. /\ checkpoint'[prev] = [status |-> "superseded", gen |-> call[p].gen, by |-> c]
        /\ \A d \in Checkpoints \ {prev} : checkpoint'[d] = checkpoint[d]
        /\ \A d \in Checkpoints : /\ checkpoint'[d].gen = checkpoint[d].gen
                                  /\ checkpoint[d].status # "none" => checkpoint'[d].status # "none"
    BY <1>1, <1>8, <2>1 DEF WriteSuperseded, TypeOK
  <2>3. /\ call'[p].step = "create" /\ call'[p].cp = c /\ call'[p].prev = prev
        /\ call'[p].gen = call[p].gen
        /\ \A q \in Callers \ {p} : call'[q] = call[q]
    BY <1>1, <1>8 DEF WriteSuperseded, GoOn, Goto, TypeOK
  <2>4. At(p, "supersede") /\ UNCHANGED <<stolen, lock>>
    BY <1>8 DEF WriteSuperseded
  <2>5. ASSUME NEW d \in Checkpoints, d = prev PROVE Followed(d)'
    BY <2>1, <2>2, <2>3, <2>5 DEF Followed, At
  <2>6. ASSUME NEW d \in Checkpoints, d # prev, checkpoint[d].status = "superseded"
        PROVE  Followed(d)'
    <3>1. Followed(d) /\ checkpoint'[d] = checkpoint[d]
      BY <2>2, <2>6 DEF Uninterrupted
    <3>2. ASSUME NEW q \in Callers, At(q, "create")
          PROVE  call'[q] = call[q]
      BY <2>3, <2>4, <3>2 DEF At
    <3>3. CASE \E q \in Callers :
                 /\ At(q, "create") /\ call[q].prev = d /\ call[q].cp = checkpoint[d].by
                 /\ call[q].gen = checkpoint[d].gen
      <4>1. PICK q \in Callers :
                 /\ At(q, "create") /\ call[q].prev = d /\ call[q].cp = checkpoint[d].by
                 /\ call[q].gen = checkpoint[d].gen
        BY <3>3
      <4>2. call'[q] = call[q]
        BY <3>2, <4>1
      <4> QED BY <3>1, <4>1, <4>2 DEF Followed, At
    <3> QED BY <2>2, <3>1, <3>3 DEF Followed
  <2>7. \A q \in Callers : At(q, "supersede")' => call'[q].gen = checkpoint'[call'[q].prev].gen
    <3> SUFFICES ASSUME NEW q \in Callers, At(q, "supersede")'
                 PROVE  call'[q].gen = checkpoint'[call'[q].prev].gen
      OBVIOUS
    <3>1. q # p /\ call'[q] = call[q] /\ At(q, "supersede")
      BY <2>3 DEF At
    <3>2. call[q].prev \in Checkpoints
      BY <1>1, <3>1 DEF GenOK
    <3> QED BY <2>2, <3>1, <3>2 DEF Uninterrupted
  <2>8. \A q \in Callers : ~At(q, "unlock")'
    BY <2>3 DEF Uninterrupted, At
  <2>9. \A d \in Checkpoints : checkpoint'[d].status = "superseded" => Followed(d)'
    <3> SUFFICES ASSUME NEW d \in Checkpoints, checkpoint'[d].status = "superseded"
                 PROVE  Followed(d)'
      OBVIOUS
    <3>1. CASE d = prev
      BY <2>5, <3>1
    <3>2. CASE d # prev
      BY <2>2, <2>6, <3>2
    <3> QED BY <3>1, <3>2
  <2> QED BY <2>4, <2>7, <2>8, <2>9 DEF Uninterrupted
<1>9. ASSUME NEW p \in Callers, WriteCheckpoint(p) PROVE Uninterrupted'
  <2> DEFINE c == call[p].cp
  <2>1. c \in Checkpoints /\ checkpoint[c].status = "none"
    BY <1>1, <1>9 DEF WriteCheckpoint, GenOK, PlanHolds, At
  <2>2. /\ checkpoint'[c] = [status |-> "active", gen |-> call[p].gen + 1, by |-> None]
        /\ \A d \in Checkpoints \ {c} : checkpoint'[d] = checkpoint[d]
    BY <1>1, <1>9, <2>1 DEF WriteCheckpoint, NextGen, TypeOK
  <2>3. call'[p].step = "release" /\ \A q \in Callers \ {p} : call'[q] = call[q]
    BY <1>1, <1>9 DEF WriteCheckpoint, GoOn, Goto, TypeOK
  <2>4. At(p, "create") /\ UNCHANGED <<stolen, lock>>
    BY <1>9 DEF WriteCheckpoint
  <2>5. ASSUME NEW q \in Callers \ {p} PROVE ~Inside(q) /\ ~Inside(q)'
    BY <1>1, <2>3, <2>4, OneInside DEF Inside, At
  <2>6. ASSUME NEW d \in Checkpoints, checkpoint'[d].status = "superseded"
        PROVE  Followed(d)'
    <3>1. d # c /\ checkpoint'[d] = checkpoint[d] /\ Followed(d)
      BY <2>2, <2>6 DEF Uninterrupted
    <3>2. CASE \E q \in Callers :
                 /\ At(q, "create") /\ call[q].prev = d /\ call[q].cp = checkpoint[d].by
                 /\ call[q].gen = checkpoint[d].gen
      <4>1. PICK q \in Callers :
                 /\ At(q, "create") /\ call[q].prev = d /\ call[q].cp = checkpoint[d].by
                 /\ call[q].gen = checkpoint[d].gen
        BY <3>2
      <4>2. q = p
        BY <2>5, <4>1 DEF Inside, At
      <4>3. checkpoint[d].by = c /\ call[p].gen = checkpoint[d].gen
        BY <4>1, <4>2
      <4> QED BY <2>1, <2>2, <3>1, <4>3 DEF Followed
    <3>3. CASE /\ checkpoint[checkpoint[d].by].status # "none"
               /\ checkpoint[checkpoint[d].by].gen = checkpoint[d].gen + 1
      <4>1. checkpoint[d].by \in Checkpoints /\ checkpoint[d].by # c
        BY <2>1, <3>1, <3>3 DEF Followed
      <4>2. checkpoint'[checkpoint[d].by] = checkpoint[checkpoint[d].by]
        BY <2>2, <4>1
      <4> QED BY <3>1, <3>3, <4>1, <4>2 DEF Followed
    <3> QED BY <3>1, <3>2, <3>3 DEF Followed
  <2>7. \A q \in Callers : ~At(q, "supersede")' /\ ~At(q, "unlock")'
    BY <2>3, <2>5 DEF Uninterrupted, Inside, At
  <2> QED BY <2>4, <2>6, <2>7 DEF Uninterrupted
<1>10. ASSUME NEW p \in Callers, Throw(p) \/ Crash(p) PROVE Uninterrupted'
  BY <1>10 DEF Throw, Crash
<1> QED BY <1>2, <1>3, <1>4, <1>5, <1>6, <1>7, <1>8, <1>9, <1>10 DEF Next

\* A failure is counted for ever.
LEMMA FailuresCount ==
  ASSUME TypeOK, [Next]_vars, failures' = 0
  PROVE  failures = 0
<1>1. failures \in Nat
  BY ContinuityAssumption DEF TypeOK
<1>2. failures' = failures \/ failures' = failures + 1
  BY DEF Next, vars, Start, Acquire, FindStale, RemoveStale, TimeOut, Release,
         ReturnCheckpoint, PlanFirstCheckpoint, PlanNextCheckpoint, WriteSuperseded,
         WriteCheckpoint, RefusePack, ReusePack, PlanPack, WriteArtifact, WriteManifest,
         RecordReceipt, RefuseReceipt, Throw, Crash
<1> QED BY <1>1, <1>2

\* While no call fails or stalls, a superseded checkpoint is followed by one of the next
\* generation, at once or when the call that superseded it goes on, for any threads and
\* callers (createWorkingMemoryCheckpointToStore; a run refutes the generations where
\* calls are interrupted).
THEOREM GenerationsInOrder == Spec => []GenerationsFollow
<1> DEFINE InOrder == failures = 0 => Uninterrupted
<1>1. Init => InOrder
  <2> SUFFICES ASSUME Init PROVE Uninterrupted
    OBVIOUS
  <2>1. \A p \in Callers : call[p].step = "idle"
    BY DEF Init, Idle, NewCall
  <2>2. \A c \in Checkpoints : checkpoint[c].status = "none"
    BY DEF Init, NoRecord
  <2> QED BY <2>1, <2>2 DEF Init, Uninterrupted, At
<1>2. IInv /\ InOrder /\ [Next]_vars => InOrder'
  BY FollowedStep, FailuresCount DEF IInv, TypeInv
<1>3. InOrder => GenerationsFollow
  BY DEF GenerationsFollow, Uninterrupted, Followed
<1> QED BY <1>1, <1>2, <1>3, ContinuityInvariance, PTL DEF Spec
==============================================================================
