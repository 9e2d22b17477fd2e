------------------------------- MODULE StoreLock -------------------------------
(***************************************************************************)
(* The store write lock (conversation-preference-store.ts), under which    *)
(* every write, review and repair of a conversation preference runs.       *)
(*                                                                         *)
(* It is a directory with a file, owner.json, that tells when its holder   *)
(* was last heard of; a timer of the holder writes it anew every ten       *)
(* seconds, making the directory again where it is gone.  After 120        *)
(* seconds without a beat the lock is stale and any caller removes it.  No *)
(* one compares the holder's name before it writes or removes.             *)
(***************************************************************************)
EXTENDS Naturals, FiniteSets

CONSTANTS
  Holders,        \* processes that take the lock, one call at a time
  MaxTrouble      \* bound on crashes, stalls, failed writes, and surviving beats that end

ASSUME StoreLockAssumption == MaxTrouble \in Nat

VARIABLES
  lockDir,        \* "none", "bare" (no owner.json) or "owned"
  lockOld,        \* whether it is older than 120 seconds
  temps,          \* holders with a temporary file in the directory
  lockStep,       \* what each process does
  beat,           \* the heartbeat of the process's last call
  trouble         \* how many of those there were

lockVars == <<lockDir, lockOld, temps, lockStep, beat, trouble>>

LockSteps == {"idle", "acquire", "open", "rename", "inside", "stop", "remove", "found"}
Beats == {"off", "timer", "writing", "failed"}

LockInit ==
  /\ lockDir = "none" /\ lockOld = FALSE /\ temps = {}
  /\ lockStep = [h \in Holders |-> "idle"]
  /\ beat = [h \in Holders |-> "off"]
  /\ trouble = 0

LockAt(h, step) == lockStep[h] = step
LockGo(h, step) == lockStep' = [lockStep EXCEPT ![h] = step]
Beating(h) == beat[h] \in {"timer", "writing"}

Inside == {h \in Holders : lockStep[h] \in {"inside", "stop", "remove"}}
Opening == {h \in Holders : lockStep[h] \in {"open", "rename"}}
\* Heartbeats of calls that are over.
Survivors == {h \in Holders : Beating(h)} \ Inside

\* The directory and a temporary file in it are made (atomicWriteText).
MakeTemp(h) ==
  /\ temps' = temps \cup {h}
  /\ IF lockDir = "none" THEN lockDir' = "bare" /\ lockOld' = FALSE
     ELSE UNCHANGED <<lockDir, lockOld>>

\* The temporary file becomes owner.json.
RenameTemp(h) == lockDir' = "owned" /\ lockOld' = FALSE /\ temps' = temps \ {h}

\* The directory is removed with all that is in it.
RemoveDir == lockDir' = "none" /\ lockOld' = FALSE /\ temps' = {}

-----------------------------------------------------------------------------
\* acquireStoreWriteLock.

\* A call begins in a process that runs no heartbeat of an earlier one.
AskLock(h) ==
  /\ LockAt(h, "idle") /\ ~Beating(h)
  /\ LockGo(h, "acquire")
  /\ beat' = [beat EXCEPT ![h] = "off"]
  /\ UNCHANGED <<lockDir, lockOld, temps, trouble>>

\* Mutant: the directory may exist (mkdir with recursive).
MakeLockAnyway(h) ==
  /\ LockAt(h, "acquire")
  /\ lockDir' = (IF lockDir = "none" THEN "bare" ELSE lockDir) /\ lockOld' = FALSE
  /\ LockGo(h, "open")
  /\ UNCHANGED <<temps, beat, trouble>>

MakeLock(h) ==
  /\ LockAt(h, "acquire") /\ lockDir = "none"
  /\ lockDir' = "bare" /\ lockOld' = FALSE
  /\ LockGo(h, "open")
  /\ UNCHANGED <<temps, beat, trouble>>

OpenOwner(h) ==
  /\ LockAt(h, "open")
  /\ MakeTemp(h)
  /\ LockGo(h, "rename")
  /\ UNCHANGED <<beat, trouble>>

\* Once owner.json is there the heartbeat starts; if the directory was taken away the
\* rename fails, and the call with it.
RenameOwner(h) ==
  /\ LockAt(h, "rename")
  /\ IF h \in temps
     THEN /\ RenameTemp(h)
          /\ LockGo(h, "inside")
          /\ beat' = [beat EXCEPT ![h] = "timer"]
     ELSE /\ LockGo(h, "idle")
          /\ UNCHANGED <<lockDir, lockOld, temps, beat>>
  /\ UNCHANGED trouble

\* Mutant: a directory without owner.json is never stale.
IsStaleByOwner == lockDir = "owned" /\ lockOld

\* By the heartbeat in owner.json, else by the age of the directory (lockIsStale).
IsStale == lockDir # "none" /\ lockOld

FindStale(h) ==
  /\ LockAt(h, "acquire") /\ IsStale
  /\ LockGo(h, "found")
  /\ UNCHANGED <<lockDir, lockOld, temps, beat, trouble>>

\* The stale lock is removed, whoever holds it by now.
RemoveStale(h) ==
  /\ LockAt(h, "found")
  /\ RemoveDir
  /\ LockGo(h, "acquire")
  /\ UNCHANGED <<beat, trouble>>

\* The wait ends after 120 seconds, unless the lock is found stale then.
LockTimesOut(h) ==
  /\ LockAt(h, "acquire") /\ lockDir # "none" /\ ~IsStale
  /\ LockGo(h, "idle")
  /\ UNCHANGED <<lockDir, lockOld, temps, beat, trouble>>

-----------------------------------------------------------------------------
\* startStoreWriteLockHeartbeat.

\* The timer fires: the write begins by making the directory where it is gone.
BeatBegins(h) ==
  /\ beat[h] = "timer"
  /\ MakeTemp(h)
  /\ beat' = [beat EXCEPT ![h] = "writing"]
  /\ UNCHANGED <<lockStep, trouble>>

\* Once it is written the next beat is scheduled, even if the lock is being released.
BeatEnds(h) ==
  /\ beat[h] = "writing"
  /\ IF h \in temps
     THEN RenameTemp(h) /\ beat' = [beat EXCEPT ![h] = "timer"]
     ELSE beat' = [beat EXCEPT ![h] = "failed"] /\ UNCHANGED <<lockDir, lockOld, temps>>
  /\ LockGo(h, IF LockAt(h, "stop") THEN "remove" ELSE lockStep[h])
  /\ UNCHANGED trouble

\* A beat that cannot be written is the last one.
BeatFails(h) ==
  /\ beat[h] = "writing" /\ trouble < MaxTrouble
  /\ trouble' = trouble + 1
  /\ beat' = [beat EXCEPT ![h] = "failed"]
  /\ temps' = temps \ {h}
  /\ LockGo(h, IF LockAt(h, "stop") THEN "remove" ELSE lockStep[h])
  /\ UNCHANGED <<lockDir, lockOld>>

-----------------------------------------------------------------------------
\* The release (withStoreWriteLock): the timer is cleared, a beat under way is waited
\* for, and then the directory is removed without a look at who holds it.

StopBeat(h) ==
  /\ LockAt(h, "inside")
  /\ LockGo(h, IF beat[h] = "writing" THEN "stop" ELSE "remove")
  /\ beat' = [beat EXCEPT ![h] = IF @ = "timer" THEN "off" ELSE @]
  /\ UNCHANGED <<lockDir, lockOld, temps, trouble>>

RemoveLock(h) ==
  /\ LockAt(h, "remove")
  /\ RemoveDir
  /\ LockGo(h, "idle")
  /\ UNCHANGED <<beat, trouble>>

-----------------------------------------------------------------------------
\* Time and crashes.

\* 120 seconds pass without a beat: nobody beats, or a process stalls.
LockAges ==
  /\ lockDir # "none" /\ ~lockOld
  /\ lockOld' = TRUE
  /\ IF Inside \cup Opening \cup Survivors = {} THEN trouble' = trouble
     ELSE trouble < MaxTrouble /\ trouble' = trouble + 1
  /\ UNCHANGED <<lockDir, temps, lockStep, beat>>

\* A process that holds, asks for or waits for the lock dies.
HolderDies(h) ==
  /\ ~LockAt(h, "idle") /\ trouble < MaxTrouble
  /\ trouble' = trouble + 1
  /\ LockGo(h, "idle")
  /\ beat' = [beat EXCEPT ![h] = "off"]
  /\ UNCHANGED <<lockDir, lockOld, temps>>

\* A process ends whose call is over and whose heartbeat is not: it leaves the lock
\* that the heartbeat made as a crash does.
HolderExits(h) ==
  /\ LockAt(h, "idle") /\ Beating(h) /\ trouble < MaxTrouble
  /\ trouble' = trouble + 1
  /\ beat' = [beat EXCEPT ![h] = "off"]
  /\ UNCHANGED <<lockDir, lockOld, temps, lockStep>>

LockNext ==
  \/ \E h \in Holders :
       \/ AskLock(h) \/ MakeLock(h) \/ OpenOwner(h) \/ RenameOwner(h)
       \/ FindStale(h) \/ RemoveStale(h) \/ LockTimesOut(h)
       \/ BeatBegins(h) \/ BeatEnds(h) \/ BeatFails(h)
       \/ StopBeat(h) \/ RemoveLock(h)
       \/ HolderDies(h) \/ HolderExits(h)
  \/ LockAges

LockSpec == LockInit /\ [][LockNext]_lockVars

-----------------------------------------------------------------------------
\* Properties.

LockTypeOK ==
  /\ lockDir \in {"none", "bare", "owned"}
  /\ lockOld \in BOOLEAN
  /\ temps \subseteq Holders
  /\ lockStep \in [Holders -> LockSteps]
  /\ beat \in [Holders -> Beats]
  /\ trouble \in 0..MaxTrouble

\* Without crashes, stalls and failed writes one call at a time runs under the store
\* lock, and the directory is there while it does, however the heartbeats of others
\* fall (acquireStoreWriteLock, startStoreWriteLockHeartbeat).
StoreExclusive ==
  trouble = 0 => Cardinality(Inside) <= 1 /\ (Inside # {} => lockDir = "owned")

\* A call that waits for a lock which nobody holds, takes or beats gets past it, at once
\* or when it has aged, whatever state the holder left the directory in (lockIsStale).
WaiterProceeds ==
  Inside \cup Opening \cup Survivors = {} =>
    \A h \in Holders :
      LockAt(h, "acquire") => ENABLED (MakeLock(h) \/ FindStale(h) \/ LockAges)
=============================================================================
