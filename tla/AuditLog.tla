------------------------------- MODULE AuditLog -------------------------------
(***************************************************************************)
(* The audit log (audit/log.ts) and the initialisation of the store that   *)
(* creates it (store/io.ts, store/manifest.ts).                            *)
(*                                                                         *)
(* Every write to the store first makes sure it is initialised, under no   *)
(* lock: the call that finds no manifest writes one and then an empty log. *)
(* The entries it appends later are written by reading the whole log and   *)
(* replacing the file, under a lock directory that goes stale after thirty *)
(* seconds, is not renewed, and is removed without a look at its holder.   *)
(***************************************************************************)
EXTENDS Naturals, Sequences, SequencesExt

CONSTANTS
  Writers,      \* processes that write to the store
  Entries,      \* ids of audit entries; a retried write appends the same id again
  MaxSlow       \* bound on crashes, failed appends and slow holders of the append lock

ASSUME AuditLogAssumption ==
  /\ Writers \cap {"free", "dead", "none"} = {}
  /\ MaxSlow \in Nat

VARIABLES
  storeId,      \* whose manifest the store has, or "none"
  auditLog,     \* changes.log: the ids of its lines
  logLock,      \* "free", "dead" or the writer that holds the append lock
  append,       \* what each writer is doing
  settled,      \* entries written while no writer was initialising the store
  logStolen,    \* whether the append lock was ever removed under a live holder
  slow          \* crashes, failed appends and slow holders so far

auditVars == <<storeId, auditLog, logLock, append, settled, logStolen, slow>>

AppendSteps == {"idle", "begin", "manifest", "blank", "lock", "unlock", "read", "write", "release"}
NoAppend == [step |-> "idle", entries |-> {}, entry |-> "none", seen |-> <<>>]

AuditInit ==
  /\ storeId = "none" /\ auditLog = <<>> /\ logLock = "free"
  /\ append = [w \in Writers |-> NoAppend]
  /\ settled = {}
  /\ logStolen = FALSE /\ slow = 0

AppendAt(w, step) == append[w].step = step
AppendGo(w, step) == append' = [append EXCEPT ![w].step = step]
Initialising == \E w \in Writers : append[w].step \in {"manifest", "blank"}

-----------------------------------------------------------------------------
\* initializeStore.

\* Mutant: the store is initialised whether it has a manifest or not.
BeginWriteAnew(w, es) ==
  /\ AppendAt(w, "idle")
  /\ append' = [append EXCEPT ![w] = [NoAppend EXCEPT !.step = "manifest", !.entries = es]]
  /\ UNCHANGED <<storeId, auditLog, logLock, settled, logStolen, slow>>

\* A write that will log the given entries begins: the store is ready if it has a
\* manifest.
BeginWrite(w, es) ==
  /\ AppendAt(w, "idle")
  /\ append' = [append EXCEPT ![w] =
       [NoAppend EXCEPT !.step = IF storeId = "none" THEN "manifest" ELSE "begin",
                        !.entries = es]]
  /\ UNCHANGED <<storeId, auditLog, logLock, settled, logStolen, slow>>

\* The manifest, with a new store id, replaces whatever is there.
WriteManifest(w) ==
  /\ AppendAt(w, "manifest")
  /\ storeId' = w
  /\ AppendGo(w, "blank")
  /\ UNCHANGED <<auditLog, logLock, settled, logStolen, slow>>

\* The log is written empty, whatever it holds by now.
BlankLog(w) ==
  /\ AppendAt(w, "blank")
  /\ auditLog' = <<>>
  /\ AppendGo(w, "begin")
  /\ UNCHANGED <<storeId, logLock, settled, logStolen, slow>>

-----------------------------------------------------------------------------
\* withAppendLock and acquireAppendLock.

\* Mutant: a write with nothing to log logs a blank line.
NextEntryBlank(w) ==
  /\ AppendAt(w, "begin")
  /\ append' = [append EXCEPT ![w].step = "lock"]
  /\ UNCHANGED <<storeId, auditLog, logLock, settled, logStolen, slow>>

\* The write logs its next entry, or is done.
NextEntry(w) ==
  /\ AppendAt(w, "begin")
  /\ IF append[w].entries = {} THEN append' = [append EXCEPT ![w] = NoAppend]
     ELSE \E e \in append[w].entries :
            append' = [append EXCEPT ![w] =
              [append[w] EXCEPT !.step = "lock", !.entry = e, !.entries = @ \ {e}]]
  /\ UNCHANGED <<storeId, auditLog, logLock, settled, logStolen, slow>>

TakeAppendLock(w) ==
  /\ AppendAt(w, "lock") /\ logLock = "free"
  /\ logLock' = w
  /\ AppendGo(w, "read")
  /\ UNCHANGED <<storeId, auditLog, settled, logStolen, slow>>

\* The lock is older than thirty seconds: its holder is gone, or slow.
FindStaleAppendLock(w) ==
  /\ AppendAt(w, "lock") /\ logLock # "free"
  /\ IF logLock = "dead" THEN slow' = slow ELSE slow < MaxSlow /\ slow' = slow + 1
  /\ AppendGo(w, "unlock")
  /\ UNCHANGED <<storeId, auditLog, logLock, settled, logStolen>>

\* It is removed, whoever holds it by now.
RemoveStaleAppendLock(w) ==
  /\ AppendAt(w, "unlock")
  /\ logLock' = "free"
  /\ logStolen' = (logStolen \/ logLock \in Writers)
  /\ AppendGo(w, "lock")
  /\ UNCHANGED <<storeId, auditLog, settled, slow>>

\* The wait for the lock ends after five seconds, and the write with it.
AppendTimesOut(w) ==
  /\ AppendAt(w, "lock") /\ logLock # "free"
  /\ append' = [append EXCEPT ![w] = NoAppend]
  /\ UNCHANGED <<storeId, auditLog, logLock, settled, logStolen, slow>>

-----------------------------------------------------------------------------
\* appendJsonLine, and the release of the lock.

\* The log is read; an entry whose id it holds is not appended again.
ReadLog(w) ==
  /\ AppendAt(w, "read")
  /\ append' = [append EXCEPT
       ![w].step = IF Contains(auditLog, append[w].entry) THEN "release" ELSE "write",
       ![w].seen = auditLog]
  /\ UNCHANGED <<storeId, auditLog, logLock, settled, logStolen, slow>>

\* The file is replaced by what was read and the new line.
WriteLog(w) ==
  /\ AppendAt(w, "write")
  /\ auditLog' = Append(append[w].seen, append[w].entry)
  /\ settled' = IF Initialising THEN settled ELSE settled \cup {append[w].entry}
  /\ AppendGo(w, "release")
  /\ UNCHANGED <<storeId, logLock, logStolen, slow>>

\* The lock is removed without a look at who holds it.
ReleaseAppendLock(w) ==
  /\ AppendAt(w, "release")
  /\ logLock' = "free"
  /\ logStolen' = (logStolen \/ logLock \in Writers \ {w})
  /\ append' = [append EXCEPT ![w] = [NoAppend EXCEPT !.step = "begin",
                                                      !.entries = append[w].entries]]
  /\ UNCHANGED <<storeId, auditLog, settled, slow>>

\* The log cannot be read or replaced: the lock is removed and the write ends.
AppendFails(w) ==
  /\ append[w].step \in {"read", "write"} /\ slow < MaxSlow
  /\ slow' = slow + 1
  /\ logLock' = "free"
  /\ logStolen' = (logStolen \/ logLock \in Writers \ {w})
  /\ append' = [append EXCEPT ![w] = NoAppend]
  /\ UNCHANGED <<storeId, auditLog, settled>>

\* The process dies: a lock it holds stays.
WriterDies(w) ==
  /\ ~AppendAt(w, "idle") /\ slow < MaxSlow
  /\ slow' = slow + 1
  /\ append' = [append EXCEPT ![w] = NoAppend]
  /\ logLock' = IF logLock = w THEN "dead" ELSE logLock
  /\ UNCHANGED <<storeId, auditLog, settled, logStolen>>

AuditStep(w) ==
  \/ WriteManifest(w) \/ BlankLog(w) \/ NextEntry(w)
  \/ TakeAppendLock(w) \/ FindStaleAppendLock(w) \/ RemoveStaleAppendLock(w)
  \/ AppendTimesOut(w)
  \/ ReadLog(w) \/ WriteLog(w) \/ ReleaseAppendLock(w)

AuditNext ==
  \E w \in Writers :
    \/ \E es \in SUBSET Entries : BeginWrite(w, es)
    \/ AuditStep(w)
    \/ AppendFails(w)
    \/ WriterDies(w)

AuditSpec == AuditInit /\ [][AuditNext]_auditVars

-----------------------------------------------------------------------------
\* Properties.

AuditTypeOK ==
  /\ storeId \in Writers \cup {"none"}
  /\ auditLog \in Seq(Entries)
  /\ logLock \in Writers \cup {"free", "dead"}
  /\ append \in [Writers -> [step : AppendSteps, entries : SUBSET Entries,
                             entry : Entries \cup {"none"}, seen : Seq(Entries)]]
  /\ settled \subseteq Entries
  /\ logStolen \in BOOLEAN
  /\ slow \in 0..MaxSlow

\* An entry appended once the initialisation of the store was over is in the log
\* for good, and no entry is there twice, as long as no append lock was taken from a
\* live holder (appendJsonLine, initializeStore).
LoggedOnce ==
  ~logStolen => /\ settled \subseteq ToSet(auditLog)
                /\ IsInjective(auditLog)
=============================================================================
