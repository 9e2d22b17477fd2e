--------------------------- MODULE StoreWritersProofs ---------------------------
(***************************************************************************)
(* Proofs about what shares no module with other proofs: the append lock   *)
(* of the audit log, the store write lock, the installer with the Hermes   *)
(* host it installs for; and about all the parts put together.  They are   *)
(* for any processes, operators, installs and bounds.                      *)
(*                                                                         *)
(* The audit log keeps its entries.  That no id is in it twice needs no    *)
(* lock: whoever replaces the file replaces it by what it read and an id   *)
(* that was not there (Fresh).  That an entry stays needs the append lock  *)
(* to be left to its live holder (Locked, Current), and that a store which *)
(* was initialised once is never initialised again by a later write        *)
(* (Started).                                                              *)
(*                                                                         *)
(* The store write lock excludes: as long as no process dies or stalls and *)
(* no heartbeat fails, one call at a time is under it.  That is not        *)
(* inductive.  What makes it so is that someone beats or writes for as     *)
(* long as the directory is there (Kept), so that it does not age and      *)
(* nobody finds it stale, and that a heartbeat which outlives its call     *)
(* never takes the directory of another.                                   *)
(*                                                                         *)
(* An install tells the host of files it has written because its steps are *)
(* in an order (Sound) and because what it has read is still good when it  *)
(* writes it back (SeenGood): files are only ever added.  That the last    *)
(* install stands needs that it was alone at work (OneAtWork), so that     *)
(* what it read is what is there.  Hermes has an event for each turn that  *)
(* is over (Captured), and the provider alone has one only (AloneOnce).    *)
(*                                                                         *)
(* A behaviour of the parts put together is a behaviour of each of them.   *)
(***************************************************************************)
EXTENDS MCStoreWriters, IntakeStoreProofs, WikiMaintenanceProofs, MemoryMaturationProofs,
        ContradictionReviewProofs, SequenceTheorems, FiniteSetTheorems, TLAPS

-----------------------------------------------------------------------------
\* The audit log.

UnderLock == {"read", "write", "release"}
Past == {"blank", "begin", "lock", "unlock"} \cup UnderLock

\* A writer that logs logs an entry.
EntryNamed == \A w \in Writers :
           append[w].step \in {"lock", "unlock"} \cup UnderLock => append[w].entry \in Entries
\* Once an entry settled no writer initialises the store.
Started == /\ \A w \in Writers : append[w].step \in Past => storeId # "none"
           /\ settled # {} => storeId # "none" /\ ~Initialising
Locked == \A w \in Writers : append[w].step \in UnderLock => logLock = w
Fresh == /\ IsInjective(auditLog)
         /\ \A w \in Writers : AppendAt(w, "write") =>
              IsInjective(append[w].seen) /\ append[w].entry \notin ToSet(append[w].seen)
Current == /\ settled \subseteq ToSet(auditLog)
           /\ \A w \in Writers : AppendAt(w, "write") => settled \subseteq ToSet(append[w].seen)

AuditInv ==
  /\ AuditTypeOK /\ EntryNamed /\ Started /\ Fresh
  /\ ~logStolen => Locked /\ Current

-----------------------------------------------------------------------------
\* What an appended line does to the ids of a log (appendJsonLine).
LEMMA AppendedIds ==
  ASSUME NEW S, NEW s \in Seq(S), NEW e \in S
  PROVE  /\ Append(s, e) \in Seq(S)
         /\ ToSet(Append(s, e)) = ToSet(s) \cup {e}
         /\ IsInjective(s) /\ e \notin ToSet(s) => IsInjective(Append(s, e))
<1> DEFINE t == Append(s, e)
<1>1. /\ t \in Seq(S) /\ Len(t) = Len(s) + 1 /\ t[Len(s) + 1] = e
      /\ \A i \in 1 .. Len(s) : t[i] = s[i]
  BY AppendProperties
<1>2. DOMAIN t = 1 .. Len(s) + 1 /\ DOMAIN s = 1 .. Len(s) /\ Len(s) \in Nat
  BY <1>1, LenProperties
<1> HIDE DEF t
<1>3. ToSet(t) = ToSet(s) \cup {e}
  BY <1>1, <1>2 DEF ToSet
<1>4. IsInjective(s) /\ e \notin ToSet(s) => IsInjective(t)
  BY <1>1, <1>2 DEF IsInjective, ToSet
<1> QED BY <1>1, <1>3, <1>4 DEF t

\* Contains tells what ToSet tells.
LEMMA ContainsIds ==
  ASSUME NEW S, NEW s \in Seq(S), NEW e
  PROVE  Contains(s, e) <=> e \in ToSet(s)
  BY LenProperties DEF Contains, ToSet

Appends == [step : AppendSteps, entries : SUBSET Entries, entry : Entries \cup {"none"},
            seen : Seq(Entries)]
Logging == {"lock", "unlock"} \cup UnderLock

\* One writer goes on with a record of the right shape.
LEMMA OneGoesOn ==
  ASSUME AuditTypeOK, EntryNamed, NEW w \in Writers, NEW r \in Appends,
         r.step \in Logging => r.entry \in Entries,
         append' = [append EXCEPT ![w] = r]
  PROVE  append' \in [Writers -> Appends] /\ EntryNamed'
<1>1. append \in [Writers -> Appends]
  BY DEF AuditTypeOK, Appends
<1>2. append' \in [Writers -> Appends]
  BY <1>1
<1>3. EntryNamed'
  BY <1>1 DEF EntryNamed, Logging
<1> QED BY <1>2, <1>3

\* The step of one writer changes, and nothing else of its record.
LEMMA OneSteps ==
  ASSUME AuditTypeOK, EntryNamed, NEW w \in Writers, NEW st \in AppendSteps,
         st \in Logging => append[w].entry \in Entries, AppendGo(w, st)
  PROVE  append' \in [Writers -> Appends] /\ EntryNamed'
<1> DEFINE r == append[w]
           q == [r EXCEPT !.step = st]
<1>1. r \in Appends
  BY DEF AuditTypeOK, Appends
<1>2. append' = [append EXCEPT ![w] = q]
  BY DEF AppendGo
<1>3. st \in Logging => r.entry \in Entries
  OBVIOUS
<1> HIDE DEF r
<1>4. q \in Appends /\ q.step = st /\ q.entry = r.entry
  BY <1>1 DEF Appends
<1> HIDE DEF q
<1> QED BY <1>2, <1>3, <1>4, OneGoesOn

\* A writer is done, or has failed.
LEMMA OneRests ==
  ASSUME AuditTypeOK, EntryNamed, NEW w \in Writers, append' = [append EXCEPT ![w] = NoAppend]
  PROVE  append' \in [Writers -> Appends] /\ EntryNamed'
<1>1. NoAppend \in Appends /\ NoAppend.step \notin Logging
  BY EmptySeq DEF NoAppend, Appends, AppendSteps, Logging, UnderLock
<1> QED BY <1>1, OneGoesOn

\* The types, and that a writer that logs has an entry, hold of every step (AuditLog).
LEMMA AuditTypesKept ==
  ASSUME AuditTypeOK, EntryNamed, [AuditNext]_auditVars
  PROVE  AuditTypeOK' /\ EntryNamed'
<1> USE DEF AppendAt
<1> DEFINE Rest == /\ storeId \in Writers \cup {"none"} /\ auditLog \in Seq(Entries)
                   /\ logLock \in Writers \cup {"free", "dead"}
                   /\ settled \subseteq Entries /\ logStolen \in BOOLEAN
                   /\ slow \in 0..MaxSlow
<1>a. Rest /\ MaxSlow \in Nat /\ <<>> \in Seq(Entries)
  BY AuditLogAssumption, EmptySeq DEF AuditTypeOK
<1>b. /\ {"manifest", "blank", "begin", "lock", "unlock", "read", "write", "release"}
           \subseteq AppendSteps
      /\ {"manifest", "blank", "begin"} \cap Logging = {}
  BY DEF AppendSteps, Logging, UnderLock
<1>c. \A w \in Writers : append[w].step \in Logging => append[w].entry \in Entries
  BY DEF EntryNamed, Logging
<1>d. {"lock", "unlock", "read", "write", "release"} \subseteq Logging
  BY DEF Logging, UnderLock
<1>e. \A w \in Writers : append[w] \in Appends
  BY DEF AuditTypeOK, Appends
<1>f. NoAppend \in Appends
  BY <1>a DEF NoAppend, Appends, AppendSteps
<1>1. CASE UNCHANGED auditVars
  BY <1>1 DEF auditVars, AuditTypeOK, EntryNamed
<1>2. ASSUME NEW w \in Writers, NEW es \in SUBSET Entries, BeginWrite(w, es)
      PROVE  Rest' /\ append' \in [Writers -> Appends] /\ EntryNamed'
  <2> DEFINE st == IF storeId = "none" THEN "manifest" ELSE "begin"
             q == [NoAppend EXCEPT !.step = st, !.entries = es]
  <2>1. append' = [append EXCEPT ![w] = q]
    BY <1>2 DEF BeginWrite
  <2>2. st \in AppendSteps /\ st \notin Logging
    BY <1>b
  <2> HIDE DEF st
  <2>3. q \in Appends /\ q.step = st
    BY <1>f, <2>2 DEF Appends
  <2> HIDE DEF q
  <2>4. append' \in [Writers -> Appends] /\ EntryNamed'
    BY <2>1, <2>2, <2>3, OneGoesOn
  <2> QED BY <1>2, <1>a, <2>4 DEF BeginWrite
<1>3. ASSUME NEW w \in Writers, WriteManifest(w) \/ BlankLog(w)
      PROVE  Rest' /\ append' \in [Writers -> Appends] /\ EntryNamed'
  BY <1>3, <1>a, <1>b, OneSteps DEF WriteManifest, BlankLog
<1>4. ASSUME NEW w \in Writers, NextEntry(w)
      PROVE  Rest' /\ append' \in [Writers -> Appends] /\ EntryNamed'
  <2>1. CASE append[w].entries = {}
    BY <1>4, <1>a, <2>1, OneRests DEF NextEntry
  <2>2. ASSUME NEW e \in append[w].entries,
               append' = [append EXCEPT ![w] =
                 [append[w] EXCEPT !.step = "lock", !.entry = e, !.entries = @ \ {e}]]
        PROVE  append' \in [Writers -> Appends] /\ EntryNamed'
    <3> DEFINE r == append[w]
               q == [r EXCEPT !.step = "lock", !.entry = e, !.entries = @ \ {e}]
    <3>1. r \in Appends /\ e \in r.entries
      BY <1>e
    <3>2. append' = [append EXCEPT ![w] = q]
      BY <2>2
    <3> HIDE DEF r
    <3>3. e \in Entries
      BY <3>1 DEF Appends
    <3>4. q \in Appends /\ q.entry = e
      BY <1>b, <3>1, <3>3 DEF Appends
    <3> HIDE DEF q
    <3> QED BY <3>2, <3>3, <3>4, OneGoesOn
  <2> QED BY <1>4, <1>a, <2>1, <2>2 DEF NextEntry
<1>5. ASSUME NEW w \in Writers,
             TakeAppendLock(w) \/ FindStaleAppendLock(w) \/ RemoveStaleAppendLock(w)
      PROVE  Rest' /\ append' \in [Writers -> Appends] /\ EntryNamed'
  <2>1. append[w].entry \in Entries
    BY <1>5, <1>c, <1>d DEF TakeAppendLock, FindStaleAppendLock, RemoveStaleAppendLock
  <2>2. AppendGo(w, "read") \/ AppendGo(w, "unlock") \/ AppendGo(w, "lock")
    BY <1>5 DEF TakeAppendLock, FindStaleAppendLock, RemoveStaleAppendLock
  <2>3. append' \in [Writers -> Appends] /\ EntryNamed'
    BY <1>b, <2>1, <2>2, OneSteps
  <2>4. logStolen' \in BOOLEAN
    BY <1>5, <1>a DEF TakeAppendLock, FindStaleAppendLock, RemoveStaleAppendLock
  <2> QED
    BY <1>5, <1>a, <2>3, <2>4 DEF TakeAppendLock, FindStaleAppendLock, RemoveStaleAppendLock
<1>6. ASSUME NEW w \in Writers, AppendTimesOut(w) \/ AppendFails(w) \/ WriterDies(w)
      PROVE  Rest' /\ append' \in [Writers -> Appends] /\ EntryNamed'
  <2>1. append' = [append EXCEPT ![w] = NoAppend]
    BY <1>6 DEF AppendTimesOut, AppendFails, WriterDies
  <2>2. append' \in [Writers -> Appends] /\ EntryNamed'
    BY <2>1, OneRests
  <2>3. logStolen' \in BOOLEAN
    BY <1>6, <1>a DEF AppendTimesOut, AppendFails, WriterDies
  <2> QED BY <1>6, <1>a, <2>2, <2>3 DEF AppendTimesOut, AppendFails, WriterDies
<1>7. ASSUME NEW w \in Writers, ReadLog(w)
      PROVE  Rest' /\ append' \in [Writers -> Appends] /\ EntryNamed'
  <2> DEFINE r == append[w]
             st == IF Contains(auditLog, r.entry) THEN "release" ELSE "write"
             q == [r EXCEPT !.step = st, !.seen = auditLog]
  <2>1. r \in Appends /\ r.entry \in Entries
    BY <1>7, <1>c, <1>d, <1>e DEF ReadLog
  <2>2. append' = [append EXCEPT ![w] = q]
    BY <1>7 DEF ReadLog
  <2>3. st \in AppendSteps
    BY <1>b
  <2> HIDE DEF r, st
  <2>4. q \in Appends /\ q.entry = r.entry
    BY <1>a, <2>1, <2>3 DEF Appends
  <2> HIDE DEF q
  <2>5. append' \in [Writers -> Appends] /\ EntryNamed'
    BY <2>1, <2>2, <2>4, OneGoesOn
  <2> QED BY <1>7, <1>a, <2>5 DEF ReadLog
<1>8. ASSUME NEW w \in Writers, WriteLog(w)
      PROVE  Rest' /\ append' \in [Writers -> Appends] /\ EntryNamed'
  <2>1. append[w].seen \in Seq(Entries) /\ append[w].entry \in Entries
    BY <1>8, <1>c, <1>d, <1>e DEF WriteLog, Appends
  <2>2. auditLog' \in Seq(Entries)
    BY <1>8, <2>1, AppendedIds DEF WriteLog
  <2>3. append' \in [Writers -> Appends] /\ EntryNamed'
    BY <1>8, <1>b, <2>1, OneSteps DEF WriteLog
  <2> QED BY <1>8, <1>a, <2>1, <2>2, <2>3 DEF WriteLog
<1>9. ASSUME NEW w \in Writers, ReleaseAppendLock(w)
      PROVE  Rest' /\ append' \in [Writers -> Appends] /\ EntryNamed'
  <2> DEFINE es == append[w].entries
             q == [NoAppend EXCEPT !.step = "begin", !.entries = es]
  <2>1. append' = [append EXCEPT ![w] = q] /\ es \in SUBSET Entries
    BY <1>9, <1>e DEF ReleaseAppendLock, Appends
  <2> HIDE DEF es
  <2>2. q \in Appends /\ q.step = "begin"
    BY <1>b, <1>f, <2>1 DEF Appends
  <2> HIDE DEF q
  <2>3. append' \in [Writers -> Appends] /\ EntryNamed'
    BY <1>b, <2>1, <2>2, OneGoesOn
  <2> QED BY <1>9, <1>a, <2>3 DEF ReleaseAppendLock
<1>10. Rest' /\ append' \in [Writers -> Appends] => AuditTypeOK'
  BY DEF AuditTypeOK, Appends
<1> HIDE DEF Rest
<1> QED
  BY <1>1, <1>2, <1>3, <1>4, <1>5, <1>6, <1>7, <1>8, <1>9, <1>10 DEF AuditNext, AuditStep

\* A writer goes on to its next entry or is done, a call that ends rests: the records of
\* the others stay (withAppendLock).
LEMMA NextMoves ==
  ASSUME AuditTypeOK, NEW w \in Writers, NextEntry(w)
  PROVE  /\ append[w].step = "begin" /\ append'[w].step \in {"idle", "lock"}
         /\ \A v \in Writers \ {w} : append'[v] = append[v]
         /\ UNCHANGED <<storeId, auditLog, logLock, settled, logStolen>>
<1>1. append \in [Writers -> Appends]
  BY DEF AuditTypeOK, Appends
<1>2. CASE append[w].entries = {}
  BY <1>1, <1>2 DEF NextEntry, AppendAt, NoAppend
<1>3. CASE append[w].entries # {}
  <2>1. PICK e \in append[w].entries :
          append' = [append EXCEPT ![w] =
            [append[w] EXCEPT !.step = "lock", !.entry = e, !.entries = @ \ {e}]]
    BY <1>3 DEF NextEntry
  <2>2. append'[w].step = "lock"
    BY <1>1, <2>1 DEF Appends
  <2> QED BY <1>1, <2>1, <2>2 DEF NextEntry, AppendAt
<1> QED BY <1>2, <1>3

LEMMA EndMoves ==
  ASSUME AuditTypeOK, NEW w \in Writers,
         AppendTimesOut(w) \/ AppendFails(w) \/ WriterDies(w)
  PROVE  /\ append'[w].step = "idle"
         /\ \A v \in Writers \ {w} : append'[v] = append[v]
         /\ UNCHANGED <<storeId, auditLog, settled>>
  BY DEF AuditTypeOK, AppendTimesOut, AppendFails, WriterDies, NoAppend

\* A store that is initialised is not initialised again by a write that begins later
\* (initializeStore).
LEMMA StartedKept ==
  ASSUME AuditTypeOK, Started, [AuditNext]_auditVars
  PROVE  Started'
<1> USE AuditLogAssumption
    DEF AuditTypeOK, Started, Initialising, AppendAt, AppendGo, Past, UnderLock, NoAppend
<1>1. CASE UNCHANGED auditVars
  BY <1>1 DEF auditVars
<1>2. ASSUME NEW w \in Writers, NEW es \in SUBSET Entries, BeginWrite(w, es)
      PROVE  Started'
  BY <1>2 DEF BeginWrite
<1>3. ASSUME NEW w \in Writers, WriteManifest(w) PROVE Started'
  BY <1>3 DEF WriteManifest
<1>4. ASSUME NEW w \in Writers, BlankLog(w) PROVE Started'
  BY <1>4 DEF BlankLog
<1>5. ASSUME NEW w \in Writers, NextEntry(w) PROVE Started'
  BY <1>5, NextMoves
<1>6. ASSUME NEW w \in Writers,
             TakeAppendLock(w) \/ FindStaleAppendLock(w) \/ RemoveStaleAppendLock(w)
      PROVE  Started'
  BY <1>6 DEF TakeAppendLock, FindStaleAppendLock, RemoveStaleAppendLock
<1>7. ASSUME NEW w \in Writers, AppendTimesOut(w) \/ AppendFails(w) \/ WriterDies(w)
      PROVE  Started'
  BY <1>7, EndMoves
<1>8. ASSUME NEW w \in Writers, ReadLog(w) PROVE Started'
  BY <1>8 DEF ReadLog
<1>9. ASSUME NEW w \in Writers, WriteLog(w) PROVE Started'
  BY <1>9 DEF WriteLog
<1>10. ASSUME NEW w \in Writers, ReleaseAppendLock(w) PROVE Started'
  BY <1>10 DEF ReleaseAppendLock
<1> QED
  BY <1>1, <1>2, <1>3, <1>4, <1>5, <1>6, <1>7, <1>8, <1>9, <1>10 DEF AuditNext, AuditStep

\* What was read and found fresh is fresh when it is written, whoever wrote in between:
\* it is written over what was read (appendJsonLine).
LEMMA FreshKept ==
  ASSUME AuditTypeOK, EntryNamed, Fresh, [AuditNext]_auditVars
  PROVE  Fresh'
<1> USE DEF AuditTypeOK, Fresh, AppendAt, AppendGo, NoAppend
<1>1. CASE UNCHANGED auditVars
  BY <1>1 DEF auditVars
<1>2. ASSUME NEW w \in Writers, NEW es \in SUBSET Entries, BeginWrite(w, es)
      PROVE  Fresh'
  BY <1>2 DEF BeginWrite
<1>3. ASSUME NEW w \in Writers, WriteManifest(w) PROVE Fresh'
  BY <1>3 DEF WriteManifest
<1>4. ASSUME NEW w \in Writers, BlankLog(w) PROVE Fresh'
  <2>1. IsInjective(<<>>)
    BY DEF IsInjective
  <2> QED BY <1>4, <2>1 DEF BlankLog
<1>5. ASSUME NEW w \in Writers, NextEntry(w) PROVE Fresh'
  BY <1>5, NextMoves
<1>6. ASSUME NEW w \in Writers,
             TakeAppendLock(w) \/ FindStaleAppendLock(w) \/ RemoveStaleAppendLock(w)
      PROVE  Fresh'
  BY <1>6 DEF TakeAppendLock, FindStaleAppendLock, RemoveStaleAppendLock
<1>7. ASSUME NEW w \in Writers, AppendTimesOut(w) \/ AppendFails(w) \/ WriterDies(w)
      PROVE  Fresh'
  BY <1>7, EndMoves
<1>8. ASSUME NEW w \in Writers, ReadLog(w) PROVE Fresh'
  <2>1. Contains(auditLog, append[w].entry) <=> append[w].entry \in ToSet(auditLog)
    BY ContainsIds
  <2> QED BY <1>8, <2>1 DEF ReadLog
<1>9. ASSUME NEW w \in Writers, WriteLog(w) PROVE Fresh'
  <2>1. append[w].seen \in Seq(Entries) /\ append[w].entry \in Entries
    BY <1>9 DEF WriteLog, EntryNamed, UnderLock
  <2>2. IsInjective(auditLog')
    BY <1>9, <2>1, AppendedIds DEF WriteLog
  <2> QED BY <1>9, <2>2 DEF WriteLog
<1>10. ASSUME NEW w \in Writers, ReleaseAppendLock(w) PROVE Fresh'
  BY <1>10 DEF ReleaseAppendLock
<1> QED
  BY <1>1, <1>2, <1>3, <1>4, <1>5, <1>6, <1>7, <1>8, <1>9, <1>10 DEF AuditNext, AuditStep

\* Until the append lock is removed under a live holder one writer at a time is under
\* it (withAppendLock).
LEMMA LockedKept ==
  ASSUME AuditTypeOK, Locked, ~logStolen', [AuditNext]_auditVars
  PROVE  Locked'
<1> USE AuditLogAssumption
    DEF AuditTypeOK, Locked, AppendAt, AppendGo, UnderLock, NoAppend
<1>1. CASE UNCHANGED auditVars
  BY <1>1 DEF auditVars
<1>2. ASSUME NEW w \in Writers, NEW es \in SUBSET Entries, BeginWrite(w, es)
      PROVE  Locked'
  BY <1>2 DEF BeginWrite
<1>3. ASSUME NEW w \in Writers, WriteManifest(w) \/ BlankLog(w) PROVE Locked'
  BY <1>3 DEF WriteManifest, BlankLog
<1>4. ASSUME NEW w \in Writers, NextEntry(w) PROVE Locked'
  BY <1>4, NextMoves
<1>5. ASSUME NEW w \in Writers, TakeAppendLock(w) PROVE Locked'
  BY <1>5 DEF TakeAppendLock
<1>6. ASSUME NEW w \in Writers, FindStaleAppendLock(w) \/ RemoveStaleAppendLock(w)
      PROVE  Locked'
  BY <1>6 DEF FindStaleAppendLock, RemoveStaleAppendLock
<1>7. ASSUME NEW w \in Writers, AppendTimesOut(w) PROVE Locked'
  BY <1>7 DEF AppendTimesOut
<1>8. ASSUME NEW w \in Writers, AppendFails(w) PROVE Locked'
  BY <1>8, EndMoves DEF AppendFails
<1>11. ASSUME NEW w \in Writers, WriterDies(w) PROVE Locked'
  BY <1>11, EndMoves DEF WriterDies
<1>9. ASSUME NEW w \in Writers, ReadLog(w) \/ WriteLog(w) PROVE Locked'
  BY <1>9 DEF ReadLog, WriteLog
<1>10. ASSUME NEW w \in Writers, ReleaseAppendLock(w) PROVE Locked'
  BY <1>10 DEF ReleaseAppendLock
<1> QED
  BY <1>1, <1>2, <1>3, <1>4, <1>5, <1>6, <1>7, <1>8, <1>9, <1>10, <1>11
  DEF AuditNext, AuditStep

\* What settled is in the log, and in what the writer under the lock has read.
LEMMA CurrentKept ==
  ASSUME AuditTypeOK, EntryNamed, Started, Locked, Current, [AuditNext]_auditVars
  PROVE  Current'
<1> USE DEF AuditTypeOK, Current, AppendAt, AppendGo, NoAppend
<1>1. CASE UNCHANGED auditVars
  BY <1>1 DEF auditVars
<1>2. ASSUME NEW w \in Writers, NEW es \in SUBSET Entries, BeginWrite(w, es)
      PROVE  Current'
  BY <1>2 DEF BeginWrite
<1>3. ASSUME NEW w \in Writers, WriteManifest(w) PROVE Current'
  BY <1>3 DEF WriteManifest
<1>4. ASSUME NEW w \in Writers, BlankLog(w) PROVE Current'
  <2>1. settled = {}
    BY <1>4 DEF BlankLog, Started, Initialising
  <2> QED BY <1>4, <2>1 DEF BlankLog
<1>5. ASSUME NEW w \in Writers, NextEntry(w) PROVE Current'
  BY <1>5, NextMoves
<1>6. ASSUME NEW w \in Writers,
             TakeAppendLock(w) \/ FindStaleAppendLock(w) \/ RemoveStaleAppendLock(w)
      PROVE  Current'
  BY <1>6 DEF TakeAppendLock, FindStaleAppendLock, RemoveStaleAppendLock
<1>7. ASSUME NEW w \in Writers, AppendTimesOut(w) \/ AppendFails(w) \/ WriterDies(w)
      PROVE  Current'
  BY <1>7, EndMoves
<1>8. ASSUME NEW w \in Writers, ReadLog(w) PROVE Current'
  BY <1>8 DEF ReadLog
<1>9. ASSUME NEW w \in Writers, WriteLog(w) PROVE Current'
  <2>1. append[w].seen \in Seq(Entries) /\ append[w].entry \in Entries
    BY <1>9 DEF WriteLog, EntryNamed, UnderLock
  <2>2. ToSet(auditLog') = ToSet(append[w].seen) \cup {append[w].entry}
    BY <1>9, <2>1, AppendedIds DEF WriteLog
  <2>3. settled' \subseteq ToSet(auditLog')
    BY <1>9, <2>2 DEF WriteLog
  <2>4. \A v \in Writers : append'[v].step # "write"
    BY <1>9 DEF WriteLog, Locked, UnderLock
  <2> QED BY <2>3, <2>4
<1>10. ASSUME NEW w \in Writers, ReleaseAppendLock(w) PROVE Current'
  BY <1>10 DEF ReleaseAppendLock
<1> QED
  BY <1>1, <1>2, <1>3, <1>4, <1>5, <1>6, <1>7, <1>8, <1>9, <1>10 DEF AuditNext, AuditStep

\* A lock taken from a live holder stays on record.
LEMMA LogStolenStays ==
  ASSUME [AuditNext]_auditVars, ~logStolen'
  PROVE  ~logStolen
  BY DEF auditVars, AuditNext, AuditStep, BeginWrite, WriteManifest, BlankLog, NextEntry,
         TakeAppendLock, FindStaleAppendLock, RemoveStaleAppendLock, AppendTimesOut,
         ReadLog, WriteLog, ReleaseAppendLock, AppendFails, WriterDies

\* The inductive invariant of the audit log: what each writer has read and found out
\* still holds when it writes.
THEOREM LogInvariance == AuditSpec => []AuditInv
<1>1. AuditInit => AuditInv
  <2> SUFFICES ASSUME AuditInit PROVE AuditInv
    OBVIOUS
  <2>1. <<>> \in Seq(Entries) /\ ToSet(<<>>) = {} /\ IsInjective(<<>>)
    BY EmptySeq DEF ToSet, IsInjective
  <2>2. \A w \in Writers : append[w].step = "idle"
    BY DEF AuditInit, NoAppend
  <2>3. append \in [Writers -> Appends]
    BY <2>1 DEF AuditInit, NoAppend, Appends, AppendSteps
  <2>4. AuditTypeOK
    <3>1. slow \in 0..MaxSlow
      BY AuditLogAssumption DEF AuditInit
    <3> QED BY <2>1, <2>3, <3>1 DEF AuditInit, AuditTypeOK, Appends
  <2>5. EntryNamed /\ Started /\ Locked
    BY <2>2 DEF AuditInit, EntryNamed, Started, Locked, UnderLock, Past
  <2>6. Fresh /\ Current
    BY <2>1, <2>2 DEF AuditInit, Fresh, Current, AppendAt
  <2> QED BY <2>4, <2>5, <2>6 DEF AuditInv
<1>2. AuditInv /\ [AuditNext]_auditVars => AuditInv'
  BY AuditTypesKept, StartedKept, FreshKept, LockedKept, CurrentKept, LogStolenStays
  DEF AuditInv
<1> QED
  BY <1>1, <1>2, PTL DEF AuditSpec

\* An entry appended once the initialisation of the store was over is in the log for
\* good, and no entry is there twice, as long as no append lock was taken from a live
\* holder (appendJsonLine, initializeStore).
THEOREM EntriesLoggedOnce == AuditSpec => []LoggedOnce
<1>1. AuditInv => LoggedOnce
  BY DEF AuditInv, LoggedOnce, Current, Fresh
<1> QED
  BY <1>1, LogInvariance, PTL

-----------------------------------------------------------------------------
\* The store write lock.

Occupied == Inside \cup Opening

\* A call that has or makes the lock, or a heartbeat whose write will not fail.
Keeps(h) == h \in Occupied \/ beat[h] = "timer" \/ (beat[h] = "writing" /\ h \in temps)

Kept == lockDir # "none" => \E h \in Holders : Keeps(h)
Alone == \A g, h \in Occupied : g = h
Steady ==
  /\ lockOld = FALSE
  /\ \A h \in Holders : lockStep[h] # "found" /\ (LockAt(h, "rename") => h \in temps)
DirPresent ==
  /\ Occupied # {} => lockDir # "none"
  /\ Inside # {} => lockDir = "owned"
\* A process that asks for the lock runs no heartbeat.
Quiet == \A h \in Holders : lockStep[h] \in {"acquire", "open", "rename"} => beat[h] = "off"

Held == Kept /\ Alone /\ Steady /\ DirPresent /\ Quiet
LockInv == LockTypeOK /\ (trouble = 0 => Held)

-----------------------------------------------------------------------------
\* The types hold at the start and are kept (StoreLock).
LEMMA LockTypesKept ==
  ASSUME LockTypeOK, [LockNext]_lockVars
  PROVE  LockTypeOK'
<1> USE StoreLockAssumption DEF LockTypeOK, LockSteps, Beats, LockGo, LockAt, MakeTemp, RenameTemp, RemoveDir
<1>1. CASE UNCHANGED lockVars
  BY <1>1 DEF lockVars
<1>2. CASE LockAges
  BY <1>2 DEF LockAges
<1>3. ASSUME NEW h \in Holders, AskLock(h) \/ MakeLock(h) \/ FindStale(h) \/ LockTimesOut(h)
      PROVE  LockTypeOK'
  BY <1>3 DEF AskLock, MakeLock, FindStale, LockTimesOut
<1>4. ASSUME NEW h \in Holders, OpenOwner(h) \/ RenameOwner(h) \/ RemoveStale(h)
      PROVE  LockTypeOK'
  BY <1>4 DEF OpenOwner, RenameOwner, RemoveStale
<1>5. ASSUME NEW h \in Holders, BeatBegins(h)
      PROVE  LockTypeOK'
  BY <1>5 DEF BeatBegins
<1>6. ASSUME NEW h \in Holders, BeatEnds(h)
      PROVE  LockTypeOK'
  BY <1>6 DEF BeatEnds
<1>7. ASSUME NEW h \in Holders, StopBeat(h) \/ RemoveLock(h)
      PROVE  LockTypeOK'
  BY <1>7 DEF StopBeat, RemoveLock
<1>8. ASSUME NEW h \in Holders, HolderDies(h) \/ HolderExits(h)
      PROVE  LockTypeOK'
  BY <1>8 DEF HolderDies, HolderExits
<1>9. ASSUME NEW h \in Holders, BeatFails(h)
      PROVE  LockTypeOK'
  BY <1>9 DEF BeatFails
<1> QED
  BY <1>1, <1>2, <1>3, <1>4, <1>5, <1>6, <1>7, <1>8, <1>9 DEF LockNext

\* Trouble is counted and never taken back.
LEMMA TroubleStays ==
  ASSUME LockTypeOK, [LockNext]_lockVars, trouble' = 0
  PROVE  trouble = 0
  BY DEF LockTypeOK, lockVars, LockNext, AskLock, MakeLock, OpenOwner, RenameOwner,
         FindStale, RemoveStale, LockTimesOut, BeatBegins, BeatEnds, BeatFails, StopBeat,
         RemoveLock, HolderDies, HolderExits, LockAges

\* What holds without trouble is kept by every step that makes none.
LEMMA HeldKept ==
  ASSUME LockTypeOK, LockTypeOK', Held, trouble = 0, trouble' = 0, [LockNext]_lockVars
  PROVE  Held'
<1> USE DEF LockTypeOK, LockSteps, Beats, LockGo, LockAt, Held, Kept, Alone, Steady, DirPresent,
            Quiet, Keeps, Occupied, Inside, Opening
<1>1. CASE UNCHANGED lockVars
  BY <1>1 DEF lockVars
<1>2. CASE LockAges
  BY <1>2 DEF LockAges, Survivors, Beating
<1>3. ASSUME NEW h \in Holders, AskLock(h) PROVE Held'
  BY <1>3 DEF AskLock, Beating
<1>4. ASSUME NEW h \in Holders, MakeLock(h) PROVE Held'
  BY <1>4 DEF MakeLock
<1>5. ASSUME NEW h \in Holders, OpenOwner(h) PROVE Held'
  BY <1>5 DEF OpenOwner, MakeTemp
<1>6. ASSUME NEW h \in Holders, RenameOwner(h) PROVE Held'
  BY <1>6 DEF RenameOwner, RenameTemp
<1>7. ASSUME NEW h \in Holders, FindStale(h) \/ RemoveStale(h) PROVE Held'
  BY <1>7 DEF FindStale, IsStale, RemoveStale
<1>8. ASSUME NEW h \in Holders, LockTimesOut(h) PROVE Held'
  BY <1>8 DEF LockTimesOut
<1>9. ASSUME NEW h \in Holders, BeatBegins(h) PROVE Held'
  BY <1>9 DEF BeatBegins, MakeTemp
<1>10. ASSUME NEW h \in Holders, BeatEnds(h) PROVE Held'
  <2>1. Occupied' = Occupied /\ Inside' = Inside
    BY <1>10 DEF BeatEnds
  <2>2. CASE h \in temps
    BY <1>10, <2>1, <2>2 DEF BeatEnds, RenameTemp
  <2>3. CASE h \notin temps
    BY <1>10, <2>1, <2>3 DEF BeatEnds
  <2> QED BY <2>2, <2>3
<1>11. ASSUME NEW h \in Holders, StopBeat(h) PROVE Held'
  BY <1>11 DEF StopBeat
<1>12. ASSUME NEW h \in Holders, RemoveLock(h) PROVE Held'
  BY <1>12 DEF RemoveLock, RemoveDir
<1>13. ASSUME NEW h \in Holders, BeatFails(h) \/ HolderDies(h) \/ HolderExits(h) PROVE Held'
  BY <1>13 DEF BeatFails, HolderDies, HolderExits
<1> QED
  BY <1>1, <1>2, <1>3, <1>4, <1>5, <1>6, <1>7, <1>8, <1>9, <1>10, <1>11, <1>12, <1>13
  DEF LockNext

\* The inductive invariant of the store lock: someone keeps the directory alive, and
\* one call is under it.
THEOREM LockInvariance == LockSpec => []LockInv
<1>1. LockInit => LockInv
  <2> SUFFICES ASSUME LockInit PROVE LockInv
    OBVIOUS
  <2>1. LockTypeOK
    <3>1. lockStep \in [Holders -> LockSteps] /\ beat \in [Holders -> Beats]
      BY DEF LockInit, LockSteps, Beats
    <3>2. trouble \in 0..MaxTrouble
      BY StoreLockAssumption DEF LockInit
    <3> QED BY <3>1, <3>2 DEF LockInit, LockTypeOK
  <2>2. Occupied = {}
    BY DEF LockInit, Occupied, Inside, Opening
  <2>3. Held
    BY <2>2 DEF LockInit, Held, Kept, Alone, Steady, DirPresent, Quiet, Occupied, LockAt
  <2> QED BY <2>1, <2>3 DEF LockInv
<1>2. LockInv /\ [LockNext]_lockVars => LockInv'
  BY LockTypesKept, TroubleStays, HeldKept DEF LockInv
<1> QED
  BY <1>1, <1>2, PTL DEF LockSpec

\* Without crashes, stalls and failed writes one call at a time runs under the store
\* lock, and the directory is there while it does (acquireStoreWriteLock).
THEOREM StoreLockExcludes == LockSpec => []StoreExclusive
<1>1. LockInv => StoreExclusive
  <2> SUFFICES ASSUME Held
               PROVE  Cardinality(Inside) <= 1 /\ (Inside # {} => lockDir = "owned")
    BY DEF LockInv, StoreExclusive
  <2>1. CASE Inside = {}
    BY <2>1, FS_EmptySet
  <2>2. ASSUME NEW h \in Inside PROVE Cardinality(Inside) <= 1
    <3>1. Inside = {h}
      BY <2>2 DEF Held, Alone, Occupied
    <3> QED BY <3>1, FS_Singleton
  <2> QED BY <2>1, <2>2 DEF Held, DirPresent
<1> QED
  BY <1>1, LockInvariance, PTL

-----------------------------------------------------------------------------
\* The steps of an install.

YamlSteps == {"enable_bridge", "configure_provider", "enable_gateway"}
ProviderFileSteps ==
  {"gateway_plugin", "provider_plugin", "provider_config", "reset_tips",
   "consolidation", "maturation", "memory_cycle"}
ReadSteps == {"read_yaml", "read_cron", "read_registry"}
ChangeSteps == YamlSteps \cup {"upsert_cron", "record_installation"}
StepNames == {"config", "shim"} \cup FileSteps \cup ReadSteps \cup ChangeSteps

\* Step s is still to come.
Ahead(q, s) == \E k \in 1 .. Len(q) : q[k] = s

\* What is over when step s is next, and what was read just before it.
Prior(s) ==
  CASE s = "enable_bridge" -> {"bridge_plugin"}
    [] s \in {"upsert_cron", "configure_provider", "enable_gateway"} -> ProviderFileSteps
    [] s = "record_installation" -> StepNames \ {s}
    [] OTHER -> {}
ReadFor(s) ==
  CASE s \in YamlSteps -> "read_yaml"
    [] s = "upsert_cron" -> "read_cron"
    [] OTHER -> "read_registry"
StepsInOrder(q) == \A j, k \in 1 .. Len(q) : j < k => q[k] \notin Prior(q[j])
ReadsFirst(q) == \A k \in 1 .. Len(q) : k > 1 /\ q[k] \in ChangeSteps => q[k - 1] = ReadFor(q[k])

\* A list of steps, each in its order and no reading missing; the last one records.
Sound(q) == q \in Seq(StepNames) /\ StepsInOrder(q) /\ ReadsFirst(q)
Ends(q) == q # <<>> /\ q[Len(q)] = "record_installation"

-----------------------------------------------------------------------------
\* What the files may hold, and what an operator may have read in them.

\* Of the plugins only the bridge may be disabled, and no line of a list that is indented
\* as the installer's own continues another.
Yamls == {y \in Yaml : y.disabled \subseteq {"bridge"} /\ (~y.indented => y.folded = {})}
Crons == [names : SUBSET {"own", "legacy", "cycle"}, deliver : {"local", "origin"}]

GoodYaml(y) ==
  y # Missing =>
    /\ y \in Yamls /\ "own" \in y.listed
    /\ "bridge" \in y.listed => Placed(BridgeFiles)
    /\ "gateway" \in y.listed => Placed(ProviderFiles)
    /\ y.provider = "cristalina" => Placed(ProviderFiles \cup CycleFiles)
GoodCron(c) ==
  /\ c \in Crons \cup {Missing}
  /\ hadJobs => c # Missing /\ "own" \in c.names
  /\ c # Missing /\ "cycle" \in c.names =>
       Placed(ProviderFiles \cup CycleFiles) /\ "legacy" \notin c.names
GoodRegistry(g) ==
  /\ g \in [Runtimes -> Installs \cup {Missing}]
  /\ \A r \in Runtimes : g[r] # Missing => configured /\ Placed(Named(g[r]))

FilesGood ==
  /\ GoodYaml(yaml) /\ GoodRegistry(registry)
  /\ IF cron = Invalid THEN ~hadJobs ELSE GoodCron(cron)
  /\ configured \in BOOLEAN /\ overlapped \in BOOLEAN /\ hadJobs \in BOOLEAN
  /\ shim \in {"none", "foreign", "managed"}
  /\ placed \subseteq FileNames
  /\ lastDone \in Installs \cup {Missing}
  /\ jobs \in 0 .. MaxJobs /\ breaks \in 0 .. MaxBreaks

\* An operator between installs, or at one.
Waits(w) == w \in [todo : SUBSET Installs, steps : {<<>>}, seen : {Missing}]
Works(w) ==
  /\ w = [install |-> w.install, todo |-> w.todo, steps |-> w.steps, seen |-> w.seen]
  /\ w.install \in Installs /\ w.todo \subseteq Installs
  /\ Sound(w.steps) /\ Ends(w.steps)
  /\ Ahead(w.steps, "enable_bridge") => Bridges(w.install)
  /\ \A s \in {"upsert_cron", "configure_provider", "enable_gateway"} :
       Ahead(w.steps, s) => Provides(w.install)

\* What it has read fits the next step, and what is over has been done.
SeenGood(w) ==
  LET s == Head(w.steps)
  IN /\ s \in YamlSteps => GoodYaml(w.seen) /\ (w.seen = Missing <=> yaml = Missing)
     /\ s = "upsert_cron" => GoodCron(w.seen)
     /\ s = "record_installation" => GoodRegistry(w.seen)
DoneGood(w) ==
  /\ Ahead(w.steps, "config") \/ configured
  /\ \A f \in Named(w.install) : Ahead(w.steps, f[2]) \/ f \in placed

WorkersGood ==
  /\ DOMAIN worker = Operators
  /\ \A o \in Operators :
       Waits(worker[o]) \/ (Works(worker[o]) /\ SeenGood(worker[o]) /\ DoneGood(worker[o]))

\* As long as no two overlapped: one operator is at work; what it has read is what is
\* there, and what its install is to do to config.yaml is done once the step is over.
Entered(i, q) ==
  yaml # Missing =>
    /\ Bridges(i) /\ ~Ahead(q, "enable_bridge") => "bridge" \in yaml.listed \ yaml.disabled
    /\ Provides(i) /\ ~Ahead(q, "configure_provider") =>
         yaml.provider = "cristalina" /\ ("bridge" \in yaml.listed => i.mode = "both")
    /\ Provides(i) /\ ~Ahead(q, "enable_gateway") => "gateway" \in yaml.listed
UpToDate(w) ==
  /\ Head(w.steps) \in YamlSteps => w.seen = yaml
  /\ Head(w.steps) = "record_installation" => w.seen = registry
  /\ Entered(w.install, w.steps)
OneAtWork ==
  ~overlapped =>
    /\ \A o, q \in Operators : Busy(o) /\ Busy(q) => o = q
    /\ \A o \in Operators : worker[o].steps # <<>> =>
         /\ UpToDate(worker[o])
         /\ lastDone # Missing => worker[o].install.runtime = "openclaw"
    /\ lastDone # Missing =>
         registry["hermes"] = lastDone /\ lastDone.runtime = "hermes" /\ Entered(lastDone, <<>>)

InstallInv == FilesGood /\ WorkersGood /\ OneAtWork

-----------------------------------------------------------------------------
\* Hermes.

\* An event has an id one of the plugins gives its turn; with the provider a finished turn
\* has an event of its session and text once its thread is over, and with the bridge plugin
\* the file of its id, of itself or of a later turn; the provider alone makes one event of
\* a turn, once its thread is over.
Finished == 1 .. Len(turns)
ByProvider(e, t) == e.id[1] = "provider" /\ e.id[2] = turns[t] /\ e.id[4] = TextOf[t]
ByBridge(e, t) == e.id = BridgeId(t, turns[t])
Captured ==
  /\ host \in {"off", "up", "down"} /\ loaded \subseteq {"provider", "bridge"}
  /\ turns \in Seq({1, 2}) /\ Len(turns) <= MaxTurns
  /\ session \in [id : {1, 2}, turn : 0 .. MaxTurns]
  /\ syncing \subseteq Finished
  /\ host = "off" => turns = <<>> /\ events = {}
  /\ \A e \in events : e.turn \in Finished /\ (ByProvider(e, e.turn) \/ ByBridge(e, e.turn))
  /\ "provider" \in loaded => \A t \in Finished \ syncing : \E e \in events : ByProvider(e, t)
  /\ "bridge" \in loaded => \A t \in Finished : KeptByBridge(t)
AloneOnce ==
  alone => /\ loaded = {"provider"}
           /\ \A e \in events : e.turn \notin syncing
           /\ \A e, f \in events : e.turn = f.turn => e = f

HostInv == InstallInv /\ Captured /\ AloneOnce

-----------------------------------------------------------------------------
\* The parts of an install's steps, and their joining.

FirstSteps == <<"config", "shim", "metadata", "hook">>
BridgeSteps == <<"bridge_plugin", "read_yaml", "enable_bridge">>
ProviderSteps ==
  <<"gateway_plugin", "provider_plugin", "provider_config", "reset_tips",
    "consolidation", "maturation", "memory_cycle", "read_cron", "upsert_cron",
    "read_yaml", "configure_provider", "read_yaml", "enable_gateway">>
LastSteps == <<"read_registry", "record_installation">>

LEMMA StepsNamed ==
  FileSteps \subseteq StepNames /\ ChangeSteps \subseteq StepNames /\ ReadSteps \subseteq StepNames
BY DEF StepNames

\* What follows what is over stays in order.
LEMMA JoinedSteps ==
  ASSUME NEW p, NEW q, Sound(p), Sound(q),
         \A x, y \in StepNames : Ahead(p, x) /\ Ahead(q, y) => y \notin Prior(x),
         q # <<>> => q[1] \notin ChangeSteps
  PROVE  /\ Sound(p \o q)
         /\ \A s : Ahead(p \o q, s) <=> Ahead(p, s) \/ Ahead(q, s)
         /\ p # <<>> => p \o q # <<>> /\ (p \o q)[1] = p[1]
         /\ Ends(q) => Ends(p \o q)
<1> DEFINE r == p \o q
<1>1. /\ p \in Seq(StepNames) /\ q \in Seq(StepNames) /\ r \in Seq(StepNames)
      /\ Len(p) \in Nat /\ Len(q) \in Nat /\ Len(r) = Len(p) + Len(q)
      /\ \A k \in 1 .. Len(r) : r[k] = IF k <= Len(p) THEN p[k] ELSE q[k - Len(p)]
  BY ConcatProperties DEF Sound
<1>2. \A k \in 1 .. Len(p) : p[k] \in StepNames /\ Ahead(p, p[k])
  BY <1>1, ElementOfSeq DEF Ahead
<1>3. \A k \in 1 .. Len(q) : q[k] \in StepNames /\ Ahead(q, q[k])
  BY <1>1, ElementOfSeq DEF Ahead
<1> HIDE DEF r
<1>4. StepsInOrder(r)
  <2> SUFFICES ASSUME NEW j \in 1 .. Len(r), NEW k \in 1 .. Len(r), j < k
               PROVE  r[k] \notin Prior(r[j])
    BY DEF StepsInOrder
  <2>1. CASE k <= Len(p)
    <3>1. j \in 1 .. Len(p) /\ k \in 1 .. Len(p) /\ r[j] = p[j] /\ r[k] = p[k]
      BY <1>1, <2>1
    <3> QED BY <3>1 DEF Sound, StepsInOrder
  <2>2. CASE j > Len(p)
    <3>1. /\ j - Len(p) \in 1 .. Len(q) /\ k - Len(p) \in 1 .. Len(q) /\ j - Len(p) < k - Len(p)
          /\ r[j] = q[j - Len(p)] /\ r[k] = q[k - Len(p)]
      BY <1>1, <2>2
    <3> QED BY <3>1 DEF Sound, StepsInOrder
  <2>3. CASE j <= Len(p) /\ k > Len(p)
    <3>1. j \in 1 .. Len(p) /\ k - Len(p) \in 1 .. Len(q) /\ r[j] = p[j] /\ r[k] = q[k - Len(p)]
      BY <1>1, <2>3
    <3> QED BY <1>2, <1>3, <3>1
  <2> QED BY <1>1, <2>1, <2>2, <2>3
<1>5. ReadsFirst(r)
  <2> SUFFICES ASSUME NEW k \in 1 .. Len(r), k > 1, r[k] \in ChangeSteps
               PROVE  r[k - 1] = ReadFor(r[k])
    BY DEF ReadsFirst
  <2>1. CASE k <= Len(p)
    <3>1. k \in 1 .. Len(p) /\ k - 1 \in 1 .. Len(p) /\ k - 1 \in 1 .. Len(r)
      BY <1>1, <2>1
    <3>2. r[k] = p[k] /\ r[k - 1] = p[k - 1]
      BY <1>1, <2>1, <3>1
    <3> QED BY <3>1, <3>2 DEF Sound, ReadsFirst
  <2>2. CASE k > Len(p) + 1
    <3>1. /\ k - Len(p) \in 1 .. Len(q) /\ k - Len(p) > 1 /\ k - 1 \in 1 .. Len(r)
          /\ (k - Len(p)) - 1 = (k - 1) - Len(p) /\ ~(k - 1 <= Len(p)) /\ ~(k <= Len(p))
      BY <1>1, <2>2
    <3>2. r[k] = q[k - Len(p)] /\ r[k - 1] = q[(k - Len(p)) - 1]
      BY <1>1, <3>1
    <3> QED BY <3>1, <3>2 DEF Sound, ReadsFirst
  <2>3. CASE k = Len(p) + 1
    <3>1. k - Len(p) = 1 /\ r[k] = q[1] /\ q # <<>>
      BY <1>1, <2>3
    <3> QED BY <3>1
  <2> QED BY <1>1, <2>1, <2>2, <2>3
<1>6. ASSUME NEW s PROVE Ahead(r, s) <=> Ahead(p, s) \/ Ahead(q, s)
  <2>1. ASSUME NEW k \in 1 .. Len(r), r[k] = s PROVE Ahead(p, s) \/ Ahead(q, s)
    <3>1. CASE k <= Len(p)
      BY <1>1, <2>1, <3>1 DEF Ahead
    <3>2. CASE k > Len(p)
      <4>1. k - Len(p) \in 1 .. Len(q) /\ q[k - Len(p)] = s
        BY <1>1, <2>1, <3>2
      <4> QED BY <4>1 DEF Ahead
    <3> QED BY <1>1, <3>1, <3>2
  <2>2. ASSUME NEW k \in 1 .. Len(p), p[k] = s PROVE Ahead(r, s)
    <3>1. k \in 1 .. Len(r) /\ r[k] = s
      BY <1>1, <2>2
    <3> QED BY <3>1 DEF Ahead
  <2>3. ASSUME NEW k \in 1 .. Len(q), q[k] = s PROVE Ahead(r, s)
    <3>1. k + Len(p) \in 1 .. Len(r) /\ r[k + Len(p)] = s
      <4>1. k + Len(p) \in 1 .. Len(r) /\ ~(k + Len(p) <= Len(p)) /\ (k + Len(p)) - Len(p) = k
        BY <1>1
      <4> QED BY <1>1, <2>3, <4>1
    <3> QED BY <3>1 DEF Ahead
  <2> QED BY <2>1, <2>2, <2>3 DEF Ahead
<1>7. p # <<>> => r # <<>> /\ r[1] = p[1]
  BY <1>1
<1>8. Ends(q) => Ends(r)
  <2> SUFFICES ASSUME Ends(q) PROVE Ends(r)
    OBVIOUS
  <2>1. Len(q) \in 1 .. Len(q) /\ Len(r) \in 1 .. Len(r) /\ ~(Len(r) <= Len(p)) /\ Len(r) - Len(p) = Len(q)
    BY <1>1 DEF Ends
  <2>2. r[Len(r)] = q[Len(q)]
    BY <1>1, <2>1
  <2> QED BY <1>1, <2>1, <2>2 DEF Ends
<1> QED BY <1>1, <1>4, <1>5, <1>6, <1>7, <1>8 DEF Sound, r

LEMMA PriorIs ==
  /\ Prior("enable_bridge") = {"bridge_plugin"}
  /\ \A s \in {"upsert_cron", "configure_provider", "enable_gateway"} : Prior(s) = ProviderFileSteps
  /\ Prior("record_installation") = StepNames \ {"record_installation"}
  /\ \A s : s \notin ChangeSteps => Prior(s) = {}
<1>1. \A s : s \notin ChangeSteps => Prior(s) = {}
  BY DEF Prior, ChangeSteps, YamlSteps
<1> QED BY <1>1 DEF Prior

LEMMA ReadForIs ==
  /\ \A s \in YamlSteps : ReadFor(s) = "read_yaml"
  /\ ReadFor("upsert_cron") = "read_cron"
  /\ ReadFor("record_installation") = "read_registry"
BY DEF ReadFor, YamlSteps

LEMMA FirstSound ==
  /\ Sound(FirstSteps) /\ FirstSteps # <<>> /\ FirstSteps[1] = "config"
  /\ \A s : Ahead(FirstSteps, s) <=> s \in {"config", "shim", "metadata", "hook"}
<1>1. /\ FirstSteps \in Seq(StepNames) /\ Len(FirstSteps) = 4 /\ FirstSteps # <<>>
      /\ FirstSteps[1] = "config" /\ FirstSteps[2] = "shim"
      /\ FirstSteps[3] = "metadata" /\ FirstSteps[4] = "hook"
  BY DEF FirstSteps, StepNames, FileSteps, ReadSteps, ChangeSteps, YamlSteps
<1>2. \A k \in 1 .. 4 : k = 1 \/ k = 2 \/ k = 3 \/ k = 4
  OBVIOUS
<1>3. \A s : Ahead(FirstSteps, s) <=> s \in {"config", "shim", "metadata", "hook"}
  BY <1>1, <1>2 DEF Ahead
<1>4. StepsInOrder(FirstSteps)
  BY <1>1, <1>2, PriorIs DEF StepsInOrder, ChangeSteps, YamlSteps
<1>5. ReadsFirst(FirstSteps)
  BY <1>1, <1>2, ReadForIs DEF ReadsFirst, ChangeSteps, YamlSteps
<1> QED BY <1>1, <1>3, <1>4, <1>5 DEF Sound

LEMMA BridgeSound ==
  /\ Sound(BridgeSteps) /\ BridgeSteps # <<>> /\ BridgeSteps[1] = "bridge_plugin"
  /\ \A s : Ahead(BridgeSteps, s) <=> s \in {"bridge_plugin", "read_yaml", "enable_bridge"}
<1>1. /\ BridgeSteps \in Seq(StepNames) /\ Len(BridgeSteps) = 3 /\ BridgeSteps # <<>>
      /\ BridgeSteps[1] = "bridge_plugin" /\ BridgeSteps[2] = "read_yaml"
      /\ BridgeSteps[3] = "enable_bridge"
  BY DEF BridgeSteps, StepNames, FileSteps, ReadSteps, ChangeSteps, YamlSteps
<1>2. \A k \in 1 .. 3 : k = 1 \/ k = 2 \/ k = 3
  OBVIOUS
<1>3. \A s : Ahead(BridgeSteps, s) <=> s \in {"bridge_plugin", "read_yaml", "enable_bridge"}
  BY <1>1, <1>2 DEF Ahead
<1>4. StepsInOrder(BridgeSteps)
  BY <1>1, <1>2, PriorIs DEF StepsInOrder, ChangeSteps, YamlSteps
<1>5. ReadsFirst(BridgeSteps)
  BY <1>1, <1>2, ReadForIs DEF ReadsFirst, ChangeSteps, YamlSteps
<1> QED BY <1>1, <1>3, <1>4, <1>5 DEF Sound

LEMMA ProviderSound ==
  /\ Sound(ProviderSteps) /\ ProviderSteps # <<>> /\ ProviderSteps[1] = "gateway_plugin"
  /\ \A s : Ahead(ProviderSteps, s) <=> s \in ProviderFileSteps \cup {"read_cron", "upsert_cron", "read_yaml",
                                           "configure_provider", "enable_gateway"}
<1>1. /\ ProviderSteps \in Seq(StepNames) /\ Len(ProviderSteps) = 13 /\ ProviderSteps # <<>>
      /\ ProviderSteps[1] = "gateway_plugin" /\ ProviderSteps[2] = "provider_plugin"
      /\ ProviderSteps[3] = "provider_config" /\ ProviderSteps[4] = "reset_tips"
      /\ ProviderSteps[5] = "consolidation" /\ ProviderSteps[6] = "maturation"
      /\ ProviderSteps[7] = "memory_cycle" /\ ProviderSteps[8] = "read_cron"
      /\ ProviderSteps[9] = "upsert_cron" /\ ProviderSteps[10] = "read_yaml"
      /\ ProviderSteps[11] = "configure_provider" /\ ProviderSteps[12] = "read_yaml"
      /\ ProviderSteps[13] = "enable_gateway"
  BY DEF ProviderSteps, StepNames, FileSteps, ReadSteps, ChangeSteps, YamlSteps
<1>2. \A k \in 1 .. 13 : k = 1 \/ k = 2 \/ k = 3 \/ k = 4 \/ k = 5 \/ k = 6 \/ k = 7 \/ k = 8 \/ k = 9 \/ k = 10 \/ k = 11 \/ k = 12 \/ k = 13
  OBVIOUS
<1>3. \A s : Ahead(ProviderSteps, s) <=> s \in ProviderFileSteps \cup {"read_cron", "upsert_cron", "read_yaml",
                                           "configure_provider", "enable_gateway"}
  BY <1>1, <1>2 DEF Ahead, ProviderFileSteps
<1>4. StepsInOrder(ProviderSteps)
  BY <1>1, <1>2, PriorIs DEF StepsInOrder, ChangeSteps, YamlSteps, ProviderFileSteps
<1>5. ReadsFirst(ProviderSteps)
  BY <1>1, <1>2, ReadForIs DEF ReadsFirst, ChangeSteps, YamlSteps
<1> QED BY <1>1, <1>3, <1>4, <1>5 DEF Sound

LEMMA LastSound ==
  /\ Sound(LastSteps) /\ LastSteps # <<>> /\ LastSteps[1] = "read_registry"
  /\ \A s : Ahead(LastSteps, s) <=> s \in {"read_registry", "record_installation"}
<1>1. /\ LastSteps \in Seq(StepNames) /\ Len(LastSteps) = 2 /\ LastSteps # <<>>
      /\ LastSteps[1] = "read_registry" /\ LastSteps[2] = "record_installation"
  BY DEF LastSteps, StepNames, FileSteps, ReadSteps, ChangeSteps, YamlSteps
<1>2. \A k \in 1 .. 2 : k = 1 \/ k = 2
  OBVIOUS
<1>3. \A s : Ahead(LastSteps, s) <=> s \in {"read_registry", "record_installation"}
  BY <1>1, <1>2 DEF Ahead
<1>4. StepsInOrder(LastSteps)
  BY <1>1, <1>2, PriorIs DEF StepsInOrder, ChangeSteps, YamlSteps
<1>5. ReadsFirst(LastSteps)
  BY <1>1, <1>2, ReadForIs DEF ReadsFirst, ChangeSteps, YamlSteps
<1> QED BY <1>1, <1>3, <1>4, <1>5 DEF Sound

\* What the steps of an install are.
LEMMA StepsOf ==
  ASSUME NEW i \in Installs
  PROVE  /\ Sound(Steps(i)) /\ Ends(Steps(i)) /\ Head(Steps(i)) = "config"
         /\ Ahead(Steps(i), "enable_bridge") <=> Bridges(i)
         /\ \A s \in {"upsert_cron", "configure_provider", "enable_gateway"} :
              Ahead(Steps(i), s) <=> Provides(i)
         /\ Ahead(Steps(i), "config")
         /\ \A f \in Named(i) : f = <<i.runtime, f[2]>> /\ f[2] \in FileSteps /\ Ahead(Steps(i), f[2])
<1> DEFINE None == <<>>
           B == IF Bridges(i) THEN BridgeSteps ELSE None
           P == IF Provides(i) THEN ProviderSteps ELSE None
           one == FirstSteps \o B
           two == one \o P
           all == two \o LastSteps
<1>1. Steps(i) = all
  BY DEF Steps, FirstSteps, BridgeSteps, ProviderSteps, LastSteps
<1>2. Sound(None) /\ (\A s : ~Ahead(None, s))
  BY DEF Sound, StepsInOrder, ReadsFirst, Ahead
<1>3. /\ Sound(B) /\ (B # <<>> => B[1] \notin ChangeSteps)
      /\ \A s : Ahead(B, s) <=> Bridges(i) /\ s \in {"bridge_plugin", "read_yaml", "enable_bridge"}
  BY <1>2, BridgeSound DEF ChangeSteps, YamlSteps
<1>4. /\ Sound(P) /\ (P # <<>> => P[1] \notin ChangeSteps)
      /\ \A s : Ahead(P, s) <=> Provides(i) /\ s \in ProviderFileSteps \cup
           {"read_cron", "upsert_cron", "read_yaml", "configure_provider", "enable_gateway"}
  BY <1>2, ProviderSound DEF ChangeSteps, YamlSteps
<1> HIDE DEF None, B, P
<1>5. /\ Sound(one) /\ one # <<>> /\ one[1] = "config"
      /\ \A s : Ahead(one, s) <=> Ahead(FirstSteps, s) \/ Ahead(B, s)
  <2>1. \A x : Ahead(FirstSteps, x) => Prior(x) = {}
    BY FirstSound, PriorIs DEF ChangeSteps, YamlSteps
  <2> QED BY <1>3, <2>1, FirstSound, JoinedSteps
<1> HIDE DEF one
<1>6. /\ Sound(two) /\ two # <<>> /\ two[1] = "config"
      /\ \A s : Ahead(two, s) <=> Ahead(one, s) \/ Ahead(P, s)
  <2>1. \A x : Ahead(one, x) => Prior(x) \subseteq {"bridge_plugin"}
    BY <1>3, <1>5, FirstSound, PriorIs DEF ChangeSteps, YamlSteps
  <2>2. ~Ahead(P, "bridge_plugin")
    BY <1>4 DEF ProviderFileSteps
  <2> QED BY <1>4, <1>5, <2>1, <2>2, JoinedSteps
<1> HIDE DEF two
<1>7. /\ Sound(all) /\ all # <<>> /\ all[1] = "config" /\ Ends(all)
      /\ \A s : Ahead(all, s) <=> Ahead(two, s) \/ Ahead(LastSteps, s)
  <2>1. \A x : Ahead(two, x) => Prior(x) \subseteq ProviderFileSteps \cup {"bridge_plugin"}
    BY <1>3, <1>4, <1>5, <1>6, FirstSound, PriorIs DEF ChangeSteps, YamlSteps, ProviderFileSteps
  <2>2. \A y : Ahead(LastSteps, y) => y \notin ProviderFileSteps \cup {"bridge_plugin"}
    BY LastSound DEF ProviderFileSteps
  <2>3. LastSteps[1] \notin ChangeSteps /\ Ends(LastSteps)
    BY LastSound DEF ChangeSteps, YamlSteps, Ends, LastSteps
  <2> QED BY <1>6, <2>1, <2>2, <2>3, LastSound, JoinedSteps
<1>8. Head(all) = all[1]
  BY <1>7 DEF Sound
<1>9. \A s : Ahead(Steps(i), s) <=> \/ Ahead(FirstSteps, s) \/ Ahead(B, s) \/ Ahead(P, s) \/ Ahead(LastSteps, s)
  BY <1>1, <1>5, <1>6, <1>7
<1>10. ASSUME NEW f \in Named(i)
       PROVE  f = <<i.runtime, f[2]>> /\ f[2] \in FileSteps /\ Ahead(Steps(i), f[2])
  <2>1. CASE f \in HookFiles(i.runtime)
    <3>1. f = <<i.runtime, f[2]>> /\ f[2] \in {"metadata", "hook"}
      BY <2>1 DEF HookFiles, Under
    <3> QED BY <1>9, <3>1, FirstSound DEF FileSteps
  <2>2. CASE Bridges(i) /\ f \in BridgeFiles
    <3>1. f = <<i.runtime, f[2]>> /\ f[2] = "bridge_plugin"
      BY <2>2 DEF BridgeFiles, Bridges, Under
    <3> QED BY <1>3, <1>9, <2>2, <3>1 DEF FileSteps
  <2>3. CASE Provides(i) /\ f \in ProviderFiles \cup CycleFiles
    <3>1. f = <<i.runtime, f[2]>> /\ f[2] \in ProviderFileSteps
      BY <2>3 DEF ProviderFiles, CycleFiles, Provides, Under, ProviderFileSteps
    <3> QED BY <1>4, <1>9, <2>3, <3>1 DEF FileSteps, ProviderFileSteps
  <2> QED BY <2>1, <2>2, <2>3 DEF Named
<1>11. /\ Ahead(Steps(i), "enable_bridge") <=> Bridges(i)
       /\ \A s \in {"upsert_cron", "configure_provider", "enable_gateway"} :
            Ahead(Steps(i), s) <=> Provides(i)
       /\ Ahead(Steps(i), "config")
  BY <1>3, <1>4, <1>9, FirstSound, LastSound DEF ProviderFileSteps
<1> QED BY <1>1, <1>7, <1>8, <1>10, <1>11

\* What remains once the first step is over.
LEMMA RestOf ==
  ASSUME NEW q, Sound(q), Ends(q)
  PROVE  /\ \A s : Ahead(q, s) <=> s = Head(q) \/ Ahead(Tail(q), s)
         /\ \A s : Ahead(Tail(q), s) => s \notin Prior(Head(q))
         /\ Head(q) # "record_installation" =>
              /\ Sound(Tail(q)) /\ Ends(Tail(q))
              /\ Head(Tail(q)) \in ChangeSteps => Head(q) = ReadFor(Head(Tail(q)))
<1> DEFINE r == Tail(q)
<1>1. /\ q \in Seq(StepNames) /\ Len(q) \in Nat /\ Len(q) >= 1 /\ Head(q) = q[1]
      /\ r \in Seq(StepNames) /\ Len(r) = Len(q) - 1
      /\ \A k \in 1 .. Len(r) : r[k] = q[k + 1]
  BY HeadTailProperties DEF Sound, Ends
<1> HIDE DEF r
<1>2. ASSUME NEW s PROVE Ahead(q, s) <=> s = Head(q) \/ Ahead(r, s)
  <2>1. ASSUME NEW k \in 1 .. Len(q), q[k] = s PROVE s = Head(q) \/ Ahead(r, s)
    <3>1. CASE k = 1
      BY <1>1, <2>1, <3>1
    <3>2. CASE k > 1
      <4>1. k - 1 \in 1 .. Len(r) /\ (k - 1) + 1 = k
        BY <1>1, <3>2
      <4>2. r[k - 1] = s
        BY <1>1, <2>1, <4>1
      <4> QED BY <4>1, <4>2 DEF Ahead
    <3> QED BY <1>1, <3>1, <3>2
  <2>2. ASSUME NEW k \in 1 .. Len(r), r[k] = s PROVE Ahead(q, s)
    <3>1. k + 1 \in 1 .. Len(q) /\ q[k + 1] = s
      BY <1>1, <2>2
    <3> QED BY <3>1 DEF Ahead
  <2>3. 1 \in 1 .. Len(q)
    BY <1>1
  <2> QED BY <1>1, <2>1, <2>2, <2>3 DEF Ahead
<1>3. ASSUME NEW s, Ahead(r, s) PROVE s \notin Prior(Head(q))
  <2>1. PICK k \in 1 .. Len(r) : r[k] = s
    BY <1>3 DEF Ahead
  <2>2. 1 \in 1 .. Len(q) /\ k + 1 \in 1 .. Len(q) /\ 1 < k + 1 /\ q[k + 1] = s
    BY <1>1, <2>1
  <2> QED BY <1>1, <2>2 DEF Sound, StepsInOrder
<1>4. ASSUME Head(q) # "record_installation"
      PROVE  /\ Sound(r) /\ Ends(r)
             /\ Head(r) \in ChangeSteps => Head(q) = ReadFor(Head(r))
  <2>1. Len(q) > 1 /\ r # <<>>
    BY <1>1, <1>4 DEF Ends
  <2>2. Ends(r)
    <3>1. Len(r) \in 1 .. Len(r) /\ Len(r) + 1 = Len(q)
      BY <1>1, <2>1
    <3> QED BY <1>1, <2>1, <3>1 DEF Ends
  <2>3. StepsInOrder(r)
    <3> SUFFICES ASSUME NEW j \in 1 .. Len(r), NEW k \in 1 .. Len(r), j < k
                 PROVE  r[k] \notin Prior(r[j])
      BY DEF StepsInOrder
    <3>1. j + 1 \in 1 .. Len(q) /\ k + 1 \in 1 .. Len(q) /\ j + 1 < k + 1
      BY <1>1
    <3> QED BY <1>1, <3>1 DEF Sound, StepsInOrder
  <2>4. ReadsFirst(r)
    <3> SUFFICES ASSUME NEW k \in 1 .. Len(r), k > 1, r[k] \in ChangeSteps
                 PROVE  r[k - 1] = ReadFor(r[k])
      BY DEF ReadsFirst
    <3>1. k + 1 \in 1 .. Len(q) /\ k + 1 > 1 /\ (k + 1) - 1 = (k - 1) + 1 /\ k - 1 \in 1 .. Len(r)
      BY <1>1
    <3>2. r[k] = q[k + 1] /\ r[k - 1] = q[(k + 1) - 1]
      BY <1>1, <3>1
    <3> QED BY <3>1, <3>2 DEF Sound, ReadsFirst
  <2>5. Head(r) \in ChangeSteps => Head(q) = ReadFor(Head(r))
    <3>1. 2 \in 1 .. Len(q) /\ 2 > 1 /\ 2 - 1 = 1 /\ 1 \in 1 .. Len(r) /\ 1 + 1 = 2
      BY <1>1, <2>1
    <3>2. Head(r) = q[2]
      BY <1>1, <2>1, <3>1
    <3> QED BY <1>1, <3>1, <3>2 DEF Sound, ReadsFirst
  <2> QED BY <1>1, <2>2, <2>3, <2>4, <2>5 DEF Sound
<1> QED BY <1>2, <1>3, <1>4 DEF r

-----------------------------------------------------------------------------
\* One operator goes on.

LEMMA KindsDiffer ==
  /\ Missing # Invalid
  /\ \A x \in Yamls : x # Missing
  /\ \A x \in Crons : x # Missing /\ x # Invalid
  /\ \A x \in Installs : x # Missing
BY DEF Missing, Invalid, Yamls, Yaml, Crons, Installs

LEMMA FreeIs ==
  /\ Free.todo = {} /\ Free.steps = <<>> /\ Free.seen = Missing
  /\ \A S \in SUBSET Installs : Waits([Free EXCEPT !.todo = S]) /\ [Free EXCEPT !.todo = S].steps = <<>>
  /\ Waits(Free)
BY DEF Free, Waits

LEMMA AtOne ==
  ASSUME WorkersGood, NEW o \in Operators
  PROVE  /\ worker[o].steps # <<>> =>
              /\ Works(worker[o]) /\ SeenGood(worker[o]) /\ DoneGood(worker[o]) /\ Busy(o)
         /\ worker[o].steps = <<>> => Waits(worker[o])
BY FreeIs DEF WorkersGood, Waits, Works, Ends, Busy

LEMMA Advanced ==
  ASSUME NEW w, Works(w), Head(w.steps) # "record_installation", NEW v
  PROVE  /\ Works(Stepped(w, v)) /\ Stepped(w, v).steps # <<>>
         /\ Stepped(w, v).install = w.install /\ Stepped(w, v).todo = w.todo
         /\ Stepped(w, v).steps = Tail(w.steps) /\ Stepped(w, v).seen = v
         /\ \A s : Ahead(w.steps, s) <=> s = Head(w.steps) \/ Ahead(Tail(w.steps), s)
         /\ Head(Tail(w.steps)) \in ChangeSteps => Head(w.steps) = ReadFor(Head(Tail(w.steps)))
<1> DEFINE u == Stepped(w, v)
<1>1. u = [install |-> w.install, todo |-> w.todo, steps |-> Tail(w.steps), seen |-> v]
  <2>1. w = [install |-> w.install, todo |-> w.todo, steps |-> w.steps, seen |-> w.seen]
    BY DEF Works
  <2> PICK i, t, q, x : w = [install |-> i, todo |-> t, steps |-> q, seen |-> x]
    BY <2>1
  <2> PICK r : r = Tail(w.steps)
    OBVIOUS
  <2> PICK y : y = [w EXCEPT !.steps = r]
    OBVIOUS
  <2>2. y = [install |-> i, todo |-> t, steps |-> r, seen |-> x]
    OBVIOUS
  <2>3. u = [y EXCEPT !.seen = v]
    BY DEF Stepped
  <2>4. u = [install |-> i, todo |-> t, steps |-> r, seen |-> v]
    BY <2>2, <2>3
  <2> QED BY <2>4
<1>2. /\ \A s : Ahead(w.steps, s) <=> s = Head(w.steps) \/ Ahead(Tail(w.steps), s)
      /\ Sound(Tail(w.steps)) /\ Ends(Tail(w.steps))
      /\ Head(Tail(w.steps)) \in ChangeSteps => Head(w.steps) = ReadFor(Head(Tail(w.steps)))
  BY RestOf DEF Works
<1> HIDE DEF u
<1>3. Works(u)
  BY <1>1, <1>2 DEF Works
<1>4. u.steps # <<>>
  BY <1>1, <1>2 DEF Ends
<1> QED BY <1>1, <1>2, <1>3, <1>4 DEF u

\* What operators share only grows.
OnlyGrows ==
  /\ placed \subseteq placed' /\ (configured => configured') /\ hadJobs' = hadJobs
  /\ (yaml = Missing) = (yaml' = Missing)

LEMMA Grown ==
  ASSUME OnlyGrows, NEW v
  PROVE  /\ GoodYaml(v) => GoodYaml(v)'
         /\ GoodCron(v) => GoodCron(v)'
         /\ GoodRegistry(v) => GoodRegistry(v)'
<1>1. \A F : Placed(F) => Placed(F)'
  BY DEF OnlyGrows, Placed
<1>2. GoodYaml(v) => GoodYaml(v)'
  BY <1>1 DEF GoodYaml
<1>3. GoodCron(v) => GoodCron(v)'
  BY <1>1 DEF GoodCron, OnlyGrows
<1>4. GoodRegistry(v) => GoodRegistry(v)'
  BY <1>1 DEF GoodRegistry, OnlyGrows
<1> QED BY <1>2, <1>3, <1>4

LEMMA WorkerGrown ==
  ASSUME OnlyGrows, NEW w
  PROVE  /\ SeenGood(w) => SeenGood(w)'
         /\ DoneGood(w) => DoneGood(w)'
<1>1. SeenGood(w) => SeenGood(w)'
  BY Grown DEF SeenGood, OnlyGrows
<1>2. DoneGood(w) => DoneGood(w)'
  BY DEF DoneGood, OnlyGrows
<1> QED BY <1>1, <1>2

LEMMA WorkerKept ==
  ASSUME WorkersGood, OnlyGrows, NEW o \in Operators, NEW u, worker' = [worker EXCEPT ![o] = u],
         Waits(u) \/ (Works(u) /\ SeenGood(u)' /\ DoneGood(u)')
  PROVE  WorkersGood'
<1>1. ASSUME NEW q \in Operators
      PROVE  Waits(worker'[q]) \/ (Works(worker'[q]) /\ SeenGood(worker[q])' /\ DoneGood(worker[q])')
  <2>1. CASE q = o
    <3>1. worker'[q] = u
      BY <2>1 DEF WorkersGood
    <3> QED BY <3>1 DEF SeenGood, DoneGood
  <2>2. CASE q # o
    <3> PICK w : w = worker[q]
      OBVIOUS
    <3>1. worker'[q] = w
      BY <2>2 DEF WorkersGood
    <3>2. Waits(w) \/ (Works(w) /\ SeenGood(w) /\ DoneGood(w))
      BY DEF WorkersGood
    <3>3. Waits(w) \/ (Works(w) /\ SeenGood(w)' /\ DoneGood(w)')
      BY <3>2, WorkerGrown
    <3> QED BY <3>1, <3>3 DEF SeenGood, DoneGood
  <2> QED BY <2>1, <2>2
<1> QED BY <1>1 DEF WorkersGood, Waits, Works

LEMMA AdvanceKeeps ==
  ASSUME WorkersGood, OnlyGrows, NEW o \in Operators, NEW v, worker[o].steps # <<>>,
         worker' = [worker EXCEPT ![o] = Stepped(worker[o], v)],
         Head(worker[o].steps) # "record_installation",
         Head(worker[o].steps) = "config" => configured',
         Head(worker[o].steps) \in FileSteps =>
           <<worker[o].install.runtime, Head(worker[o].steps)>> \in placed',
         Head(worker[o].steps) = "read_yaml" => GoodYaml(v) /\ (v = Missing <=> yaml = Missing),
         Head(worker[o].steps) = "read_cron" => GoodCron(v),
         Head(worker[o].steps) = "read_registry" => GoodRegistry(v)
  PROVE  WorkersGood'
<1> PICK w : w = worker[o]
  OBVIOUS
<1> PICK u : u = Stepped(w, v)
  OBVIOUS
<1>1. Works(w) /\ DoneGood(w) /\ Head(w.steps) # "record_installation"
  BY AtOne
<1>2. /\ Works(u) /\ u.install = w.install /\ u.steps = Tail(w.steps) /\ u.seen = v
      /\ \A s : Ahead(w.steps, s) <=> s = Head(w.steps) \/ Ahead(u.steps, s)
      /\ Head(u.steps) \in ChangeSteps => Head(w.steps) = ReadFor(Head(u.steps))
  <2>1. /\ Works(u) /\ u.install = w.install /\ u.steps = Tail(w.steps) /\ u.seen = v
    BY <1>1, Advanced
  <2>2. \A s : Ahead(w.steps, s) <=> s = Head(w.steps) \/ Ahead(Tail(w.steps), s)
    BY <1>1, Advanced
  <2>3. Head(Tail(w.steps)) \in ChangeSteps => Head(w.steps) = ReadFor(Head(Tail(w.steps)))
    BY <1>1, Advanced
  <2> QED BY <2>1, <2>2, <2>3
<1>3. SeenGood(u)'
  <2>1. Head(u.steps) \in YamlSteps => GoodYaml(v)' /\ (v = Missing <=> yaml' = Missing)
    <3> SUFFICES ASSUME Head(u.steps) \in YamlSteps
                 PROVE  GoodYaml(v)' /\ (v = Missing <=> yaml' = Missing)
      OBVIOUS
    <3>1. Head(w.steps) = "read_yaml"
      BY <1>2, ReadForIs DEF ChangeSteps
    <3> QED BY <3>1, Grown DEF OnlyGrows
  <2>2. Head(u.steps) = "upsert_cron" => GoodCron(v)'
    BY <1>2, ReadForIs, Grown DEF ChangeSteps
  <2>3. Head(u.steps) = "record_installation" => GoodRegistry(v)'
    BY <1>2, ReadForIs, Grown DEF ChangeSteps
  <2> QED BY <1>2, <2>1, <2>2, <2>3 DEF SeenGood
<1>4. DoneGood(u)'
  <2>1. Ahead(u.steps, "config") \/ configured'
    BY <1>1, <1>2 DEF DoneGood, OnlyGrows
  <2>2. ASSUME NEW f \in Named(u.install) PROVE Ahead(u.steps, f[2]) \/ f \in placed'
    <3>1. f = <<u.install.runtime, f[2]>> /\ f[2] \in FileSteps
      BY <1>2, StepsOf DEF Works
    <3>2. CASE f[2] = Head(w.steps)
      BY <1>2, <3>1, <3>2
    <3>3. CASE f[2] # Head(w.steps)
      BY <1>1, <1>2, <3>3 DEF DoneGood, OnlyGrows
    <3> QED BY <3>2, <3>3
  <2> QED BY <2>1, <2>2 DEF DoneGood
<1> QED BY <1>2, <1>3, <1>4, WorkerKept

\* What is over at a step.
LEMMA Over ==
  ASSUME NEW w, Works(w), DoneGood(w)
  PROVE  /\ Head(w.steps) = "enable_bridge" => Bridges(w.install) /\ Placed(BridgeFiles)
         /\ Head(w.steps) \in {"upsert_cron", "configure_provider", "enable_gateway"} =>
              Provides(w.install) /\ Placed(ProviderFiles \cup CycleFiles)
         /\ Head(w.steps) = "record_installation" =>
              /\ configured /\ Placed(Named(w.install))
              /\ \A s \in StepNames \ {"record_installation"} : ~Ahead(w.steps, s)
<1>1. /\ \A s : Ahead(w.steps, s) => s \notin Prior(Head(w.steps)) \/ s = Head(w.steps)
      /\ Ahead(w.steps, Head(w.steps))
  BY RestOf DEF Works
<1>2. ASSUME Head(w.steps) = "enable_bridge" PROVE Bridges(w.install) /\ Placed(BridgeFiles)
  <2>1. Bridges(w.install)
    BY <1>1, <1>2 DEF Works
  <2>2. ASSUME NEW f \in BridgeFiles PROVE f \in placed
    <3>1. f \in Named(w.install) /\ f[2] = "bridge_plugin"
      BY <2>1 DEF Named, BridgeFiles, Under
    <3>2. ~Ahead(w.steps, "bridge_plugin")
      BY <1>1, <1>2, PriorIs
    <3> QED BY <3>1, <3>2 DEF DoneGood
  <2> QED BY <2>1, <2>2 DEF Placed
<1>3. Head(w.steps) \in {"upsert_cron", "configure_provider", "enable_gateway"} => Provides(w.install)
  BY <1>1 DEF Works
<1>4. ASSUME Head(w.steps) \in {"upsert_cron", "configure_provider", "enable_gateway"}
      PROVE  Placed(ProviderFiles \cup CycleFiles)
  <2>1. ASSUME NEW f \in ProviderFiles \cup CycleFiles PROVE f \in placed
    <3>1. f \in Named(w.install)
      BY <1>3, <1>4 DEF Named
    <3>2. f[2] \in ProviderFileSteps
      BY DEF ProviderFiles, CycleFiles, Under, ProviderFileSteps
    <3>3. ~Ahead(w.steps, f[2])
      BY <1>1, <1>4, <3>2, PriorIs DEF ProviderFileSteps
    <3> QED BY <3>1, <3>3 DEF DoneGood
  <2> QED BY <2>1 DEF Placed
<1>5. ASSUME Head(w.steps) = "record_installation"
      PROVE  /\ configured /\ Placed(Named(w.install))
             /\ \A s \in StepNames \ {"record_installation"} : ~Ahead(w.steps, s)
  <2>1. \A s \in StepNames \ {"record_installation"} : ~Ahead(w.steps, s)
    BY <1>1, <1>5, PriorIs
  <2>2. "config" \in StepNames \ {"record_installation"} /\ FileSteps \subseteq StepNames \ {"record_installation"}
    BY DEF StepNames, FileSteps
  <2>3. \A f \in Named(w.install) : f[2] \in FileSteps
    BY StepsOf DEF Works
  <2> QED BY <2>1, <2>2, <2>3 DEF DoneGood, Placed
<1> QED BY <1>2, <1>3, <1>4, <1>5

LEMMA AdvanceIs ==
  ASSUME NEW o, NEW v
  PROVE  Advance(o, v) => worker' = [worker EXCEPT ![o] = Stepped(worker[o], v)]
BY DEF Advance

\* What is done in config.yaml stays done while nothing changes it.
LEMMA EnteredKept ==
  ASSUME yaml' = yaml
  PROVE  /\ \A i, q : Entered(i, q) => Entered(i, q)'
         /\ \A w : Works(w) /\ Head(w.steps) \notin YamlSteps \cup {"record_installation"}
                   /\ Entered(w.install, w.steps) => Entered(w.install, Tail(w.steps))'
<1>1. \A i, q : Entered(i, q) => Entered(i, q)'
  BY DEF Entered
<1>2. ASSUME NEW w, Works(w), Head(w.steps) \notin YamlSteps \cup {"record_installation"},
             Entered(w.install, w.steps)
      PROVE  Entered(w.install, Tail(w.steps))'
  <2>1. \A s : Ahead(w.steps, s) <=> s = Head(w.steps) \/ Ahead(Tail(w.steps), s)
    BY <1>2, RestOf DEF Works
  <2>2. \A s \in YamlSteps : ~Ahead(Tail(w.steps), s) => ~Ahead(w.steps, s)
    BY <1>2, <2>1
  <2>3. Entered(w.install, Tail(w.steps))
    BY <1>2, <2>2 DEF Entered, YamlSteps
  <2> QED BY <1>1, <2>3
<1> QED BY <1>1, <1>2

LEMMA InTurn ==
  ASSUME WorkersGood, OneAtWork, NEW o \in Operators, NEW v, NEW w, NEW d,
         w = worker[o], w.steps # <<>>, d = lastDone,
         worker' = [worker EXCEPT ![o] = Stepped(w, v)],
         Head(w.steps) # "record_installation",
         overlapped' = overlapped, lastDone' = lastDone, registry' = registry,
         ~overlapped => Entered(w.install, Tail(w.steps))',
         ~overlapped /\ d # Missing => Entered(d, <<>>)',
         Head(w.steps) = "read_yaml" => v = yaml',
         Head(w.steps) = "read_registry" => v = registry'
  PROVE  OneAtWork'
<1> SUFFICES ASSUME ~overlapped PROVE OneAtWork'
  BY DEF OneAtWork
<1> PICK u : u = Stepped(w, v)
  OBVIOUS
<1>1. Works(w) /\ Busy(o)
  BY AtOne
<1>2. Works(u) /\ u.steps # <<>> /\ u.install = w.install /\ u.steps = Tail(w.steps) /\ u.seen = v
  BY <1>1, Advanced
<1>3. Head(Tail(w.steps)) \in ChangeSteps => Head(w.steps) = ReadFor(Head(Tail(w.steps)))
  BY <1>1, Advanced
<1>4. worker'[o] = u /\ \A q \in Operators \ {o} : worker'[q] = worker[q] /\ worker[q] = Free
  <2>1. DOMAIN worker = Operators
    BY DEF WorkersGood
  <2> QED BY <1>1, <2>1 DEF OneAtWork, Busy
<1>5. \A p, q \in Operators : Busy(p)' /\ Busy(q)' => p = q
  BY <1>4 DEF Busy
<1>6. ASSUME NEW p \in Operators, worker'[p].steps # <<>>
      PROVE  p = o
  BY <1>4, <1>6, FreeIs
<1>7. UpToDate(u)'
  <2>1. Head(u.steps) \in YamlSteps => v = yaml'
    BY <1>2, <1>3, ReadForIs DEF ChangeSteps
  <2>2. Head(u.steps) = "record_installation" => v = registry'
    BY <1>2, <1>3, ReadForIs DEF ChangeSteps
  <2> QED BY <1>2, <2>1, <2>2 DEF UpToDate
<1>8. lastDone # Missing => w.install.runtime = "openclaw"
  BY DEF OneAtWork
<1>9. ASSUME NEW p \in Operators, worker'[p].steps # <<>>
      PROVE  UpToDate(worker[p])' /\ (lastDone' # Missing => worker'[p].install.runtime = "openclaw")
  <2>1. worker'[p] = u
    BY <1>4, <1>6, <1>9
  <2>2. UpToDate(worker[p])'
    BY <1>7, <2>1 DEF UpToDate
  <2> QED BY <1>2, <1>8, <2>1, <2>2
<1>10. lastDone' # Missing =>
         registry'["hermes"] = lastDone' /\ lastDone'.runtime = "hermes" /\ Entered(lastDone, <<>>)'
  <2>1. Entered(d, <<>>)' /\ lastDone' = d => Entered(lastDone, <<>>)'
    BY DEF Entered
  <2> QED BY <2>1 DEF OneAtWork
<1> QED BY <1>5, <1>9, <1>10 DEF OneAtWork

\* A step that changes neither config.yaml nor the registry.
LEMMA QuietAdvance ==
  ASSUME InstallInv, NEW o \in Operators, NEW v, NEW w, w = worker[o], w.steps # <<>>,
         Advance(o, v), Head(w.steps) \notin YamlSteps \cup {"record_installation"},
         UNCHANGED <<yaml, registry, overlapped, lastDone, hadJobs>>,
         placed \subseteq placed', configured => configured',
         Head(w.steps) = "config" => configured',
         Head(w.steps) \in FileSteps => <<w.install.runtime, Head(w.steps)>> \in placed',
         Head(w.steps) = "read_yaml" => v = yaml,
         Head(w.steps) = "read_cron" => GoodCron(v),
         Head(w.steps) = "read_registry" => v = registry
  PROVE  WorkersGood' /\ OneAtWork'
<1>1. worker' = [worker EXCEPT ![o] = Stepped(w, v)]
  BY AdvanceIs
<1>2. OnlyGrows /\ WorkersGood /\ OneAtWork /\ GoodYaml(yaml) /\ GoodRegistry(registry)
  BY DEF OnlyGrows, InstallInv, FilesGood
<1>3. Works(w)
  BY <1>2, AtOne
<1>4. WorkersGood'
  <2>1. Head(w.steps) = "read_yaml" => GoodYaml(v) /\ (v = Missing <=> yaml = Missing)
    BY <1>2
  <2>2. Head(w.steps) = "read_registry" => GoodRegistry(v)
    BY <1>2
  <2> QED BY <1>1, <1>2, <2>1, <2>2, AdvanceKeeps
<1>5. OneAtWork'
  <2> PICK d : d = lastDone
    OBVIOUS
  <2>1. ~overlapped => Entered(w.install, Tail(w.steps))'
    <3>1. ~overlapped => Entered(w.install, w.steps)
      BY <1>2 DEF OneAtWork, UpToDate
    <3> QED BY <1>3, <3>1, EnteredKept
  <2>2. ~overlapped /\ d # Missing => Entered(d, <<>>)'
    <3>1. ~overlapped /\ d # Missing => Entered(d, <<>>)
      BY <1>2 DEF OneAtWork
    <3> QED BY <3>1, EnteredKept
  <2> QED BY <1>1, <1>2, <2>1, <2>2, InTurn
<1> QED BY <1>4, <1>5

-----------------------------------------------------------------------------
\* The steps of an operator.

LEMMA FilesKept ==
  ASSUME FilesGood, OnlyGrows,
         yaml' = yaml \/ GoodYaml(yaml)',
         registry' = registry \/ GoodRegistry(registry)',
         cron' = cron \/ (cron' # Invalid /\ GoodCron(cron)'),
         configured' \in BOOLEAN, overlapped' \in BOOLEAN,
         shim' \in {"none", "foreign", "managed"}, placed' \subseteq FileNames,
         lastDone' \in Installs \cup {Missing},
         jobs' \in 0 .. MaxJobs, breaks' \in 0 .. MaxBreaks
  PROVE  FilesGood'
<1>1. GoodYaml(yaml)'
  <2> PICK y : y = yaml
    OBVIOUS
  <2>1. GoodYaml(y)'
    BY Grown DEF FilesGood
  <2>2. y = yaml' => GoodYaml(yaml)'
    BY <2>1 DEF GoodYaml
  <2> QED BY <2>2
<1>2. GoodRegistry(registry)'
  <2> PICK g : g = registry
    OBVIOUS
  <2>1. GoodRegistry(g)'
    BY Grown DEF FilesGood
  <2>2. g = registry' => GoodRegistry(registry)'
    BY <2>1 DEF GoodRegistry
  <2> QED BY <2>2
<1>3. IF cron' = Invalid THEN ~hadJobs' ELSE GoodCron(cron)'
  <2> PICK c : c = cron
    OBVIOUS
  <2>1. c # Invalid => GoodCron(c)'
    BY Grown DEF FilesGood
  <2>2. c # Invalid /\ c = cron' => GoodCron(cron)'
    BY <2>1 DEF GoodCron
  <2> QED BY <2>2 DEF FilesGood, OnlyGrows
<1>4. hadJobs' \in BOOLEAN
  BY DEF FilesGood, OnlyGrows
<1> QED BY <1>1, <1>2, <1>3, <1>4 DEF FilesGood

LEMMA ConfigCreated ==
  ASSUME InstallInv, NEW o \in Operators, CreateConfig(o)
  PROVE  InstallInv'
<1> PICK w : w = worker[o]
  OBVIOUS
<1>1. /\ w.steps # <<>> /\ Head(w.steps) = "config" /\ Advance(o, Missing) /\ configured' = TRUE
      /\ UNCHANGED <<hostFiles, installHistory>>
  BY DEF CreateConfig, NextStep
<1>2. "config" \notin YamlSteps \cup {"record_installation"} \cup FileSteps
  BY DEF YamlSteps, FileSteps
<1>3. WorkersGood' /\ OneAtWork'
  BY <1>1, <1>2, QuietAdvance DEF hostFiles, installHistory
<1>4. OnlyGrows /\ FilesGood
  BY <1>1 DEF OnlyGrows, InstallInv, FilesGood, hostFiles, installHistory
<1>5. FilesGood'
  BY <1>1, <1>4, FilesKept DEF FilesGood, hostFiles, installHistory
<1> QED BY <1>3, <1>5 DEF InstallInv

LEMMA ShimPlaced ==
  ASSUME InstallInv, NEW o \in Operators, PlaceShim(o)
  PROVE  InstallInv'
<1> PICK w : w = worker[o]
  OBVIOUS
<1>1. /\ w.steps # <<>> /\ Head(w.steps) = "shim" /\ Advance(o, Missing)
      /\ shim' = (IF shim = "foreign" THEN shim ELSE "managed")
      /\ UNCHANGED <<configured, placed, yaml, cron, registry, installHistory>>
  BY DEF PlaceShim, NextStep
<1>2. "shim" \notin YamlSteps \cup {"record_installation"} \cup FileSteps
  BY DEF YamlSteps, FileSteps
<1>3. WorkersGood' /\ OneAtWork'
  BY <1>1, <1>2, QuietAdvance DEF installHistory
<1>4. OnlyGrows /\ FilesGood
  BY <1>1 DEF OnlyGrows, InstallInv, FilesGood, installHistory
<1>5. FilesGood'
  BY <1>1, <1>4, FilesKept DEF FilesGood, installHistory
<1> QED BY <1>3, <1>5 DEF InstallInv

LEMMA FilePlaced ==
  ASSUME InstallInv, NEW o \in Operators, PlaceFile(o)
  PROVE  InstallInv'
<1> PICK w : w = worker[o]
  OBVIOUS
<1>1. /\ w.steps # <<>> /\ Head(w.steps) \in FileSteps /\ Advance(o, Missing)
      /\ placed' = placed \cup {<<w.install.runtime, Head(w.steps)>>}
      /\ UNCHANGED <<configured, shim, yaml, cron, registry, installHistory>>
  BY DEF PlaceFile, NextStep, InstallOf
<1>2. FileSteps \cap (YamlSteps \cup ReadSteps \cup {"config", "record_installation"}) = {}
  BY DEF YamlSteps, FileSteps, ReadSteps
<1>3. Head(w.steps) \notin ReadSteps \cup YamlSteps \cup {"config", "record_installation"}
  BY <1>1, <1>2
<1>4. WorkersGood' /\ OneAtWork'
  BY <1>1, <1>3, QuietAdvance DEF installHistory, ReadSteps
<1>5. OnlyGrows /\ FilesGood
  BY <1>1 DEF OnlyGrows, InstallInv, FilesGood, installHistory
<1>6. placed' \subseteq FileNames
  <2>1. w.install \in Installs
    BY <1>1, AtOne DEF InstallInv, Works
  <2> QED BY <1>1, <1>5, <2>1 DEF FilesGood, FileNames, Installs
<1>7. FilesGood'
  BY <1>1, <1>5, <1>6, FilesKept DEF FilesGood, installHistory
<1> QED BY <1>4, <1>7 DEF InstallInv

\* An operator that reads changes nothing but what it has seen.
LEMMA ReadKeeps ==
  ASSUME InstallInv, NEW o \in Operators, NEW v, Advance(o, v),
         worker[o].steps # <<>>, Head(worker[o].steps) \in ReadSteps,
         UNCHANGED <<configured, hostFiles, installHistory>>,
         Head(worker[o].steps) = "read_yaml" => v = yaml,
         Head(worker[o].steps) = "read_cron" => GoodCron(v),
         Head(worker[o].steps) = "read_registry" => v = registry
  PROVE  InstallInv'
<1> PICK w : w = worker[o]
  OBVIOUS
<1>1. Head(w.steps) \notin YamlSteps \cup {"record_installation", "config"} \cup FileSteps
  BY DEF YamlSteps, FileSteps, ReadSteps
<1>2. WorkersGood' /\ OneAtWork'
  BY <1>1, QuietAdvance DEF hostFiles, installHistory
<1>3. OnlyGrows /\ FilesGood
  BY DEF OnlyGrows, InstallInv, FilesGood, hostFiles, installHistory
<1>4. FilesGood'
  BY <1>3, FilesKept DEF FilesGood, hostFiles, installHistory
<1> QED BY <1>2, <1>4 DEF InstallInv

LEMMA YamlRead ==
  ASSUME InstallInv, NEW o \in Operators, ReadYaml(o)
  PROVE  InstallInv'
<1>1. Head(worker[o].steps) = "read_yaml" /\ worker[o].steps # <<>> /\ Advance(o, yaml)
      /\ UNCHANGED <<configured, hostFiles, installHistory>>
  BY DEF ReadYaml, NextStep
<1>2. PICK v : v = yaml
  OBVIOUS
<1> QED BY <1>1, <1>2, ReadKeeps DEF ReadSteps

LEMMA RegistryRead ==
  ASSUME InstallInv, NEW o \in Operators, ReadRegistry(o)
  PROVE  InstallInv'
<1>1. Head(worker[o].steps) = "read_registry" /\ worker[o].steps # <<>> /\ Advance(o, registry)
      /\ UNCHANGED <<configured, hostFiles, installHistory>>
  BY DEF ReadRegistry, NextStep
<1>2. PICK v : v = registry
  OBVIOUS
<1> QED BY <1>1, <1>2, ReadKeeps DEF ReadSteps

\* Jobs are written as they were read, with the cycle's in place of its phases'.
LEMMA CronUpserted ==
  ASSUME InstallInv, NEW o \in Operators, UpsertCron(o)
  PROVE  InstallInv'
<1> PICK w : w = worker[o]
  OBVIOUS
<1>1. /\ w.steps # <<>> /\ Head(w.steps) = "upsert_cron" /\ Advance(o, Missing)
      /\ cron' = UpsertedCron(w.seen)
      /\ UNCHANGED <<configured, shim, placed, yaml, registry, installHistory>>
  BY DEF UpsertCron, NextStep
<1>2. "upsert_cron" \notin YamlSteps \cup {"record_installation", "config"} \cup FileSteps
  BY DEF YamlSteps, FileSteps
<1>3. WorkersGood' /\ OneAtWork'
  BY <1>1, <1>2, QuietAdvance DEF installHistory
<1>4. OnlyGrows /\ FilesGood
  BY <1>1 DEF OnlyGrows, InstallInv, FilesGood, installHistory
<1>5. GoodCron(w.seen) /\ Placed(ProviderFiles \cup CycleFiles)
  <2>1. Works(w) /\ DoneGood(w) /\ SeenGood(w)
    BY <1>1, AtOne DEF InstallInv
  <2> QED BY <1>1, <2>1, Over DEF SeenGood
<1>6. PICK c : c = UpsertedCron(w.seen)
  OBVIOUS
<1>7. c \in Crons /\ GoodCron(c)'
  <2>1. \A old : Delivery(old) \in {"local", "origin"}
    BY DEF Delivery
  <2>2. Placed(ProviderFiles \cup CycleFiles)'
    BY <1>1, <1>5 DEF Placed
  <2>3. CASE w.seen = Missing
    <3>1. c = [names |-> {"cycle"}, deliver |-> Delivery("local")]
      BY <1>6, <2>3 DEF UpsertedCron
    <3>2. c \in Crons
      BY <2>1, <3>1 DEF Crons
    <3> QED BY <1>4, <1>5, <2>2, <2>3, <3>1, <3>2 DEF GoodCron, OnlyGrows
  <2>4. CASE w.seen # Missing
    <3>1. PICK s : s = w.seen
      OBVIOUS
    <3>2. s \in Crons
      BY <1>5, <2>4, <3>1 DEF GoodCron
    <3>3. c = [names |-> (s.names \ {"legacy"}) \cup {"cycle"}, deliver |-> Delivery(s.deliver)]
      BY <1>6, <2>4, <3>1 DEF UpsertedCron
    <3>4. c \in Crons
      BY <2>1, <3>2, <3>3 DEF Crons
    <3>5. c.names = (s.names \ {"legacy"}) \cup {"cycle"}
      BY <3>3
    <3> QED BY <1>4, <1>5, <2>2, <3>1, <3>4, <3>5, KindsDiffer DEF GoodCron, OnlyGrows
  <2> QED BY <2>3, <2>4
<1>8. cron' # Invalid /\ GoodCron(cron)'
  BY <1>1, <1>6, <1>7, KindsDiffer DEF GoodCron
<1>9. FilesGood'
  BY <1>1, <1>4, <1>8, FilesKept DEF FilesGood, installHistory
<1> QED BY <1>3, <1>9 DEF InstallInv

\* What the changes of config.yaml leave of it.
LEMMA PluginAdded ==
  ASSUME NEW y \in Yamls, NEW p \in {"bridge", "gateway"}
  PROVE  /\ AddPlugin(y, p) \in Yamls
         /\ AddPlugin(y, p).provider = y.provider
         /\ AddPlugin(y, p).listed = y.listed \cup {p}
         /\ AddPlugin(y, p).disabled = y.disabled \ {p}
<1> PICK g : g = IF p \in y.listed THEN y.folded ELSE Folds(y, p)
  OBVIOUS
<1>1. y \in Yaml /\ y.disabled \subseteq {"bridge"} /\ (~y.indented => y.folded = {})
  BY DEF Yamls
<1>2. g \in SUBSET Plugins /\ (~y.indented => g = {})
  BY <1>1 DEF Folds, Plugins, Yaml
<1>3. AddPlugin(y, p) =
        [y EXCEPT !.disabled = @ \ {p}, !.listed = @ \cup {p}, !.folded = g]
  BY DEF AddPlugin
<1>4. AddPlugin(y, p) =
        [provider |-> y.provider, listed |-> y.listed \cup {p}, indented |-> y.indented,
         folded |-> g, disabled |-> y.disabled \ {p}, barred |-> y.barred]
  BY <1>1, <1>3 DEF Yaml
<1>5. y.listed \cup {p} \in SUBSET Plugins /\ y.disabled \ {p} \in SUBSET Plugins
  BY <1>1 DEF Yaml, Plugins
<1>6. AddPlugin(y, p) \in Yaml
  BY <1>1, <1>2, <1>4, <1>5 DEF Yaml
<1> QED BY <1>1, <1>2, <1>4, <1>6 DEF Yamls

LEMMA ProviderSet ==
  ASSUME NEW y \in Yamls
  PROVE  /\ SetProvider(y) \in Yamls /\ RemovePlugin(SetProvider(y), "bridge") \in Yamls
         /\ SetProvider(y).provider = "cristalina"
         /\ SetProvider(y).listed = y.listed
         /\ SetProvider(y).disabled = y.disabled
         /\ RemovePlugin(SetProvider(y), "bridge").provider = "cristalina"
         /\ RemovePlugin(SetProvider(y), "bridge").listed = y.listed \ {"bridge"}
<1>1. /\ SetProvider(y) \in Yamls /\ SetProvider(y).provider = "cristalina"
      /\ SetProvider(y).listed = y.listed /\ SetProvider(y).disabled = y.disabled
  BY DEF SetProvider, Yamls, Yaml
<1>2. ASSUME NEW z \in Yamls
      PROVE  /\ RemovePlugin(z, "bridge") \in Yamls
             /\ RemovePlugin(z, "bridge").provider = z.provider
             /\ RemovePlugin(z, "bridge").listed = z.listed \ {"bridge"}
  <2> PICK g : g = IF "bridge" \in z.folded THEN z.listed \ {"bridge", "own"} ELSE z.folded
    OBVIOUS
  <2>1. z \in Yaml /\ z.disabled \subseteq {"bridge"} /\ (~z.indented => z.folded = {})
    BY DEF Yamls
  <2>2. g \in SUBSET Plugins /\ (~z.indented => g = {})
    BY <2>1 DEF Yaml
  <2>3. RemovePlugin(z, "bridge") =
          [provider |-> z.provider, listed |-> z.listed \ {"bridge"}, indented |-> z.indented,
           folded |-> g, disabled |-> z.disabled, barred |-> z.barred]
    <3>1. z = [provider |-> z.provider, listed |-> z.listed, indented |-> z.indented,
               folded |-> z.folded, disabled |-> z.disabled, barred |-> z.barred]
      BY <2>1 DEF Yaml
    <3>2. RemovePlugin(z, "bridge") = [z EXCEPT !.listed = @ \ {"bridge"}, !.folded = g]
      BY <3>1 DEF RemovePlugin
    <3> QED BY <3>1, <3>2
  <2>4. RemovePlugin(z, "bridge") \in Yaml
    BY <2>1, <2>2, <2>3 DEF Yaml
  <2> QED BY <2>1, <2>2, <2>3, <2>4 DEF Yamls
<1> QED BY <1>1, <1>2

LEMMA YamlChanged ==
  ASSUME InstallInv, NEW o \in Operators, ChangeYaml(o)
  PROVE  InstallInv'
<1> PICK w : w = worker[o]
  OBVIOUS
<1> PICK z : z = YamlAfter(o)
  OBVIOUS
<1> DEFINE i == w.install
           s == Head(w.steps)
           y == w.seen
<1>1. /\ w.steps # <<>> /\ s \in YamlSteps /\ Advance(o, Missing)
      /\ yaml' = IF y = Missing \/ z = y THEN yaml ELSE z
      /\ UNCHANGED <<configured, shim, placed, cron, registry, installHistory>>
  BY DEF ChangeYaml, NextStep, YamlSteps
<1>2. /\ WorkersGood /\ OneAtWork /\ FilesGood /\ Works(w) /\ DoneGood(w) /\ SeenGood(w) /\ Busy(o)
  BY <1>1, AtOne DEF InstallInv
<1>3. /\ y = Missing <=> yaml = Missing
      /\ GoodYaml(y) /\ (y # Missing => y \in Yamls)
  BY <1>1, <1>2 DEF SeenGood, GoodYaml
<1>4. /\ s = "enable_bridge" => Bridges(i) /\ Placed(BridgeFiles)
      /\ s \in {"configure_provider", "enable_gateway"} => Provides(i) /\ Placed(ProviderFiles \cup CycleFiles)
  BY <1>2, Over
<1>5. s = "enable_bridge" \/ s = "configure_provider" \/ s = "enable_gateway"
  BY <1>1 DEF YamlSteps
<1>6. ASSUME y # Missing
      PROVE  /\ z \in Yamls
             /\ s = "enable_bridge" => /\ z.provider = y.provider /\ z.listed = y.listed \cup {"bridge"}
                                    /\ "bridge" \notin z.disabled
             /\ s = "enable_gateway" => /\ z.provider = y.provider /\ z.listed = y.listed \cup {"gateway"}
                                     /\ z.disabled \subseteq y.disabled
             /\ s = "configure_provider" =>
                  /\ z.provider = "cristalina"
                  /\ z.listed = IF i.mode = "provider" THEN y.listed \ {"bridge"} ELSE y.listed
                  /\ i.mode # "provider" => z.disabled = y.disabled
  <2>1. /\ s = "enable_bridge" => z = AddPlugin(y, "bridge")
        /\ s = "enable_gateway" => z = AddPlugin(y, "gateway")
        /\ s = "configure_provider" =>
             z = IF i.mode = "provider" THEN RemovePlugin(SetProvider(y), "bridge") ELSE SetProvider(y)
    BY DEF YamlAfter, InstallOf
  <2>2. y \in Yamls
    BY <1>3, <1>6
  <2>3. CASE s = "enable_bridge"
    BY <2>1, <2>2, <2>3, PluginAdded
  <2>4. CASE s = "enable_gateway"
    BY <2>1, <2>2, <2>4, PluginAdded
  <2>5. CASE s = "configure_provider"
    BY <2>1, <2>2, <2>5, ProviderSet
  <2> QED BY <1>5, <2>3, <2>4, <2>5
<1> HIDE DEF i, s, y
<1>7. ASSUME y # Missing PROVE GoodYaml(z)'
  <2>1. \A F : Placed(F) => Placed(F)'
    BY <1>1 DEF Placed
  <2>2. \A F, G : Placed(F \cup G) => Placed(F)
    BY DEF Placed
  <2>3. /\ "own" \in y.listed
        /\ "bridge" \in y.listed => Placed(BridgeFiles)
        /\ "gateway" \in y.listed => Placed(ProviderFiles)
        /\ y.provider = "cristalina" => Placed(ProviderFiles \cup CycleFiles)
    BY <1>3, <1>7 DEF GoodYaml
  <2>4. /\ "own" \in z.listed
        /\ "bridge" \in z.listed => Placed(BridgeFiles)
        /\ "gateway" \in z.listed => Placed(ProviderFiles)
        /\ z.provider = "cristalina" => Placed(ProviderFiles \cup CycleFiles)
    <3>1. CASE s = "enable_bridge"
      BY <1>4, <1>6, <1>7, <2>3, <3>1
    <3>2. CASE s = "enable_gateway"
      BY <1>4, <1>6, <1>7, <2>2, <2>3, <3>2
    <3>3. CASE s = "configure_provider"
      BY <1>4, <1>6, <1>7, <2>2, <2>3, <3>3
    <3> QED BY <1>5, <3>1, <3>2, <3>3
  <2> QED BY <1>6, <1>7, <2>1, <2>4 DEF GoodYaml
<1>8. yaml' = yaml \/ GoodYaml(yaml)'
  BY <1>1, <1>7 DEF GoodYaml
<1>9. OnlyGrows
  BY <1>1, <1>3, <1>6, KindsDiffer DEF OnlyGrows, installHistory
<1>10. FilesGood'
  BY <1>1, <1>2, <1>8, <1>9, FilesKept DEF FilesGood, installHistory
<1>11. s \notin ReadSteps \cup FileSteps \cup {"config", "record_installation"}
  BY <1>5 DEF ReadSteps, FileSteps
<1>12. worker' = [worker EXCEPT ![o] = Stepped(w, Missing)]
  BY <1>1, AdvanceIs
<1>13. WorkersGood'
  BY <1>1, <1>2, <1>9, <1>11, <1>12, AdvanceKeeps DEF s, ReadSteps
<1>14. ASSUME ~overlapped PROVE Entered(i, Tail(w.steps))'
  <2>1. y = yaml /\ Entered(i, w.steps)
    BY <1>1, <1>2, <1>14 DEF OneAtWork, UpToDate, s, y, i
  <2>2. CASE y = Missing
    BY <1>1, <2>1, <2>2 DEF Entered
  <2>3. CASE y # Missing
    <3>1. yaml' = z /\ yaml # Missing
      BY <1>1, <2>1, <2>3
    <3>2. \A x : ~Ahead(Tail(w.steps), x) => x = s \/ ~Ahead(w.steps, x)
      BY <1>2, RestOf DEF Works, s
    <3>3. Provides(i) /\ Bridges(i) => i.mode = "both"
      BY DEF Provides, Bridges
    <3>4. Bridges(i) /\ ~Ahead(Tail(w.steps), "enable_bridge") =>
            "bridge" \in z.listed \ z.disabled
      <4>1. s = "configure_provider" /\ Bridges(i) => i.mode # "provider"
        BY DEF Bridges
      <4> QED BY <1>5, <1>6, <2>1, <2>3, <3>1, <3>2, <4>1 DEF Entered
    <3>5. Provides(i) /\ ~Ahead(Tail(w.steps), "configure_provider") =>
            z.provider = "cristalina" /\ ("bridge" \in z.listed => i.mode = "both")
      <4>1. i.mode \in {"provider", "both"} \/ ~Provides(i)
        BY DEF Provides
      <4> QED BY <1>4, <1>5, <1>6, <2>1, <2>3, <3>1, <3>2, <3>3, <4>1 DEF Entered
    <3>6. Provides(i) /\ ~Ahead(Tail(w.steps), "enable_gateway") => "gateway" \in z.listed
      BY <1>5, <1>6, <2>1, <2>3, <3>1, <3>2 DEF Entered
    <3> QED BY <3>1, <3>4, <3>5, <3>6 DEF Entered
  <2> QED BY <2>2, <2>3
<1>15. ~overlapped => lastDone = Missing
  <2>1. i.runtime = "hermes"
    BY <1>4, <1>5 DEF Bridges, Provides
  <2> QED BY <1>1, <1>2, <2>1 DEF OneAtWork, i
<1>16. OneAtWork'
  <2> PICK d : d = lastDone
    OBVIOUS
  <2>1. ~overlapped => d = Missing
    BY <1>15
  <2> QED BY <1>1, <1>2, <1>11, <1>12, <1>14, <2>1, InTurn DEF s, i, installHistory, ReadSteps
<1> QED BY <1>10, <1>13, <1>16 DEF InstallInv

-----------------------------------------------------------------------------
\* Installs begin and end.

\* An operator without a step, beside whom none is busy unless two overlap.
LEMMA Rests ==
  ASSUME InstallInv, NEW o \in Operators, NEW u, worker' = [worker EXCEPT ![o] = u],
         Waits(u), u.steps = <<>>, OnlyGrows, UNCHANGED <<yaml, registry, lastDone>>,
         overlapped => overlapped',
         ~overlapped' => u = Free \/ \A q \in Operators \ {o} : ~Busy(q)
  PROVE  WorkersGood' /\ OneAtWork'
<1>1. WorkersGood /\ OneAtWork
  BY DEF InstallInv
<1>2. WorkersGood'
  BY <1>1, WorkerKept
<1>3. worker'[o] = u /\ \A q \in Operators \ {o} : worker'[q] = worker[q]
  BY <1>1 DEF WorkersGood
<1>4. ASSUME ~overlapped' PROVE OneAtWork'
  <2>1. \A p, q \in Operators : Busy(p)' /\ Busy(q)' => p = q
    BY <1>1, <1>3, <1>4 DEF OneAtWork, Busy
  <2>2. ASSUME NEW p \in Operators, worker'[p].steps # <<>>
        PROVE  UpToDate(worker[p])' /\ (lastDone' # Missing => worker'[p].install.runtime = "openclaw")
    <3> PICK v : v = worker[p]
      OBVIOUS
    <3>1. worker'[p] = v
      BY <1>3, <2>2
    <3>2. UpToDate(v) /\ (lastDone # Missing => v.install.runtime = "openclaw")
      BY <1>1, <1>4, <2>2, <3>1 DEF OneAtWork
    <3>3. UpToDate(v)'
      BY <3>2, EnteredKept DEF UpToDate
    <3>4. UpToDate(worker[p])'
      BY <3>1, <3>3 DEF UpToDate
    <3> QED BY <3>1, <3>2, <3>4
  <2>3. lastDone' # Missing =>
          registry'["hermes"] = lastDone' /\ lastDone'.runtime = "hermes" /\ Entered(lastDone, <<>>)'
    <3> PICK d : d = lastDone
      OBVIOUS
    <3>1. d # Missing => registry["hermes"] = d /\ d.runtime = "hermes" /\ Entered(d, <<>>)
      BY <1>1, <1>4 DEF OneAtWork
    <3>2. d # Missing => Entered(d, <<>>)'
      BY <3>1, EnteredKept
    <3>3. Entered(d, <<>>)' /\ d = lastDone' => Entered(lastDone, <<>>)'
      BY DEF Entered
    <3> QED BY <3>1, <3>2, <3>3
  <2> QED BY <2>1, <2>2, <2>3 DEF OneAtWork
<1>5. overlapped' => OneAtWork'
  BY DEF OneAtWork
<1> QED BY <1>2, <1>4, <1>5

LEMMA CronRead ==
  ASSUME InstallInv, NEW o \in Operators, ReadCron(o)
  PROVE  InstallInv'
<1>1. /\ worker[o].steps # <<>> /\ Head(worker[o].steps) = "read_cron"
      /\ UNCHANGED <<configured, hostFiles, installHistory>>
  BY DEF ReadCron, NextStep
<1>2. OnlyGrows /\ FilesGood
  BY <1>1 DEF OnlyGrows, InstallInv, FilesGood, hostFiles, installHistory
<1>3. CASE cron = Invalid
  <2>1. worker' = [worker EXCEPT ![o] = Free]
    BY <1>3 DEF ReadCron
  <2>2. WorkersGood' /\ OneAtWork'
    BY <1>1, <1>2, <2>1, FreeIs, Rests DEF hostFiles, installHistory
  <2>3. FilesGood'
    BY <1>1, <1>2, FilesKept DEF FilesGood, hostFiles, installHistory
  <2> QED BY <2>2, <2>3 DEF InstallInv
<1>4. CASE cron # Invalid
  <2> PICK v : v = cron
    OBVIOUS
  <2>1. Advance(o, v)
    BY <1>4 DEF ReadCron
  <2>2. GoodCron(v)
    BY <1>2, <1>4 DEF FilesGood
  <2> QED BY <1>1, <2>1, <2>2, ReadKeeps DEF ReadSteps
<1> QED BY <1>3, <1>4

LEMMA InstallStopped ==
  ASSUME InstallInv, NEW o \in Operators, StopInstall(o)
  PROVE  InstallInv'
<1>1. OnlyGrows /\ FilesGood
  BY DEF StopInstall, OnlyGrows, InstallInv, FilesGood, hostFiles
<1>2. WorkersGood' /\ OneAtWork'
  BY <1>1, FreeIs, Rests DEF StopInstall, hostFiles
<1>3. breaks' \in 0 .. MaxBreaks
  BY <1>1, InstallerAssumption DEF StopInstall, FilesGood
<1>4. FilesGood'
  BY <1>1, <1>3, FilesKept DEF StopInstall, FilesGood, hostFiles
<1> QED BY <1>2, <1>4 DEF InstallInv

LEMMA JobBegun ==
  ASSUME InstallInv, NEW o \in Operators, NEW S \in SUBSET Installs, BeginJob(o, S)
  PROVE  InstallInv'
<1> PICK u : u = [Free EXCEPT !.todo = S]
  OBVIOUS
<1>1. OnlyGrows /\ FilesGood
  BY DEF BeginJob, OnlyGrows, InstallInv, FilesGood, hostFiles
<1>2. worker' = [worker EXCEPT ![o] = u]
  BY DEF BeginJob
<1>3. Waits(u) /\ u.steps = <<>>
  BY FreeIs
<1>4. /\ overlapped => overlapped'
      /\ ~overlapped' => \A q \in Operators \ {o} : ~Busy(q)
      /\ overlapped' \in BOOLEAN
  BY <1>1 DEF BeginJob, FilesGood
<1>5. WorkersGood' /\ OneAtWork'
  BY <1>1, <1>2, <1>3, <1>4, Rests DEF BeginJob, hostFiles
<1>6. jobs' \in 0 .. MaxJobs
  BY <1>1, InstallerAssumption DEF BeginJob, FilesGood
<1>7. FilesGood'
  BY <1>1, <1>4, <1>6, FilesKept DEF BeginJob, FilesGood, hostFiles
<1> QED BY <1>5, <1>7 DEF InstallInv

\* What an update works on are installs the registry lists, in a mode there is.
LEMMA TargetsAreInstalls ==
  ASSUME GoodRegistry(registry), NEW r, NEW m \in InstallModes \cup {"as_registered"}
  PROVE  UpdateTargets(r, m) \subseteq Installs
<1>1. Registered \subseteq Installs
  BY DEF GoodRegistry, Registered
<1>2. ASSUME NEW i \in Installs, NEW n \in InstallModes
      PROVE  [i EXCEPT !.mode = n] \in Installs
  BY <1>2 DEF Installs
<1>3. ASSUME NEW i \in Registered
      PROVE  [i EXCEPT !.mode = IF m = "as_registered" \/ i.runtime = "openclaw" THEN i.mode ELSE m] \in Installs
  <2> DEFINE n == IF m = "as_registered" \/ i.runtime = "openclaw" THEN i.mode ELSE m
  <2>1. n \in InstallModes
    BY <1>1, <1>3 DEF Installs
  <2> HIDE DEF n
  <2>2. [i EXCEPT !.mode = n] \in Installs
    BY <1>1, <1>2, <2>1
  <2> QED BY <2>2 DEF n
<1> QED BY <1>3 DEF UpdateTargets

LEMMA JobAsked ==
  ASSUME InstallInv, NEW o \in Operators, AskInstall(o) \/ AskUpdate(o)
  PROVE  InstallInv'
<1>1. CASE AskInstall(o)
  <2>1. PICK i \in Asked : BeginJob(o, {i})
    BY <1>1 DEF AskInstall
  <2>2. {i} \in SUBSET Installs
    BY InstallerAssumption
  <2> QED BY <2>1, <2>2, JobBegun
<1>2. CASE AskUpdate(o)
  <2>1. PICK r \in Runtimes \cup {"all"}, m \in InstallModes \cup {"as_registered"} :
          BeginJob(o, UpdateTargets(r, m))
    BY <1>2 DEF AskUpdate
  <2>2. UpdateTargets(r, m) \in SUBSET Installs
    BY TargetsAreInstalls DEF InstallInv, FilesGood
  <2> PICK S : S = UpdateTargets(r, m)
    OBVIOUS
  <2> QED BY <2>1, <2>2, JobBegun
<1> QED BY <1>1, <1>2

LEMMA InstallStarted ==
  ASSUME InstallInv, NEW o \in Operators, StartInstall(o)
  PROVE  InstallInv'
<1>1. PICK i \in worker[o].todo :
        /\ worker' = [worker EXCEPT ![o] =
             [install |-> i, todo |-> worker[o].todo \ {i}, steps |-> Steps(i), seen |-> Missing]]
        /\ lastDone' = IF i.runtime = "hermes" THEN Missing ELSE lastDone
  BY DEF StartInstall
<1>2. /\ worker[o].steps = <<>>
      /\ UNCHANGED <<configured, hostFiles, channels, hadJobs, jobs, breaks, overlapped>>
  BY DEF StartInstall
<1>3. OnlyGrows /\ FilesGood /\ WorkersGood /\ OneAtWork
  BY <1>2 DEF OnlyGrows, InstallInv, FilesGood, hostFiles
<1>4. i \in Installs /\ worker[o].todo \subseteq Installs /\ Busy(o)
  BY <1>2, <1>3, AtOne, FreeIs DEF Waits, Busy
<1> PICK u : u = [install |-> i, todo |-> worker[o].todo \ {i}, steps |-> Steps(i), seen |-> Missing]
  OBVIOUS
<1>5. /\ Sound(u.steps) /\ Ends(u.steps) /\ Head(u.steps) = "config" /\ u.steps = Steps(i) /\ u.install = i
      /\ \A f \in Named(i) : Ahead(u.steps, f[2])
      /\ Ahead(u.steps, "config") /\ u.steps # <<>>
  BY <1>4, StepsOf DEF Ends
<1>6. Works(u)
  BY <1>4, <1>5, StepsOf DEF Works
<1>7. "config" \notin ChangeSteps /\ YamlSteps \subseteq ChangeSteps
      /\ {"upsert_cron", "record_installation"} \subseteq ChangeSteps
  BY DEF ChangeSteps, YamlSteps
<1>8. SeenGood(u)' /\ DoneGood(u)'
  BY <1>5, <1>7 DEF SeenGood, DoneGood
<1>9. worker' = [worker EXCEPT ![o] = u]
  BY <1>1
<1>10. WorkersGood'
  BY <1>3, <1>6, <1>8, <1>9, WorkerKept
<1>11. FilesGood'
  BY <1>1, <1>2, <1>3, FilesKept DEF FilesGood, hostFiles
<1>12. ASSUME ~overlapped PROVE OneAtWork'
  <2>1. worker'[o] = u /\ \A q \in Operators \ {o} : worker'[q] = worker[q] /\ worker[q] = Free
    BY <1>3, <1>4, <1>9, <1>12 DEF OneAtWork, WorkersGood, Busy
  <2>2. \A p, q \in Operators : Busy(p)' /\ Busy(q)' => p = q
    BY <2>1 DEF Busy
  <2>3. UpToDate(u)'
    BY <1>4, <1>5, <1>7, StepsOf DEF UpToDate, Entered
  <2>4. lastDone' # Missing => i.runtime = "openclaw"
    BY <1>1, <1>4 DEF Installs, Runtimes
  <2>5. ASSUME NEW p \in Operators, worker'[p].steps # <<>>
        PROVE  UpToDate(worker[p])' /\ (lastDone' # Missing => worker'[p].install.runtime = "openclaw")
    <3>1. worker'[p] = u
      BY <2>1, <2>5, FreeIs
    <3>2. UpToDate(worker[p])'
      BY <2>3, <3>1 DEF UpToDate
    <3> QED BY <1>5, <2>4, <3>1, <3>2
  <2>6. lastDone' # Missing =>
          registry'["hermes"] = lastDone' /\ lastDone'.runtime = "hermes" /\ Entered(lastDone, <<>>)'
    <3> PICK d : d = lastDone
      OBVIOUS
    <3>1. d # Missing => registry["hermes"] = d /\ d.runtime = "hermes" /\ Entered(d, <<>>)
      BY <1>3, <1>12 DEF OneAtWork
    <3>2. d # Missing => Entered(d, <<>>)'
      BY <1>2, <3>1, EnteredKept DEF hostFiles
    <3>3. Entered(d, <<>>)' /\ d = lastDone' => Entered(lastDone, <<>>)'
      BY DEF Entered
    <3> QED BY <1>1, <1>2, <3>1, <3>2, <3>3 DEF hostFiles
  <2> QED BY <2>2, <2>5, <2>6 DEF OneAtWork
<1>13. OneAtWork'
  BY <1>2, <1>12 DEF OneAtWork
<1> QED BY <1>10, <1>11, <1>13 DEF InstallInv

LEMMA InstallRecorded ==
  ASSUME InstallInv, NEW o \in Operators, RecordInstallation(o)
  PROVE  InstallInv'
<1> PICK w : w = worker[o]
  OBVIOUS
<1> PICK i : i = w.install
  OBVIOUS
<1> PICK u : u = [Free EXCEPT !.todo = w.todo]
  OBVIOUS
<1>1. /\ w.steps # <<>> /\ Head(w.steps) = "record_installation"
      /\ registry' = [w.seen EXCEPT ![i.runtime] = i]
      /\ worker' = [worker EXCEPT ![o] = u]
      /\ lastDone' = IF i.runtime = "hermes" THEN i ELSE lastDone
      /\ UNCHANGED <<configured, shim, placed, yaml, cron, channels, hadJobs, jobs, breaks, overlapped>>
  BY DEF RecordInstallation, NextStep, InstallOf
<1>2. OnlyGrows /\ FilesGood /\ WorkersGood /\ OneAtWork
  BY <1>1 DEF OnlyGrows, InstallInv, FilesGood
<1>3. Works(w) /\ SeenGood(w) /\ DoneGood(w) /\ Busy(o) /\ i \in Installs
  BY <1>1, <1>2, AtOne DEF Works
<1>4. Waits(u) /\ u.steps = <<>>
  <2>1. w.todo \in SUBSET Installs
    BY <1>3 DEF Works
  <2> QED BY <2>1, FreeIs
<1>5. GoodRegistry(registry)'
  <2>1. "record_installation" \notin YamlSteps \cup {"upsert_cron"}
    BY DEF YamlSteps
  <2> PICK g : g = w.seen
    OBVIOUS
  <2>2. GoodRegistry(g)'
    BY <1>1, <1>2, <1>3, Grown DEF SeenGood
  <2>3. configured /\ Placed(Named(i))
    BY <1>1, <1>3, Over
  <2>4. configured' /\ Placed(Named(i))'
    BY <1>1, <2>3 DEF Placed
  <2>5. registry' = [g EXCEPT ![i.runtime] = i] /\ g \in [Runtimes -> Installs \cup {Missing}]
    BY <1>1, <2>2 DEF GoodRegistry
  <2>6. registry' \in [Runtimes -> Installs \cup {Missing}]
    BY <1>3, <2>5
  <2>7. ASSUME NEW r \in Runtimes, registry'[r] # Missing
        PROVE  configured' /\ Placed(Named(registry[r]))'
    <3> PICK x : x = registry'[r]
      OBVIOUS
    <3>1. x = i \/ x = g[r]
      BY <2>5
    <3>2. Placed(Named(x))'
      BY <2>2, <2>4, <2>7, <3>1 DEF GoodRegistry
    <3> QED BY <2>4, <3>2
  <2> QED BY <2>6, <2>7 DEF GoodRegistry
<1>6. lastDone' \in Installs \cup {Missing}
  BY <1>1, <1>2, <1>3 DEF FilesGood
<1>7. FilesGood'
  BY <1>1, <1>2, <1>5, <1>6, FilesKept DEF FilesGood
<1>8. WorkersGood'
  BY <1>1, <1>2, <1>4, WorkerKept
<1>9. ASSUME ~overlapped PROVE OneAtWork'
  <2>1. worker'[o] = u /\ \A q \in Operators \ {o} : worker'[q] = worker[q] /\ worker[q] = Free
    BY <1>1, <1>2, <1>3, <1>9 DEF OneAtWork, WorkersGood, Busy
  <2>2. \A p, q \in Operators : Busy(p)' /\ Busy(q)' => p = q
    BY <2>1 DEF Busy
  <2>3. \A p \in Operators : worker'[p].steps = <<>>
    BY <1>4, <2>1, FreeIs
  <2>4. Entered(i, w.steps) /\ w.seen = registry
    BY <1>1, <1>2, <1>9 DEF OneAtWork, UpToDate
  <2> PICK d : d = lastDone'
    OBVIOUS
  <2>5. Entered(i, <<>>)
    <3>1. \A s \in YamlSteps : ~Ahead(w.steps, s)
      BY <1>1, <1>3, Over DEF StepNames, YamlSteps, ChangeSteps
    <3> QED BY <2>4, <3>1 DEF Entered, YamlSteps
  <2>6. d # Missing => registry'["hermes"] = d /\ d.runtime = "hermes" /\ Entered(d, <<>>)
    <3>1. w.seen \in [Runtimes -> Installs \cup {Missing}]
      BY <1>2, <2>4 DEF FilesGood, GoodRegistry
    <3>2. CASE i.runtime = "hermes"
      BY <1>1, <2>5, <3>1, <3>2 DEF Runtimes
    <3>3. CASE i.runtime # "hermes"
      <4>1. d = lastDone
        BY <1>1, <3>3
      <4>2. registry'["hermes"] = registry["hermes"]
        BY <1>1, <2>4, <3>1, <3>3 DEF Runtimes
      <4> QED BY <1>2, <1>9, <4>1, <4>2 DEF OneAtWork
    <3> QED BY <3>2, <3>3
  <2>7. d # Missing => Entered(d, <<>>)'
    BY <1>1, <2>6, EnteredKept
  <2>8. Entered(d, <<>>)' => Entered(lastDone, <<>>)'
    BY DEF Entered
  <2> QED BY <2>2, <2>3, <2>6, <2>7, <2>8 DEF OneAtWork
<1>10. OneAtWork'
  BY <1>1, <1>9 DEF OneAtWork
<1> QED BY <1>7, <1>8, <1>10 DEF InstallInv

LEMMA InstallBegins ==
  ASSUME InstallerInit
  PROVE  InstallInv
<1>1. GoodYaml(yaml)
  <2>1. HostYaml \in Yaml /\ HostYaml.listed = {"own"} /\ HostYaml.folded = {}
    BY DEF HostYaml, Yaml, Plugins
  <2>2. CASE yaml = Missing
    BY <2>2 DEF GoodYaml
  <2>3. ASSUME NEW deep \in BOOLEAN, yaml = [HostYaml EXCEPT !.provider = "other", !.indented = deep]
        PROVE  GoodYaml(yaml)
    BY <2>3 DEF GoodYaml, Yamls, Yaml, HostYaml, Plugins
  <2>4. CASE \/ yaml = [HostYaml EXCEPT !.disabled = {"bridge"}]
             \/ yaml = [HostYaml EXCEPT !.barred = {"bridge"}]
    <3>1. /\ yaml.listed = {"own"} /\ yaml.folded = {} /\ yaml.provider = "none"
          /\ yaml.disabled \subseteq {"bridge"}
      BY <2>4 DEF HostYaml
    <3>2. yaml \in Yaml
      BY <2>4 DEF HostYaml, Yaml, Plugins
    <3> QED BY <3>1, <3>2 DEF GoodYaml, Yamls
  <2> QED BY <2>2, <2>3, <2>4 DEF InstallerInit
<1>2. /\ GoodRegistry(registry) /\ placed \subseteq FileNames /\ configured \in BOOLEAN
      /\ shim \in {"none", "foreign", "managed"}
  <2>1. CASE NoneBefore
    BY <2>1 DEF NoneBefore, GoodRegistry
  <2>2. ASSUME NEW i \in Asked, OpenClawBefore(i)
        PROVE  /\ GoodRegistry(registry) /\ placed \subseteq FileNames /\ configured \in BOOLEAN
               /\ shim \in {"none", "foreign", "managed"}
    <3>1. i \in Installs /\ placed = Named(i) /\ configured = TRUE
      BY <2>2, InstallerAssumption DEF OpenClawBefore
    <3>2. GoodRegistry(registry)
      BY <2>2, <3>1 DEF OpenClawBefore, GoodRegistry, Placed
    <3>3. placed \subseteq FileNames
      BY <3>1, StepsOf DEF FileNames, Installs
    <3> QED BY <2>2, <3>2, <3>3 DEF OpenClawBefore
  <2> QED BY <2>1, <2>2 DEF InstallerInit
<1>3. IF cron = Invalid THEN ~hadJobs ELSE GoodCron(cron)
  <2>1. CASE cron \in {Missing, Invalid}
    <3>1. ~hadJobs
      BY <2>1 DEF InstallerInit
    <3> QED BY <2>1, <3>1 DEF GoodCron
  <2>2. CASE cron = [names |-> {"own", "legacy"}, deliver |-> "local"]
    <3>1. cron \in Crons /\ cron.names = {"own", "legacy"}
      BY <2>2 DEF Crons
    <3> QED BY <3>1, KindsDiffer DEF GoodCron
  <2> QED BY <2>1, <2>2 DEF InstallerInit
<1>4. hadJobs \in BOOLEAN
  BY DEF InstallerInit
<1>5. /\ jobs \in 0 .. MaxJobs /\ breaks \in 0 .. MaxBreaks /\ overlapped = FALSE /\ lastDone = Missing
  <2>1. jobs = 0 /\ breaks = 0 /\ overlapped = FALSE /\ lastDone = Missing
    BY DEF InstallerInit
  <2> QED BY <2>1, InstallerAssumption
<1>6. FilesGood
  BY <1>1, <1>2, <1>3, <1>4, <1>5 DEF FilesGood
<1>7. WorkersGood
  BY FreeIs DEF InstallerInit, WorkersGood
<1>8. OneAtWork
  BY FreeIs DEF InstallerInit, OneAtWork, Busy
<1> QED BY <1>6, <1>7, <1>8 DEF InstallInv

LEMMA InstallInvKept ==
  ASSUME InstallInv, InstallerNext
  PROVE  InstallInv'
<1>1. PICK o \in Operators :
        \/ AskInstall(o) \/ AskUpdate(o) \/ StartInstall(o) \/ CreateConfig(o) \/ PlaceShim(o)
        \/ PlaceFile(o) \/ ReadYaml(o) \/ ChangeYaml(o) \/ ReadCron(o) \/ UpsertCron(o)
        \/ ReadRegistry(o) \/ RecordInstallation(o) \/ StopInstall(o)
  BY DEF InstallerNext
<1> QED
  BY <1>1, JobAsked, InstallStarted, ConfigCreated, ShimPlaced, FilePlaced, YamlRead, YamlChanged,
     CronRead, CronUpserted, RegistryRead, InstallRecorded, InstallStopped

LEMMA InstallInvStays ==
  ASSUME InstallInv, UNCHANGED installVars
  PROVE  InstallInv'
<1> USE DEF installVars, hostFiles, installHistory
<1>1. OnlyGrows /\ FilesGood /\ WorkersGood /\ OneAtWork
  BY DEF OnlyGrows, InstallInv, FilesGood
<1>2. FilesGood'
  BY <1>1, FilesKept DEF FilesGood
<1>3. WorkersGood'
  BY <1>1 DEF WorkersGood, SeenGood, DoneGood, GoodYaml, GoodCron, GoodRegistry, Placed
<1>4. OneAtWork'
  BY <1>1 DEF OneAtWork, UpToDate, Entered, Busy
<1> QED BY <1>2, <1>3, <1>4 DEF InstallInv

\* What the host is told of is installed, and its own stays.
LEMMA InstallIsSound ==
  ASSUME InstallInv
  PROVE  InstallSound /\ InstallerTypeOK
<1>1. FilesGood /\ OneAtWork
  BY DEF InstallInv
<1>2. ToldIsInstalled
  BY <1>1 DEF FilesGood, GoodYaml, GoodCron, GoodRegistry, ToldIsInstalled, JobNamed, Registered
<1>3. HostKeepsItsOwn
  <2>1. yaml # Missing => "own" \in yaml.listed /\ (~yaml.indented => "own" \in Enabled(yaml))
    BY <1>1 DEF FilesGood, GoodYaml, Yamls, Enabled
  <2> QED BY <1>1, <2>1 DEF FilesGood, GoodCron, HostKeepsItsOwn, JobNamed
<1>4. LastInstallStands
  <2> SUFFICES ASSUME lastDone # Missing, ~overlapped PROVE LastInstallStands
    BY DEF LastInstallStands
  <2>1. registry["hermes"] = lastDone /\ Entered(lastDone, <<>>)
    BY <1>1 DEF OneAtWork
  <2>2. \A s : ~Ahead(<<>>, s)
    BY DEF Ahead
  <2>3. yaml # Missing => /\ "gateway" \notin yaml.disabled
                          /\ ~yaml.indented => Enabled(yaml) = yaml.listed
    BY <1>1 DEF FilesGood, GoodYaml, Yamls, Enabled
  <2> QED BY <2>1, <2>2, <2>3 DEF LastInstallStands, Entered, Turned
<1>5. yaml \in Yaml \cup {Missing}
  BY <1>1 DEF FilesGood, GoodYaml, Yamls
<1>6. InstallerTypeOK
  BY <1>1, <1>5 DEF FilesGood, GoodRegistry, InstallerTypeOK
<1> QED BY <1>2, <1>3, <1>4, <1>6 DEF InstallSound

-----------------------------------------------------------------------------
\* Hermes.

\* A file that replaces another is by the same plugin, of the same session and text; a
\* file of another id stays.
LEMMA EventWritten ==
  ASSUME NEW id, NEW t, NEW E, E = WriteEvent(id, t)
  PROVE  /\ \A a, b : (\E e \in events : e.id[1] = "provider" /\ e.id[2] = a /\ e.id[4] = b) =>
                        \E e \in E : e.id[1] = "provider" /\ e.id[2] = a /\ e.id[4] = b
         /\ \A e \in E : e \in events \/ (e.id = id /\ e.turn = t)
         /\ [id |-> id, turn |-> t] \in E
         /\ \A e \in events : e.id # id => e \in E
<1> PICK x : x = [id |-> id, turn |-> t]
  OBVIOUS
<1>1. x \in E /\ x.id = id /\ x.turn = t
  BY DEF WriteEvent
<1>2. \A e \in E : e \in events \/ e = x
  BY DEF WriteEvent
<1>3. \A e \in events : e.id # id => e \in E
  BY DEF WriteEvent
<1> QED BY <1>1, <1>2, <1>3

\* An id is of one of the two plugins.
LEMMA BridgeIdIs ==
  ASSUME NEW t, NEW s
  PROVE  BridgeId(t, s)[1] = "auto"
BY DEF BridgeId

LEMMA TurnAppended ==
  ASSUME Captured, NextTurn \in Turns, turns' = Append(turns, session.id)
  PROVE  /\ turns' \in Seq({1, 2}) /\ Len(turns') = NextTurn /\ Len(turns') <= MaxTurns
         /\ Finished' = Finished \cup {NextTurn} /\ NextTurn \notin Finished
         /\ \A t \in Finished : turns'[t] = turns[t]
         /\ turns'[NextTurn] = session.id
<1>1. turns \in Seq({1, 2}) /\ session.id \in {1, 2} /\ Len(turns) \in Nat /\ MaxTurns \in Nat
  BY HostAssumption DEF Captured
<1>2. /\ turns' \in Seq({1, 2}) /\ Len(turns') = Len(turns) + 1
      /\ \A k \in 1 .. Len(turns) : turns'[k] = turns[k]
      /\ turns'[Len(turns) + 1] = session.id
  BY <1>1, AppendProperties
<1> QED BY <1>1, <1>2 DEF Finished, NextTurn, Turns

LEMMA HostStarted ==
  ASSUME HostInv, lastDone # Missing, HostStart, UNCHANGED installVars
  PROVE  Captured' /\ AloneOnce'
<1>1. /\ turns = <<>> /\ events = {} /\ Finished = {}
  BY DEF HostInv, Captured, HostStart, Finished
<1>2. loaded' \subseteq {"provider", "bridge"}
  BY DEF HostStart, Loads
<1>3. Captured'
  BY <1>1, <1>2 DEF HostInv, Captured, HostStart, Finished
<1>4. ASSUME alone' PROVE loaded' = {"provider"}
  <2>1. /\ ~overlapped /\ Provides(lastDone) /\ lastDone.mode = "provider" /\ yaml # Missing
        /\ loaded' = Loads(yaml)
    BY <1>4 DEF HostStart
  <2>2. Entered(lastDone, <<>>) /\ \A s : ~Ahead(<<>>, s)
    BY <2>1 DEF HostInv, InstallInv, OneAtWork, Ahead
  <2>3. yaml.provider = "cristalina" /\ "bridge" \notin Enabled(yaml)
    BY <2>1, <2>2 DEF Entered, Enabled
  <2> QED BY <2>1, <2>3 DEF Loads
<1>5. AloneOnce'
  BY <1>1, <1>4 DEF AloneOnce, HostStart
<1> QED BY <1>3, <1>5

LEMMA TurnStarted ==
  ASSUME HostInv, StartTurn \/ (\E reset \in BOOLEAN : SwitchSession(reset)) \/ HostEnds
  PROVE  Captured' /\ AloneOnce'
<1>1. /\ UNCHANGED <<loaded, alone, turns, syncing, events>> /\ host' \in {"off", "up", "down"}
      /\ host' # "off"
  BY DEF StartTurn, SwitchSession, HostEnds, HostInv, Captured
<1>2. session' \in [id : {1, 2}, turn : 0 .. MaxTurns]
  <2>1. CASE StartTurn
    <3>1. NextTurn \in 0 .. MaxTurns /\ session' = [session EXCEPT !.turn = NextTurn]
      BY <2>1, HostAssumption DEF StartTurn, Turns
    <3> QED BY <3>1 DEF HostInv, Captured
  <2>2. ASSUME NEW reset \in BOOLEAN, SwitchSession(reset)
        PROVE  session' \in [id : {1, 2}, turn : 0 .. MaxTurns]
    BY <2>2, HostAssumption DEF SwitchSession, HostInv, Captured
  <2>3. CASE HostEnds
    BY <2>3 DEF HostEnds, HostInv, Captured
  <2> QED BY <2>1, <2>2, <2>3
<1> QED BY <1>1, <1>2 DEF HostInv, Captured, AloneOnce, Finished, ByProvider, ByBridge,
              KeptByBridge

\* The bridge plugin has written the event of a turn when the turn is over; the provider
\* has started its thread.
LEMMA TurnEnded ==
  ASSUME HostInv, EndTurn
  PROVE  Captured' /\ AloneOnce'
<1> PICK t : t = NextTurn
  OBVIOUS
<1> PICK id : id = BridgeId(t, session.id)
  OBVIOUS
<1>1. /\ host = "up" /\ NextTurn \in Turns /\ turns' = Append(turns, session.id)
      /\ syncing' = IF "provider" \in loaded THEN syncing \cup {t} ELSE syncing
      /\ events' = IF "bridge" \in loaded THEN WriteEvent(id, t) ELSE events
      /\ UNCHANGED <<host, loaded, alone, session>>
  BY DEF EndTurn
<1>2. Captured /\ AloneOnce
  BY DEF HostInv
<1>3. /\ turns' \in Seq({1, 2}) /\ Len(turns') <= MaxTurns
      /\ Finished' = Finished \cup {t} /\ t \notin Finished
      /\ \A u \in Finished : turns'[u] = turns[u]
      /\ turns'[t] = session.id
  BY <1>1, <1>2, TurnAppended
<1>4. id = BridgeId(t, turns'[t])
  BY <1>3
<1>5. ASSUME NEW e \in events'
      PROVE  e.turn \in Finished' /\ (ByProvider(e, e.turn)' \/ ByBridge(e, e.turn)')
  <2>1. e \in events \/ (e.id = id /\ e.turn = t)
    <3>1. PICK x : x = [id |-> id, turn |-> t]
      OBVIOUS
    <3>2. e \in events \/ e = x
      BY <1>1, <3>1 DEF WriteEvent
    <3> QED BY <3>1, <3>2
  <2>2. CASE e \in events
    BY <1>2, <1>3, <2>2 DEF Captured, ByProvider, ByBridge
  <2>3. CASE e.id = id /\ e.turn = t
    BY <1>3, <1>4, <2>3 DEF ByBridge
  <2> QED BY <2>1, <2>2, <2>3
<1>6. ASSUME "provider" \in loaded', NEW u \in Finished' \ syncing'
      PROVE  \E e \in events' : ByProvider(e, u)'
  <2>1. u \in Finished \ syncing
    BY <1>1, <1>3, <1>6
  <2>2. \E e \in events : e.id[1] = "provider" /\ e.id[2] = turns[u] /\ e.id[4] = TextOf[u]
    BY <1>1, <1>2, <1>6, <2>1 DEF Captured, ByProvider
  <2>3. \E e \in events' : e.id[1] = "provider" /\ e.id[2] = turns[u] /\ e.id[4] = TextOf[u]
    <3>1. \A a, b : (\E e \in events : e.id[1] = "provider" /\ e.id[2] = a /\ e.id[4] = b) =>
            \E e \in WriteEvent(id, t) : e.id[1] = "provider" /\ e.id[2] = a /\ e.id[4] = b
      BY EventWritten
    <3> QED BY <1>1, <2>2, <3>1
  <2> QED BY <1>3, <2>1, <2>3 DEF ByProvider
<1>7. ASSUME "bridge" \in loaded', NEW u \in Finished'
      PROVE  KeptByBridge(u)'
  <2>1. /\ [id |-> id, turn |-> t] \in events'
        /\ \A e \in events : e.id # id => e \in events'
    BY <1>1, <1>7, EventWritten
  <2>2. Len(turns) \in Nat /\ t = Len(turns) + 1 /\ Len(turns') = t
    BY <1>1, <1>2, TurnAppended DEF Captured, NextTurn
  <2>3. CASE u = t
    BY <1>4, <2>1, <2>2, <2>3 DEF KeptByBridge
  <2>4. CASE u \in Finished
    <3>1. PICK v \in u .. Len(turns) :
            /\ BridgeId(v, turns[v]) = BridgeId(u, turns[u])
            /\ [id |-> BridgeId(v, turns[v]), turn |-> v] \in events
      BY <1>1, <1>2, <1>7, <2>4 DEF Captured, KeptByBridge
    <3>2. u \in 1 .. Len(turns) /\ v \in Finished /\ v \in u .. t /\ t \in u .. t
      BY <2>2, <2>4, <3>1 DEF Finished
    <3>3. turns'[v] = turns[v] /\ turns'[u] = turns[u]
      BY <1>3, <3>2 DEF Finished
    <3>4. CASE BridgeId(v, turns[v]) = id
      BY <1>4, <2>1, <2>2, <3>1, <3>2, <3>3, <3>4 DEF KeptByBridge
    <3>5. CASE BridgeId(v, turns[v]) # id
      <4>1. [id |-> BridgeId(v, turns[v]), turn |-> v] \in events'
        BY <2>1, <3>1, <3>5
      <4> QED BY <2>2, <3>1, <3>2, <3>3, <4>1 DEF KeptByBridge
    <3> QED BY <3>4, <3>5
  <2> QED BY <1>3, <2>3, <2>4
<1>8. Captured'
  <2>1. syncing' \subseteq Finished'
    BY <1>1, <1>2, <1>3 DEF Captured
  <2> QED BY <1>1, <1>2, <1>3, <1>5, <1>6, <1>7, <2>1 DEF Captured
<1>9. AloneOnce'
  <2> SUFFICES ASSUME alone PROVE AloneOnce'
    BY <1>1 DEF AloneOnce
  <2>1. loaded = {"provider"} /\ events' = events /\ syncing' = syncing \cup {t}
    BY <1>1, <1>2 DEF AloneOnce
  <2>2. \A e \in events : e.turn # t
    BY <1>2, <1>3 DEF Captured
  <2> QED BY <1>1, <1>2, <2>1, <2>2 DEF AloneOnce
<1> QED BY <1>8, <1>9

LEMMA TurnSynced ==
  ASSUME HostInv, NEW t \in Turns, SyncTurn(t)
  PROVE  Captured' /\ AloneOnce'
<1> PICK id : id = ProviderId(t, turns[t])
  OBVIOUS
<1>1. /\ host = "up" /\ t \in syncing /\ syncing' = syncing \ {t}
      /\ events' = WriteEvent(id, t)
      /\ UNCHANGED <<host, loaded, alone, session, turns>>
  BY DEF SyncTurn
<1>2. Captured /\ AloneOnce
  BY DEF HostInv
<1>3. id[1] = "provider" /\ id[2] = turns[t] /\ id[4] = TextOf[t]
  BY DEF ProviderId
<1>4. /\ \A e \in events' : e \in events \/ (e.id = id /\ e.turn = t)
      /\ [id |-> id, turn |-> t] \in events'
      /\ \A e \in events : e.id # id => e \in events'
  BY <1>1, EventWritten
<1>5. ASSUME NEW e \in events'
      PROVE  e.turn \in Finished' /\ (ByProvider(e, e.turn)' \/ ByBridge(e, e.turn)')
  BY <1>1, <1>2, <1>3, <1>4 DEF Captured, ByProvider, ByBridge, Finished
<1>6. ASSUME "provider" \in loaded', NEW u \in Finished' \ syncing'
      PROVE  \E e \in events' : ByProvider(e, u)'
  <2>1. CASE u \notin syncing
    <3>1. \E e \in events : e.id[1] = "provider" /\ e.id[2] = turns[u] /\ e.id[4] = TextOf[u]
      BY <1>1, <1>2, <1>6, <2>1 DEF Captured, ByProvider, Finished
    <3>2. \E e \in events' : e.id[1] = "provider" /\ e.id[2] = turns[u] /\ e.id[4] = TextOf[u]
      <4>1. \A a, b : (\E e \in events : e.id[1] = "provider" /\ e.id[2] = a /\ e.id[4] = b) =>
              \E e \in WriteEvent(id, t) : e.id[1] = "provider" /\ e.id[2] = a /\ e.id[4] = b
        BY EventWritten
      <4> QED BY <1>1, <3>1, <4>1
    <3> QED BY <1>1, <3>2 DEF ByProvider
  <2>2. CASE u = t
    BY <1>1, <1>3, <1>4, <2>2 DEF ByProvider
  <2> QED BY <1>1, <1>6, <2>1, <2>2
<1>7. ASSUME "bridge" \in loaded', NEW u \in Finished'
      PROVE  KeptByBridge(u)'
  <2>1. \A v, s : BridgeId(v, s) # id
    BY <1>3, BridgeIdIs
  <2>2. KeptByBridge(u)
    BY <1>1, <1>2, <1>7 DEF Captured, Finished
  <2> QED BY <1>1, <1>4, <2>1, <2>2 DEF KeptByBridge
<1>8. Captured'
  BY <1>1, <1>2, <1>5, <1>6, <1>7 DEF Captured, Finished
<1>9. AloneOnce'
  <2> SUFFICES ASSUME alone PROVE AloneOnce'
    BY <1>1 DEF AloneOnce
  <2>1. \A e \in events : e.turn \notin syncing /\ e.turn # t
    BY <1>1, <1>2 DEF AloneOnce
  <2>2. \A e \in events' : e \in events \/ e = [id |-> id, turn |-> t]
    BY <1>1 DEF WriteEvent
  <2>3. \A e, f \in events' : e.turn = f.turn => e = f
    BY <1>2, <2>1, <2>2 DEF AloneOnce
  <2> QED BY <1>1, <1>2, <1>4, <2>1, <2>3 DEF AloneOnce
<1> QED BY <1>8, <1>9

LEMMA HostInvKept ==
  ASSUME HostInv, [HostNext]_hostVars
  PROVE  HostInv'
<1>1. CASE InstallerNext /\ UNCHANGED captureVars
  <2>1. InstallInv'
    BY <1>1, InstallInvKept DEF HostInv
  <2> QED BY <1>1, <2>1 DEF captureVars, HostInv, Captured, AloneOnce, Finished, ByProvider, ByBridge,
              KeptByBridge
<1>2. CASE lastDone # Missing /\ CaptureNext /\ UNCHANGED installVars
  <2>1. InstallInv'
    BY <1>2, InstallInvStays DEF HostInv
  <2> QED BY <1>2, <2>1, HostStarted, TurnStarted, TurnEnded, TurnSynced DEF CaptureNext, HostInv
<1>3. CASE UNCHANGED hostVars
  <2>1. UNCHANGED installVars /\ UNCHANGED captureVars
    BY <1>3 DEF hostVars
  <2>2. InstallInv'
    BY <2>1, InstallInvStays DEF HostInv
  <2> QED BY <2>1, <2>2 DEF captureVars, HostInv, Captured, AloneOnce, Finished, ByProvider, ByBridge,
              KeptByBridge
<1> QED BY <1>1, <1>2, <1>3 DEF HostNext

\* The inductive invariant of the installer and the host it installs for.
THEOREM HostInvariance == HostSpec => []HostInv
<1>1. InstallerInit /\ HostInit => HostInv
  <2> SUFFICES ASSUME InstallerInit, HostInit PROVE HostInv
    OBVIOUS
  <2>1. <<>> \in Seq({1, 2}) /\ Len(<<>>) = 0
    BY EmptySeq
  <2>2. Captured /\ AloneOnce
    BY <2>1, HostAssumption DEF HostInit, Captured, AloneOnce, Finished
  <2> QED BY <2>2, InstallBegins DEF HostInv
<1>2. HostInv /\ [HostNext]_hostVars => HostInv'
  BY HostInvKept
<1> QED BY <1>1, <1>2, PTL DEF HostSpec

LEMMA EventsAreFew ==
  ASSUME HostInv, alone, NEW t
  PROVE  Cardinality(EventsOf(t)) <= 1
<1>1. \A e, f \in EventsOf(t) : e = f
  BY DEF HostInv, AloneOnce, EventsOf
<1>2. CASE EventsOf(t) = {}
  BY <1>2, FS_EmptySet
<1>3. ASSUME NEW e \in EventsOf(t) PROVE Cardinality(EventsOf(t)) = 1
  <2>1. EventsOf(t) = {e}
    BY <1>1
  <2> QED BY <2>1, FS_Singleton
<1> QED BY <1>2, <1>3

\* What the host is told of is installed, its own plugin and job stay listed, and the last
\* install that nothing overlapped stands; with the provider each turn has an event of its
\* session and text once its thread is over, with the bridge plugin the file of its id
\* holds it or a later turn, whatever the ids keep of a turn; and a Hermes installed in
\* provider mode alone captures no turn twice (installers.ts).
THEOREM HostIsServed == HostSpec => []HostServed
<1>1. HostInv => HostServed
  <2> SUFFICES ASSUME HostInv PROVE HostServed
    OBVIOUS
  <2>1. InstallSound
    BY InstallIsSound DEF HostInv
  <2>2. ASSUME NEW t \in 1 .. Len(turns), "provider" \in loaded, t \notin syncing
        PROVE  KeptByProvider(t)
    <3>1. PICK e \in events : ByProvider(e, t)
      BY <2>2 DEF HostInv, Captured, Finished
    <3>2. ~ByBridge(e, e.turn)
      BY <3>1, BridgeIdIs DEF ByProvider, ByBridge
    <3>3. e.turn \in 1 .. Len(turns) /\ ByProvider(e, e.turn)
      BY <3>2 DEF HostInv, Captured, Finished
    <3>4. Same(t, e.turn) /\ e \in EventsOf(e.turn) /\ e.id[1] = "provider"
      BY <3>1, <3>3 DEF Same, ByProvider, EventsOf
    <3> QED BY <3>3, <3>4 DEF KeptByProvider
  <2>3. \A t \in 1 .. Len(turns) : "bridge" \in loaded => KeptByBridge(t)
    BY DEF HostInv, Captured, Finished
  <2>4. alone => loaded = {"provider"} /\ \A t \in Turns : Cardinality(EventsOf(t)) <= 1
    BY EventsAreFew DEF HostInv, AloneOnce
  <2> QED BY <2>1, <2>2, <2>3, <2>4 DEF HostServed
<1> QED BY <1>1, HostInvariance, PTL

\* The types of the installer and of the host.
THEOREM HostTypes == HostSpec => [](InstallerTypeOK /\ CaptureTypeOK)
<1>1. HostInv => InstallerTypeOK /\ CaptureTypeOK
  <2> SUFFICES ASSUME HostInv PROVE InstallerTypeOK /\ CaptureTypeOK
    OBVIOUS
  <2>1. InstallerTypeOK
    BY InstallIsSound DEF HostInv
  <2>2. syncing \subseteq Turns
    BY HostAssumption DEF HostInv, Captured, Finished, Turns
  <2> QED BY <2>1, <2>2 DEF HostInv, Captured, CaptureTypeOK
<1> QED BY <1>1, HostInvariance, PTL

-----------------------------------------------------------------------------
\* The parts put together.

\* A part that is not exercised rests.
THEOREM PartsKeepTheirSpecs ==
  Spec => /\ AuditSpec /\ IntakeSpec /\ WikiSpec /\ MaturationSpec
          /\ LockSpec /\ ReviewSpec /\ HostSpec
<1>1. Init => /\ AuditInit /\ IntakeInit /\ WikiInit /\ MaturationInit
              /\ LockInit /\ ReviewInit /\ InstallerInit /\ HostInit
  BY DEF Init
<1>2. ASSUME [Next]_vars
      PROVE  /\ [AuditNext]_auditVars /\ [IntakeNext]_intakeVars /\ [WikiNext]_wikiVars
             /\ [MaturationNext]_maturationVars /\ [LockNext]_lockVars
             /\ [ReviewNext \/ ReviewRests]_reviewVars /\ [HostNext]_hostVars
  BY <1>2 DEF Next, vars, FilesRest, StoreRests
<1> QED
  BY <1>1, <1>2, PTL
  DEF Spec, AuditSpec, IntakeSpec, WikiSpec, MaturationSpec, LockSpec, ReviewSpec, HostSpec

\* The types of every part hold whichever part a behaviour exercises (atomicWriteText).
THEOREM WritersTyped == Spec => []TypeOK
<1>1. AuditInv => AuditTypeOK
  BY DEF AuditInv
<1>2. LockInv => LockTypeOK
  BY DEF LockInv
<1>3. (/\ AuditTypeOK /\ IntakeTypeOK /\ WikiTypeOK /\ MaturationTypeOK /\ LockTypeOK
       /\ ReviewTypeOK /\ InstallerTypeOK /\ CaptureTypeOK) => TypeOK
  BY DEF TypeOK
<1> QED
  BY <1>1, <1>2, <1>3, PartsKeepTheirSpecs, LogInvariance, IntakeTyped, WikiTypesKept,
     MaturationTypesKept, LockInvariance, ReviewTypesKept, HostTypes, PTL

\* What the parts promise holds of them put together (the store's files, its locks and the
\* host's files).
THEOREM WritersSound ==
  RetryFirst =>
    (Spec => /\ [](/\ LoggedOnce /\ IntakeWhole /\ ThreadKeepsMessages /\ WikiWhole
                   /\ MaturationWhole /\ CanonTraceable /\ StoreExclusive
                   /\ ResolutionWhole /\ CanonFollowsWorld /\ HostServed)
             /\ PagesOnlyGain)
  BY PartsKeepTheirSpecs, EntriesLoggedOnce, AnsweredIsWhole, MessagesKept, RunsWhole,
     MaturedWhole, CanonTraced, StoreLockExcludes, ReviewsWhole, WorldFollowed, HostIsServed,
     PagesGain, PTL
=================================================================================
