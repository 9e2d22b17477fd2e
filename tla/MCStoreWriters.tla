---------------------------- MODULE MCStoreWriters ----------------------------
(***************************************************************************)
(* An instance of the subsystems that write files to the store: the audit  *)
(* log, the intake store, wiki maintenance and memory maturation, each     *)
(* under locks of its own, the store lock itself, the reviews of           *)
(* contradictions that run under it, and the installer with the Hermes     *)
(* host it installs for.  They share no file here, so a behaviour          *)
(* exercises one of them, its part, and the others stay as they begin.     *)
(***************************************************************************)
EXTENDS AuditLog, RuntimeBridge, WikiMaintenance, MemoryMaturation, StoreLock,
        MCContradictionReview, HermesHost, TLC

CONSTANTS proc1, proc2, e1, e2, e3, p1, p2, c1, c2, s1, s2, r1, r2, r3, r4,
          n1, n2, n3, n4, diet, pet, tA, tB, tC

VARIABLE part

Procs == {proc1, proc2}
Symmetric == Permutations(Procs)

\* e1 and e2 are messages of one thread; e3 has the payload of e1 and says the thread
\* is of another session.
ContentRefs == [e \in Events |-> IF e = e2 THEN 2 ELSE 1]
OneThread == [e \in Events |-> 1]
Sessions == [e \in Events |-> IF e = e3 THEN 2 ELSE 1]
\* What the bridge delivers: two messages; one message while the config binds its runtime
\* to its instance and to another one; a message and a report; two messages, the other
\* events not being taken in.
Sent(e, type) == [id |-> e, type |-> type, instance |-> "home"]
Message(e) == Sent(e, "message_observed")
Deliveries ==
  {{}, IntakesOf({"home"}, {Message(e1), Message(e2)}),
   IntakesOf({"home", "away"}, {Message(e1)}),
   IntakesOf({"home"}, {Message(e1), Sent(e3, "runtime_diagnostic")}),
   IntakesOf({"unnamed"}, {Message(e2), Sent(e3, "memory_consolidation"),
                           Sent(e1, "review_action_requested")})}

\* r1 files a claim under a page, r2 extends that page and adds one, r3 supersedes the
\* claim, r4 lints.
Event(kind, pages, source, claim, supersedes) ==
  [kind |-> kind, pages |-> pages, source |-> source, claim |-> claim,
   supersedes |-> supersedes]
Maintenance ==
  [r \in Runs |-> CASE r = r1 -> Event("ingest", <<p1>>, s1, c1, NoRef)
                    [] r = r2 -> Event("ingest", <<p1, p2>>, s2, NoRef, NoRef)
                    [] r = r3 -> Event("claim_superseded", <<>>, NoRef, c2, c1)
                    [] r = r4 -> Event("lint_run", <<>>, NoRef, NoRef, NoRef)]
Cycles == {{}, {r1, r2}, {r1, r3}, {r1, r4}}

\* Two slots.  Of diet, tA is a disputed remark of an agent on its own work with three
\* observations, and tB is heard on the second day; tC is what the owner says of the pet.
DayOfNote == [n \in Notes |-> IF n = n1 THEN 1 ELSE 2]
Proposed == <<{n1, n2, n3}, {n1, n2, n3, n4}>>
Claimed(slot, support, role, confidence, state, operational, asks) ==
  [slot |-> slot, support |-> support, role |-> role, risk |-> "low",
   confidence |-> confidence, state |-> state, operational |-> operational, asks |-> asks]
Evidence == {"evidence_only"}
Said ==
  [t \in Topics |->
     CASE t = tA -> Claimed(diet, {n1, n2, n3}, "agent", "medium", "disputed", TRUE, Evidence)
       [] t = tB -> Claimed(diet, {n4}, "external", "medium", "inferred", FALSE, Evidence)
       [] t = tC -> Claimed(pet, {n3}, "owner", "high", "inferred", FALSE,
                            {"proposal_for_canon", "diagnostic_only"})]
Answers == <<{<<tA, tC>>}, {<<tB>>}>>

\* OpenClaw, and Hermes in each mode.  The two turns have the same text; the references of
\* session 1 are so long that its turns share an event file of the bridge plugin.
ToInstall ==
  {[runtime |-> "openclaw", mode |-> "bridge", rooted |-> TRUE]}
    \cup {[runtime |-> "hermes", mode |-> m, rooted |-> TRUE] : m \in InstallModes}
Texts == <<"hi", "hi">>
Slugs == [w \in {1, 2} \X Turns |-> IF w[1] = 1 THEN 0 ELSE w[2]]

vars == <<part, auditVars, intakeVars, wikiVars, maturationVars, lockVars, reviewVars, hostVars>>

\* What the installer finds: some of its choices go with the others, to have fewer states.
HostBegins ==
  IF part = "host"
  THEN /\ (shim = "foreign") = configured
       /\ (channels = 2) = (cron = Missing \/ (hadJobs /\ configured))
       /\ cron = Invalid => yaml = Missing
       /\ yaml # Missing /\ yaml.indented => ~hadJobs
       /\ cron = Missing => yaml = Missing \/ yaml.provider = "other"
       /\ Registered # {} => hadJobs /\ yaml # Missing /\ yaml.provider = "none"
  ELSE /\ configured /\ registry["openclaw"] = Missing /\ shim = "none"
       /\ yaml = Missing /\ cron = Missing /\ channels = 1

Init ==
  /\ part \in {"log", "intake", "wiki", "memory", "lock", "review", "host"}
  /\ AuditInit /\ IntakeInit /\ WikiInit /\ MaturationInit /\ LockInit /\ ReviewInit
  /\ (part = "intake") = (offered # {})
  /\ (part = "wiki") = (due # {})
  /\ InstallerInit /\ HostInit
  /\ HostBegins

\* All runs and promotions of the bound are over.
Rested == works = MaxWorks /\ \A m \in Maturers : MatureAt(m, "idle")

\* What the parts leave alone.
FilesRest == UNCHANGED <<auditVars, intakeVars, wikiVars, maturationVars>>
StoreRests == UNCHANGED <<lockVars, reviewVars, hostVars>>

Next ==
  /\ UNCHANGED part
  /\ \/ /\ part = "log" /\ AuditNext
        /\ StoreRests /\ UNCHANGED <<intakeVars, wikiVars, maturationVars>>
     \/ /\ part = "intake" /\ IntakeNext
        /\ StoreRests /\ UNCHANGED <<auditVars, wikiVars, maturationVars>>
     \/ /\ part = "wiki" /\ WikiNext
        /\ StoreRests /\ UNCHANGED <<auditVars, intakeVars, maturationVars>>
     \/ /\ part = "memory" /\ MaturationNext
        /\ StoreRests /\ UNCHANGED <<auditVars, intakeVars, wikiVars>>
     \/ part = "memory" /\ Rested /\ UNCHANGED vars
     \/ part = "lock" /\ LockNext /\ FilesRest /\ UNCHANGED <<reviewVars, hostVars>>
     \/ part = "review" /\ ReviewNext /\ FilesRest /\ UNCHANGED <<lockVars, hostVars>>
     \/ part = "review" /\ ReviewRests /\ UNCHANGED vars
     \/ part = "host" /\ HostNext /\ FilesRest /\ UNCHANGED <<lockVars, reviewVars>>
     \/ part = "host" /\ InstallerRests /\ host # "up" /\ UNCHANGED vars

Spec == Init /\ [][Next]_vars

\* The files and locks of the part a behaviour exercises hold what their types say; the
\* other parts are as they begin (atomicWriteText).
TypeOK ==
  /\ part = "log" => AuditTypeOK
  /\ part = "intake" => IntakeTypeOK
  /\ part = "wiki" => WikiTypeOK
  /\ part = "memory" => MaturationTypeOK
  /\ part = "lock" => LockTypeOK
  /\ part = "review" => ReviewTypeOK
  /\ part = "host" => InstallerTypeOK /\ CaptureTypeOK
=============================================================================
