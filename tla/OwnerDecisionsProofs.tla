-------------------------- MODULE OwnerDecisionsProofs --------------------------
(***************************************************************************)
(* Proofs about OwnerDecisions, for any proposals, callers and number of   *)
(* failures.                                                               *)
(*                                                                         *)
(* What holds however decisions overlap (Safe) rests on the records only   *)
(* growing: what a session has written stays written.  What holds when     *)
(* callers take turns (InTurns) rests on there being one pending decision  *)
(* at a time, whose plan still describes the store.                        *)
(***************************************************************************)
EXTENDS OwnerDecisions, TLAPS

\* A session whose plan is one that PlanOf made or a journal held.
Committed(s) == session[s].step \in {"journal", "write", "clear"}

\* The plans that are still to be written, or may be written again.
Pending == journal \cup {session[s].plan : s \in {t \in Sessions : Committed(t)}}

\* The parts a session has written since it took up its plan.
Upto(a, n) == {Parts(a)[i] : i \in 1 .. n}
Done(s) ==
  CASE At(s, "write") -> Upto(session[s].plan.a, session[s].next - 1)
    [] At(s, "clear") -> Upto(session[s].plan.a, Len(Parts(session[s].plan.a)))
    [] OTHER -> {}

-----------------------------------------------------------------------------
\* What holds however decisions overlap.

InRange == \A s \in Sessions : At(s, "write") => session[s].next <= Len(Parts(session[s].plan.a))

PacketKnown == \A p \in Proposals : store.packet[p] = "none" <=> p \notin HasPacket

Sound(st, plan) ==
  /\ plan.packet = (plan.p \in HasPacket)
  /\ plan.a = "ratify" /\ Retires(plan.p) => st.canon[Target[plan.p]] # "none"

\* What no later step takes back of a part that was written.
Lasting(st, plan, part) ==
  /\ part = "proposal" => st.proposal[plan.p] = "rejected"
  /\ part = "rat" => <<plan.p, plan.a>> \in st.rat
  /\ part = "created" /\ Creates(plan.p) => st.canon[plan.p] # "none"
  /\ part = "claim" => plan.p \in st.claim
  /\ part = "packet" /\ plan.p \in HasPacket => st.packet[plan.p] # "pending"
  /\ part = "disp" => <<plan.p, plan.a>> \in st.disp

DoneLasts == \A s \in Sessions : \A part \in Done(s) : Lasting(store, session[s].plan, part)

WriteBacked ==
  \A s \in Sessions : session[s].step \in {"write", "clear"} =>
    \/ JournalOf(session[s].plan.p, session[s].plan.a) # {}
    \/ Decision(s) \in store.disp

TargetKnown == \A q \in Proposals : Revised(q) => store.canon[Target[q]] # "none"

Safe ==
  /\ InRange /\ PacketKnown
  /\ \A plan \in Pending : Sound(store, plan)
  /\ DoneLasts /\ WriteBacked /\ TargetKnown
  /\ CanonRatified /\ DispositionComplete /\ DecisionAccounted

-----------------------------------------------------------------------------
\* What holds when callers take turns.

\* What the journals are to one session: about its decision, if it takes one.
OwnJournal(js, x) ==
  /\ x.step # "idle" => \A j \in js : j.p = x.plan.p /\ j.a = x.plan.a
  /\ x.step \in {"load", "journal"} => js = {}
  /\ x.step \in {"write", "clear"} => js = {x.plan}

Turns ==
  /\ \A s, t \in Sessions : s # t => At(s, "idle") \/ At(t, "idle")
  /\ \A j, k \in journal : j = k
  /\ \A s \in Sessions : OwnJournal(journal, session[s])

Decided(st, p) == {a \in Actions : <<p, a>> \in st.disp}

\* What the packet says of a proposal with these decisions.
Told(decided) ==
  IF "ratify" \in decided THEN "applied" ELSE IF decided # {} THEN "answered" ELSE "pending"

\* A record that was made by revising another one, as Revised.
RevisedIn(st, p) == Creates(p) /\ Retires(p) /\ st.canon[p] # "none"

\* What a pending plan still says truly of the store: of the proposal's end, its
\* page, its packet, and the slot of the record a ratification will create.
EndOpen(st, plan) ==
  \A end \in {"ratify", "reject"} : <<plan.p, end>> \in st.rat => end = plan.a
PageOpen(st, plan) ==
  plan.p \in plan.page /\ st.page[SlotOf[plan.p]] \subseteq plan.page
PacketOpen(st, plan) ==
  plan.p \in HasPacket =>
    st.packet[plan.p] \in {Told(Decided(st, plan.p)), Told(Decided(st, plan.p) \cup {plan.a})}
SlotOpen(st, plan) ==
  plan.a = "ratify" =>
    /\ \A q \in Proposals : RevisedIn(st, q) => Target[q] # plan.p
    /\ Retires(plan.p) => Target[plan.p] # plan.p
    /\ Operation[plan.p] = "create" =>
         \A q \in Proposals :
           st.canon[q] # "none" /\ SlotOf[q] = SlotOf[plan.p] => q = plan.p
Open(st, plan) ==
  EndOpen(st, plan) /\ PageOpen(st, plan) /\ PacketOpen(st, plan) /\ SlotOpen(st, plan)

\* What only the next decision may take back of a part that was written.
Current(st, plan, part) ==
  /\ part = "page" => plan.page \subseteq st.page[SlotOf[plan.p]]
  /\ part = "packet" /\ plan.p \in HasPacket =>
       st.packet[plan.p] = Told(Decided(st, plan.p) \cup {plan.a})
  /\ part = "updated" /\ Retires(plan.p) => st.canon[Target[plan.p]] = "superseded"

DoneCurrent == \A s \in Sessions : \A part \in Done(s) : Current(store, session[s].plan, part)

PacketSays ==
  \A p \in HasPacket :
    store.packet[p] = Told(Decided(store, p)) \/ \E j \in journal : j.p = p

\* A record of the slot was revised twice, or one of another slot into it.
Exception(st, slot) ==
  \E r \in Proposals :
    /\ RevisedIn(st, r)
    /\ \/ SlotOf[r] = slot /\ SlotOf[Target[r]] # slot
       \/ /\ SlotOf[Target[r]] = slot
          /\ \E t \in Proposals : t # r /\ RevisedIn(st, t) /\ Target[t] = Target[r]

\* A record that no other one revises.
Latest(st, p) == st.canon[p] # "none" /\ \A q \in Proposals : RevisedIn(st, q) => Target[q] # p

OneLatest ==
  \A p, q \in Proposals :
    Latest(store, p) /\ Latest(store, q) /\ SlotOf[p] = SlotOf[q] =>
      p = q \/ Exception(store, SlotOf[p])

RevisedRetired ==
  \A q \in Proposals : Revised(q) /\ store.canon[Target[q]] = "ratified" =>
    \E j \in journal : j.a = "ratify" /\ j.p = q

Orderly ==
  /\ Turns /\ DoneCurrent /\ PacketSays /\ OneLatest /\ RevisedRetired
  /\ \A plan \in Pending : Open(store, plan)
  /\ \A p \in Proposals : ~({<<p, "ratify">>, <<p, "reject">>} \subseteq store.rat)
  /\ \A p \in Proposals : <<p, "move_to_wiki">> \in store.disp => p \in store.page[SlotOf[p]]

InTurns == orderly => Orderly

-----------------------------------------------------------------------------
\* Types.

\* What a member of Plans is made of.
LEMMA PlanFields ==
  ASSUME NEW plan \in Plans
  PROVE  /\ plan.p \in Proposals /\ plan.a \in Actions
         /\ <<plan.p, plan.a>> \in Decisions
         /\ plan.page \in SUBSET Proposals /\ plan.packet \in BOOLEAN
BY DEF Plans, Decisions

\* What makes a member of Plans.
LEMMA PlanMade ==
  ASSUME NEW p, NEW a, <<p, a>> \in Decisions, NEW c \in SUBSET Proposals,
         NEW b \in BOOLEAN
  PROVE  [p |-> p, a |-> a, page |-> c, packet |-> b] \in Plans
<1> DEFINE d == <<p, a>>
<1>1. [p |-> d[1], a |-> d[2], page |-> c, packet |-> b] \in Plans
  BY DEF Plans
<1> QED
  BY <1>1

\* An idle session has some plan: there is a decision to be taken.
LEMMA IdleTyped == IdleSession \in [step : Steps, plan : Plans, next : 1 .. 5, own : BOOLEAN]
<1>1. PICK d \in Decisions : TRUE
  BY DecisionAssumption
<1>2. <<d[1], d[2]>> \in Decisions
  BY <1>1 DEF Decisions
<1>3. [p |-> d[1], a |-> d[2], page |-> {}, packet |-> FALSE] \in Plans
  BY <1>2, PlanMade
<1>4. (CHOOSE j \in Plans : TRUE) \in Plans
  BY <1>3
<1> QED
  BY <1>4 DEF IdleSession, Steps

\* The lists of parts: their lengths, and what each part comes after.
LEMMA PartsShape ==
  ASSUME NEW a \in Actions
  PROVE  /\ Len(Parts(a)) \in Nat /\ 2 <= Len(Parts(a)) /\ Len(Parts(a)) <= 5
         /\ \A n \in 1 .. Len(Parts(a)) :
              /\ Parts(a)[n] = "disp" <=> n = Len(Parts(a))
              /\ Parts(a)[n] = "created" => a = "ratify" /\ n = 2
              /\ Parts(a)[n] = "updated" => a = "ratify" /\ n = 3
              /\ Parts(a)[n] = "rat" => a \in {"ratify", "keep_maturing", "reject"}
              /\ Parts(a)[n] = "proposal" => a = "reject"
              /\ Parts(a)[n] \in {"page", "claim"} => a = "move_to_wiki"
BY DEF Actions, Parts

\* What was written by the time a decision's last part is.
LEMMA BeforeLast ==
  ASSUME NEW a \in Actions
  PROVE  LET before == Upto(a, Len(Parts(a)) - 1)
         IN /\ "packet" \in before
            /\ a \in {"ratify", "keep_maturing", "reject"} => "rat" \in before
            /\ a = "ratify" => {"created", "updated"} \subseteq before
            /\ a = "reject" => "proposal" \in before
            /\ a = "move_to_wiki" => {"page", "claim"} \subseteq before
<1>1. CASE a = "ratify"
  BY <1>1 DEF Parts, Upto
<1>2. CASE a = "subsume"
  BY <1>2 DEF Parts, Upto
<1>3. CASE a = "keep_maturing"
  BY <1>3 DEF Parts, Upto
<1>4. CASE a = "move_to_wiki"
  BY <1>4 DEF Parts, Upto
<1>5. CASE a = "reject"
  BY <1>5 DEF Parts, Upto
<1> QED
  BY <1>1, <1>2, <1>3, <1>4, <1>5 DEF Actions

\* One more part.
LEMMA UptoNext ==
  ASSUME NEW a, NEW n \in Nat
  PROVE  Upto(a, n + 1) = Upto(a, n) \cup {Parts(a)[n + 1]}
BY DEF Upto

\* What the type invariant says of one session.
LEMMA SessionTyped ==
  ASSUME TypeOK, NEW s \in Sessions
  PROVE  /\ session \in [Sessions -> [step : Steps, plan : Plans, next : 1 .. 5, own : BOOLEAN]]
         /\ session[s].step \in Steps /\ session[s].plan \in Plans
         /\ session[s].next \in 1 .. 5 /\ session[s].own \in BOOLEAN
         /\ session[s].plan.p \in Proposals /\ session[s].plan.a \in Actions
         /\ Decision(s) \in Decisions
<1>1. session[s] \in [step : Steps, plan : Plans, next : 1 .. 5, own : BOOLEAN]
  BY DEF TypeOK
<1>2. session[s].plan \in Plans
  BY <1>1
<1> QED
  BY <1>1, <1>2, PlanFields DEF TypeOK, Decision

\* The steps Next is made of.
LEMMA NextSteps ==
  ASSUME Next
  PROVE  \E s \in Sessions :
           \/ \E d \in Decisions : Start(s, d[1], d[2])
           \/ Acquire(s) \/ FindStale(s) \/ RemoveStale(s) \/ TimeOut(s)
           \/ FindJournal(s) \/ FindNoJournal(s) \/ Refuse(s) \/ ReturnUnchanged(s)
           \/ Repeat(s) \/ Decide(s) \/ WriteJournal(s) \/ WriteRecord(s)
           \/ ClearJournal(s) \/ Finish(s) \/ Throw(s) \/ Crash(s)
BY DEF Next, Work

\* A step that leaves a session somewhere with a plan keeps the sessions typed.
LEMMA GotoTyped ==
  ASSUME TypeOK, NEW s \in Sessions, NEW step \in Steps, NEW plan \in Plans,
         NEW own \in BOOLEAN, Goto(s, step, plan, own)
  PROVE  session' \in [Sessions -> [step : Steps, plan : Plans, next : 1 .. 5, own : BOOLEAN]]
<1>1. [step |-> step, plan |-> plan, next |-> 1, own |-> own]
        \in [step : Steps, plan : Plans, next : 1 .. 5, own : BOOLEAN]
  OBVIOUS
<1> QED
  BY <1>1 DEF TypeOK, Goto

\* So does the return of a decision, which frees the lock.
LEMMA ReleaseTyped ==
  ASSUME TypeOK, NEW s \in Sessions, Release(s)
  PROVE  /\ session' \in [Sessions -> [step : Steps, plan : Plans, next : 1 .. 5, own : BOOLEAN]]
         /\ lock' \in [Decisions -> {"free", "dead"} \cup Sessions]
BY IdleTyped, SessionTyped DEF TypeOK, Release

\* Writing a part keeps the store a store.
LEMMA AfterTyped ==
  ASSUME store \in StoreType, NEW plan \in Plans, NEW part
  PROVE  After(plan, part) \in StoreType
<1>1. /\ plan.p \in Proposals /\ <<plan.p, plan.a>> \in Decisions
      /\ plan.page \in SUBSET Proposals /\ SlotOf[plan.p] \in Slots
      /\ Target[plan.p] \in Proposals
  BY PlanFields, DecisionAssumption DEF Slots
<1> DEFINE p == plan.p
           d == <<plan.p, plan.a>>
<1>2. /\ [store EXCEPT !.proposal[p] = "rejected"] \in StoreType
      /\ [store EXCEPT !.rat = @ \cup {d}] \in StoreType
      /\ [store EXCEPT !.canon[p] = "ratified"] \in StoreType
      /\ [store EXCEPT !.canon[Target[p]] = "superseded"] \in StoreType
      /\ [store EXCEPT !.page[SlotOf[p]] = plan.page] \in StoreType
      /\ [store EXCEPT !.claim = @ \cup {p}] \in StoreType
      /\ [store EXCEPT !.packet[p] = IF plan.a = "ratify" THEN "applied" ELSE "answered"]
           \in StoreType
      /\ [store EXCEPT !.disp = @ \cup {d}] \in StoreType
  BY <1>1 DEF StoreType
<1> QED
  BY <1>2 DEF After

\* The first state.
LEMMA TypeInit == Init => TypeOK /\ InRange
<1> SUFFICES ASSUME Init PROVE TypeOK /\ InRange
  OBVIOUS
<1>1. session \in [Sessions -> [step : Steps, plan : Plans, next : 1 .. 5, own : BOOLEAN]]
  BY IdleTyped DEF Init
<1>2. store \in StoreType
  BY DEF Init, StoreType
<1>3. InRange
  BY DEF Init, InRange, At, IdleSession
<1> QED
  BY <1>1, <1>2, <1>3, DecisionAssumption DEF TypeOK, Init

\* A session's list of parts has no end it writes past, and every step keeps the
\* types: the two are inductive together.
LEMMA TypeStep ==
  ASSUME TypeOK, InRange, [Next]_vars
  PROVE  TypeOK' /\ InRange'
<1> USE DecisionAssumption
<1>1. CASE UNCHANGED vars
  BY <1>1 DEF vars, TypeOK, InRange, At
<1>2. CASE Next
  <2> PICK s \in Sessions :
        \/ \E d \in Decisions : Start(s, d[1], d[2])
        \/ Acquire(s) \/ FindStale(s) \/ RemoveStale(s) \/ TimeOut(s)
        \/ FindJournal(s) \/ FindNoJournal(s) \/ Refuse(s) \/ ReturnUnchanged(s)
        \/ Repeat(s) \/ Decide(s) \/ WriteJournal(s) \/ WriteRecord(s)
        \/ ClearJournal(s) \/ Finish(s) \/ Throw(s) \/ Crash(s)
    BY <1>2, NextSteps
  <2> DEFINE Typed == session' \in [Sessions -> [step : Steps, plan : Plans, next : 1 .. 5, own : BOOLEAN]]
             Locked == lock' \in [Decisions -> {"free", "dead"} \cup Sessions]
  <2>a. session[s].plan \in Plans /\ Decision(s) \in Decisions
    BY SessionTyped
  <2>b. ASSUME NEW step \in Steps, NEW plan \in Plans, NEW own \in BOOLEAN,
               Goto(s, step, plan, own)
        PROVE  Typed /\ InRange'
    <3>1. Typed
      BY <2>b, GotoTyped
    <3>2. 1 <= Len(Parts(plan.a))
      <4>1. plan.a \in Actions
        BY PlanFields
      <4> QED
        BY <4>1, PartsShape
    <3> QED
      BY <2>b, <3>1, <3>2 DEF TypeOK, InRange, Goto, At
  <2>c. ASSUME Release(s)
        PROVE  Typed /\ Locked /\ InRange'
    <3>1. Typed /\ Locked
      BY <2>c, ReleaseTyped
    <3> QED
      BY <2>c, <3>1 DEF TypeOK, InRange, Release, At, IdleSession
  <2>d. ASSUME session' = [session EXCEPT ![s] = IdleSession]
        PROVE  Typed /\ InRange'
    BY <2>d, IdleTyped DEF TypeOK, InRange, At, IdleSession
  <2>e. Decisions # {} /\ MaxFailures \in Nat /\ failures \in 0 .. MaxFailures
    BY DEF TypeOK
  <2>1. CASE \E d \in Decisions : Start(s, d[1], d[2])
    <3> PICK d \in Decisions : Start(s, d[1], d[2])
      BY <2>1
    <3>1. [p |-> d[1], a |-> d[2], page |-> {}, packet |-> FALSE] \in Plans
      BY PlanMade DEF Decisions
    <3>2. Typed /\ InRange'
      BY <3>1, <2>b DEF Start, Steps
    <3> QED
      BY <3>2 DEF TypeOK, Start
  <2>2. CASE Acquire(s)
    <3>1. Typed /\ InRange'
      BY <2>2, <2>a, <2>b DEF Acquire, Steps
    <3>2. Locked
      BY <2>2, <2>a DEF Acquire, TypeOK
    <3> QED
      BY <2>2, <3>1, <3>2 DEF TypeOK, Acquire
  <2>3. CASE FindStale(s)
    <3>1. Typed /\ InRange'
      BY <2>3, <2>a, <2>b DEF FindStale, Steps
    <3>2. failures' \in 0 .. MaxFailures
      BY <2>3, <2>e DEF FindStale
    <3> QED
      BY <2>3, <3>1, <3>2 DEF TypeOK, FindStale
  <2>4. CASE RemoveStale(s)
    <3>1. Typed /\ InRange'
      BY <2>4, <2>a, <2>b DEF RemoveStale, Steps
    <3>2. Locked
      BY <2>4, <2>a DEF RemoveStale, TypeOK
    <3> QED
      BY <2>4, <3>1, <3>2 DEF TypeOK, RemoveStale
  <2>5. CASE TimeOut(s)
    <3>1. Typed /\ InRange'
      BY <2>5, <2>d DEF TimeOut
    <3> QED
      BY <2>5, <3>1 DEF TypeOK, TimeOut
  <2>6. CASE FindJournal(s)
    <3> PICK j \in JournalOf(session[s].plan.p, session[s].plan.a) : Goto(s, "write", j, FALSE)
      BY <2>6 DEF FindJournal
    <3>1. j \in Plans
      BY DEF JournalOf, TypeOK
    <3>2. Typed /\ InRange'
      BY <3>1, <2>b DEF Steps
    <3> QED
      BY <2>6, <3>2 DEF TypeOK, FindJournal
  <2>7. CASE FindNoJournal(s)
    <3>1. Typed /\ InRange'
      BY <2>7, <2>a, <2>b DEF FindNoJournal, Steps
    <3> QED
      BY <2>7, <3>1 DEF TypeOK, FindNoJournal
  <2>8. CASE Refuse(s)
    <3>1. Typed /\ Locked /\ InRange'
      BY <2>8, <2>c DEF Refuse
    <3> QED
      BY <2>8, <3>1 DEF TypeOK, Refuse
  <2>9. CASE ReturnUnchanged(s)
    <3>1. Typed /\ Locked /\ InRange'
      BY <2>9, <2>c DEF ReturnUnchanged
    <3> QED
      BY <2>9, <3>1 DEF TypeOK, ReturnUnchanged
  <2>10. CASE Repeat(s)
    <3>1. Typed /\ InRange'
      BY <2>10, <2>a, <2>b DEF Repeat, Steps
    <3> QED
      BY <2>10, <3>1 DEF TypeOK, Repeat
  <2>11. CASE Decide(s)
    <3>1. PlanOf(session[s].plan.p, session[s].plan.a) \in Plans
      <4>1. /\ session[s].plan.p \in Proposals
            /\ <<session[s].plan.p, session[s].plan.a>> \in Decisions
        BY <2>a, SessionTyped DEF Decision
      <4>2. store.page[SlotOf[session[s].plan.p]] \in SUBSET Proposals
        BY <4>1 DEF TypeOK, StoreType, Slots
      <4> QED
        BY <4>1, <4>2, PlanMade DEF PlanOf
    <3>2. Typed /\ InRange'
      BY <2>11, <3>1, <2>b DEF Decide, Steps
    <3> QED
      BY <2>11, <3>2 DEF TypeOK, Decide
  <2>12. CASE WriteJournal(s)
    <3>1. Typed /\ InRange'
      BY <2>12, <2>a, <2>b DEF WriteJournal, Steps
    <3>2. journal' \subseteq Plans
      BY <2>12, <2>a DEF WriteJournal, TypeOK
    <3> QED
      BY <2>12, <3>1, <3>2 DEF TypeOK, WriteJournal
  <2>13. CASE WriteRecord(s)
    <3>1. store' \in StoreType
      BY <2>13, <2>a, AfterTyped DEF WriteRecord, TypeOK
    <3> DEFINE last == Len(Parts(session[s].plan.a))
    <3>2. last \in Nat /\ last <= 5 /\ session[s].next \in 1 .. last
      BY <2>13, <2>a, SessionTyped, PartsShape DEF WriteRecord, InRange
    <3>3. Typed /\ InRange'
      <4>1. CASE session[s].next = last
        <5>1. Goto(s, "clear", session[s].plan, session[s].own)
          BY <2>13, <4>1 DEF WriteRecord
        <5> QED
          BY <5>1, <2>a, <2>b, SessionTyped DEF Steps
      <4>2. CASE session[s].next # last
        <5>1. session' = [session EXCEPT ![s].next = @ + 1]
          BY <2>13, <4>2 DEF WriteRecord
        <5>2. session[s].next + 1 \in 1 .. last
          BY <3>2, <4>2
        <5>3. session[s].next + 1 \in 1 .. 5 /\ session[s].next + 1 <= last
          BY <5>2, <3>2
        <5>4. Typed
          BY <5>1, <5>3, SessionTyped
        <5>5. \A t \in Sessions : t # s => session'[t] = session[t]
          BY <5>1, SessionTyped
        <5>6. session'[s].next = session[s].next + 1 /\ session'[s].plan = session[s].plan
          BY <5>1, SessionTyped
        <5> QED
          BY <5>3, <5>4, <5>5, <5>6 DEF InRange, At
      <4> QED
        BY <4>1, <4>2
    <3> QED
      BY <2>13, <3>1, <3>3 DEF TypeOK, WriteRecord
  <2>14. CASE ClearJournal(s)
    <3>1. Typed /\ InRange'
      BY <2>14, <2>a, <2>b DEF ClearJournal, Steps
    <3> QED
      BY <2>14, <3>1 DEF TypeOK, ClearJournal
  <2>15. CASE Finish(s)
    <3>1. Typed /\ Locked /\ InRange'
      BY <2>15, <2>c DEF Finish
    <3> QED
      BY <2>15, <3>1 DEF TypeOK, Finish
  <2>16. CASE Throw(s)
    <3>1. Typed /\ Locked /\ InRange'
      BY <2>16, <2>c DEF Throw
    <3>2. failures' \in 0 .. MaxFailures
      BY <2>16, <2>e DEF Throw
    <3> QED
      BY <2>16, <3>1, <3>2 DEF TypeOK, Throw
  <2>17. CASE Crash(s)
    <3>1. Typed /\ InRange'
      BY <2>17, <2>d DEF Crash
    <3>2. failures' \in 0 .. MaxFailures
      BY <2>17, <2>e DEF Crash
    <3>3. Locked
      BY <2>17 DEF Crash, TypeOK
    <3> QED
      BY <2>17, <3>1, <3>2, <3>3 DEF TypeOK, Crash
  <2> QED
    BY <2>1, <2>2, <2>3, <2>4, <2>5, <2>6, <2>7, <2>8, <2>9, <2>10, <2>11, <2>12,
       <2>13, <2>14, <2>15, <2>16, <2>17
<1> QED
  BY <1>1, <1>2

\* The variables keep their types, and no decision writes past the end of its list
\* of records.
THEOREM DecisionsTyped == Spec => [](TypeOK /\ InRange)
<1>1. TypeOK /\ InRange /\ [Next]_vars => TypeOK' /\ InRange'
  BY TypeStep
<1> QED
  BY <1>1, TypeInit, PTL DEF Spec
-----------------------------------------------------------------------------
\* How the pending plans and the written parts change.

\* A step that leaves the session without a plan to write.
Away(s) == session'[s].step \notin {"journal", "write", "clear"} /\ UNCHANGED <<store, journal, orderly>>

\* Besides those there are the five steps of taking a decision.
LEMMA StepKinds ==
  ASSUME TypeOK, Next
  PROVE  \E s \in Sessions :
           /\ \A t \in Sessions : t # s => session'[t] = session[t]
           /\ \/ Away(s) \/ FindJournal(s) \/ Decide(s) \/ WriteJournal(s)
              \/ WriteRecord(s) \/ ClearJournal(s)
<1> PICK s \in Sessions :
      \/ \E d \in Decisions : Start(s, d[1], d[2])
      \/ Acquire(s) \/ FindStale(s) \/ RemoveStale(s) \/ TimeOut(s)
      \/ FindJournal(s) \/ FindNoJournal(s) \/ Refuse(s) \/ ReturnUnchanged(s)
      \/ Repeat(s) \/ Decide(s) \/ WriteJournal(s) \/ WriteRecord(s)
      \/ ClearJournal(s) \/ Finish(s) \/ Throw(s) \/ Crash(s)
  BY NextSteps
<1> DEFINE Others == \A t \in Sessions : t # s => session'[t] = session[t]
<1>a. session \in [Sessions -> [step : Steps, plan : Plans, next : 1 .. 5, own : BOOLEAN]]
  BY DEF TypeOK
<1>b. ASSUME NEW step, NEW plan, NEW own, Goto(s, step, plan, own)
      PROVE  Others /\ session'[s].step = step
  BY <1>a, <1>b DEF Goto
<1>c. ASSUME session' = [session EXCEPT ![s] = IdleSession]
      PROVE  Others /\ session'[s].step = "idle"
  BY <1>a, <1>c DEF IdleSession
<1>1. CASE \/ \E d \in Decisions : Start(s, d[1], d[2])
           \/ Acquire(s) \/ FindStale(s) \/ RemoveStale(s) \/ FindNoJournal(s) \/ Repeat(s)
  <2>1. \E step \in {"lock", "recover", "unlock", "load", "refresh"} :
          (\E plan, own : Goto(s, step, plan, own)) /\ UNCHANGED <<store, journal, orderly>>
    <3>1. CASE \E d \in Decisions : Start(s, d[1], d[2])
      BY <3>1 DEF Start
    <3>2. CASE Acquire(s)
      BY <3>2 DEF Acquire
    <3>3. CASE FindStale(s) \/ RemoveStale(s)
      BY <3>3 DEF FindStale, RemoveStale
    <3>4. CASE FindNoJournal(s)
      BY <3>4 DEF FindNoJournal
    <3>5. CASE Repeat(s)
      BY <3>5 DEF Repeat
    <3> QED
      BY <1>1, <3>1, <3>2, <3>3, <3>4, <3>5
  <2>2. Others /\ session'[s].step \in {"lock", "recover", "unlock", "load", "refresh"}
    BY <2>1, <1>b
  <2>3. Away(s)
    BY <2>1, <2>2 DEF Away
  <2> QED
    BY <2>2, <2>3
<1>2. CASE \/ TimeOut(s) \/ Refuse(s) \/ ReturnUnchanged(s) \/ Finish(s) \/ Throw(s) \/ Crash(s)
  BY <1>2, <1>c DEF TimeOut, Refuse, ReturnUnchanged, Finish, Throw, Crash, Release, Away
<1>3. CASE Decide(s) \/ WriteJournal(s) \/ ClearJournal(s)
  BY <1>3, <1>b DEF Decide, WriteJournal, ClearJournal
<1>4. CASE FindJournal(s)
  BY <1>4, <1>b DEF FindJournal
<1>5. CASE WriteRecord(s)
  BY <1>5, <1>a, <1>b DEF WriteRecord
<1> QED
  BY <1>1, <1>2, <1>3, <1>4, <1>5

\* Only Decide makes a plan pending that was not.
LEMMA PendingStep ==
  ASSUME TypeOK, NEW s \in Sessions,
         \A t \in Sessions : t # s => session'[t] = session[t],
         \/ Away(s) \/ FindJournal(s) \/ Decide(s) \/ WriteJournal(s)
         \/ WriteRecord(s) \/ ClearJournal(s)
  PROVE  \/ Pending' \subseteq Pending
         \/ Decide(s) /\ Pending' \subseteq
                            Pending \cup {PlanOf(session[s].plan.p, session[s].plan.a)}
<1>a. session \in [Sessions -> [step : Steps, plan : Plans, next : 1 .. 5, own : BOOLEAN]]
  BY DEF TypeOK
<1>b. \A plan \in Pending' :
        plan \in journal' \/ \E t \in Sessions :
          session'[t].step \in {"journal", "write", "clear"} /\ plan = session'[t].plan
  BY DEF Pending, Committed
<1>c. \A t \in Sessions : t # s /\ session'[t].step \in {"journal", "write", "clear"} =>
        session'[t].plan \in Pending
  BY DEF Pending, Committed
<1>d. journal \subseteq Pending
  BY DEF Pending
<1>e. At(s, "journal") \/ At(s, "write") \/ At(s, "clear") => session[s].plan \in Pending
  BY DEF Pending, Committed, At
<1>1. CASE Away(s)
  BY <1>1, <1>b, <1>c, <1>d DEF Away
<1>2. CASE FindJournal(s)
  <2>1. journal' = journal /\ session'[s].plan \in journal
    BY <1>2, <1>a DEF FindJournal, Goto, JournalOf
  <2> QED
    BY <2>1, <1>b, <1>c, <1>d
<1>3. CASE Decide(s)
  <2>1. journal' = journal /\ session'[s].plan = PlanOf(session[s].plan.p, session[s].plan.a)
    BY <1>3, <1>a DEF Decide, Goto
  <2> QED
    BY <1>3, <2>1, <1>b, <1>c, <1>d
<1>4. CASE WriteJournal(s)
  <2>1. /\ journal' \subseteq journal \cup {session[s].plan}
        /\ session'[s].plan = session[s].plan /\ At(s, "journal")
    BY <1>4, <1>a DEF WriteJournal, Goto
  <2> QED
    BY <2>1, <1>b, <1>c, <1>d, <1>e
<1>5. CASE WriteRecord(s)
  <2>1. journal' = journal /\ session'[s].plan = session[s].plan /\ At(s, "write")
    BY <1>5, <1>a DEF WriteRecord, Goto
  <2> QED
    BY <2>1, <1>b, <1>c, <1>d, <1>e
<1>6. CASE ClearJournal(s)
  <2>1. /\ journal' \subseteq journal
        /\ session'[s].step \notin {"journal", "write", "clear"}
    BY <1>6, <1>a DEF ClearJournal, Goto
  <2> QED
    BY <2>1, <1>b, <1>c, <1>d
<1> QED
  BY <1>1, <1>2, <1>3, <1>4, <1>5, <1>6

\* Only WriteRecord adds to what a session has written, and it adds one part.
LEMMA DoneStep ==
  ASSUME TypeOK, InRange, NEW s \in Sessions,
         \A t \in Sessions : t # s => session'[t] = session[t],
         \/ Away(s) \/ FindJournal(s) \/ Decide(s) \/ WriteJournal(s)
         \/ WriteRecord(s) \/ ClearJournal(s)
  PROVE  /\ \A t \in Sessions : t # s => Done(t)' = Done(t)
         /\ \/ Done(s)' = {}
            \/ /\ WriteRecord(s) /\ session'[s].plan = session[s].plan
               /\ session[s].next \in 1 .. Len(Parts(session[s].plan.a))
               /\ Done(s) = Upto(session[s].plan.a, session[s].next - 1)
               /\ Done(s)' = Done(s) \cup {Parts(session[s].plan.a)[session[s].next]}
<1>a. session \in [Sessions -> [step : Steps, plan : Plans, next : 1 .. 5, own : BOOLEAN]]
  BY DEF TypeOK
<1>b. \A t \in Sessions : t # s => Done(t)' = Done(t)
  BY DEF Done, At
<1>1. CASE Away(s)
  BY <1>1, <1>b DEF Away, Done, At
<1>2. CASE FindJournal(s)
  <2>1. session'[s].step = "write" /\ session'[s].next = 1
    BY <1>2, <1>a DEF FindJournal, Goto
  <2>2. Done(s)' = Upto(session'[s].plan.a, 0)
    BY <2>1 DEF Done, At
  <2> QED
    BY <2>2, <1>b DEF Upto
<1>3. CASE Decide(s)
  <2>1. session'[s].step = "journal"
    BY <1>3, <1>a DEF Decide, Goto
  <2> QED
    BY <2>1, <1>b DEF Done, At
<1>4. CASE WriteJournal(s)
  <2>1. session'[s].step = "write" /\ session'[s].next = 1
    BY <1>4, <1>a DEF WriteJournal, Goto
  <2>2. Done(s)' = Upto(session'[s].plan.a, 0)
    BY <2>1 DEF Done, At
  <2> QED
    BY <2>2, <1>b DEF Upto
<1>5. CASE WriteRecord(s)
  <2> DEFINE a == session[s].plan.a
             n == session[s].next
  <2>1. At(s, "write") /\ n \in Nat /\ 1 <= n /\ n <= Len(Parts(a)) /\ Len(Parts(a)) \in Nat
    BY <1>5, SessionTyped, PartsShape DEF WriteRecord, InRange
  <2>2. Done(s) = Upto(a, n - 1)
    BY <2>1 DEF Done, At
  <2>3. session'[s].plan = session[s].plan /\ Done(s)' = Upto(a, n)
    <3>1. CASE n = Len(Parts(a))
      <4>1. session'[s].plan = session[s].plan /\ session'[s].step = "clear"
        BY <1>5, <1>a, <3>1 DEF WriteRecord, Goto
      <4> QED
        BY <4>1, <3>1 DEF Done, At
    <3>2. CASE n # Len(Parts(a))
      <4>1. /\ session'[s].plan = session[s].plan /\ session'[s].step = "write"
            /\ session'[s].next = n + 1
        BY <1>5, <1>a, <2>1, <3>2 DEF WriteRecord, At
      <4>2. Done(s)' = Upto(session'[s].plan.a, session'[s].next - 1)
        BY <4>1 DEF Done, At
      <4> QED
        BY <4>1, <4>2, <2>1
    <3> QED
      BY <3>1, <3>2
  <2>4. Upto(a, n) = Upto(a, n - 1) \cup {Parts(a)[n]}
    <3>1. n - 1 \in Nat /\ n = (n - 1) + 1
      BY <2>1
    <3> HIDE DEF n
    <3> QED
      BY <3>1, UptoNext
  <2> QED
    BY <1>5, <1>b, <2>1, <2>2, <2>3, <2>4
<1>6. CASE ClearJournal(s)
  <2>1. session'[s].step \notin {"write", "clear"}
    BY <1>6, <1>a DEF ClearJournal, Goto
  <2> QED
    BY <2>1, <1>b DEF Done, At
<1> QED
  BY <1>1, <1>2, <1>3, <1>4, <1>5, <1>6

-----------------------------------------------------------------------------
\* The records grow.

\* What the records never lose.
Grows(st, new) ==
  /\ st.rat \subseteq new.rat /\ st.claim \subseteq new.claim /\ st.disp \subseteq new.disp
  /\ \A p \in Proposals :
       /\ st.proposal[p] = "rejected" => new.proposal[p] = "rejected"
       /\ st.canon[p] # "none" => new.canon[p] # "none"
       /\ st.packet[p] # "pending" => new.packet[p] # "pending"
       /\ st.packet[p] = "none" <=> new.packet[p] = "none"

\* A part that was written stays written, and a sound plan sound.
LEMMA GrowsKeeps ==
  ASSUME NEW st, NEW new, Grows(st, new), NEW plan \in Plans
  PROVE  /\ Sound(st, plan) => Sound(new, plan)
         /\ \A part : Lasting(st, plan, part) => Lasting(new, plan, part)
<1>1. plan.p \in Proposals /\ Target[plan.p] \in Proposals
  BY PlanFields, DecisionAssumption
<1> QED
  BY <1>1 DEF Grows, Sound, Lasting

\* What writing a part changes, and nothing else.
Touches(st, new, plan, part) ==
  /\ \A q \in Proposals :
       /\ new.canon[q] =
            IF part = "created" /\ Creates(plan.p) /\ q = plan.p THEN "ratified"
            ELSE IF part = "updated" /\ Retires(plan.p) /\ q = Target[plan.p] THEN "superseded"
            ELSE st.canon[q]
       /\ new.packet[q] =
            IF part = "packet" /\ plan.packet /\ q = plan.p
            THEN IF plan.a = "ratify" THEN "applied" ELSE "answered"
            ELSE st.packet[q]
       /\ new.proposal[q] = st.proposal[q] \/ q = plan.p
  /\ \A slot \in Slots :
       new.page[slot] = IF part = "page" /\ slot = SlotOf[plan.p] THEN plan.page
                        ELSE st.page[slot]
  /\ new.rat = IF part = "rat" THEN st.rat \cup {<<plan.p, plan.a>>} ELSE st.rat
  /\ new.disp = IF part = "disp" THEN st.disp \cup {<<plan.p, plan.a>>} ELSE st.disp

\* What writing a part of a plan does to the records.
LEMMA AfterTouches ==
  ASSUME store \in StoreType, NEW plan \in Plans, NEW part
  PROVE  Touches(store, After(plan, part), plan, part)
<1>1. /\ plan.p \in Proposals /\ SlotOf[plan.p] \in Slots
      /\ Target[plan.p] \in Proposals
  BY PlanFields, DecisionAssumption DEF Slots
<1>2. /\ store.canon \in [Proposals -> {"none", "ratified", "superseded"}]
      /\ store.packet \in [Proposals -> {"none", "pending", "applied", "answered"}]
      /\ store.proposal \in [Proposals -> {"proposed", "rejected"}]
  BY DEF StoreType
<1>3. store.page \in [Slots -> SUBSET Proposals]
  BY DEF StoreType
<1> DEFINE new == After(plan, part)
<1>4. CASE part = "proposal"
  <2>1. new = [store EXCEPT !.proposal[plan.p] = "rejected"]
    BY <1>4 DEF After
  <2> QED
    BY <1>1, <1>2, <1>4, <2>1 DEF Touches, StoreType
<1>5. CASE part = "rat"
  <2>1. new = [store EXCEPT !.rat = @ \cup {<<plan.p, plan.a>>}]
    BY <1>5 DEF After
  <2> QED
    BY <1>1, <1>2, <1>5, <2>1 DEF Touches, StoreType
<1>6. CASE part = "created" /\ Creates(plan.p)
  <2>1. new = [store EXCEPT !.canon[plan.p] = "ratified"]
    BY <1>6 DEF After
  <2> QED
    BY <1>1, <1>2, <1>6, <2>1 DEF Touches, StoreType
<1>7. CASE part = "updated" /\ Retires(plan.p)
  <2>1. new = [store EXCEPT !.canon[Target[plan.p]] = "superseded"]
    BY <1>7 DEF After
  <2> QED
    BY <1>1, <1>2, <1>7, <2>1 DEF Touches, StoreType
<1>8. CASE part = "page"
  <2>1. new = [store EXCEPT !.page[SlotOf[plan.p]] = plan.page]
    BY <1>8 DEF After
  <2> QED
    BY <1>1, <1>2, <1>3, <1>8, <2>1 DEF Touches, StoreType
<1>9. CASE part = "claim"
  <2>1. new = [store EXCEPT !.claim = @ \cup {plan.p}]
    BY <1>9 DEF After
  <2> QED
    BY <1>1, <1>2, <1>9, <2>1 DEF Touches, StoreType
<1>10. CASE part = "packet" /\ plan.packet
  <2>1. new = [store EXCEPT !.packet[plan.p] = IF plan.a = "ratify" THEN "applied" ELSE "answered"]
    BY <1>10 DEF After
  <2> QED
    BY <1>1, <1>2, <1>10, <2>1 DEF Touches, StoreType
<1>11. CASE part = "disp"
  <2>1. new = [store EXCEPT !.disp = @ \cup {<<plan.p, plan.a>>}]
    BY <1>11 DEF After
  <2> QED
    BY <1>1, <1>2, <1>11, <2>1 DEF Touches, StoreType
<1>12. CASE /\ part \notin {"proposal", "rat", "page", "claim", "disp"}
            /\ ~(part = "created" /\ Creates(plan.p))
            /\ ~(part = "updated" /\ Retires(plan.p)) /\ ~(part = "packet" /\ plan.packet)
  <2>1. new = store
    BY <1>12 DEF After
  <2> QED
    BY <1>12, <2>1 DEF Touches
<1> QED
  BY <1>4, <1>5, <1>6, <1>7, <1>8, <1>9, <1>10, <1>11, <1>12

\* Writing a part of a sound plan loses nothing, and what it wrote lasts.
LEMMA AfterGrows ==
  ASSUME store \in StoreType, PacketKnown, NEW plan \in Plans, Sound(store, plan), NEW part
  PROVE  Grows(store, After(plan, part)) /\ Lasting(After(plan, part), plan, part)
<1>1. /\ plan.p \in Proposals /\ SlotOf[plan.p] \in Slots
      /\ Target[plan.p] \in Proposals
  BY PlanFields, DecisionAssumption DEF Slots
<1>2. /\ store.canon \in [Proposals -> {"none", "ratified", "superseded"}]
      /\ store.packet \in [Proposals -> {"none", "pending", "applied", "answered"}]
      /\ store.proposal \in [Proposals -> {"proposed", "rejected"}]
  BY DEF StoreType
<1>3. plan.p \in HasPacket <=> store.packet[plan.p] # "none"
  BY <1>1 DEF PacketKnown
<1> DEFINE new == After(plan, part)
<1>4. CASE part = "proposal"
  <2>1. new = [store EXCEPT !.proposal[plan.p] = "rejected"]
    BY <1>4 DEF After
  <2> QED
    BY <1>1, <1>2, <1>4, <2>1 DEF Grows, Lasting, StoreType
<1>5. CASE part = "rat"
  <2>1. new = [store EXCEPT !.rat = @ \cup {<<plan.p, plan.a>>}]
    BY <1>5 DEF After
  <2> QED
    BY <1>1, <1>2, <1>5, <2>1 DEF Grows, Lasting, StoreType
<1>6. CASE part = "created" /\ Creates(plan.p)
  <2>1. new = [store EXCEPT !.canon[plan.p] = "ratified"]
    BY <1>6 DEF After
  <2> QED
    BY <1>1, <1>2, <1>6, <2>1 DEF Grows, Lasting, StoreType
<1>7. CASE part = "updated" /\ Retires(plan.p)
  <2>1. new = [store EXCEPT !.canon[Target[plan.p]] = "superseded"]
    BY <1>7 DEF After
  <2> QED
    BY <1>1, <1>2, <1>7, <2>1 DEF Grows, Lasting, StoreType
<1>8. CASE part = "page"
  <2>1. new = [store EXCEPT !.page[SlotOf[plan.p]] = plan.page]
    BY <1>8 DEF After
  <2> QED
    BY <1>1, <1>2, <1>8, <2>1 DEF Grows, Lasting, StoreType
<1>9. CASE part = "claim"
  <2>1. new = [store EXCEPT !.claim = @ \cup {plan.p}]
    BY <1>9 DEF After
  <2> QED
    BY <1>1, <1>2, <1>9, <2>1 DEF Grows, Lasting, StoreType
<1>10. CASE part = "packet" /\ plan.packet
  <2>1. new = [store EXCEPT !.packet[plan.p] = IF plan.a = "ratify" THEN "applied" ELSE "answered"]
    BY <1>10 DEF After
  <2>2. store.packet[plan.p] # "none"
    BY <1>10, <1>3 DEF Sound
  <2> QED
    BY <1>1, <1>2, <1>10, <2>1, <2>2 DEF Grows, Lasting, StoreType
<1>11. CASE part = "disp"
  <2>1. new = [store EXCEPT !.disp = @ \cup {<<plan.p, plan.a>>}]
    BY <1>11 DEF After
  <2> QED
    BY <1>1, <1>2, <1>11, <2>1 DEF Grows, Lasting, StoreType
<1>12. CASE /\ part \notin {"proposal", "rat", "page", "claim", "disp"}
            /\ ~(part = "created" /\ Creates(plan.p))
            /\ ~(part = "updated" /\ Retires(plan.p)) /\ ~(part = "packet" /\ plan.packet)
  <2>1. new = store
    BY <1>12 DEF After
  <2> QED
    BY <1>12, <2>1 DEF Grows, Lasting, Sound
<1> QED
  BY <1>4, <1>5, <1>6, <1>7, <1>8, <1>9, <1>10, <1>11, <1>12
-----------------------------------------------------------------------------
\* What holds however decisions overlap is inductive.

\* The first state.
LEMMA SafeInit == Init => Safe
<1> SUFFICES ASSUME Init PROVE Safe
  OBVIOUS
<1>1. Pending = {}
  BY DEF Init, Pending, Committed, IdleSession
<1>2. \A s \in Sessions : Done(s) = {} /\ session[s].step = "idle"
  BY DEF Init, Done, At, IdleSession
<1>3. PacketKnown /\ TargetKnown /\ CanonRatified /\ DispositionComplete /\ DecisionAccounted
  BY DEF Init, PacketKnown, TargetKnown, Revised, CanonRatified, DispositionComplete,
         DecisionAccounted, Listed
<1>4. InRange
  BY <1>2 DEF InRange, At
<1> QED
  BY <1>1, <1>2, <1>3, <1>4 DEF Safe, DoneLasts, WriteBacked

\* No step loses a record, and the session's own plan is sound when it writes.
LEMMA StepGrows ==
  ASSUME TypeOK, Safe, NEW s \in Sessions,
         \/ Away(s) \/ FindJournal(s) \/ Decide(s) \/ WriteJournal(s)
         \/ WriteRecord(s) \/ ClearJournal(s)
  PROVE  /\ Grows(store, store')
         /\ ~WriteRecord(s) => store' = store
         /\ WriteRecord(s) =>
              LET plan == session[s].plan
                  part == Parts(plan.a)[session[s].next]
              IN /\ plan \in Plans /\ At(s, "write") /\ journal' = journal
                 /\ Sound(store, plan)
                 /\ Lasting(store', plan, part) /\ Touches(store, store', plan, part)
<1>1. CASE WriteRecord(s)
  <2> DEFINE plan == session[s].plan
             part == Parts(plan.a)[session[s].next]
  <2>1. plan \in Plans /\ store \in StoreType
    BY SessionTyped DEF TypeOK
  <2>2. At(s, "write") /\ journal' = journal /\ store' = After(plan, part)
    BY <1>1 DEF WriteRecord
  <2>3. Sound(store, plan) /\ PacketKnown
    BY <2>2 DEF Safe, Pending, Committed, At
  <2>4. Grows(store, store') /\ Lasting(store', plan, part)
    BY <2>1, <2>2, <2>3, AfterGrows
  <2>5. Touches(store, store', plan, part)
    BY <2>1, <2>2, AfterTouches
  <2> QED
    BY <1>1, <2>1, <2>2, <2>3, <2>4, <2>5
<1>2. CASE ~WriteRecord(s)
  <2>1. store' = store
    BY <1>2 DEF Away, FindJournal, Decide, WriteJournal, ClearJournal
  <2> QED
    BY <1>2, <2>1 DEF Grows
<1> QED
  BY <1>1, <1>2

\* A plan that becomes pending is sound, and one that is pending stays so.
LEMMA PlansStaySound ==
  ASSUME TypeOK, TypeOK', Safe, NEW s \in Sessions,
         \A t \in Sessions : t # s => session'[t] = session[t],
         \/ Away(s) \/ FindJournal(s) \/ Decide(s) \/ WriteJournal(s)
         \/ WriteRecord(s) \/ ClearJournal(s)
  PROVE  \A plan \in Pending' : plan \in Plans /\ Sound(store', plan)
<1>1. \A plan \in Pending : plan \in Plans
  BY SessionTyped DEF Pending, TypeOK
<1>2. Grows(store, store')
  BY StepGrows
<1>3. \A plan \in Pending : plan \in Plans /\ Sound(store', plan)
  BY <1>1, <1>2, GrowsKeeps DEF Safe
<1>4. CASE Pending' \subseteq Pending
  BY <1>3, <1>4
<1>5. CASE Decide(s) /\ Pending' \subseteq
                 Pending \cup {PlanOf(session[s].plan.p, session[s].plan.a)}
  <2> DEFINE p == session[s].plan.p
             a == session[s].plan.a
  <2>1. p \in Proposals /\ a \in Actions /\ <<p, a>> \in Decisions
    BY SessionTyped DEF Decision
  <2>2. store' = store /\ Valid(p, a)
    BY <1>5 DEF Decide
  <2>3. PlanOf(p, a) \in Plans
    <3>1. store.page[SlotOf[p]] \in SUBSET Proposals
      BY <2>1 DEF TypeOK, StoreType, Slots
    <3> QED
      BY <2>1, <3>1, PlanMade DEF PlanOf
  <2>4. Sound(store, PlanOf(p, a))
    BY <2>1, <2>2 DEF Sound, PlanOf, Safe, PacketKnown, Valid, Retires
  <2> QED
    BY <1>3, <1>5, <2>2, <2>3, <2>4
<1> QED
  BY <1>4, <1>5, PendingStep

\* Every step keeps what holds however decisions overlap.
LEMMA SafeStep ==
  ASSUME TypeOK, TypeOK', InRange', Safe, [Next]_vars
  PROVE  Safe'
<1>1. CASE UNCHANGED vars
  BY <1>1 DEF vars, Safe, InRange, PacketKnown, Pending, Committed, DoneLasts, Done, At,
              WriteBacked, Decision, JournalOf, TargetKnown, Revised, CanonRatified,
              DispositionComplete, DecisionAccounted, Listed
<1>2. CASE Next
  <2> PICK s \in Sessions :
        /\ \A t \in Sessions : t # s => session'[t] = session[t]
        /\ \/ Away(s) \/ FindJournal(s) \/ Decide(s) \/ WriteJournal(s)
           \/ WriteRecord(s) \/ ClearJournal(s)
    BY <1>2, StepKinds
  <2> DEFINE mine == session[s].plan
             part == Parts(mine.a)[session[s].next]
             Writes == WriteRecord(s)
  <2>a. /\ InRange /\ mine \in Plans /\ mine.p \in Proposals /\ mine.a \in Actions
        /\ Decision(s) = <<mine.p, mine.a>>
    BY SessionTyped DEF Safe, Decision
  <2>b. Grows(store, store') /\ (~Writes => store' = store)
    BY StepGrows
  <2>c. Writes => /\ At(s, "write") /\ journal' = journal /\ Sound(store, mine)
                  /\ Lasting(store', mine, part) /\ Touches(store, store', mine, part)
    BY StepGrows
  <2>d. /\ \A t \in Sessions : t # s => Done(t)' = Done(t)
        /\ \/ Done(s)' = {}
           \/ /\ Writes /\ session'[s].plan = mine
              /\ session[s].next \in 1 .. Len(Parts(mine.a))
              /\ Done(s) = Upto(mine.a, session[s].next - 1)
              /\ Done(s)' = Done(s) \cup {part}
    BY <2>a, DoneStep
  <2>1. PacketKnown'
    BY <2>b DEF Safe, PacketKnown, Grows
  <2>2. \A plan \in Pending' : Sound(store', plan)
    BY PlansStaySound
  <2>3. DoneLasts'
    <3>1. ASSUME NEW t \in Sessions, t # s, NEW x \in Done(t)'
          PROVE  Lasting(store', session'[t].plan, x)
      <4>1. session'[t] = session[t] /\ x \in Done(t) /\ session[t].plan \in Plans
        BY <2>d, <3>1, SessionTyped
      <4>2. Lasting(store, session[t].plan, x)
        BY <4>1 DEF Safe, DoneLasts
      <4> QED
        BY <4>1, <4>2, <2>b, GrowsKeeps
    <3>2. ASSUME NEW x \in Done(s)'
          PROVE  Lasting(store', session'[s].plan, x)
      <4>1. session'[s].plan = mine /\ (x \in Done(s) \/ x = part) /\ Writes
        BY <2>d, <3>2
      <4>2. x \in Done(s) => Lasting(store, mine, x)
        BY DEF Safe, DoneLasts
      <4> QED
        BY <4>1, <4>2, <2>a, <2>b, <2>c, GrowsKeeps
    <3> QED
      BY <3>1, <3>2 DEF DoneLasts
  <2>4. WriteBacked'
    <3>1. store.disp \subseteq store'.disp
      BY <2>b DEF Grows
    <3> DEFINE Backed(js, st, p, a) == (\E j \in js : j.p = p /\ j.a = a) \/ <<p, a>> \in st.disp
    <3>2. ASSUME NEW p, NEW a, Backed(journal, store, p, a)
          PROVE  Backed(journal', store', p, a)
      <4>1. CASE ClearJournal(s) /\ p = mine.p /\ a = mine.a
        <5>1. At(s, "clear") /\ Done(s) = Upto(mine.a, Len(Parts(mine.a)))
          BY <4>1 DEF ClearJournal, Done, At
        <5>2. "disp" \in Done(s)
          BY <5>1, <2>a, PartsShape DEF Upto
        <5>3. <<p, a>> \in store.disp
          BY <4>1, <5>2 DEF Safe, DoneLasts, Lasting
        <5> QED
          BY <3>1, <5>3
      <4>2. CASE WriteJournal(s) /\ p = mine.p /\ a = mine.a
        BY <4>2 DEF WriteJournal, JournalOf
      <4>3. CASE ClearJournal(s) \/ WriteJournal(s)
        BY <4>1, <4>2, <4>3, <3>1, <3>2 DEF ClearJournal, WriteJournal, JournalOf
      <4>4. CASE ~ClearJournal(s) /\ ~WriteJournal(s)
        <5>1. journal' = journal
          BY <4>4 DEF Away, FindJournal, Decide, WriteRecord
        <5> QED
          BY <3>1, <3>2, <5>1 DEF JournalOf
      <4> QED
        BY <4>3, <4>4
    <3>3. \A t \in Sessions : session[t].step \in {"write", "clear"} =>
            Backed(journal, store, session[t].plan.p, session[t].plan.a)
      BY DEF Safe, WriteBacked, Decision, JournalOf
    <3>4. ASSUME NEW t \in Sessions, t # s, session'[t].step \in {"write", "clear"}
          PROVE  Backed(journal', store', session'[t].plan.p, session'[t].plan.a)
      <4>1. Backed(journal, store, session[t].plan.p, session[t].plan.a)
        BY <3>3, <3>4
      <4>2. Backed(journal', store', session[t].plan.p, session[t].plan.a)
        BY <4>1, <3>2
      <4> QED
        BY <4>2, <3>4
    <3>5. ASSUME session'[s].step \in {"write", "clear"}
          PROVE  Backed(journal', store', session'[s].plan.p, session'[s].plan.a)
      <4>0. session \in [Sessions -> [step : Steps, plan : Plans, next : 1 .. 5, own : BOOLEAN]]
        BY DEF TypeOK
      <4>1. CASE WriteRecord(s)
        <5>1. session'[s].plan = mine /\ At(s, "write")
          BY <4>0, <4>1 DEF WriteRecord, Goto
        <5>2. Backed(journal, store, mine.p, mine.a)
          BY <5>1, <3>3 DEF At
        <5> QED
          BY <5>1, <5>2, <3>2
      <4>2. CASE FindJournal(s)
        BY <4>0, <4>2 DEF FindJournal, Goto, JournalOf
      <4>3. CASE WriteJournal(s)
        BY <4>0, <4>3 DEF WriteJournal, Goto
      <4>4. CASE Decide(s) \/ ClearJournal(s)
        BY <4>0, <4>4, <3>5 DEF Decide, ClearJournal, Goto
      <4> QED
        BY <4>1, <4>2, <4>3, <4>4, <3>5 DEF Away
    <3> QED
      BY <3>4, <3>5 DEF WriteBacked, Decision, JournalOf
  <2>5. TargetKnown'
    <3> SUFFICES ASSUME NEW q \in Proposals, Creates(q), Retires(q), store'.canon[q] # "none"
                 PROVE  store'.canon[Target[q]] # "none"
      BY DEF TargetKnown, Revised
    <3>1. Target[q] \in Proposals
      BY DecisionAssumption
    <3>2. CASE store.canon[q] # "none"
      BY <2>b, <3>1, <3>2 DEF Safe, TargetKnown, Revised, Grows
    <3>3. CASE store.canon[q] = "none"
      <4>1. Writes
        BY <2>b, <3>3
      <4>2. CASE part = "created" /\ q = mine.p
        <5>1. mine.a = "ratify"
          BY <4>1, <4>2, <2>a, <2>d, PartsShape, SessionTyped DEF InRange, WriteRecord
        <5> QED
          BY <4>1, <4>2, <5>1, <2>b, <2>c, <3>1 DEF Sound, Grows
      <4>3. CASE part = "updated" /\ Retires(mine.p) /\ q = Target[mine.p]
        <5>1. mine.a = "ratify"
          BY <4>1, <4>3, <2>a, <2>d, PartsShape, SessionTyped DEF InRange, WriteRecord
        <5> QED
          BY <4>1, <4>3, <5>1, <2>c, <3>3 DEF Sound
      <4> QED
        BY <4>1, <4>2, <4>3, <2>c, <3>3 DEF Touches
    <3> QED
      BY <3>2, <3>3
  <2>6. CanonRatified'
    <3> SUFFICES ASSUME NEW q \in Proposals, store'.canon[q] # "none"
                 PROVE  <<q, "ratify">> \in store'.rat
      BY DEF CanonRatified
    <3>1. CASE store.canon[q] # "none"
      BY <2>b, <3>1 DEF Safe, CanonRatified, Grows
    <3>2. CASE store.canon[q] = "none"
      <4>1. Writes
        BY <2>b, <3>2
      <4>2. session[s].next \in 1 .. Len(Parts(mine.a)) /\ Done(s) = Upto(mine.a, session[s].next - 1)
        BY <4>1, <2>a, <2>d, SessionTyped DEF InRange, WriteRecord, Done, At
      <4>3. CASE part = "created" /\ q = mine.p
        <5>a. \A n \in 1 .. Len(Parts(mine.a)) :
                Parts(mine.a)[n] = "created" => mine.a = "ratify" /\ n = 2
          BY <2>a, PartsShape
        <5>1. mine.a = "ratify" /\ session[s].next = 2
          BY <4>2, <4>3, <5>a
        <5>2. "rat" \in Done(s)
          BY <4>2, <5>1 DEF Upto, Parts
        <5>3. <<q, "ratify">> \in store.rat
          BY <4>3, <5>1, <5>2 DEF Safe, DoneLasts, Lasting
        <5> QED
          BY <5>3, <2>b DEF Grows
      <4>4. CASE part = "updated" /\ Retires(mine.p) /\ q = Target[mine.p]
        <5>1. mine.a = "ratify"
          BY <4>2, <4>4, <2>a, PartsShape
        <5> QED
          BY <4>1, <4>4, <5>1, <2>c, <3>2 DEF Sound
      <4> QED
        BY <4>1, <4>3, <4>4, <2>c, <3>2 DEF Touches
    <3> QED
      BY <3>1, <3>2
  <2>7. DispositionComplete'
    <3> DEFINE Whole(st, d) ==
          /\ d[2] \in {"ratify", "reject", "keep_maturing"} => d \in st.rat
          /\ d[2] = "ratify" /\ Creates(d[1]) => st.canon[d[1]] # "none"
          /\ d[2] = "reject" => st.proposal[d[1]] = "rejected"
          /\ d[2] = "move_to_wiki" => d[1] \in st.claim
          /\ d[1] \in HasPacket => st.packet[d[1]] # "pending"
    <3>1. ASSUME NEW d \in Decisions, Whole(store, d)
          PROVE  Whole(store', d)
      BY <2>b, <3>1 DEF Grows, Decisions
    <3>2. ASSUME NEW d \in store'.disp
          PROVE  Whole(store', d)
      <4>1. d \in Decisions
        BY DEF TypeOK, StoreType
      <4>2. CASE d \in store.disp
        <5>1. Whole(store, d)
          BY <4>2 DEF Safe, DispositionComplete
        <5> QED
          BY <4>1, <5>1, <3>1
      <4>3. CASE d \notin store.disp
        <5>1. Writes /\ part = "disp" /\ d = <<mine.p, mine.a>>
          BY <4>3, <2>b, <2>c DEF Touches
        <5>2. /\ session[s].next \in 1 .. Len(Parts(mine.a))
              /\ Done(s) = Upto(mine.a, session[s].next - 1)
          BY <5>1, <2>a, <2>d, SessionTyped DEF InRange, WriteRecord, Done, At
        <5>3. session[s].next = Len(Parts(mine.a))
          BY <5>1, <5>2, <2>a, PartsShape
        <5>4. \A x \in Upto(mine.a, Len(Parts(mine.a)) - 1) : Lasting(store, mine, x)
          BY <5>2, <5>3 DEF Safe, DoneLasts
        <5>5. Whole(store, <<mine.p, mine.a>>)
          BY <5>4, <2>a, BeforeLast DEF Lasting
        <5> QED
          BY <4>1, <5>1, <5>5, <3>1
      <4> QED
        BY <4>2, <4>3
    <3> QED
      BY <3>2 DEF DispositionComplete
  <2>8. DecisionAccounted'
    <3> SUFFICES ASSUME NEW p \in Proposals, ~Listed(p)'
                 PROVE  (\E a \in Actions : <<p, a>> \in store'.disp) \/ \E j \in journal' : j.p = p
      BY DEF DecisionAccounted
    <3>1. store.disp \subseteq store'.disp
      BY <2>b DEF Grows
    <3>2. \A a : <<p, a>> \in store.disp => a \in Actions
      BY DEF TypeOK, StoreType, Decisions
    <3>3. (\E a : <<p, a>> \in store.disp) \/ \E j \in journal : j.p = p
      <4>1. CASE ~Listed(p)
        BY <4>1 DEF Safe, DecisionAccounted
      <4>2. CASE Listed(p) /\ p # mine.p
        <5>1. Writes
          BY <2>b, <4>2 DEF Listed
        <5> QED
          BY <5>1, <2>c, <4>2 DEF Touches, Listed
      <4>3. CASE Listed(p) /\ p = mine.p
        <5>1. Writes
          BY <2>b, <4>3 DEF Listed
        <5> QED
          BY <5>1, <2>a, <2>c, <4>3 DEF Safe, WriteBacked, JournalOf, At
      <4> QED
        BY <4>1, <4>2, <4>3
    <3>4. CASE \E a : <<p, a>> \in store.disp
      BY <3>1, <3>2, <3>4
    <3>5. CASE \E j \in journal : j.p = p
      <4>1. CASE ClearJournal(s) /\ p = mine.p
        <5>1. At(s, "clear") /\ Done(s) = Upto(mine.a, Len(Parts(mine.a)))
          BY <4>1 DEF ClearJournal, Done, At
        <5>2. "disp" \in Done(s)
          BY <5>1, <2>a, PartsShape DEF Upto
        <5>3. <<p, mine.a>> \in store.disp
          BY <4>1, <5>2 DEF Safe, DoneLasts, Lasting
        <5> QED
          BY <3>1, <5>3, <2>a
      <4>2. CASE ClearJournal(s) /\ p # mine.p
        BY <4>2, <3>5 DEF ClearJournal, JournalOf
      <4>3. CASE WriteJournal(s)
        BY <4>3, <3>5 DEF WriteJournal, JournalOf
      <4>4. CASE ~ClearJournal(s) /\ ~WriteJournal(s)
        <5>1. journal' = journal
          BY <4>4 DEF Away, FindJournal, Decide, WriteRecord
        <5> QED
          BY <5>1, <3>5
      <4> QED
        BY <4>1, <4>2, <4>3, <4>4
    <3> QED
      BY <3>3, <3>4, <3>5
  <2> QED
    BY <2>1, <2>2, <2>3, <2>4, <2>5, <2>6, <2>7, <2>8 DEF Safe
<1> QED
  BY <1>1, <1>2

\* What holds however decisions overlap, fail and replay.
THEOREM SafeInvariance == Spec => []Safe
<1>1. TypeOK /\ InRange /\ (TypeOK /\ InRange)' /\ Safe /\ [Next]_vars => Safe'
  BY SafeStep
<1> QED
  BY <1>1, SafeInit, DecisionsTyped, PTL DEF Spec

\* However decisions overlap, fail and replay, a canonical record has its
\* ratification on file.
THEOREM RatificationOnFile == Spec => []CanonRatified
<1>1. Safe => CanonRatified
  BY DEF Safe
<1> QED
  BY <1>1, SafeInvariance, PTL

\* However they do, a recorded disposition has every record of its decision.
THEOREM DispositionsWhole == Spec => []DispositionComplete
<1>1. Safe => DispositionComplete
  BY DEF Safe
<1> QED
  BY <1>1, SafeInvariance, PTL

\* However they do, a proposal off the owner's list has a disposition or a journal.
THEOREM NoDecisionLost == Spec => []DecisionAccounted
<1>1. Safe => DecisionAccounted
  BY DEF Safe
<1> QED
  BY <1>1, SafeInvariance, PTL

-----------------------------------------------------------------------------
\* What holds when callers take turns is inductive.

\* Callers who take turns keep taking turns: a second decision waits for the first,
\* and for the recovery of one that failed.
LEMMA TurnsStep ==
  ASSUME TypeOK, orderly, Turns, [Next]_vars
  PROVE  orderly' /\ Turns'
<1>1. CASE UNCHANGED vars
  BY <1>1 DEF vars, Turns, At
<1>2. CASE Next
  <2> PICK s \in Sessions :
        \/ \E d \in Decisions : Start(s, d[1], d[2])
        \/ Acquire(s) \/ FindStale(s) \/ RemoveStale(s) \/ TimeOut(s)
        \/ FindJournal(s) \/ FindNoJournal(s) \/ Refuse(s) \/ ReturnUnchanged(s)
        \/ Repeat(s) \/ Decide(s) \/ WriteJournal(s) \/ WriteRecord(s)
        \/ ClearJournal(s) \/ Finish(s) \/ Throw(s) \/ Crash(s)
    BY <1>2, NextSteps
  <2> DEFINE plan == session[s].plan
             Alone == \A t \in Sessions : t # s => At(t, "idle") /\ session'[t] = session[t]
             OneJournal == \A j, k \in journal' : j = k
  <2>a. /\ session \in [Sessions -> [step : Steps, plan : Plans, next : 1 .. 5, own : BOOLEAN]]
        /\ OwnJournal(journal, session[s]) /\ \A j, k \in journal : j = k
        /\ ~At(s, "idle") => \A t \in Sessions : t # s => At(t, "idle")
    BY DEF TypeOK, Turns
  <2>b. ASSUME NEW step, NEW p, NEW own, Goto(s, step, p, own)
        PROVE  /\ session'[s].step = step /\ session'[s].plan = p
               /\ \A t \in Sessions : t # s => session'[t] = session[t]
    BY <2>a, <2>b DEF Goto
  <2>c. ASSUME Alone, OneJournal, OwnJournal(journal', session'[s])
        PROVE  Turns'
    <3>1. \A t \in Sessions : t # s => session'[t].step = "idle"
      BY <2>c DEF At
    <3> QED
      BY <2>c, <3>1 DEF Turns, At, OwnJournal
  <2>d. ASSUME Alone, session' = [session EXCEPT ![s] = IdleSession], journal' = journal
        PROVE  Turns'
    <3>1. session'[s].step = "idle"
      BY <2>a, <2>d DEF IdleSession
    <3> QED
      BY <2>a, <2>c, <2>d, <3>1 DEF OwnJournal
  <2>1. CASE \E d \in Decisions : Start(s, d[1], d[2])
    <3> PICK d \in Decisions : Start(s, d[1], d[2])
      BY <2>1
    <3>1. Alone /\ session'[s].step = "lock" /\ journal' = journal
          /\ session'[s].plan = [p |-> d[1], a |-> d[2], page |-> {}, packet |-> FALSE]
      BY <2>b DEF Start, InTurn
    <3>2. \A j \in journal : j.p = d[1] /\ j.a = d[2]
      BY DEF Start, InTurn
    <3>3. OwnJournal(journal', session'[s])
      BY <3>1, <3>2 DEF OwnJournal
    <3> QED
      BY <2>a, <2>c, <3>1, <3>3 DEF Start
  <2>2. CASE Acquire(s) \/ FindStale(s) \/ RemoveStale(s)
    <3>1. /\ ~At(s, "idle") /\ journal' = journal /\ orderly' = orderly
          /\ \E step \in {"recover", "unlock", "lock"} : Goto(s, step, plan, FALSE)
      BY <2>2 DEF Acquire, FindStale, RemoveStale, At
    <3>2. Alone /\ session'[s].plan = plan /\ session'[s].step \in {"recover", "unlock", "lock"}
      BY <2>a, <2>b, <3>1
    <3>3. OwnJournal(journal', session'[s])
      BY <2>a, <3>1, <3>2 DEF OwnJournal, At
    <3> QED
      BY <2>a, <2>c, <3>1, <3>2, <3>3
  <2>3. CASE \/ TimeOut(s) \/ Refuse(s) \/ ReturnUnchanged(s) \/ Finish(s)
             \/ Throw(s) \/ Crash(s)
    <3>1. /\ ~At(s, "idle") /\ journal' = journal /\ orderly' = orderly
          /\ session' = [session EXCEPT ![s] = IdleSession]
      BY <2>3 DEF TimeOut, Refuse, ReturnUnchanged, Finish, Throw, Crash, Release, At
    <3>2. Alone
      BY <2>a, <3>1
    <3> QED
      BY <2>d, <3>1, <3>2
  <2>4. CASE FindJournal(s)
    <3>1. PICK j \in journal : Goto(s, "write", j, FALSE)
      BY <2>4 DEF FindJournal, JournalOf
    <3>2. Alone /\ session'[s].plan = j /\ session'[s].step = "write"
      BY <2>4, <2>a, <2>b, <3>1 DEF FindJournal, At
    <3>3. journal' = {j} /\ orderly' = orderly
      BY <2>4, <2>a DEF FindJournal
    <3> QED
      BY <2>c, <3>2, <3>3 DEF OwnJournal
  <2>5. CASE FindNoJournal(s)
    <3>1. Alone /\ session'[s].plan = plan /\ session'[s].step = "load"
      BY <2>5, <2>a, <2>b DEF FindNoJournal, At
    <3>2. journal = {}
      BY <2>5, <2>a DEF FindNoJournal, JournalOf, OwnJournal, At
    <3> QED
      BY <2>5, <2>c, <3>1, <3>2 DEF OwnJournal, FindNoJournal
  <2>6. CASE Repeat(s)
    <3>1. Alone /\ session'[s].plan = plan /\ session'[s].step = "refresh"
      BY <2>6, <2>a, <2>b DEF Repeat, At
    <3>2. journal' = {} /\ orderly' = orderly
      BY <2>6, <2>a DEF Repeat, OwnJournal, At
    <3> QED
      BY <2>c, <3>1, <3>2 DEF OwnJournal
  <2>7. CASE Decide(s)
    <3>1. Alone /\ session'[s].step = "journal"
      BY <2>7, <2>a, <2>b DEF Decide, At
    <3>2. journal' = {} /\ orderly' = orderly
      BY <2>7, <2>a DEF Decide, OwnJournal, At
    <3> QED
      BY <2>c, <3>1, <3>2 DEF OwnJournal
  <2>8. CASE WriteJournal(s)
    <3>1. Alone /\ session'[s].plan = plan /\ session'[s].step = "write"
      BY <2>8, <2>a, <2>b DEF WriteJournal, At
    <3>2. journal' = {plan} /\ orderly' = orderly
      BY <2>8, <2>a DEF WriteJournal, OwnJournal, At, JournalOf
    <3> QED
      BY <2>c, <3>1, <3>2 DEF OwnJournal
  <2>9. CASE WriteRecord(s)
    <3>1. Alone /\ session'[s].plan = plan /\ session'[s].step \in {"write", "clear"}
      BY <2>9, <2>a DEF WriteRecord, At, Goto
    <3>2. journal' = {plan} /\ orderly' = orderly
      BY <2>9, <2>a DEF WriteRecord, OwnJournal, At
    <3> QED
      BY <2>c, <3>1, <3>2 DEF OwnJournal
  <2>10. CASE ClearJournal(s)
    <3>1. Alone /\ session'[s].plan = plan /\ session'[s].step \in {"refresh", "load"}
      BY <2>10, <2>a, <2>b DEF ClearJournal, At
    <3>2. journal' = {} /\ orderly' = orderly
      BY <2>10, <2>a DEF ClearJournal, OwnJournal, At, JournalOf
    <3> QED
      BY <2>c, <3>1, <3>2 DEF OwnJournal
  <2> QED
    BY <2>1, <2>2, <2>3, <2>4, <2>5, <2>6, <2>7, <2>8, <2>9, <2>10
<1> QED
  BY <1>1, <1>2

\* The plan a caller is about to write, or writes, is the only pending one.
LEMMA OnlyPending ==
  ASSUME Turns, NEW s \in Sessions, Committed(s), NEW plan \in Pending
  PROVE  plan = session[s].plan
BY DEF Turns, OwnJournal, Committed, Pending, At

\* What the writer of a part knows of its plan when callers take turns.
Writing(st, plan, part) ==
  /\ Open(st, plan) /\ Sound(st, plan)
  /\ part \in {"created", "updated"} => plan.a = "ratify"
  /\ "ratify" \in Decided(st, plan.p) => <<plan.p, "ratify">> \in st.rat
  /\ part = "disp" /\ plan.p \in HasPacket =>
       st.packet[plan.p] = Told(Decided(st, plan.p) \cup {plan.a})

\* An open plan stays open while its parts are written.
LEMMA OpenStays ==
  ASSUME NEW st, NEW new, NEW plan \in Plans, NEW part,
         Touches(st, new, plan, part), Writing(st, plan, part)
  PROVE  Open(new, plan)
<1>1. /\ plan.p \in Proposals /\ plan.a \in Actions /\ SlotOf[plan.p] \in Slots
      /\ Target[plan.p] \in Proposals
  BY PlanFields, DecisionAssumption DEF Slots
<1>2. EndOpen(new, plan)
  BY DEF Touches, Writing, Open, EndOpen
<1>3. PageOpen(new, plan)
  BY <1>1 DEF Touches, Writing, Open, PageOpen
<1>4. PacketOpen(new, plan)
  <2> SUFFICES ASSUME plan.p \in HasPacket PROVE PacketOpen(new, plan)
    BY DEF PacketOpen
  <2> DEFINE old == Decided(st, plan.p)
  <2>1. Decided(new, plan.p) = IF part = "disp" THEN old \cup {plan.a} ELSE old
    BY <1>1 DEF Touches, Decided
  <2>2. CASE part = "disp"
    <3>1. new.packet[plan.p] = Told(old \cup {plan.a})
      BY <1>1, <2>2 DEF Touches, Writing
    <3> QED
      BY <2>1, <2>2, <3>1 DEF PacketOpen
  <2>3. CASE part = "packet"
    <3>1. plan.packet
      BY DEF Writing, Sound
    <3>2. new.packet[plan.p] = IF plan.a = "ratify" THEN "applied" ELSE "answered"
      BY <1>1, <2>3, <3>1 DEF Touches
    <3>3. plan.a # "ratify" => "ratify" \notin old
      BY DEF Writing, Open, EndOpen
    <3>4. new.packet[plan.p] = Told(old \cup {plan.a})
      BY <3>2, <3>3 DEF Told
    <3> QED
      BY <2>1, <2>3, <3>4 DEF PacketOpen
  <2>4. CASE part \notin {"disp", "packet"}
    <3>1. new.packet[plan.p] = st.packet[plan.p]
      BY <1>1, <2>4 DEF Touches
    <3> QED
      BY <2>1, <2>4, <3>1 DEF PacketOpen, Writing, Open
  <2> QED
    BY <2>2, <2>3, <2>4
<1>5. SlotOpen(new, plan)
  <2> SUFFICES ASSUME plan.a = "ratify" PROVE SlotOpen(new, plan)
    BY DEF SlotOpen
  <2>1. \A q \in Proposals : new.canon[q] # "none" => st.canon[q] # "none" \/ q = plan.p
    BY <1>1 DEF Touches, Writing, Sound
  <2>2. Retires(plan.p) => Target[plan.p] # plan.p
    BY DEF Writing, Open, SlotOpen
  <2> QED
    BY <2>1, <2>2 DEF Writing, Open, SlotOpen, RevisedIn
<1> QED
  BY <1>2, <1>3, <1>4, <1>5 DEF Open

\* What a decision in turn has written is as it wrote it, until it is done.
LEMMA CurrentStays ==
  ASSUME NEW st, NEW new, NEW plan \in Plans, NEW part,
         Touches(st, new, plan, part), Writing(st, plan, part)
  PROVE  /\ Current(new, plan, part)
         /\ \A x : Current(st, plan, x) => Current(new, plan, x)
<1>1. /\ plan.p \in Proposals /\ plan.a \in Actions /\ SlotOf[plan.p] \in Slots
      /\ Target[plan.p] \in Proposals
  BY PlanFields, DecisionAssumption DEF Slots
<1> DEFINE old == Decided(st, plan.p)
<1>2. Decided(new, plan.p) \cup {plan.a} = old \cup {plan.a}
  BY <1>1 DEF Touches, Decided
<1>3. plan.p \in HasPacket =>
        new.packet[plan.p] = IF part = "packet" THEN Told(old \cup {plan.a}) ELSE st.packet[plan.p]
  <2> SUFFICES ASSUME plan.p \in HasPacket
               PROVE  new.packet[plan.p] = IF part = "packet" THEN Told(old \cup {plan.a})
                                           ELSE st.packet[plan.p]
    OBVIOUS
  <2>1. plan.packet
    BY DEF Writing, Sound
  <2>2. plan.a # "ratify" => "ratify" \notin old
    BY DEF Writing, Open, EndOpen
  <2> QED
    BY <1>1, <2>1, <2>2 DEF Touches, Told
<1>4. new.page[SlotOf[plan.p]] = IF part = "page" THEN plan.page ELSE st.page[SlotOf[plan.p]]
  BY <1>1 DEF Touches
<1>5. Retires(plan.p) =>
        new.canon[Target[plan.p]] = IF part = "updated" THEN "superseded"
                                    ELSE st.canon[Target[plan.p]]
  <2>1. part = "created" /\ Retires(plan.p) => Target[plan.p] # plan.p
    BY DEF Writing, Open, SlotOpen
  <2> QED
    BY <1>1, <2>1 DEF Touches
<1>6. Current(new, plan, part)
  BY <1>2, <1>3, <1>4, <1>5 DEF Current
<1>7. ASSUME NEW x, Current(st, plan, x)
      PROVE  Current(new, plan, x)
  BY <1>2, <1>3, <1>4, <1>5, <1>7 DEF Current
<1> QED
  BY <1>6, <1>7

\* A write of a decision in turn.
LEMMA WriteInTurn ==
  ASSUME TypeOK, Safe, Orderly, NEW s \in Sessions, WriteRecord(s)
  PROVE  LET plan == session[s].plan
             part == Parts(plan.a)[session[s].next]
         IN /\ plan \in Plans /\ journal = {plan} /\ journal' = {plan}
            /\ Pending = {plan}
            /\ Touches(store, store', plan, part) /\ Writing(store, plan, part)
            /\ \A t \in Sessions : t # s => At(t, "idle")
            /\ Done(s) = Upto(plan.a, session[s].next - 1)
            /\ session[s].next \in 1 .. Len(Parts(plan.a))
<1> DEFINE plan == session[s].plan
           part == Parts(plan.a)[session[s].next]
<1>1. /\ plan \in Plans /\ plan.p \in Proposals /\ plan.a \in Actions
      /\ At(s, "write") /\ Sound(store, plan) /\ Touches(store, store', plan, part)
  BY SessionTyped, StepGrows
<1>2. journal = {plan} /\ journal' = {plan} /\ \A t \in Sessions : t # s => At(t, "idle")
  BY <1>1 DEF Orderly, Turns, OwnJournal, At, WriteRecord
<1>3. Pending = {plan}
  <2>1. plan \in Pending
    BY <1>2 DEF Pending
  <2> QED
    BY <2>1, <1>1, OnlyPending DEF Orderly, Committed, At
<1>4. /\ session[s].next \in 1 .. Len(Parts(plan.a))
      /\ Done(s) = Upto(plan.a, session[s].next - 1)
  BY <1>1, SessionTyped, PartsShape DEF Safe, InRange, Done, At
<1>5. part \in {"created", "updated"} => plan.a = "ratify"
  BY <1>1, <1>4, PartsShape
<1>6. part = "disp" /\ plan.p \in HasPacket =>
        store.packet[plan.p] = Told(Decided(store, plan.p) \cup {plan.a})
  <2> SUFFICES ASSUME part = "disp", plan.p \in HasPacket
               PROVE  store.packet[plan.p] = Told(Decided(store, plan.p) \cup {plan.a})
    OBVIOUS
  <2>1. session[s].next = Len(Parts(plan.a))
    BY <1>1, <1>4, PartsShape
  <2>2. "packet" \in Done(s)
    BY <1>1, <1>4, <2>1, BeforeLast
  <2> QED
    BY <2>2 DEF Orderly, DoneCurrent, Current
<1>7. "ratify" \in Decided(store, plan.p) => <<plan.p, "ratify">> \in store.rat
  BY DEF Decided, Safe, DispositionComplete
<1>8. Open(store, plan)
  BY <1>3 DEF Orderly
<1>9. Writing(store, plan, part)
  BY <1>1, <1>5, <1>6, <1>7, <1>8 DEF Writing
<1> QED
  BY <1>1, <1>2, <1>3, <1>4, <1>9

\* A plan made in turn is open.
LEMMA DecideOpens ==
  ASSUME TypeOK, Safe, Orderly, NEW s \in Sessions, Decide(s)
  PROVE  Open(store, PlanOf(session[s].plan.p, session[s].plan.a))
<1> DEFINE p == session[s].plan.p
           a == session[s].plan.a
           plan == PlanOf(p, a)
<1>1. p \in Proposals /\ a \in Actions /\ Target[p] \in Proposals
  BY SessionTyped, DecisionAssumption
<1>2. ~AlreadyApplied(p, a) /\ Valid(p, a)
  BY DEF Decide
<1>3. plan.p = p /\ plan.a = a /\ plan.page = store.page[SlotOf[p]] \cup {p}
  BY DEF PlanOf
<1>4. EndOpen(store, plan)
  BY <1>2, <1>3 DEF EndOpen, AlreadyApplied
<1>5. PageOpen(store, plan)
  BY <1>3 DEF PageOpen
<1>6. PacketOpen(store, plan)
  <2>1. journal = {}
    BY DEF Decide, At, Orderly, Turns, OwnJournal
  <2>2. p \in HasPacket => store.packet[p] = Told(Decided(store, p))
    BY <2>1 DEF Orderly, PacketSays
  <2> QED
    BY <1>3, <2>2 DEF PacketOpen
<1>7. SlotOpen(store, plan)
  <2> SUFFICES ASSUME a = "ratify" PROVE SlotOpen(store, plan)
    BY <1>3 DEF SlotOpen
  <2>1. store.canon[p] = "none"
    BY <1>1, <1>2 DEF AlreadyApplied, Safe, CanonRatified
  <2>2. \A q \in Proposals : RevisedIn(store, q) => Target[q] # p
    BY <2>1 DEF Safe, TargetKnown, Revised, RevisedIn
  <2>3. Retires(p) => Target[p] # p
    BY <1>2, <2>1 DEF Valid, Retires
  <2>4. Operation[p] = "create" => ~SlotTaken(p)
    BY <1>2 DEF Valid
  <2> QED
    BY <1>1, <1>3, <2>2, <2>3, <2>4 DEF SlotOpen, SlotTaken
<1> QED
  BY <1>4, <1>5, <1>6, <1>7 DEF Open

\* Creating a record leaves each slot one latest record, unless it made an exception.
LEMMA OneLatestStays ==
  ASSUME NEW st, NEW new, NEW plan \in Plans, NEW part,
         Touches(st, new, plan, part), Writing(st, plan, part),
         \A p, q \in Proposals :
           Latest(st, p) /\ Latest(st, q) /\ SlotOf[p] = SlotOf[q] =>
             p = q \/ Exception(st, SlotOf[p])
  PROVE  \A p, q \in Proposals :
           Latest(new, p) /\ Latest(new, q) /\ SlotOf[p] = SlotOf[q] =>
             p = q \/ Exception(new, SlotOf[p])
<1> DEFINE c == plan.p
<1>1. c \in Proposals /\ Target \in [Proposals -> Proposals]
  BY PlanFields, DecisionAssumption
<1>2. \A q \in Proposals :
        /\ st.canon[q] # "none" => new.canon[q] # "none"
        /\ new.canon[q] # "none" =>
             st.canon[q] # "none" \/ (q = c /\ part = "created" /\ Creates(c))
  BY <1>1 DEF Touches, Writing, Sound
<1>3. \A slot : Exception(st, slot) => Exception(new, slot)
  BY <1>2 DEF Exception, RevisedIn
<1>4. \A q \in Proposals : Latest(new, q) => Latest(st, q) \/ (q = c /\ st.canon[c] = "none")
  BY <1>2 DEF Latest, RevisedIn
<1>5. ASSUME NEW q \in Proposals, q # c, Latest(new, q), SlotOf[q] = SlotOf[c],
             st.canon[c] = "none", new.canon[c] # "none"
      PROVE  Exception(new, SlotOf[q])
  <2>1. Creates(c) /\ plan.a = "ratify" /\ Latest(st, q)
    BY <1>1, <1>2, <1>4, <1>5 DEF Writing
  <2>2. Operation[c] # "create"
    BY <1>5, <2>1 DEF Writing, Open, SlotOpen, Latest
  <2>3. Retires(c) /\ RevisedIn(new, c)
    BY <1>5, <2>1, <2>2 DEF Retires, Creates, RevisedIn
  <2> DEFINE t == Target[c]
  <2>4. t \in Proposals /\ st.canon[t] # "none" /\ t # q
    BY <1>1, <1>5, <2>1, <2>3 DEF Writing, Sound, Latest
  <2>5. CASE SlotOf[t] # SlotOf[q]
    BY <1>1, <1>5, <2>3, <2>5 DEF Exception
  <2>6. CASE SlotOf[t] = SlotOf[q] /\ Latest(st, t)
    BY <1>3, <2>1, <2>4, <2>6
  <2>7. CASE SlotOf[t] = SlotOf[q] /\ ~Latest(st, t)
    <3>1. PICK r \in Proposals : RevisedIn(st, r) /\ Target[r] = t
      BY <2>4, <2>7 DEF Latest
    <3>2. RevisedIn(new, r) /\ r # c
      BY <1>2, <1>5, <3>1 DEF RevisedIn
    <3> QED
      BY <1>1, <2>3, <2>7, <3>1, <3>2 DEF Exception
  <2> QED
    BY <2>5, <2>6, <2>7
<1>6. ASSUME NEW p \in Proposals, NEW q \in Proposals, p # q,
             Latest(new, p), Latest(new, q), SlotOf[p] = SlotOf[q]
      PROVE  Exception(new, SlotOf[p])
  <2>1. CASE p = c /\ st.canon[c] = "none"
    BY <1>5, <1>6, <2>1 DEF Latest
  <2>2. CASE q = c /\ st.canon[c] = "none"
    BY <1>5, <1>6, <2>2 DEF Latest
  <2>3. CASE Latest(st, p) /\ Latest(st, q)
    BY <1>3, <1>6, <2>3
  <2> QED
    BY <1>4, <1>6, <2>1, <2>2, <2>3
<1> QED
  BY <1>6

\* The first state.
LEMMA OrderlyInit == Init => Orderly
<1> SUFFICES ASSUME Init PROVE Orderly
  OBVIOUS
<1>1. Pending = {} /\ journal = {}
  BY DEF Init, Pending, Committed, IdleSession
<1>2. \A s \in Sessions : Done(s) = {} /\ session[s].step = "idle"
  BY DEF Init, Done, At, IdleSession
<1>3. Turns /\ DoneCurrent
  BY <1>1, <1>2 DEF Turns, OwnJournal, At, DoneCurrent
<1>4. PacketSays
  <2>1. \A p : Decided(store, p) = {}
    BY DEF Init, Decided
  <2>2. \A p \in HasPacket : store.packet[p] = "pending"
    BY DecisionAssumption DEF Init
  <2> QED
    BY <2>1, <2>2 DEF PacketSays, Told
<1>5. \A p \in Proposals : store.canon[p] = "none"
  BY DEF Init
<1>6. OneLatest /\ RevisedRetired
  BY <1>5 DEF OneLatest, Latest, RevisedRetired, Revised
<1>7. store.rat = {} /\ store.disp = {}
  BY DEF Init
<1> QED
  BY <1>1, <1>3, <1>4, <1>6, <1>7 DEF Orderly

\* A write in turn keeps what holds when callers take turns.
LEMMA OrderlyWrite ==
  ASSUME TypeOK, InRange', Safe, Safe', Orderly, Turns', NEW s \in Sessions, WriteRecord(s),
         \A t \in Sessions : t # s => session'[t] = session[t]
  PROVE  Orderly'
<1> DEFINE plan == session[s].plan
           part == Parts(plan.a)[session[s].next]
<1>1. /\ plan \in Plans /\ journal = {plan} /\ journal' = {plan} /\ Pending = {plan}
      /\ Touches(store, store', plan, part) /\ Writing(store, plan, part)
      /\ \A t \in Sessions : t # s => At(t, "idle")
      /\ Done(s) = Upto(plan.a, session[s].next - 1)
      /\ session[s].next \in 1 .. Len(Parts(plan.a))
  BY WriteInTurn
<1>2. /\ plan.p \in Proposals /\ plan.a \in Actions /\ SlotOf[plan.p] \in Slots
      /\ Target \in [Proposals -> Proposals]
  BY <1>1, PlanFields, DecisionAssumption DEF Slots
<1>3. Open(store, plan) /\ Open(store', plan)
  BY <1>1, OpenStays DEF Writing
<1>4. \A plan2 \in Pending' : Open(store', plan2)
  <2>1. Pending' \subseteq Pending
    BY PendingStep DEF WriteRecord, Decide, At
  <2> QED
    BY <1>1, <1>3, <2>1
<1>5. DoneCurrent'
  <2>1. /\ \A t \in Sessions : t # s => Done(t)' = Done(t)
        /\ Done(s)' = {} \/ (session'[s].plan = plan /\ Done(s)' = Done(s) \cup {part})
    BY DoneStep DEF Safe
  <2>2. \A t \in Sessions : t # s => Done(t)' = {}
    BY <1>1, <2>1 DEF Done, At
  <2>3. \A x \in Done(s) : Current(store, plan, x)
    BY DEF Orderly, DoneCurrent
  <2>4. \A x \in Done(s) \cup {part} : Current(store', plan, x)
    BY <1>1, <2>3, CurrentStays
  <2>5. \A t \in Sessions : \A x \in Done(t)' : Current(store', session'[t].plan, x)
    BY <2>1, <2>2, <2>4
  <2> QED
    BY <2>5 DEF DoneCurrent
<1>6. PacketSays'
  <2> SUFFICES ASSUME NEW p \in HasPacket, p # plan.p
               PROVE  store'.packet[p] = Told(Decided(store', p))
    BY <1>1 DEF PacketSays
  <2>1. p \in Proposals
    BY DecisionAssumption
  <2>2. store'.packet[p] = store.packet[p] /\ Decided(store', p) = Decided(store, p)
    BY <1>1, <2>1 DEF Touches, Decided
  <2> QED
    BY <1>1, <2>2 DEF Orderly, PacketSays
<1>7. OneLatest'
  <2>1. \A p, q \in Proposals :
          Latest(store, p) /\ Latest(store, q) /\ SlotOf[p] = SlotOf[q] =>
            p = q \/ Exception(store, SlotOf[p])
    BY DEF Orderly, OneLatest
  <2>2. \A p, q \in Proposals :
          Latest(store', p) /\ Latest(store', q) /\ SlotOf[p] = SlotOf[q] =>
            p = q \/ Exception(store', SlotOf[p])
    BY <1>1, <2>1, OneLatestStays
  <2> QED
    BY <2>2 DEF OneLatest
<1>8. RevisedRetired'
  <2> SUFFICES ASSUME NEW q \in Proposals, RevisedIn(store', q),
                      store'.canon[Target[q]] = "ratified"
               PROVE  plan.a = "ratify" /\ plan.p = q
    BY <1>1 DEF RevisedRetired, Revised, RevisedIn
  <2>1. Target[q] \in Proposals
    BY <1>2
  <2>2. CASE RevisedIn(store, q) /\ store.canon[Target[q]] = "ratified"
    BY <1>1, <2>2 DEF Orderly, RevisedRetired, Revised, RevisedIn
  <2>3. CASE ~RevisedIn(store, q)
    BY <1>1, <1>2, <2>3 DEF Touches, Writing, Sound, RevisedIn
  <2>4. CASE RevisedIn(store, q) /\ store.canon[Target[q]] # "ratified"
    BY <1>1, <1>2, <2>1, <2>4 DEF Touches, Writing, Open, SlotOpen
  <2> QED
    BY <2>2, <2>3, <2>4
<1>9. \A p \in Proposals : ~({<<p, "ratify">>, <<p, "reject">>} \subseteq store'.rat)
  <2> SUFFICES ASSUME NEW p \in Proposals, <<p, "ratify">> \in store'.rat, <<p, "reject">> \in store'.rat
               PROVE  FALSE
    OBVIOUS
  <2>1. CASE p = plan.p
    <3>1. \A end \in {"ratify", "reject"} : <<p, end>> \in store'.rat => end = plan.a
      BY <1>3, <2>1 DEF Open, EndOpen
    <3> QED
      BY <3>1
  <2>2. CASE p # plan.p
    <3>1. \A end : <<p, end>> \in store'.rat => <<p, end>> \in store.rat
      BY <1>1, <2>2 DEF Touches
    <3> QED
      BY <3>1 DEF Orderly
  <2> QED
    BY <2>1, <2>2
<1>10. \A p \in Proposals : <<p, "move_to_wiki">> \in store'.disp => p \in store'.page[SlotOf[p]]
  <2> SUFFICES ASSUME NEW p \in Proposals, <<p, "move_to_wiki">> \in store'.disp
               PROVE  p \in store'.page[SlotOf[p]]
    OBVIOUS
  <2>0. SlotOf[p] \in Slots
    BY DEF Slots
  <2>1. CASE <<p, "move_to_wiki">> \in store.disp
    <3>1. p \in store.page[SlotOf[p]]
      BY <2>1 DEF Orderly
    <3> QED
      BY <1>1, <2>0, <3>1 DEF Touches, Writing, Open, PageOpen
  <2>2. CASE <<p, "move_to_wiki">> \notin store.disp
    <3>1. part = "disp" /\ p = plan.p /\ plan.a = "move_to_wiki"
      BY <1>1, <2>2 DEF Touches
    <3>2. session[s].next = Len(Parts(plan.a))
      BY <1>1, <1>2, <3>1, PartsShape
    <3>3. "page" \in Done(s)
      BY <1>1, <1>2, <3>1, <3>2, BeforeLast
    <3>4. plan.page \subseteq store.page[SlotOf[p]]
      BY <3>1, <3>3 DEF Orderly, DoneCurrent, Current
    <3> QED
      BY <1>1, <2>0, <3>1, <3>4 DEF Touches, Writing, Open, PageOpen
  <2> QED
    BY <2>1, <2>2
<1> QED
  BY <1>4, <1>5, <1>6, <1>7, <1>8, <1>9, <1>10 DEF Orderly

\* So does clearing the journal: by then the packet and the records say all of it.
LEMMA OrderlyClear ==
  ASSUME TypeOK, Safe, Orderly, NEW s \in Sessions, ClearJournal(s)
  PROVE  PacketSays' /\ RevisedRetired'
<1> DEFINE plan == session[s].plan
<1>1. /\ plan.p \in Proposals /\ plan.a \in Actions /\ At(s, "clear")
      /\ store' = store /\ journal = {plan}
  BY SessionTyped DEF ClearJournal, Orderly, Turns, OwnJournal, At
<1>2. Done(s) = Upto(plan.a, Len(Parts(plan.a))) /\ Len(Parts(plan.a)) \in Nat
      /\ 2 <= Len(Parts(plan.a))
  BY <1>1, PartsShape DEF Done, At
<1>3. "disp" \in Done(s) /\ Upto(plan.a, Len(Parts(plan.a)) - 1) \subseteq Done(s)
  <2>1. "disp" \in Done(s)
    BY <1>1, <1>2, PartsShape DEF Upto
  <2>2. 1 .. Len(Parts(plan.a)) - 1 \subseteq 1 .. Len(Parts(plan.a))
    BY <1>2
  <2> QED
    BY <1>2, <2>1, <2>2 DEF Upto
<1>4. "packet" \in Done(s) /\ (plan.a = "ratify" => "updated" \in Done(s))
  BY <1>1, <1>3, BeforeLast
<1>5. plan.a \in Decided(store, plan.p)
  BY <1>1, <1>3 DEF Safe, DoneLasts, Lasting, Decided
<1>6. plan.p \in HasPacket => store.packet[plan.p] = Told(Decided(store, plan.p))
  <2>1. Decided(store, plan.p) \cup {plan.a} = Decided(store, plan.p)
    BY <1>5
  <2>2. plan.p \in HasPacket => store.packet[plan.p] = Told(Decided(store, plan.p) \cup {plan.a})
    BY <1>4 DEF Orderly, DoneCurrent, Current
  <2> QED
    BY <2>1, <2>2
<1>7. PacketSays'
  <2>1. \A p \in HasPacket : store.packet[p] = Told(Decided(store, p))
    BY <1>1, <1>6 DEF Orderly, PacketSays
  <2> QED
    BY <1>1, <2>1 DEF PacketSays
<1>8. RevisedRetired'
  <2>1. plan.a = "ratify" /\ Retires(plan.p) => store.canon[Target[plan.p]] = "superseded"
    BY <1>4 DEF Orderly, DoneCurrent, Current
  <2>2. \A q \in Proposals : ~(Revised(q) /\ store.canon[Target[q]] = "ratified")
    BY <1>1, <2>1 DEF Orderly, RevisedRetired, Revised
  <2> QED
    BY <1>1, <2>2 DEF RevisedRetired, Revised
<1> QED
  BY <1>7, <1>8

\* Every step keeps what holds when callers take turns.
LEMMA OrderlyStep ==
  ASSUME TypeOK, TypeOK', InRange', Safe, Safe', orderly, Orderly, [Next]_vars
  PROVE  Orderly'
<1>0. Turns'
  BY TurnsStep DEF Orderly
<1>1. CASE UNCHANGED vars
  BY <1>0, <1>1 DEF vars, Orderly, Pending, Committed, DoneCurrent, Done, At, PacketSays, OneLatest,
              RevisedRetired, Revised
<1>2. CASE Next
  <2> PICK s \in Sessions :
        /\ \A t \in Sessions : t # s => session'[t] = session[t]
        /\ \/ Away(s) \/ FindJournal(s) \/ Decide(s) \/ WriteJournal(s)
           \/ WriteRecord(s) \/ ClearJournal(s)
    BY <1>2, StepKinds
  <2>1. CASE WriteRecord(s)
    BY <1>0, <2>1, OrderlyWrite
  <2>2. CASE ~WriteRecord(s)
    <3>1. store' = store
      BY <2>2, StepGrows
    <3>2. DoneCurrent'
      <4>1. /\ \A t \in Sessions : t # s => Done(t)' = Done(t)
            /\ Done(s)' = {}
        BY <2>2, DoneStep DEF Safe
      <4>2. \A t \in Sessions : \A x \in Done(t)' : Current(store', session'[t].plan, x)
        BY <3>1, <4>1 DEF Orderly, DoneCurrent
      <4> QED
        BY <4>2 DEF DoneCurrent
    <3>3. \A plan \in Pending' : Open(store', plan)
      <4>1. CASE Pending' \subseteq Pending
        BY <3>1, <4>1 DEF Orderly
      <4>2. CASE Decide(s) /\ Pending' \subseteq
                       Pending \cup {PlanOf(session[s].plan.p, session[s].plan.a)}
        <5>1. Open(store, PlanOf(session[s].plan.p, session[s].plan.a))
          BY <4>2, DecideOpens
        <5>2. \A plan \in Pending : Open(store, plan)
          BY DEF Orderly
        <5> QED
          BY <3>1, <4>2, <5>1, <5>2
      <4> QED
        BY <4>1, <4>2, PendingStep
    <3>4. PacketSays' /\ RevisedRetired'
      <4>1. CASE ClearJournal(s)
        BY <4>1, OrderlyClear
      <4>2. CASE ~ClearJournal(s)
        <5>1. journal \subseteq journal'
          <6>1. CASE WriteJournal(s)
            BY <6>1 DEF WriteJournal, At, Orderly, Turns, OwnJournal
          <6>2. CASE ~WriteJournal(s)
            BY <2>2, <4>2, <6>2 DEF Away, FindJournal, Decide
          <6> QED
            BY <6>1, <6>2
        <5> QED
          BY <3>1, <5>1 DEF Orderly, PacketSays, RevisedRetired, Revised
      <4> QED
        BY <4>1, <4>2
    <3>5. /\ OneLatest'
          /\ \A p \in Proposals : ~({<<p, "ratify">>, <<p, "reject">>} \subseteq store'.rat)
          /\ \A p \in Proposals : <<p, "move_to_wiki">> \in store'.disp => p \in store'.page[SlotOf[p]]
      BY <3>1 DEF Orderly, OneLatest
    <3> QED
      BY <1>0, <3>2, <3>3, <3>4, <3>5 DEF Orderly
  <2> QED
    BY <2>1, <2>2
<1> QED
  BY <1>1, <1>2

\* Between decisions taken in turn the packets tell what was decided, and a slot
\* has one ratified record but for the exceptions.
LEMMA OrderlyQuiet ==
  ASSUME Orderly, Quiet
  PROVE  /\ \A p \in HasPacket : store.packet[p] = Told(Decided(store, p))
         /\ \A p, q \in Proposals :
              p # q /\ store.canon[p] = "ratified" /\ store.canon[q] = "ratified"
                /\ SlotOf[p] = SlotOf[q] => Exception(store, SlotOf[p])
<1>1. journal = {}
  BY DEF Quiet
<1>2. \A p \in HasPacket : store.packet[p] = Told(Decided(store, p))
  BY <1>1 DEF Orderly, PacketSays
<1>3. \A p \in Proposals : store.canon[p] = "ratified" => Latest(store, p)
  BY <1>1 DEF Orderly, RevisedRetired, Revised, RevisedIn, Latest
<1> QED
  BY <1>2, <1>3 DEF Orderly, OneLatest

\* What holds of callers that take turns, their failures and retries included.
THEOREM TurnsInvariance == Spec => []InTurns
<1>1. Init => InTurns
  BY OrderlyInit DEF InTurns
<1>2. ASSUME TypeOK, TypeOK', InRange', Safe, Safe', InTurns, [Next]_vars
      PROVE  InTurns'
  <2>1. orderly' = orderly
    BY <1>2 DEF Next, Work, vars, Start, Acquire, FindStale, RemoveStale, TimeOut, FindJournal,
         FindNoJournal, Refuse, ReturnUnchanged, Repeat, Decide, WriteJournal, WriteRecord,
         ClearJournal, Finish, Throw, Crash
  <2>2. orderly => Orderly'
    BY <1>2, OrderlyStep DEF InTurns
  <2> QED
    BY <2>1, <2>2 DEF InTurns
<1>3. TypeOK /\ InRange /\ (TypeOK /\ InRange)' /\ Safe /\ Safe' /\ InTurns /\ [Next]_vars
        => InTurns'
  BY <1>2
<1> QED
  BY <1>1, <1>3, DecisionsTyped, SafeInvariance, PTL DEF Spec

\* Callers that take turns never get a proposal both ratified and rejected.
THEOREM OneEndInTurn == Spec => []OneEnd
<1>1. InTurns => OneEnd
  BY DEF InTurns, Orderly, OneEnd
<1> QED
  BY <1>1, TurnsInvariance, PTL

\* Between their decisions the packets tell what was decided.
THEOREM PacketsTellInTurn == Spec => []PacketTells
<1>1. InTurns => PacketTells
  BY OrderlyQuiet DEF InTurns, PacketTells, Told, Decided
<1> QED
  BY <1>1, TurnsInvariance, PTL

\* Between them two ratified records share a slot only by a second revision of a
\* record of the slot, or by a revision of a record of another slot.
THEOREM SlotSharedInTurn == Spec => []SlotShared
<1>1. InTurns => SlotShared
  BY OrderlyQuiet DEF InTurns, SlotShared, Exception, RevisedIn, Revised
<1> QED
  BY <1>1, TurnsInvariance, PTL

\* And no wiki page loses a claim that was moved to it.
THEOREM PagesKeepClaimsInTurn == Spec => []PageKeepsClaims
<1>1. InTurns => PageKeepsClaims
  BY DEF InTurns, Orderly, PageKeepsClaims
<1> QED
  BY <1>1, TurnsInvariance, PTL

=============================================================================
