------------------------------ MODULE HermesHost ------------------------------
(***************************************************************************)
(* Hermes with what an install put there (the plugin sources that          *)
(* installers.ts writes): when it starts it loads the memory provider and  *)
(* the bridge plugin its config.yaml names, and each finished turn of a    *)
(* conversation becomes an event file that is handed to                    *)
(* `cristalina bridge event`.  The bridge plugin writes the event before   *)
(* it returns; the provider leaves it to a thread.                         *)
(*                                                                         *)
(* Of a turn the model keeps its session and its text.  Prefetched context *)
(* and tips at a session's start are not modelled.                         *)
(***************************************************************************)
EXTENDS Installer

CONSTANTS
  MaxTurns,        \* turns of the behaviour, numbered 1 .. MaxTurns
  TextOf,          \* the text of each
  Slug             \* [session, turn -> what a file name keeps of session, time and text]

Turns == 1 .. MaxTurns

ASSUME HostAssumption ==
  /\ MaxTurns \in Nat /\ DOMAIN TextOf = Turns
  /\ DOMAIN Slug = {1, 2} \X Turns

VARIABLES
  host,            \* "off", "up" or "down"
  loaded,          \* what Hermes loaded when it started: "provider", "bridge"
  alone,           \* whether the provider was installed last, in provider mode, then
  session,         \* the provider's session and its turn number
  turns,           \* the finished turns: each with its session
  syncing,         \* turns a provider thread still has to write or to hand over
  events           \* the event files: one for each id

captureVars == <<host, loaded, alone, session, turns, syncing, events>>

HostInit ==
  /\ host = "off" /\ loaded = {} /\ alone = FALSE
  /\ session = [id |-> 1, turn |-> 0]
  /\ turns = <<>> /\ syncing = {} /\ events = {}

\* Hermes starts with what its config names.
Loads(y) ==
  IF y = Missing THEN {}
  ELSE {p \in {"provider", "bridge"} :
          IF p = "provider" THEN y.provider = "cristalina"
          ELSE "bridge" \in Enabled(y) \ (y.disabled \cup y.barred)}
HostStart ==
  /\ host = "off" /\ host' = "up"
  /\ loaded' = Loads(yaml)
  /\ alone' = (lastDone # Missing /\ ~overlapped /\ Provides(lastDone) /\ lastDone.mode = "provider"
               /\ yaml # Missing)
  /\ UNCHANGED <<session, turns, syncing, events>>

\* An event file replaces the file of the same id.
WriteEvent(id, t) == {e \in events : e.id # id} \cup {[id |-> id, turn |-> t]}

\* The ids: the bridge plugin's is session, time and text in small letters, digits and
\* underscores and cut to 96 characters, so that turns may share one; the provider's is a
\* hash of session, text and the turn number when its thread gets to run.
BridgeId(t, s) == <<"auto", Slug[s, t]>>
ProviderId(t, s) == <<"provider", s, session.turn, TextOf[t]>>

\* The turn after the finished ones starts (on_turn_start) and ends: the provider starts
\* a thread for it with the session as it is (sync_turn), the bridge plugin writes and
\* hands over its event (post_llm_call).
NextTurn == Len(turns) + 1
StartTurn ==
  /\ host = "up" /\ NextTurn \in Turns
  /\ session.turn < NextTurn
  /\ session' = [session EXCEPT !.turn = NextTurn]
  /\ UNCHANGED <<host, loaded, alone, turns, syncing, events>>
EndTurn ==
  /\ host = "up" /\ NextTurn \in Turns /\ session.turn = NextTurn
  /\ turns' = Append(turns, session.id)
  /\ syncing' = IF "provider" \in loaded THEN syncing \cup {NextTurn} ELSE syncing
  /\ events' = IF "bridge" \in loaded
               THEN WriteEvent(BridgeId(NextTurn, session.id), NextTurn) ELSE events
  /\ UNCHANGED <<host, loaded, alone, session>>

\* The session changes between turns (on_session_switch); a reset starts counting again.
SwitchSession(reset) ==
  /\ host = "up" /\ session.id = 1 /\ session.turn # NextTurn
  /\ session' = [id |-> 2, turn |-> IF reset THEN 0 ELSE session.turn]
  /\ UNCHANGED <<host, loaded, alone, turns, syncing, events>>

\* The thread of turn t writes its event and hands it over.
SyncTurn(t) ==
  /\ host = "up" /\ t \in syncing
  /\ events' = WriteEvent(ProviderId(t, turns[t]), t)
  /\ syncing' = syncing \ {t}
  /\ UNCHANGED <<host, loaded, alone, session, turns>>

\* Hermes ends; threads that outlast the wait for them end with it.
HostEnds == host = "up" /\ host' = "down" /\ UNCHANGED <<loaded, alone, session, turns, syncing, events>>

CaptureNext ==
  \/ HostStart
  \/ StartTurn
  \/ EndTurn
  \/ \E reset \in BOOLEAN : SwitchSession(reset)
  \/ \E t \in Turns : SyncTurn(t)
  \/ HostEnds

\* Hermes is started once the installs are over, if the last of its own ended well; it
\* reads what it loads when it starts.
HostNext ==
  \/ host = "off" /\ InstallerNext /\ UNCHANGED captureVars
  \/ InstallerRests /\ lastDone # Missing /\ CaptureNext /\ UNCHANGED installVars

hostVars == <<installVars, captureVars>>
HostSpec == InstallerInit /\ HostInit /\ [][HostNext]_hostVars

-----------------------------------------------------------------------------
CaptureTypeOK ==
  /\ host \in {"off", "up", "down"} /\ loaded \subseteq {"provider", "bridge"}
  /\ turns \in Seq({1, 2}) /\ Len(turns) <= MaxTurns
  /\ syncing \subseteq Turns

\* The event files a turn made.
EventsOf(t) == {e \in events : e.turn = t}
Same(t, u) == turns[t] = turns[u] /\ TextOf[t] = TextOf[u]

KeptByProvider(t) ==
  \E u \in 1 .. Len(turns) : Same(t, u) /\ \E e \in EventsOf(u) : e.id[1] = "provider"
KeptByBridge(t) ==
  \E u \in t .. Len(turns) :
    /\ BridgeId(u, turns[u]) = BridgeId(t, turns[t])
    /\ [id |-> BridgeId(u, turns[u]), turn |-> u] \in events

\* What the host is told of is installed; a turn that the provider's thread has handed over
\* has an event of its session and text; the bridge plugin's event file of a turn holds
\* that turn, or a later one of the same id; and after an install in provider mode each
\* turn is captured once, by the provider (installers.ts, D-018 in docs/DECISIONS.md).
HostServed ==
  /\ InstallSound
  /\ \A t \in 1 .. Len(turns) :
       /\ "provider" \in loaded /\ t \notin syncing => KeptByProvider(t)
       /\ "bridge" \in loaded => KeptByBridge(t)
  /\ alone => loaded = {"provider"} /\ \A t \in Turns : Cardinality(EventsOf(t)) <= 1
=============================================================================
