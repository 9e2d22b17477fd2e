----------------------------- MODULE RuntimeBridge -----------------------------
(***************************************************************************)
(* What the runtime bridge does with an event of a runtime                 *)
(* (runtime-events.ts): which store it goes to, and as what.  An event     *)
(* that names another instance than the config binds its runtime to is not *)
(* handled but reported; corrected and delivered again, it is handled.     *)
(* The ids of all records derive from the event's, whatever becomes of it. *)
(*                                                                         *)
(* Checkpoints, packs and receipts are SessionContinuity's; preferences    *)
(* are ConversationStore's.                                                *)
(***************************************************************************)
EXTENDS IntakeStore

PreferenceSignals == {"conversation_preference_signal", "projection_feedback"}
MessageEvents == {"message_observed", "memory_consolidation"}
SessionEvents == {"checkpoint_requested", "session_resume_requested"}
EventTypes ==
  PreferenceSignals \cup MessageEvents \cup SessionEvents
    \cup {"runtime_diagnostic", "review_action_requested", "projection_refresh_requested"}

\* An event names its runtime's instance or not; a config binds the runtime or not.
Instances == {"unnamed", "home", "away"}
BridgeEvents == [id : Events, type : EventTypes, instance : Instances]

\* hasRuntimeDrift
Drifts(binding, e) ==
  binding # "unnamed" /\ e.instance # "unnamed" /\ e.instance # binding

\* resolveContext: an event of an instance nobody names is refused.
Resolvable(binding, e) == e.instance # "unnamed" \/ binding # "unnamed"

\* handleRuntimeBridgeEvent
Handling(binding, e) ==
  CASE Drifts(binding, e) -> "report"
    [] ~Resolvable(binding, e) -> "refuse"
    [] Resolvable(binding, e) /\ ~Drifts(binding, e) ->
         CASE e.type \in PreferenceSignals -> "write preference"
           [] e.type \in MessageEvents -> "take in"
           [] e.type = "runtime_diagnostic" -> "report"
           [] e.type = "review_action_requested" -> "refuse"
           [] e.type = "projection_refresh_requested" -> "read"
           [] e.type \in SessionEvents -> "keep session"

\* recordRuntimeDriftDiagnostic: the report of a drift is taken in under the id of the
\* event itself.
ModeOf(handling) == IF handling = "report" THEN "diagnostic_only" ELSE "runtime_only"

\* buildNonCanonicalInput: the intakes that the deliveries of events make, under each of
\* the bindings the config may have when they are delivered.
IntakesOf(bindings, events) ==
  {[event |-> x[2].id, mode |-> ModeOf(Handling(x[1], x[2]))] :
     x \in {y \in bindings \X events : Handling(y[1], y[2]) \in {"take in", "report"}}}
=============================================================================
