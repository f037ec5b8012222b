----------------------------- MODULE SkillExecution -----------------------------
(***************************************************************************)
(* Skill-backed capabilities: what the world manifest compiles to          *)
(* (compiler.py), what list_tools shows of it for a context                *)
(* (capability_projection.py) and what execute_skill lets through          *)
(* (executor.py).  The projection and the execution guard are two chains   *)
(* of rules in two files that read the same configuration; a context (mode *)
(* and workflow of the agent, approvals on record) comes with every call   *)
(* and may have changed since the last listing.                            *)
(*                                                                         *)
(* A capability is known by its key in the manifest, which is what         *)
(* execute_skill looks up.  Payloads are abstracted to the constraints     *)
(* they break.                                                             *)
(***************************************************************************)
EXTENDS Naturals, Sequences

CONSTANTS
  Names,       \* capability keys
  Effects,     \* side effects a manifest may declare, "none" among them
  Manifests,   \* "capabilities" blocks: functions from keys to RawEntries
  Payloads,    \* payloads: sets of the constraints they break
  MaxCalls     \* bound: calls, listings included

WriteEffects == {"write", "external_communication", "deployment"}
BackgroundBlocked == WriteEffects \cup {"bounded_compute"}
Harmless == {"none", "read"}

Constraints == {"bytes_billed", "deny_pattern", "domain"}
(* An entry: has it a source_skill, is that source declared, and the raw   *)
(* values of the keys, "absent" where the key is missing.                  *)
RawEntries == [skill : BOOLEAN, declared : BOOLEAN,
               allowed : {"absent", "true", "false", "conditional"},
               sideEffect : Effects \cup {"absent"}, requiresApproval : BOOLEAN,
               provenanceRequired : BOOLEAN, constraints : SUBSET Constraints]

ASSUME EffectsAssumption == "none" \in Effects /\ {"absent", "undefined"} \cap Effects = {}
ASSUME ManifestsAssumption == Manifests \subseteq [Names -> RawEntries]
(* "unorderable" is a bytes_billed that does not compare with a number.    *)
ASSUME PayloadsAssumption == Payloads \subseteq SUBSET (Constraints \cup {"unorderable"})
ASSUME CallsAssumption == MaxCalls \in Nat

Contexts == [background : BOOLEAN, readonly : BOOLEAN, approved : SUBSET Names]

VARIABLES
  manifest,    \* the "capabilities" block the executor was built from
  projecting,  \* a projection engine was configured
  simulating,  \* the simulation flag
  audit,       \* audit.jsonl, of these two operations
  listing,     \* history: what the last list_tools returned
  reply,       \* history: what the last execute_skill returned
  calls        \* number of calls

vars == <<manifest, projecting, simulating, audit, listing, reply, calls>>

Decisions == {"ALLOW", "DENY", "ASK"}
Rules == {"capability_not_defined", "capability_not_allowed", "capability_not_visible",
          "provenance_violation", "approval_required", "constraint_violation",
          "default_allow", "projection"}
Entries ==
  [tool : Names \cup {"list_tools"}, decision : Decisions, rule : Rules, taint : BOOLEAN,
   background : BOOLEAN, readonly : BOOLEAN, sideEffect : Effects \cup {"undefined"}]
NoListing == [known |-> FALSE]
Listings == [known : {TRUE}, context : Contexts, visible : SUBSET Names]
NoReply == [known |-> FALSE]
Replies == [known : {TRUE}, name : Names, context : Contexts, taint : BOOLEAN,
            payload : Payloads, decision : Decisions, rule : Rules,
            result : {"real", "simulated", "none"}]

TypeOK ==
  /\ manifest \in Manifests
  /\ projecting \in BOOLEAN /\ simulating \in BOOLEAN
  /\ audit \in Seq(Entries)
  /\ listing \in Listings \cup {NoListing}
  /\ reply \in Replies \cup {NoReply}
  /\ calls \in Nat

-----------------------------------------------------------------------------
(* parse_skill_capabilities: an entry without a source_skill is not one of *)
(* these, an undeclared source refuses the whole manifest, and a missing   *)
(* "allowed" is false while "conditional" is as good as true.              *)

Compiles(raw) == \A n \in Names : raw[n].skill => raw[n].declared

Defined(raw) == {n \in Names : raw[n].skill}

Compiled(entry) ==
  [allowed |-> entry.allowed \in {"true", "conditional"},
   sideEffect |-> IF entry.sideEffect = "absent" THEN "none" ELSE entry.sideEffect,
   requiresApproval |-> entry.requiresApproval,
   provenanceRequired |-> entry.provenanceRequired,
   constraints |-> entry.constraints]

(* The executor's skill_capabilities: those keys, and what they map to.    *)
Keys == Defined(manifest)
Capability(name) == Compiled(manifest[name])

-----------------------------------------------------------------------------
(* CapabilityProjectionEngine.                                             *)

\* Deliberate error, for the mutation runs: one set of effects for both rules.
SideEffectDeniedWrites(cap, ctx) ==
  (ctx.background \/ ctx.readonly) /\ cap.sideEffect \in WriteEffects

SideEffectDenied(cap, ctx) ==
  \/ ctx.background /\ cap.sideEffect \in BackgroundBlocked
  \/ ctx.readonly /\ cap.sideEffect \in WriteEffects

(* _deny_reason restates the two effect rules of side_effect_denial.       *)
Hidden(cap, name, ctx) ==
  \/ ~cap.allowed
  \/ ctx.background /\ cap.sideEffect \in BackgroundBlocked
  \/ ctx.readonly /\ cap.sideEffect \in WriteEffects
  \/ cap.requiresApproval /\ name \notin ctx.approved

Projected(ctx) ==
  {n \in Keys : ~Hidden(Capability(n), n, ctx)}

(* Executor.list_tools: nothing is visible without an engine.              *)
Visible(ctx) == IF projecting THEN Projected(ctx) ELSE {}

-----------------------------------------------------------------------------
(* Executor.execute_skill.                                                 *)

Outcome(decision, rule) == [decision |-> decision, rule |-> rule]

Denied(rule) == Outcome("DENY", rule)

\* Deliberate error, for the mutation runs: approval is asked for first.
GuardAskFirst(name, ctx, taint, payload) ==
  IF name \notin Keys THEN Denied("capability_not_defined")
  ELSE LET cap == Capability(name) IN
    IF ~cap.allowed THEN Denied("capability_not_allowed")
    ELSE IF cap.requiresApproval /\ name \notin ctx.approved
         THEN Outcome("ASK", "approval_required")
    ELSE IF projecting /\ SideEffectDenied(cap, ctx) THEN Denied("capability_not_visible")
    ELSE IF cap.provenanceRequired /\ taint THEN Denied("provenance_violation")
    ELSE IF payload \cap cap.constraints # {} THEN Denied("constraint_violation")
    ELSE Outcome("ALLOW", "default_allow")

Guard(name, ctx, taint, payload) ==
  IF name \notin Keys THEN Denied("capability_not_defined")
  ELSE LET cap == Capability(name) IN
    IF ~cap.allowed THEN Denied("capability_not_allowed")
    ELSE IF projecting /\ SideEffectDenied(cap, ctx) THEN Denied("capability_not_visible")
    ELSE IF cap.provenanceRequired /\ taint THEN Denied("provenance_violation")
    ELSE IF cap.requiresApproval /\ name \notin ctx.approved
         THEN Outcome("ASK", "approval_required")
    ELSE IF payload \cap cap.constraints # {} THEN Denied("constraint_violation")
    ELSE Outcome("ALLOW", "default_allow")

(* The comparison of the billed bytes raises, before the other constraints *)
(* are looked at.                                                          *)
Raises(name, ctx, taint, payload) ==
  /\ Guard(name, ctx, taint, payload).rule \in {"constraint_violation", "default_allow"}
  /\ "unorderable" \in payload
  /\ "bytes_billed" \in Capability(name).constraints

\* Deliberate error, for the mutation runs: as the executor decides for tools.
SimulatedAsExternal(effect) == effect = "external_communication"

Simulated(effect) == effect \notin Harmless

\* "undefined" stands for the empty string that is logged.
SideEffectOf(name) ==
  IF name \in Keys THEN Capability(name).sideEffect ELSE "undefined"

ResultOf(decision, effect) ==
  IF decision # "ALLOW" THEN "none"
  ELSE IF simulating /\ Simulated(effect) THEN "simulated" ELSE "real"

-----------------------------------------------------------------------------
Init ==
  /\ manifest \in {raw \in Manifests : Compiles(raw)}
  /\ projecting \in BOOLEAN
  /\ simulating \in BOOLEAN
  /\ audit = << >>
  /\ listing = NoListing
  /\ reply = NoReply
  /\ calls = 0

Count == calls < MaxCalls /\ calls' = calls + 1

ListTools(ctx) ==
  /\ Count
  /\ listing' = [known |-> TRUE, context |-> ctx, visible |-> Visible(ctx)]
  /\ audit' = Append(audit, [tool |-> "list_tools", decision |-> "ALLOW",
                             rule |-> "projection", taint |-> FALSE,
                             background |-> ctx.background, readonly |-> ctx.readonly,
                             sideEffect |-> "undefined"])
  /\ UNCHANGED <<manifest, projecting, simulating, reply>>

ExecuteSkill(name, ctx, taint, payload) ==
  /\ Count
  /\ ~Raises(name, ctx, taint, payload)
  /\ LET d == Guard(name, ctx, taint, payload)
     IN  /\ reply' = [known |-> TRUE, name |-> name, context |-> ctx, taint |-> taint,
                      payload |-> payload, decision |-> d.decision, rule |-> d.rule,
                      result |-> ResultOf(d.decision, SideEffectOf(name))]
         /\ audit' = Append(audit, [tool |-> name, decision |-> d.decision, rule |-> d.rule,
                                    taint |-> taint, background |-> ctx.background,
                                    readonly |-> ctx.readonly,
                                    sideEffect |-> SideEffectOf(name)])
  /\ UNCHANGED <<manifest, projecting, simulating, listing>>

(* The exception leaves execute_skill before anything is logged.           *)
ExecuteSkillRaises(name, ctx, taint, payload) ==
  /\ Count
  /\ Raises(name, ctx, taint, payload)
  /\ UNCHANGED <<manifest, projecting, simulating, audit, listing, reply>>

Next ==
  \E ctx \in Contexts :
    \/ ListTools(ctx)
    \/ \E name \in Names, taint \in BOOLEAN, payload \in Payloads :
         \/ ExecuteSkill(name, ctx, taint, payload)
         \/ ExecuteSkillRaises(name, ctx, taint, payload)

Spec == Init /\ [][Next]_vars

-----------------------------------------------------------------------------
(* The execution guard is no wider than the projection: with an engine     *)
(* configured, what execute_skill lets through would have been shown by a  *)
(* list_tools in the same context, whatever an earlier listing showed.     *)
AllowedWasVisible ==
  reply.known /\ projecting /\ reply.decision = "ALLOW" =>
    reply.name \in Projected(reply.context)

(* ... nor narrower: a capability on the last listing, called in the       *)
(* context of that listing, is refused only for what the projection is not *)
(* told, the provenance and the payload, and it is never asked about.      *)
ListedIsCallable ==
  listing.known /\ reply.known /\ reply.context = listing.context
    /\ reply.name \in listing.visible =>
    reply.rule \in {"provenance_violation", "constraint_violation", "default_allow"}

(* Listing and execution, two chains of rules in two files, agree.         *)
GuardMatchesProjection == AllowedWasVisible /\ ListedIsCallable

(* An ASK is worth answering: the same call with the approval on record    *)
(* is let through unless its payload breaks a constraint or cannot be      *)
(* compared with one, in which case it raises.  No other rule stands behind*)
(* the question.                                                           *)
AskIsAnswerable ==
  reply.known /\ reply.decision = "ASK" =>
    LET approved == [reply.context EXCEPT !.approved = @ \cup {reply.name}]
    IN  Guard(reply.name, approved, reply.taint, reply.payload).rule
          \in {"constraint_violation", "default_allow"}

(* With the simulation flag on, no capability of an effect other than none *)
(* or read has a real result, however its effect is called in the manifest *)
(* and whether or not a projection would have hidden it.                   *)
SimulationCoversEffects ==
  reply.known /\ simulating /\ reply.result = "real" =>
    manifest[reply.name].sideEffect \in Harmless \cup {"absent"}

=============================================================================
