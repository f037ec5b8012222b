------------------------------- MODULE Policy -------------------------------
(***************************************************************************)
(* The decision function of the proxy, twice: as the first-match chain of  *)
(* safe_mcp_proxy/policy_engine.py, and as the complete rules of           *)
(* safe_mcp_proxy/policies/proxy.rego, which OPA evaluates independently   *)
(* of one another.  Also the compilation of a world manifest into the      *)
(* tables both engines read.  The module has no state: PolicyEngines runs  *)
(* the two engines side by side, and Executor uses the Python one.         *)
(*                                                                         *)
(* Tools, capabilities and worlds are opaque values.                       *)
(***************************************************************************)
EXTENDS FiniteSets

Result(decision, rule) == [decision |-> decision, rule |-> rule]

NotAllowlisted       == Result("ABSENT", "tool_not_allowlisted")
CapabilityNotAllowed == Result("ABSENT", "capability_not_allowed")
DescriptorDrift      == Result("DENY", "descriptor_drift")
TaintedExternal      == Result("DENY", "tainted_external_side_effect")
ApprovalRequired     == Result("ASK", "approval_required")
DefaultAllow         == Result("ALLOW", "default_allow")

PolicyResults ==
  {NotAllowlisted, CapabilityNotAllowed, DescriptorDrift, TaintedExternal,
   ApprovalRequired, DefaultAllow}

(* "unknown" is what the executor passes for a tool it cannot resolve.     *)
SideEffects == {"read", "internal", "external", "unknown"}

-----------------------------------------------------------------------------
(***************************************************************************)
(* A raw manifest names the allowed tools and gives each capability an     *)
(* entry: nothing, a bare flag, or a mapping whose "allowed" key may be    *)
(* missing, a boolean, or the string "conditional" of a skill capability   *)
(* (a non-empty string, hence true), and which may require approval.       *)
(***************************************************************************)
AllowedKeys == {"missing", "false", "true", "conditional"}

CapabilityEntries ==
  {[form |-> "none"]}
    \cup [form : {"flag"}, value : BOOLEAN]
    \cup [form : {"mapping"}, allowed : AllowedKeys, approval : BOOLEAN]

Truthy(allowed) == allowed \in {"true", "conditional"}

\* Deliberate error, for the mutation runs: a mapping without "allowed" enables
\* its capability, as .get("allowed", True) would.
CompileManifestDefaultTrue(raw) ==
  [allowlist        |-> raw.allowedTools,
   capabilities     |-> {c \in DOMAIN raw.capabilities :
                           LET e == raw.capabilities[c]
                           IN  \/ e.form = "flag" /\ e.value
                               \/ e.form = "mapping" /\ e.allowed # "false"},
   approvalRequired |-> {c \in DOMAIN raw.capabilities :
                           LET e == raw.capabilities[c]
                           IN  e.form = "mapping" /\ e.approval}]

CompileManifest(raw) ==
  [allowlist        |-> raw.allowedTools,
   capabilities     |-> {c \in DOMAIN raw.capabilities :
                           LET e == raw.capabilities[c]
                           IN  \/ e.form = "flag" /\ e.value
                               \/ e.form = "mapping" /\ Truthy(e.allowed)},
   approvalRequired |-> {c \in DOMAIN raw.capabilities :
                           LET e == raw.capabilities[c]
                           IN  e.form = "mapping" /\ e.approval}]

Tables(tools, capabilities) ==
  [allowlist : SUBSET tools,
   capabilities : SUBSET capabilities,
   approvalRequired : SUBSET capabilities]

-----------------------------------------------------------------------------
(***************************************************************************)
(* PolicyEngine.decide: the first condition that holds settles the call.   *)
(***************************************************************************)

\* Deliberate error, for the mutation runs: the approval rule before the taint rule.
DecideAskFirst(world, tool, capability, taint, sideEffect, hashOk) ==
  IF tool \notin world.allowlist THEN NotAllowlisted
  ELSE IF capability \notin world.capabilities THEN CapabilityNotAllowed
  ELSE IF ~hashOk THEN DescriptorDrift
  ELSE IF capability \in world.approvalRequired THEN ApprovalRequired
  ELSE IF taint /\ sideEffect = "external" THEN TaintedExternal
  ELSE DefaultAllow

Decide(world, tool, capability, taint, sideEffect, hashOk) ==
  IF tool \notin world.allowlist THEN NotAllowlisted
  ELSE IF capability \notin world.capabilities THEN CapabilityNotAllowed
  ELSE IF ~hashOk THEN DescriptorDrift
  ELSE IF taint /\ sideEffect = "external" THEN TaintedExternal
  ELSE IF capability \in world.approvalRequired THEN ApprovalRequired
  ELSE DefaultAllow

-----------------------------------------------------------------------------
(***************************************************************************)
(* The Rego document.  OPA has no order: each rule carries the negation of *)
(* the rules above it, and "decision" is a complete rule, so an input for  *)
(* which two bodies hold with different values is an evaluation error.     *)
(***************************************************************************)
BuildOpaInput(world, tool, capability, taint, sideEffect, hashOk) ==
  [tool_name             |-> tool,
   capability            |-> capability,
   taint                 |-> taint,
   side_effect_type      |-> sideEffect,
   descriptor_hash_valid |-> hashOk,
   allowlist             |-> world.allowlist,
   capability_map        |-> world.capabilities,
   approval_required     |-> world.approvalRequired]

ToolAllowlisted(in)            == in.tool_name \in in.allowlist
CapabilityAllowed(in)          == in.capability \in in.capability_map
IsTaintedExternal(in)          == in.taint /\ in.side_effect_type = "external"
CapabilityApprovalRequired(in) == in.capability \in in.approval_required

(* The rule whose value is the result r has a body that holds for in.      *)
RuleHolds(r, in) ==
  \/ /\ r = NotAllowlisted
     /\ ~ToolAllowlisted(in)
  \/ /\ r = CapabilityNotAllowed
     /\ ToolAllowlisted(in)
     /\ ~CapabilityAllowed(in)
  \/ /\ r = DescriptorDrift
     /\ ToolAllowlisted(in)
     /\ CapabilityAllowed(in)
     /\ ~in.descriptor_hash_valid
  \/ /\ r = TaintedExternal
     /\ ToolAllowlisted(in)
     /\ CapabilityAllowed(in)
     /\ in.descriptor_hash_valid
     /\ IsTaintedExternal(in)
  \/ /\ r = ApprovalRequired
     /\ ToolAllowlisted(in)
     /\ CapabilityAllowed(in)
     /\ in.descriptor_hash_valid
     /\ ~IsTaintedExternal(in)
     /\ CapabilityApprovalRequired(in)

RulesThatHold(in) == {r \in PolicyResults : RuleHolds(r, in)}

(* What "data.safe_mcp_proxy.decision" evaluates to: the value of the rule *)
(* that holds, the default when none does, and an error, which the caller  *)
(* sees as a RuntimeError, when two conflict.                              *)
EvaluationError == Result("ERROR", "eval_conflict_error")

RegoDecide(in) ==
  LET holding == RulesThatHold(in)
  IN  IF holding = {} THEN DefaultAllow
      ELSE IF \E r, s \in holding : r # s THEN EvaluationError
      ELSE CHOOSE r \in holding : TRUE

=============================================================================
