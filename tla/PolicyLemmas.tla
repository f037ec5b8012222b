------------------------------ MODULE PolicyLemmas ------------------------------
(***************************************************************************)
(* What the two decision functions of Policy return, for every world and   *)
(* every call.                                                             *)
(***************************************************************************)
EXTENDS Policy, TLAPS

(* The six results are told apart by their rule, so a rule body that holds *)
(* can be recognised from the result it yields.                            *)
LEMMA ResultsDistinct ==
  /\ NotAllowlisted # CapabilityNotAllowed
  /\ \A r \in {NotAllowlisted, CapabilityNotAllowed} :
       r \notin {DescriptorDrift, TaintedExternal, ApprovalRequired, DefaultAllow}
  /\ DescriptorDrift # TaintedExternal
  /\ \A r \in {DescriptorDrift, TaintedExternal} : r \notin {ApprovalRequired, DefaultAllow}
  /\ ApprovalRequired # DefaultAllow
<1> DEFINE Rule(r) == r.rule
<1>1. /\ Rule(NotAllowlisted) = "tool_not_allowlisted"
      /\ Rule(CapabilityNotAllowed) = "capability_not_allowed"
      /\ Rule(DescriptorDrift) = "descriptor_drift"
      /\ Rule(TaintedExternal) = "tainted_external_side_effect"
      /\ Rule(ApprovalRequired) = "approval_required"
      /\ Rule(DefaultAllow) = "default_allow"
  BY DEF Result, NotAllowlisted, CapabilityNotAllowed, DescriptorDrift,
         TaintedExternal, ApprovalRequired, DefaultAllow
<1> HIDE DEF Rule
<1> QED BY <1>1

(* The Rego rules, none of which is ordered before another, hold for at    *)
(* most one value on any input, and it is the value the Python chain gives.*)
LEMMA RulesFollowChain ==
  ASSUME NEW w, NEW tool, NEW cap, NEW taint, NEW se, NEW hashOk
  PROVE  LET d == Decide(w, tool, cap, taint, se, hashOk)
         IN  RulesThatHold(BuildOpaInput(w, tool, cap, taint, se, hashOk))
               = IF d = DefaultAllow THEN {} ELSE {d}
<1> DEFINE in == BuildOpaInput(w, tool, cap, taint, se, hashOk)
           d  == Decide(w, tool, cap, taint, se, hashOk)
<1>1. /\ ToolAllowlisted(in) <=> tool \in w.allowlist
      /\ CapabilityAllowed(in) <=> cap \in w.capabilities
      /\ IsTaintedExternal(in) <=> taint /\ se = "external"
      /\ in.descriptor_hash_valid = hashOk
      /\ CapabilityApprovalRequired(in) <=> cap \in w.approvalRequired
  BY DEF BuildOpaInput, ToolAllowlisted, CapabilityAllowed, IsTaintedExternal,
         CapabilityApprovalRequired
<1> HIDE DEF in
<1>2. ASSUME NEW r \in PolicyResults
      PROVE  RuleHolds(r, in) <=> r = d /\ r # DefaultAllow
  BY <1>1, ResultsDistinct DEF RuleHolds, Decide, PolicyResults
<1>3. d \in PolicyResults
  BY DEF Decide, PolicyResults
<1> HIDE DEF d
<1> QED BY <1>2, <1>3 DEF RulesThatHold, in, d

(* The same, as the value of the OPA query.                                *)
LEMMA RegoIsDecide ==
  ASSUME NEW w, NEW tool, NEW cap, NEW taint, NEW se, NEW hashOk
  PROVE  RegoDecide(BuildOpaInput(w, tool, cap, taint, se, hashOk))
           = Decide(w, tool, cap, taint, se, hashOk)
BY RulesFollowChain DEF RegoDecide

(* The chain always ends in one of its results.                            *)
LEMMA DecideType ==
  ASSUME NEW w, NEW tool, NEW cap, NEW taint, NEW se, NEW hashOk
  PROVE  Decide(w, tool, cap, taint, se, hashOk) \in PolicyResults
BY DEF Decide, PolicyResults

(* What has been established when a call is allowed, and when it is asked  *)
(* about: everything the earlier returns of the chain would have refused.  *)
LEMMA DecideAllows ==
  ASSUME NEW w, NEW tool, NEW cap, NEW taint, NEW se, NEW hashOk,
         Decide(w, tool, cap, taint, se, hashOk) = DefaultAllow
  PROVE  /\ tool \in w.allowlist
         /\ cap \in w.capabilities
         /\ cap \notin w.approvalRequired
         /\ hashOk
         /\ ~(taint /\ se = "external")
BY ResultsDistinct DEF Decide

LEMMA DecideAsks ==
  ASSUME NEW w, NEW tool, NEW cap, NEW taint, NEW se, NEW hashOk,
         Decide(w, tool, cap, taint, se, hashOk) = ApprovalRequired
  PROVE  /\ tool \in w.allowlist
         /\ cap \in w.capabilities
         /\ cap \in w.approvalRequired
         /\ ~(taint /\ se = "external")
BY ResultsDistinct DEF Decide

=============================================================================
