---------------------------- MODULE DecisionInputs ----------------------------
(***************************************************************************)
(* A request on its way to a decision.  The caller holds a provenance and  *)
(* derives others from it; a call hands the policy engine the taint        *)
(* flag that the provenance carries (Executor.execute: taint =             *)
(* provenance.tainted) and nothing else of the chain.  Both engines decide *)
(* every call.                                                             *)
(***************************************************************************)
EXTENDS PolicyEngines, Provenance

decisionVars == <<vars, provVars>>

DecisionInit == Init /\ ProvInit

Decided == \E c \in Calls : c.taint = prov.tainted /\ (Evaluate(c) \/ EvaluateOpaFails(c))

DecisionNext ==
  \/ \E c \in Calls : c.taint = prov.tainted /\ Evaluate(c) /\ UNCHANGED provVars
  \/ \E c \in Calls : c.taint = prov.tainted /\ EvaluateOpaFails(c) /\ UNCHANGED provVars
  \/ DeriveStep /\ UNCHANGED vars

DecisionSpec == DecisionInit /\ [][DecisionNext]_decisionVars

-----------------------------------------------------------------------------
(* One untrusted channel anywhere in the chain of a request, however long  *)
(* ago, keeps it from tools with an external effect: no engine lets the    *)
(* call through and none offers it to a human.                             *)
TaintedChainNeverActs ==
  [][(prov.channel \in TaintedChannels \/ SomeTainted(prov.parents))
       /\ Decided /\ call'.sideEffect = "external" =>
         {python'.decision, opa'.decision} \cap {"ALLOW", "ASK"} = {}]_decisionVars
=============================================================================
