---------------------------- MODULE PolicyEngines ----------------------------
(***************************************************************************)
(* The two interchangeable policy engines of the proxy, built from the     *)
(* same compiled manifest and given the same calls.  A world's             *)
(* "policy_engine" key (or --engine) picks one; the README and the header  *)
(* of proxy.rego promise that it does not matter which.                    *)
(*                                                                         *)
(* The OPA engine is a subprocess or a REST call and may fail: it then     *)
(* raises instead of deciding, so that call has no decision at all.        *)
(***************************************************************************)
EXTENDS Policy

CONSTANTS Tools,          \* names an agent may ask for
          Capabilities    \* capability keys a tool may declare

VARIABLES manifest,       \* the raw manifest both engines were built from
          call,           \* the arguments of the last decide(), or NoCall
          python,         \* what PolicyEngine returned for it
          opa             \* what OPAPolicyEngine returned for it, or Raised

vars == <<manifest, call, python, opa>>

RawManifests ==
  [allowedTools : SUBSET Tools, capabilities : [Capabilities -> CapabilityEntries]]

Calls ==
  [tool : Tools, capability : Capabilities, taint : BOOLEAN,
   sideEffect : SideEffects, hashOk : BOOLEAN]

NoCall == [tool |-> "none"]
NoAnswer == Result("none", "none")
Raised == Result("ERROR", "RuntimeError")

TypeOK ==
  /\ manifest \in RawManifests
  /\ call \in Calls \cup {NoCall}
  /\ python \in PolicyResults \cup {NoAnswer}
  /\ opa \in PolicyResults \cup {NoAnswer, EvaluationError, Raised}

-----------------------------------------------------------------------------
Init ==
  /\ manifest \in RawManifests
  /\ call = NoCall
  /\ python = NoAnswer
  /\ opa = NoAnswer

World == CompileManifest(manifest)

PythonAnswer(c) ==
  Decide(World, c.tool, c.capability, c.taint, c.sideEffect, c.hashOk)

OpaAnswer(c) ==
  RegoDecide(BuildOpaInput(World, c.tool, c.capability, c.taint,
                           c.sideEffect, c.hashOk))

(* decide() on both engines, OPA answering.                                *)
Evaluate(c) ==
  /\ call' = c
  /\ python' = PythonAnswer(c)
  /\ opa' = OpaAnswer(c)
  /\ UNCHANGED manifest

(* decide() on both engines, OPA missing, failing, or answering in a form  *)
(* that does not parse.                                                    *)
EvaluateOpaFails(c) ==
  /\ call' = c
  /\ python' = PythonAnswer(c)
  /\ opa' = Raised
  /\ UNCHANGED manifest

Next == \E c \in Calls : Evaluate(c) \/ EvaluateOpaFails(c)

Spec == Init /\ [][Next]_vars

-----------------------------------------------------------------------------
(* Whenever OPA answers, it answers what the Python chain answers: the     *)
(* guards of the five unordered Rego rules encode exactly the priority     *)
(* that policy_engine.py gets from the order of its returns.  In           *)
(* particular no input makes two rules conflict.                           *)
EnginesAgree == opa # Raised => opa = python

(* A capability the manifest does not enable is never asked about: a       *)
(* requires_approval flag on a capability that is missing, disabled or     *)
(* whose mapping lacks "allowed" yields ABSENT from both engines, so an    *)
(* approval can never be obtained for what the world does not contain.     *)
AskOnlyWhatExists ==
  (python = ApprovalRequired \/ opa = ApprovalRequired) =>
    /\ call.tool \in manifest.allowedTools
    /\ LET e == manifest.capabilities[call.capability]
       IN  e.form = "mapping" /\ e.approval /\ e.allowed \notin {"missing", "false"}
    /\ ~(call.taint /\ call.sideEffect = "external")

=============================================================================
