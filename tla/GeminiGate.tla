------------------------------- MODULE GeminiGate -------------------------------
(***************************************************************************)
(* The Gemini route of the API (safe_mcp_proxy/integrations/gemini): a     *)
(* GeminiProxy with a policy gate of its own in front of the executor's    *)
(* execute().  The gate is built once, with the policy engine and the      *)
(* registry that the executor has then; it is not told of world switches,  *)
(* which the executor follows.  What the gate settles itself it writes to  *)
(* the executor's log, under the id of the world that is active.           *)
(*                                                                         *)
(* A Gemini request is always INTERACTIVE.  Its tool is looked up in the   *)
(* full catalog, so the gate knows the side effect of a tool that the      *)
(* manifest does not expose, where execute() has "unknown".                *)
(***************************************************************************)
EXTENDS Executor

-----------------------------------------------------------------------------
(* GeminiPolicyGate.evaluate for an intent of the mapper.                  *)

\* Deliberate error, for the mutation runs: the hash is looked at for the tools
\* the manifest does not expose only.
GateAnswerUnhashed(tool, taint) ==
  Decide(WorldTables[InitialWorld], tool, tool, taint, SideEffect[tool],
         HashOk(tool, Known \ Exposed, drifted))

GateAnswer(tool, taint) ==
  Decide(WorldTables[InitialWorld], tool, tool, taint, SideEffect[tool],
         HashOk(tool, Exposed, drifted))

(* record_absence, record_denial and record_simulation.                    *)
Record(tool, result, taint) ==
  /\ audit' = Append(audit, [Entry(tool, result, taint, current, NoToken)
                               EXCEPT !.by = "gate"])
  /\ UNCHANGED <<current, drifted, issued, store, serving, runs>>

(* IntentMapper raises IntentIRError: not in the catalog of the stored     *)
(* registry, although another world may define the tool.                   *)
GeminiUnknown(tool, taint) ==
  /\ Called
  /\ tool \notin Known
  /\ Record(tool, NotInOntology, taint)

GeminiDenied(tool, taint) ==
  /\ Called
  /\ tool \in Known
  /\ GateAnswer(tool, taint).decision = "DENY"
  /\ Record(tool, GateAnswer(tool, taint), taint)

GeminiSimulated(tool, taint) ==
  /\ Called
  /\ tool \in Known
  /\ GateAnswer(tool, taint) = DefaultAllow
  /\ Simulated(tool)
  /\ Record(tool, SimulatedExternal, taint)

(* ABSENT, ASK and the remaining ALLOWs are left to the executor, which    *)
(* asks the policy of the current world.                                   *)
GeminiDelegated(tool, taint) ==
  /\ tool \in Known
  /\ \/ GateAnswer(tool, taint).decision \in {"ABSENT", "ASK"}
     \/ GateAnswer(tool, taint) = DefaultAllow /\ ~Simulated(tool)
  /\ Execute(tool, taint, "INTERACTIVE")

Gemini(tool, taint) ==
  \/ GeminiUnknown(tool, taint)
  \/ GeminiDenied(tool, taint)
  \/ GeminiSimulated(tool, taint)
  \/ GeminiDelegated(tool, taint)

GNext ==
  \/ Next
  \/ \E tool \in Tools, taint \in BOOLEAN : Gemini(tool, taint)

GSpec == Init /\ [][GNext]_vars

-----------------------------------------------------------------------------
(* Until the world is switched the two policy checks on the route are one: *)
(* for every tool that reaches it the gate answers what execute() would,   *)
(* although it is told a side effect where execute() is told "unknown",    *)
(* and whatever has drifted.                                               *)
GateAgreesUnswitched ==
  current = InitialWorld =>
    \A tool \in Known, taint \in BOOLEAN : GateAnswer(tool, taint) = PolicyAnswer(tool, taint)

(* Of an entry the gate wrote: a denial made while its own world was the   *)
(* active one replays, drift aside.  One made after a switch is the word   *)
(* of the initial world under the id of another, and the results only the  *)
(* gate knows, absence from the ontology and SIMULATE, are no decisions of *)
(* a policy.                                                               *)
GateEntryReplays(e) ==
  /\ e.result \in PolicyResults \ {DescriptorDrift}
  /\ e.world = InitialWorld
  /\ e.world = RootWorld => e.tool \notin drifted
  => ReplayMatches(e)

(* The recorded decisions that replay promises to reproduce, for both      *)
(* routes: drift aside, in the world that decided, where the registries of *)
(* record and replay agree on the tool.                                    *)
RoutesReplayFaithfully ==
  \A i \in DOMAIN audit :
    IF audit[i].by = "gate" THEN GateEntryReplays(audit[i]) ELSE EntryReplays(audit[i])

=============================================================================
