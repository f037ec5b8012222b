---------------------------- MODULE ExecutorClaims ----------------------------
(***************************************************************************)
(* What the documentation says of the executor and its code does not keep  *)
(* once worlds are switched or schemas change between the steps of a       *)
(* request.  Each claim has a run of its own whose counterexample is the   *)
(* shortest way to break it.                                               *)
(***************************************************************************)
EXTENDS MCExecutor

(* README.md:77, rule 4 of the decision table: a payload from a tainted    *)
(* channel and a tool with an external side effect are DENY.  After a      *)
(* switch to a world that allows a tool the stored registry does not       *)
(* expose, execute() tells the policy that its side effect is "unknown",   *)
(* and the tainted call is allowed, with or without simulation.            *)
TaintedExternalIsDenied ==
  \A i \in DOMAIN audit :
    audit[i].result.decision = "ALLOW" =>
      ~(audit[i].taint /\ SideEffect[audit[i].tool] = "external")

(* README.md:21: any runtime mutation of a schema is detected and blocked  *)
(* before execution.  execute_approved computes the descriptor hash for    *)
(* the log and compares it with nothing.                                   *)
MutationBlocksExecution == \A i \in DOMAIN runs : ~runs[i].drifted

=============================================================================
