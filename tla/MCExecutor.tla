------------------------------ MODULE MCExecutor ------------------------------
(* A small ontology that has every case the executor distinguishes.  The root *)
(* world exposes a reader, a poster that is not gated and a mailer that needs  *)
(* approval.  The open world asks before "read", does not gate the mailer,     *)
(* lists the poster and disables its capability, allows "exec", which the root *)
(* registry knows without exposing it, and defines "scoped", which the root    *)
(* registry does not know and for which it asks.  The runs take subsets of the *)
(* tools.                                                                      *)
EXTENDS Executor

MCWorlds == {"root", "open"}
AllTools == {"read", "post", "mail", "exec", "scoped"}
ApprovalTools == {"mail", "scoped"}

Listed(w) == IF w = "open" THEN AllTools ELSE {"read", "post", "mail"}
Asked(w)  == IF w = "open" THEN {"read", "scoped"} ELSE {"mail"}

MCWorldTables ==
  [w \in Worlds |->
     [allowlist        |-> Listed(w) \cap Tools,
      capabilities     |-> (IF w = "open" THEN AllTools \ {"post"} ELSE Listed(w)) \cap Tools,
      approvalRequired |-> Asked(w) \cap Tools]]

MCCatalog ==
  [w \in Worlds |-> IF w = "open" THEN Tools ELSE Tools \ {"scoped"}]

MCSideEffect ==
  [t \in Tools |-> IF t = "read" THEN "read" ELSE "external"]
=============================================================================
