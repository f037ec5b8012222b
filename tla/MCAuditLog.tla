------------------------------ MODULE MCAuditLog ------------------------------
(* The root world asks before "mail" and has the scoped tool "report"; the open *)
(* world does not ask and allows "exec", which the root world does not.         *)
EXTENDS AuditLog

MCTools == {"read", "mail", "report"}
MCWorlds == {"root", "open"}
MCMock == {"read", "mail"}
MCScoped == [w \in MCWorlds |-> IF w = "root" THEN {"report"} ELSE {}]
MCSideEffect == [t \in MCTools |-> IF t = "read" THEN "read" ELSE "external"]

MCWorldTables ==
  [w \in MCWorlds |->
     IF w = "root"
     THEN [allowlist |-> MCTools, capabilities |-> {"mail", "report"},
           approvalRequired |-> {"mail"}]
     ELSE [allowlist |-> {"read", "mail"}, capabilities |-> {"read", "mail"},
           approvalRequired |-> {}]]

MCScenarios ==
  {[tool |-> "mail", taint |-> TRUE, poisoned |-> FALSE],
   [tool |-> "mail", taint |-> FALSE, poisoned |-> TRUE]}
=============================================================================
