--------------------------- MODULE MCSkillExecution ---------------------------
(* One capability with every entry that compiles differently and a second, *)
(* approved independently, that is there for the approvals to tell apart.  *)
EXTENDS SkillExecution

MCNames == {"run_query", "read_dataset"}
MCEffects == {"none", "read", "bounded_compute", "deployment"}
MCPayloads == {{}, {"bytes_billed"}, {"unorderable"}}

Dataset == [skill |-> TRUE, declared |-> TRUE, allowed |-> "true", sideEffect |-> "absent",
            requiresApproval |-> TRUE, provenanceRequired |-> FALSE, constraints |-> {}]

Queries ==
  [skill : {TRUE}, declared : {TRUE}, allowed : {"conditional"},
   sideEffect : {"absent", "read", "bounded_compute", "deployment"},
   requiresApproval : BOOLEAN, provenanceRequired : BOOLEAN,
   constraints : {{"bytes_billed"}}]

(* No source_skill, an undeclared source, no "allowed".                    *)
Unusual ==
  {[Dataset EXCEPT !.skill = FALSE], [Dataset EXCEPT !.declared = FALSE],
   [Dataset EXCEPT !.allowed = "absent"]}

MCManifests ==
  {[n \in MCNames |-> IF n = "run_query" THEN q ELSE Dataset] : q \in Queries \cup Unusual}
=============================================================================
