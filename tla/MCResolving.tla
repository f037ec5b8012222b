----------------------------- MODULE MCResolving ------------------------------
(***************************************************************************)
(* Four parts that share no state with one another and settle what a       *)
(* world, a tool, a query or a skill of some name is, checked in one run:  *)
(* a behaviour is one of theirs, the others being parked where nothing is  *)
(* left to do.  The states of the run are therefore the sum of the parts'  *)
(* and not the product.                                                    *)
(***************************************************************************)
EXTENDS EngineSelection, ScopedTools, JiraProxy, SkillRegistry

VARIABLE program

engineParked ==
  /\ launcher = "main" /\ override = NoOverride /\ running = "over" /\ opaOnPath = FALSE
  /\ manifests = [f \in ManifestFiles |-> NoFile]
  /\ executors = << >> /\ recorded = {} /\ judged = NothingJudged /\ edits = 0

scopedParked ==
  /\ sections = [w \in ScopedWorlds |-> CHOOSE s \in Sections[w] : TRUE]
  /\ phase = "failed" /\ toolNames = << >> /\ activeWorld = StartWorld /\ mutated = {}
  /\ entered = NotEntered

jiraParked ==
  /\ policy = [allowed |-> {}, denied |-> {}, simulate |-> FALSE]
  /\ upstream = "closed"
  /\ requests = [r \in JiraRequests |->
                   [stage |-> "unsent", answer |-> NoAnswerYet, shown |-> {}]]
  /\ decisionLog = {} /\ received = {}

registryParked ==
  /\ disk = [d \in Directories |-> [f \in Files |-> Missing]]
  /\ sources = << >> /\ skills = << >> /\ importing = NotImporting /\ untouched = {}
  /\ changes = MaxChanges /\ imports = MaxImports

ResolvingInit ==
  /\ program \in {"engine", "scoped", "jira", "registry"}
  /\ IF program = "engine" THEN EngineInit ELSE engineParked
  /\ IF program = "scoped" THEN ScopedInit ELSE scopedParked
  /\ IF program = "jira" THEN JiraInit ELSE jiraParked
  /\ IF program = "registry" THEN RegistryInit ELSE registryParked

resolvingVars == <<program, engineVars, scopedVars, jiraVars, registryVars>>

ResolvingNext ==
  \/ program = "engine" /\ EngineNext /\ UNCHANGED <<program, scopedVars, jiraVars, registryVars>>
  \/ program = "scoped" /\ ScopedNext /\ UNCHANGED <<program, engineVars, jiraVars, registryVars>>
  \/ program = "jira" /\ JiraNext /\ UNCHANGED <<program, engineVars, scopedVars, registryVars>>
  \/ program = "registry" /\ RegistryNext /\ UNCHANGED <<program, engineVars, scopedVars, jiraVars>>

ResolvingSpec == ResolvingInit /\ [][ResolvingNext]_resolvingVars

(* The variables of all four keep their types.                             *)
ResolvingTypeOK == EngineTypeOK /\ ScopedTypeOK /\ JiraTypeOK /\ RegistryTypeOK

-----------------------------------------------------------------------------
(* One agent that is mapped and one that is not.                           *)
MCAgentMap == [agent \in {"mapped"} |-> "open"]

(* Definitions of every form over two arguments, under a name of their own  *)
(* or a mock tool's, with a literal that is a number and becomes a numeral; *)
(* in the world that is switched to, another argument is a literal.         *)
MCStr == [v \in Values |-> IF v = "number" THEN "numeral" ELSE v]
Raw(kinds, field, value) == [kinds |-> kinds, field |-> field, value |-> value]
MCArgForms ==
  {Raw({"literal"}, TRUE, "number"), Raw({"literal"}, FALSE, "number"),
   Raw({"actor_input"}, FALSE, "number"), Raw({"context_ref"}, TRUE, "number"),
   Raw({}, FALSE, "number"), Raw({"literal", "actor_input"}, TRUE, "number")}
MCDefs == UNION {[base : {"mail", "nosuch"}, args : [as -> MCArgForms]] : as \in SUBSET Args}
MCOtherDefs ==
  {[base |-> "mail", args |-> [a \in {"cc"} |-> Raw({"literal"}, TRUE, "numeral")]],
   [base |-> "mail", args |-> [a \in {"cc"} |-> Raw({"unknown"}, TRUE, "numeral")]],
   [base |-> "nosuch", args |-> << >>]}
MCSections ==
  [w \in ScopedWorlds |->
     UNION {[{n} -> IF w = StartWorld THEN MCDefs ELSE MCOtherDefs] : n \in {"self", "mail"}}]
MCAllowlists == [w \in ScopedWorlds |-> IF w = StartWorld THEN {"self", "read"} ELSE {"self", "mail"}]
MCBaseProps == [b \in BaseTools |-> {"to"}]
MCBaseEffect == [b \in BaseTools |-> IF b = "mail" THEN "external" ELSE "read"]

(* Two files of one stem, one that is no skill, one with ":" in its name.   *)
MCStemOf == [f \in {"a.json", "a.yaml", "b.txt", "x:a.py"} |->
  CASE f = "b.txt" -> <<"b">> [] f = "x:a.py" -> <<"x", "a">> [] OTHER -> <<"a">>]
MCSources == {<<"s">>, <<"s", "x">>}
MCRegistrable == {[type |-> "local", path |-> "d"], [type |-> "git", path |-> "none"]}
MCFileOrder == <<"a.json", "a.yaml", "b.txt", "x:a.py">>

=============================================================================
