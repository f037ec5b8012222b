------------------------------ MODULE ScopedTools ------------------------------
(***************************************************************************)
(* Parameterised capabilities: a manifest's capability_definitions make    *)
(* new tools out of the mock ones, with some arguments fixed and others    *)
(* left to the caller (capability_dsl.py, registry.py).  The definitions   *)
(* of a world are parsed whenever it is compiled, at the start and at      *)
(* every switch, but only those of the world the process was started with  *)
(* are ever made into tools: the registry outlives switches.               *)
(*                                                                         *)
(* Executor models the rest of a call; here only what its payload becomes. *)
(***************************************************************************)
EXTENDS Policy

CONSTANTS
  ScopedWorlds,   \* worlds with a manifest on disk
  StartWorld,     \* the one the process is started with
  BaseTools,      \* the mock tools
  BaseProps,      \* mock tool -> properties of its schema
  BaseEffect,     \* mock tool -> its side effect
  Args,           \* argument names
  Values,         \* argument values, as a manifest or a payload may hold them
  Str,            \* value -> its string: what str() makes of it
  Sections,       \* world -> the capability_definitions its manifest may have
  Allowlists      \* world -> its allowed_tools, all of them enabled capabilities

VARIABLES
  sections,       \* world -> its capability_definitions
  phase,          \* "starting", "up" or "failed"
  toolNames,      \* the stored registry: name -> tool
  activeWorld,    \* the world that decides
  mutated,        \* names whose tool no longer has its pinned schema
  entered         \* the last call of a mock handler, or NotEntered

scopedVars == <<sections, phase, toolNames, activeWorld, mutated, entered>>

-----------------------------------------------------------------------------
(* A raw argument: the kinds its valueFrom names, whether the kind's own   *)
(* field is there, and the value in it.  An argument that is no mapping,   *)
(* or whose valueFrom is missing or none, is one without kinds: all of     *)
(* them are ValueErrors.                                                   *)
SourceKinds == {"literal", "actor_input", "context_ref", "unknown"}
RawArgs == [kinds : SUBSET SourceKinds, field : BOOLEAN, value : Values]
NoBase == "none"
Malformed == [source |-> "malformed"]

(* _parse_arg and _parse_value_source: a literal is kept as a string, and  *)
(* the name in a context reference leads nowhere yet.                      *)
ParseArg(raw) ==
  IF raw.kinds = {"literal"} /\ raw.field
  THEN [source |-> "literal", value |-> Str[raw.value]]
  ELSE IF raw.kinds = {"actor_input"} \/ (raw.kinds = {"context_ref"} /\ raw.field)
  THEN [source |-> CHOOSE k \in raw.kinds : TRUE]
  ELSE Malformed

SourceOf(def, a) == ParseArg(def.args[a]).source

(* parse_capability_definitions raises on the first malformed definition.  *)
Parses(section) ==
  \A n \in DOMAIN section :
    /\ section[n].base # NoBase
    /\ \A a \in DOMAIN section[n].args : SourceOf(section[n], a) # "malformed"

(* _build_scoped_tool raises on a base that is no mock tool and on a       *)
(* context reference; only with_mock_tools gets here, a switch does not.   *)
Buildable(section) ==
  \A n \in DOMAIN section :
    /\ section[n].base \in BaseTools
    /\ \A a \in DOMAIN section[n].args : SourceOf(section[n], a) # "context_ref"

ArgsFrom(def, source) == {a \in DOMAIN def.args : SourceOf(def, a) = source}

BaseTool(n) ==
  [base |-> n, effect |-> BaseEffect[n], props |-> BaseProps[n],
   passes |-> Args, literals |-> << >>]

\* Deliberate error, for the mutation runs: every argument passes.
ScopedToolPassingAll(def) ==
  [base |-> def.base, effect |-> BaseEffect[def.base], props |-> ArgsFrom(def, "actor_input"),
   passes |-> Args,
   literals |-> [a \in ArgsFrom(def, "literal") |-> ParseArg(def.args[a]).value]]

ScopedTool(def) ==
  [base |-> def.base, effect |-> BaseEffect[def.base], props |-> ArgsFrom(def, "actor_input"),
   passes |-> ArgsFrom(def, "actor_input"),
   literals |-> [a \in ArgsFrom(def, "literal") |-> ParseArg(def.args[a]).value]]

(* A definition with the name of a mock tool takes its place, and may use  *)
(* it as its base.                                                         *)
Registry(section) ==
  [n \in BaseTools \cup DOMAIN section |->
     IF n \in DOMAIN section THEN ScopedTool(section[n]) ELSE BaseTool(n)]

(* scoped_handler: declared arguments of the payload, then the literals.   *)
HandlerArgs(tool, payload) ==
  [a \in DOMAIN tool.literals \cup (DOMAIN payload \cap tool.passes) |->
     IF a \in DOMAIN tool.literals THEN tool.literals[a] ELSE payload[a]]

Payloads == UNION {[as -> Values] : as \in SUBSET Args}

ASSUME StartAssumption == StartWorld \in ScopedWorlds
ASSUME StrAssumption == Str \in [Values -> Values] /\ \A v \in Values : Str[Str[v]] = Str[v]
ASSUME SectionsAssumption ==
  \A w \in ScopedWorlds :
    /\ Sections[w] # {}
    /\ \A section \in Sections[w] : \A n \in DOMAIN section :
         section[n].args \in UNION {[as -> RawArgs] : as \in SUBSET Args}
NotEntered == [name |-> "none"]

ScopedTypeOK ==
  /\ \A w \in ScopedWorlds : sections[w] \in Sections[w]
  /\ phase \in {"starting", "up", "failed"}
  /\ phase = "up" => BaseTools \subseteq DOMAIN toolNames
  /\ activeWorld \in ScopedWorlds
  /\ mutated \subseteq DOMAIN toolNames
  /\ entered # NotEntered =>
       entered.name \in DOMAIN toolNames /\ entered.args \in Payloads

-----------------------------------------------------------------------------
ScopedInit ==
  /\ sections \in {s \in [ScopedWorlds -> UNION {Sections[w] : w \in ScopedWorlds}] :
                     \A w \in ScopedWorlds : s[w] \in Sections[w]}
  /\ phase = "starting"
  /\ toolNames = << >>
  /\ activeWorld = StartWorld
  /\ mutated = {}
  /\ entered = NotEntered

(* build_executor: compile, then with_mock_tools.                          *)
StartUp ==
  /\ phase = "starting"
  /\ Parses(sections[StartWorld]) /\ Buildable(sections[StartWorld])
  /\ phase' = "up"
  /\ toolNames' = Registry(sections[StartWorld])
  /\ UNCHANGED <<sections, activeWorld, mutated, entered>>

StartFails ==
  /\ phase = "starting"
  /\ ~(Parses(sections[StartWorld]) /\ Buildable(sections[StartWorld]))
  /\ phase' = "failed"
  /\ UNCHANGED <<sections, toolNames, activeWorld, mutated, entered>>

(* WorldController.switch: one whose definitions do not parse raises.      *)
SwitchTo(w) ==
  /\ phase = "up"
  /\ Parses(sections[w])
  /\ activeWorld' = w
  /\ UNCHANGED <<sections, phase, toolNames, mutated, entered>>

(* Two tools show the same property object: _build_scoped_tool takes it    *)
(* from the base's schema, and a default of its own where there is none.   *)
SharesProperty(n, m, a) ==
  /\ toolNames[n].base = toolNames[m].base
  /\ a \in toolNames[n].props \cap toolNames[m].props \cap BaseProps[toolNames[n].base]

(* A schema is changed at run time.  A property that is added or removed   *)
(* concerns the one tool, since every tool has a dict of properties of its *)
(* own.                                                                    *)
MutateSchemaOf(n) ==
  /\ phase = "up"
  /\ n \in DOMAIN toolNames
  /\ mutated' = mutated \cup {n}
  /\ UNCHANGED <<sections, phase, toolNames, activeWorld, entered>>

(* A change inside a property reaches every tool that shares it, and none  *)
(* of them has its pinned hash afterwards.                                 *)
MutateProperty(n, a) ==
  /\ phase = "up"
  /\ n \in DOMAIN toolNames
  /\ a \in toolNames[n].props
  /\ mutated' = mutated \cup {n} \cup {m \in DOMAIN toolNames : SharesProperty(n, m, a)}
  /\ UNCHANGED <<sections, phase, toolNames, activeWorld, entered>>

(* Executor.execute in the active world on the stored registry.            *)
Decision(n, taint) ==
  LET exposed == n \in DOMAIN toolNames \cap Allowlists[StartWorld]
      tables == [allowlist |-> Allowlists[activeWorld],
                 capabilities |-> Allowlists[activeWorld], approvalRequired |-> {}]
  IN  Decide(tables, n, n, taint, IF exposed THEN toolNames[n].effect ELSE "unknown",
             exposed => n \notin mutated)

CallTool(n, payload, taint) ==
  /\ phase = "up"
  /\ Decision(n, taint) = DefaultAllow
  /\ n \in DOMAIN toolNames
  /\ entered' = [name |-> n, base |-> toolNames[n].base, payload |-> payload, taint |-> taint,
                 args |-> HandlerArgs(toolNames[n], payload)]
  /\ UNCHANGED <<sections, phase, toolNames, activeWorld, mutated>>

ScopedNext ==
  \/ StartUp
  \/ StartFails
  \/ \E w \in ScopedWorlds : SwitchTo(w)
  \/ \E n \in DOMAIN toolNames : MutateSchemaOf(n)
  \/ \E n \in DOMAIN toolNames, a \in Args : MutateProperty(n, a)
  \/ \E n \in DOMAIN toolNames, payload \in Payloads, taint \in BOOLEAN :
       CallTool(n, payload, taint)

ScopedSpec == ScopedInit /\ [][ScopedNext]_scopedVars

-----------------------------------------------------------------------------
(* Whatever a caller sends, through a name that the start world defines    *)
(* the base handler gets the literals of that definition, as strings, the  *)
(* declared arguments as sent, and nothing else: also when the name is that*)
(* of a mock tool, which is then confined, and also in every world that is *)
(* switched to later and gives the name other literals.                    *)
CallsConfined ==
  entered # NotEntered /\ entered.name \in DOMAIN sections[StartWorld] =>
    LET def == sections[StartWorld][entered.name]
    IN  /\ entered.base = def.base
        /\ DOMAIN entered.args =
             ArgsFrom(def, "literal") \cup (DOMAIN entered.payload \cap ArgsFrom(def, "actor_input"))
        /\ \A a \in DOMAIN entered.args :
             entered.args[a] = IF SourceOf(def, a) = "literal" THEN Str[def.args[a].value]
                               ELSE entered.payload[a]

(* The schema shown for a tool names all a caller can set through it: what *)
(* a call changes in what the base handler gets is an argument listed      *)
(* there, or the tool is a mock tool itself.                               *)
SchemaTellsWhatPasses ==
  \A n \in DOMAIN toolNames \cap DOMAIN sections[StartWorld] :
    \A p, q \in Payloads :
      HandlerArgs(toolNames[n], p) # HandlerArgs(toolNames[n], q) <=>
        \E a \in toolNames[n].props :
          \/ a \in (DOMAIN p \ DOMAIN q) \cup (DOMAIN q \ DOMAIN p)
          \/ a \in DOMAIN p \cap DOMAIN q /\ p[a] # q[a]

(* A tainted request enters no external mock handler through any name that *)
(* was exposed at the start, its own or one defined over it.               *)
TaintStopsAtBase ==
  entered # NotEntered /\ entered.taint /\ entered.name \in Allowlists[StartWorld] =>
    BaseEffect[entered.base] # "external"

(* A scoped tool is no way around its definition: not by arguments that its*)
(* schema does not show, not by a switch, not for tainted requests.        *)
ScopedToolsConfine == CallsConfined /\ SchemaTellsWhatPasses /\ TaintStopsAtBase
=============================================================================
