------------------------------ MODULE MCServing -------------------------------
(***************************************************************************)
(* Four programs that share no state with one another and must keep moving *)
(* to be of use, checked in one run: a behaviour is one of theirs, the     *)
(* others being parked where they are over (the controller where nothing   *)
(* has called it yet).  The states of the run are therefore the sum of the *)
(* parts' and not the product.                                             *)
(***************************************************************************)
EXTENDS AuditStream, WorldController, StdioServer, Mcpzero

VARIABLE program

streamParked ==
  /\ lines = 0 /\ place = "closed" /\ start = 0 /\ offset = 0 /\ size = 0 /\ pos = 0
  /\ sent = << >>

stdioParked ==
  /\ input = << >> /\ eof = TRUE /\ read = 0 /\ handling = FALSE /\ server = "ended"
  /\ replies = << >> /\ effects = {}

mcParked ==
  /\ files = << >> /\ mcPhase = "done" /\ at = 1 /\ poisoned = {} /\ baselineRun = << >>
  /\ protectedRun = << >> /\ verdicts = << >> /\ trace = << >> /\ exitCode = 0

ServingInit ==
  /\ program \in {"stream", "controller", "stdio", "mcpzero"}
  /\ IF program = "stream" THEN StreamInit ELSE streamParked
  /\ ControllerInit
  /\ IF program = "stdio" THEN StdioInit ELSE stdioParked
  /\ IF program = "mcpzero" THEN McInit ELSE mcParked

servingVars == <<program, streamVars, controllerVars, stdioVars, mcVars>>

ServingNext ==
  \/ program = "stream" /\ StreamNext /\ UNCHANGED <<program, controllerVars, stdioVars, mcVars>>
  \/ program = "controller" /\ ControllerNext /\ UNCHANGED <<program, streamVars, stdioVars, mcVars>>
  \/ program = "stdio" /\ StdioNext /\ UNCHANGED <<program, streamVars, controllerVars, mcVars>>
  \/ program = "mcpzero" /\ McNext /\ UNCHANGED <<program, streamVars, controllerVars, stdioVars>>

ServingFairness == StreamFairness /\ ControllerFairness /\ StdioFairness /\ McFairness

ServingSpec == ServingInit /\ [][ServingNext]_servingVars /\ ServingFairness

(* The variables of all four keep their types.                             *)
ServingTypeOK == StreamTypeOK /\ ControllerTypeOK /\ StdioTypeOK /\ McTypeOK

(* Each program gets on with what it was given: lines are delivered, switches*)
(* and calls come through, every line of input is read, the benchmark ends.*)
AllKeepMoving ==
  EveryLineDelivered /\ SwitchReturns /\ CallResolves /\ EveryLineRead /\ BenchmarkEnds

-----------------------------------------------------------------------------
(* Three worlds whose allowlists overlap, and up to three switches: one can *)
(* pass between the two reads of a call, and a second one can be compiled   *)
(* before the first is in.                                                  *)
MCTools == {"read", "mail", "exec"}
MCWorlds == {"root", "open", "locked"}
MCAllowlist ==
  [w \in MCWorlds |-> CASE w = "root"   -> {"read", "mail"}
                        [] w = "open"   -> {"read", "exec"}
                        [] w = "locked" -> {}]

(* A scenario of each kind, and files that do not parse.                    *)
MCAttackTools == {"read_file", "send_email", "dangerous_exec", "ghost"}
MCEffect == [t \in MCAttackTools |-> IF t \in {"send_email", "dangerous_exec"} THEN "external" ELSE "read"]
MCTables ==
  [allowlist |-> {"read_file", "send_email", "ghost"},
   capabilities |-> {"read_file", "send_email", "ghost"}, approvalRequired |-> {}]
File(type, channel, steps, poison) ==
  [complete |-> TRUE, type |-> type, channel |-> channel, steps |-> steps, poison |-> poison,
   expected |-> {"ALLOW"}]
MCAttackFiles ==
  {File("email_injection", "email", <<"read_file", "send_email">>, NoPoison),
   File("mcp_poison", "cli", <<"read_file">>, "read_file"),
   File("mcp_poison", "cli", <<"dangerous_exec">>, "dangerous_exec"),
   File("tool_chain", "cli", <<"read_file", "send_email">>, NoPoison),
   File("tool_chain", "cli", <<"ghost">>, NoPoison),
   File("tool_chain", "web", << >>, NoPoison),
   File("unknown", "web", <<"read_file">>, NoPoison),
   [File("tool_chain", "web", <<"read_file">>, NoPoison) EXCEPT !.expected = {"ASK"}]}
=============================================================================
