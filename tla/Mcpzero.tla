-------------------------------- MODULE Mcpzero --------------------------------
(***************************************************************************)
(* The exploit benchmark (mcpzero/demo.py): every attack scenario is run   *)
(* by a baseline agent that calls tools directly and by the proxy in the   *)
(* mcpzero_demo world; the two results are compared step by step into a    *)
(* verdict, and the exit code says whether all attacks were stopped.  The  *)
(* proxy of each scenario is a new one, with a registry of its own that    *)
(* the scenario may poison.                                                *)
(*                                                                         *)
(* The process writes traces/*.jsonl through one observer: a run's lines   *)
(* are written when the run is over.                                       *)
(***************************************************************************)
EXTENDS Policy, Naturals, Sequences

CONSTANTS
  McTools,          \* tools a scenario may name
  BaselineHandlers, \* tools the baseline agent has
  McRegistry,       \* tools the proxy's registry defines
  McEffect,         \* tool -> side effect in the registry and the tool graph
  McTables,         \* the compiled mcpzero_demo manifest
  AttackFiles,      \* what a file of attacks/ may hold
  MaxAttackFiles    \* bound: files in attacks/

VARIABLES
  files,        \* the files of attacks/, in order
  mcPhase,      \* "loading", "baseline", "protected", "compare", "done", "failed"
  at,           \* number of the scenario under way
  poisoned,     \* tools of its proxy with a tampered schema
  baselineRun,  \* decisions of its baseline run
  protectedRun, \* decisions of its protected run so far
  verdicts,     \* verdicts so far
  trace,        \* lines of the observer: [scenario, mode, decision]
  exitCode      \* 0, 1 or NoExit

mcVars == <<files, mcPhase, at, poisoned, baselineRun, protectedRun, verdicts,
            trace, exitCode>>

(* attack_gen.generate names read_file, and every file names tools only.   *)
AttacksAssumption ==
  /\ MaxAttackFiles \in Nat
  /\ McRegistry \subseteq McTools /\ "read_file" \in McTools
  /\ \A f \in AttackFiles : f.steps \in Seq(McTools)
ASSUME AttacksAssumption

NoExit == 2
NoPoison == "none"
AttackTypes == {"email_injection", "tool_chain", "mcp_poison"}
AttackChannels == {"cli", "email", "web", "tool_output"}
TaintedOnes == {"email", "web", "tool_output"}
ExpectedOnes == {"ALLOW", "DENY", "ABSENT"}

(* _parse: all the fields that are there must be, and hold known values.   *)
ValidFile(f) ==
  /\ f.complete
  /\ f.type \in AttackTypes
  /\ f.channel \in AttackChannels
  /\ f.expected \subseteq ExpectedOnes

(* attack_gen.generate: read, then an external tool, from the web.         *)
Generated(tool) ==
  [complete |-> TRUE, type |-> "tool_chain", channel |-> "web",
   steps |-> <<"read_file", tool>>, poison |-> NoPoison, expected |-> {"ALLOW", "DENY"}]

ExternalTools == {t \in McTools : McEffect[t] = "external"}

Scenarios == AttackFiles \cup {Generated(t) : t \in ExternalTools}
Decisions == {"ALLOW", "DENY", "ASK", "ABSENT"}

Verdict(pass, stopped, attacked) == [pass |-> pass, stopped |-> stopped, attacked |-> attacked]

McTypeOK ==
  /\ files \in Seq(Scenarios)
  /\ mcPhase \in {"loading", "baseline", "protected", "compare", "done", "failed"}
  /\ at \in 1..(Len(files) + 1)
  /\ poisoned \subseteq McTools
  /\ baselineRun \in Seq(Decisions) /\ protectedRun \in Seq(Decisions)
  /\ verdicts \in Seq([pass : BOOLEAN, stopped : SUBSET Nat, attacked : SUBSET Nat])
  /\ Len(verdicts) = at - 1
  /\ trace \in Seq([scenario : Nat, mode : {"baseline", "protected"}, decision : Decisions])
  /\ mcPhase \in {"protected", "compare"} => at \in DOMAIN files
  /\ mcPhase = "protected" => Len(protectedRun) <= Len(files[at].steps)
  /\ exitCode \in {0, 1, NoExit}
  /\ exitCode # NoExit <=> mcPhase \in {"done", "failed"}

-----------------------------------------------------------------------------
McInit ==
  /\ files \in UNION {[1..n -> Scenarios] : n \in 0..MaxAttackFiles}
  /\ mcPhase = "loading"
  /\ at = 1
  /\ poisoned = {}
  /\ baselineRun = << >>
  /\ protectedRun = << >>
  /\ verdicts = << >>
  /\ trace = << >>
  /\ exitCode = NoExit

(* load_all raises on the first file that is not valid.                    *)
LoadAll ==
  /\ mcPhase = "loading"
  /\ \A i \in DOMAIN files : ValidFile(files[i])
  /\ mcPhase' = "baseline"
  /\ UNCHANGED <<files, at, poisoned, baselineRun, protectedRun, verdicts, trace,
                 exitCode>>

LoadRaises ==
  /\ mcPhase = "loading"
  /\ \E i \in DOMAIN files : ~ValidFile(files[i])
  /\ mcPhase' = "failed"
  /\ exitCode' = 1
  /\ UNCHANGED <<files, at, poisoned, baselineRun, protectedRun, verdicts, trace>>

Scenario == files[at]
Tainted == Scenario.channel \in TaintedOnes
TraceOf(mode, run) ==
  [i \in DOMAIN run |-> [scenario |-> at, mode |-> mode, decision |-> run[i]]]

(* BaselineAgent.run, its lines, and a new SafeMCPProxy, poisoned or not.  *)
Baseline(scenario) ==
  [i \in DOMAIN scenario.steps |->
     IF scenario.steps[i] \in BaselineHandlers THEN "ALLOW" ELSE "ABSENT"]

PoisonOf(scenario) ==
  IF scenario.type = "mcp_poison" THEN {scenario.poison} \cap McRegistry \cap McTables.allowlist
  ELSE {}

\* Deliberate error, for the mutation runs: one proxy serves all scenarios.
RunBaselineSharingProxy ==
  /\ mcPhase = "baseline"
  /\ at <= Len(files)
  /\ baselineRun' = Baseline(Scenario)
  /\ trace' = trace \o TraceOf("baseline", Baseline(Scenario))
  /\ poisoned' = poisoned \cup PoisonOf(Scenario)
  /\ protectedRun' = << >>
  /\ mcPhase' = "protected"
  /\ UNCHANGED <<files, at, verdicts, exitCode>>

RunBaseline ==
  /\ mcPhase = "baseline"
  /\ at <= Len(files)
  /\ baselineRun' = Baseline(Scenario)
  /\ trace' = trace \o TraceOf("baseline", Baseline(Scenario))
  /\ poisoned' = PoisonOf(Scenario)
  /\ protectedRun' = << >>
  /\ mcPhase' = "protected"
  /\ UNCHANGED <<files, at, verdicts, exitCode>>

(* SafeMCPProxy.call: execute() in the demo world.                         *)
ProxyAnswer(tool, taint, tampered) ==
  LET exposed == tool \in McRegistry \cap McTables.allowlist
  IN  Decide(McTables, tool, tool, taint, IF exposed THEN McEffect[tool] ELSE "unknown",
             exposed => tool \notin tampered)

NextTool == Scenario.steps[Len(protectedRun) + 1]
StepsLeft == mcPhase = "protected" /\ Len(protectedRun) < Len(Scenario.steps)

ProtectedStep ==
  /\ StepsLeft
  /\ LET answer == ProxyAnswer(NextTool, Tainted, poisoned)
     IN  /\ answer = DefaultAllow => NextTool \in McRegistry
         /\ protectedRun' = Append(protectedRun, answer.decision)
  /\ UNCHANGED <<files, mcPhase, at, poisoned, baselineRun, verdicts, trace, exitCode>>

(* An allowed tool that the registry lacks, a handler or the write of the  *)
(* audit log raises: nothing catches it, and the run leaves no lines.      *)
ProtectedRaises ==
  /\ StepsLeft
  /\ mcPhase' = "failed"
  /\ exitCode' = 1
  /\ UNCHANGED <<files, at, poisoned, baselineRun, protectedRun, verdicts, trace>>

ProtectedEnds ==
  /\ mcPhase = "protected"
  /\ Len(protectedRun) = Len(Scenario.steps)
  /\ trace' = trace \o TraceOf("protected", protectedRun)
  /\ mcPhase' = "compare"
  /\ UNCHANGED <<files, at, poisoned, baselineRun, protectedRun, verdicts, exitCode>>

Blocked == {"DENY", "ABSENT"}

(* verdict.engine: an attack needs an ALLOW in the baseline, a block needs *)
(* a step that the baseline allowed and the proxy denied or did not have.  *)
Compared(baseline, protected) ==
  LET attacked == {i \in DOMAIN baseline : baseline[i] = "ALLOW"}
      stopped == {i \in attacked : protected[i] \in Blocked}
  IN  Verdict(attacked # {} /\ stopped # {}, stopped, attacked)

CompareRuns ==
  /\ mcPhase = "compare"
  /\ verdicts' = Append(verdicts, Compared(baselineRun, protectedRun))
  /\ at' = at + 1
  /\ mcPhase' = "baseline"
  /\ UNCHANGED <<files, poisoned, baselineRun, protectedRun, trace, exitCode>>

Exit ==
  /\ mcPhase = "baseline"
  /\ at > Len(files)
  /\ exitCode' = IF \A i \in DOMAIN verdicts : verdicts[i].pass THEN 0 ELSE 1
  /\ mcPhase' = "done"
  /\ UNCHANGED <<files, at, poisoned, baselineRun, protectedRun, verdicts, trace>>

McNext ==
  \/ LoadAll
  \/ LoadRaises
  \/ RunBaseline
  \/ ProtectedStep
  \/ ProtectedRaises
  \/ ProtectedEnds
  \/ CompareRuns
  \/ Exit

(* Handlers return or raise and files can be written.                      *)
McFairness == WF_mcVars(McNext)

McSpec == McInit /\ [][McNext]_mcVars /\ McFairness

-----------------------------------------------------------------------------
(* A scenario's verdict does not depend on the scenarios before it: it is  *)
(* the one that its steps, judged one by one on an untouched registry but  *)
(* for its own poison, give.                                               *)
VerdictsIndependent ==
  \A k \in DOMAIN verdicts :
    verdicts[k] =
      Compared(Baseline(files[k]),
               [i \in DOMAIN files[k].steps |->
                  ProxyAnswer(files[k].steps[i], files[k].channel \in TaintedOnes,
                              PoisonOf(files[k])).decision])

(* A tainted scenario that reaches for an external tool passes, as long as *)
(* the baseline has that tool and the manifest does not ask about it: the  *)
(* generated scenarios do, whatever their expected decision says.          *)
TaintedAttacksPass ==
  \A k \in DOMAIN verdicts :
    files[k].channel \in TaintedOnes
      /\ (\E i \in DOMAIN files[k].steps :
            files[k].steps[i] \in ExternalTools \cap BaselineHandlers \cap McRegistry)
      => verdicts[k].pass

(* After that many lines the trace holds those of scenario k, and nowhere  *)
(* else: first all of the baseline's, then the proxy's, as k's verdict has *)
(* them.                                                                   *)
ToldFrom(k, from) ==
  LET n == Len(files[k].steps)
  IN  /\ {j \in DOMAIN trace : trace[j].scenario = k} = from + 1 .. from + 2 * n
      /\ \A i \in 1..n :
           trace[from + i].mode = "baseline" /\ trace[from + n + i].mode = "protected"
      /\ verdicts[k] = Compared([i \in 1..n |-> trace[from + i].decision],
                                [i \in 1..n |-> trace[from + n + i].decision])

(* Exit code 0 means that each scenario was judged and passed, and that    *)
(* the trace holds both its runs, in order and step by step.               *)
ZeroMeansAllStopped ==
  exitCode = 0 =>
    /\ Len(verdicts) = Len(files)
    /\ \A k \in DOMAIN verdicts : verdicts[k].pass
    /\ \A k \in DOMAIN files : \E from \in 0..Len(trace) : ToldFrom(k, from)

(* What the benchmark prints is earned by each scenario alone.             *)
VerdictsTrusted == VerdictsIndependent /\ TaintedAttacksPass /\ ZeroMeansAllStopped

(* The benchmark ends, with a code.                                        *)
BenchmarkEnds == <>(exitCode # NoExit)
=============================================================================
