-------------------------------- MODULE AuditLog --------------------------------
(***************************************************************************)
(* audit.jsonl and who writes and reads it.  The API process and a stdio   *)
(* MCP server (mcp_server.py) append to the one file; the API also writes  *)
(* a WORLD_SWITCH line after each switch, runs scenarios and comparisons   *)
(* on executors of their own, seeds an empty file, and reads the file back *)
(* through the TraceStore for its trace, replay, scenario and bundle       *)
(* endpoints.  Handlers of the API never await, so they exclude each other *)
(* but not the other process.                                              *)
(*                                                                         *)
(* An append is one write of a line and its newline.  It may fail and      *)
(* write nothing, or write a part of it (a full disk, a crash): a part of  *)
(* the line, which cannot be parsed, or the line without its newline,      *)
(* which can be, until the next append continues it: what one line then    *)
(* holds of both is no trace.                                              *)
(*                                                                         *)
(* Executor models how a decision comes about in full; here a call is what *)
(* the policy answers for it, and its line.  Lines of approvals are left   *)
(* to Executor.                                                            *)
(***************************************************************************)
EXTENDS Policy, Naturals, Sequences

CONSTANTS
  Tools,        \* names a caller may use
  Worlds,       \* ids with a manifest on disk
  RootWorld,    \* the API's initial world, of world_manifest.yaml
  StdioWorld,   \* --world of the stdio server
  WorldTables,  \* world -> its compiled manifest
  MockTools,    \* tools every registry defines
  ScopedTools,  \* world -> tools its capability definitions add
  SideEffect,   \* tool -> side effect of its definition
  Scenarios,    \* [tool, taint, poisoned]
  SeedLength,   \* lines of seeds/demo.jsonl
  MaxLines,     \* bound: lines
  MaxSwitches,  \* bound: switches and restarts
  MaxTears      \* bound: appends that write a part of their line

ASSUME LogWorldsAssumption ==
  /\ Tools # {}
  /\ {RootWorld, StdioWorld} \subseteq Worlds
  /\ WorldTables \in [Worlds -> Tables(Tools, Tools)]
  /\ ScopedTools \in [Worlds -> SUBSET Tools]
  /\ MockTools \subseteq Tools
  /\ SideEffect \in [Tools -> SideEffects \ {"unknown"}]
ASSUME ScenariosAssumption == Scenarios \subseteq [tool : Tools, taint : BOOLEAN, poisoned : BOOLEAN]
ASSUME LogBoundsAssumption ==
  MaxLines \in Nat /\ MaxSwitches \in Nat /\ MaxTears \in Nat /\ SeedLength \in Nat \ {0}

Writers == {"api", "stdio", "own", "seed"}

VARIABLES
  file,         \* the lines of audit.jsonl
  torn,         \* the last line has no newline
  active,       \* the API's active world
  busy,         \* what the API's current handler still has to do
  reported,     \* what the last scenario run answered
  switches,     \* history: worlds the API was in, by switch or by restart
  lost,         \* history: those of them that no line tells of
  complete,     \* history: lines that were written to their end
  tears         \* history: lines that were not

vars == <<file, torn, active, busy, reported, switches, lost, complete, tears>>

-----------------------------------------------------------------------------
(* A line.  "by" and "epoch" are history: who wrote it and, for the API,   *)
(* the position of its world in switches.  Lines of a process that has one *)
(* world only have epoch 0.                                                *)
NoResult == Result("none", "none")
NoTool == "none"

DecisionLine(by, tool, taint, result, world, epoch) ==
  [kind |-> "decision", by |-> by, tool |-> tool, taint |-> taint, result |-> result,
   world |-> world, epoch |-> epoch]

SwitchLine(world, epoch) ==
  [kind |-> "switch", by |-> "api", tool |-> NoTool, taint |-> FALSE, result |-> NoResult,
   world |-> world, epoch |-> epoch]

Garbage ==
  [kind |-> "garbage", by |-> "api", tool |-> NoTool, taint |-> FALSE, result |-> NoResult,
   world |-> RootWorld, epoch |-> 0]

Lines ==
  [kind : {"decision", "switch", "garbage"}, by : Writers, tool : Tools \cup {NoTool},
   taint : BOOLEAN, result : PolicyResults \cup {NoResult}, world : Worlds, epoch : Nat]

Idle == [doing |-> "nothing"]
NotReported == [own |-> 0, id |-> 0]

TypeOK ==
  /\ file \in Seq(Lines)
  /\ torn \in BOOLEAN
  /\ active \in Worlds
  /\ busy.doing \in {"nothing", "seeding", "switching", "scenario", "comparing"}
  /\ reported \in [own : Nat, id : Nat]
  /\ switches \in Seq(Worlds)
  /\ lost \subseteq 1..Len(switches)
  /\ complete \in Nat
  /\ tears \in 0..MaxTears

-----------------------------------------------------------------------------
(* open("a") and write.                                                    *)

\* Deliberate error, for the mutation runs: the file is opened with "w".
WriteTruncating(line) ==
  /\ Len(file) < MaxLines
  /\ file' = <<line>>
  /\ torn' = FALSE
  /\ complete' = complete + 1
  /\ UNCHANGED tears

Write(line) ==
  /\ Len(file) < MaxLines
  /\ file' = IF torn THEN [file EXCEPT ![Len(file)] = Garbage] ELSE Append(file, line)
  /\ torn' = FALSE
  /\ complete' = complete + 1
  /\ UNCHANGED tears

(* Nothing or only a part reaches the file, and the writer gets an         *)
(* OSError; the part may lack no more than the newline.                    *)
WriteFails(line) ==
  \/ UNCHANGED <<file, torn, complete, tears>>
  \/ /\ Len(file) < MaxLines
     /\ tears < MaxTears
     /\ \E part \in {line, Garbage} :
          file' = IF torn THEN [file EXCEPT ![Len(file)] = Garbage] ELSE Append(file, part)
     /\ torn' = TRUE
     /\ tears' = tears + 1
     /\ UNCHANGED complete

-----------------------------------------------------------------------------
(* What the policy answers: tables of one world, tools of the registry of  *)
(* another (the same, but for the API after a switch).                     *)
Catalog(world) == MockTools \cup ScopedTools[world]

AnswerWith(tables, exposed, tool, taint, mutated) ==
  Decide(tables, tool, tool, taint,
         IF tool \in exposed THEN SideEffect[tool] ELSE "unknown",
         tool \in exposed => tool \notin mutated)

Answer(world, registryWorld, tool, taint, mutated) ==
  AnswerWith(WorldTables[world],
             Catalog(registryWorld) \cap WorldTables[registryWorld].allowlist,
             tool, taint, mutated)

(* An ALLOWed tool that the registry does not define raises: no line.      *)
Logs(result, registryWorld, tool) == result = DefaultAllow => tool \in Catalog(registryWorld)

ApiFree == busy = Idle

(* Any decision of the API's executor.  When its append fails there is a   *)
(* 500.                                                                    *)
ApiDecides(tool, taint) ==
  /\ ApiFree
  /\ LET result == Answer(active, RootWorld, tool, taint, {})
         line == DecisionLine("api", tool, taint, result, active, Len(switches))
     IN  Logs(result, RootWorld, tool) /\ (Write(line) \/ WriteFails(line))
  /\ UNCHANGED <<active, busy, reported, switches, lost>>

(* run_stdio_server, tools/call: always from the channel "cli", hence      *)
(* clean, and always in the world the server was started with.  A failing  *)
(* append ends the loop.                                                   *)
StdioDecides(tool) ==
  /\ LET result == Answer(StdioWorld, StdioWorld, tool, FALSE, {})
         line == DecisionLine("stdio", tool, FALSE, result, StdioWorld, 0)
     IN  Logs(result, StdioWorld, tool) /\ (Write(line) \/ WriteFails(line))
  /\ UNCHANGED <<active, busy, reported, switches, lost>>

-----------------------------------------------------------------------------
(* POST /world/switch: the switch is installed, then its line is written.  *)
\* Deliberate error, for the mutation runs: the handler lets others run in between.
InstallAndYield(world) ==
  /\ ApiFree
  /\ Len(switches) < MaxSwitches
  /\ active' = world
  /\ switches' = Append(switches, world)
  /\ UNCHANGED <<file, torn, busy, reported, lost, complete, tears>>

Install(world) ==
  /\ ApiFree
  /\ Len(switches) < MaxSwitches
  /\ active' = world
  /\ switches' = Append(switches, world)
  /\ busy' = [doing |-> "switching"]
  /\ UNCHANGED <<file, torn, reported, lost, complete, tears>>

TellSwitch ==
  /\ busy.doing = "switching"
  /\ Write(SwitchLine(active, Len(switches)))
  /\ busy' = Idle
  /\ UNCHANGED <<active, reported, switches, lost>>

(* The append fails: a 500, and the switch stays.                          *)
SwitchUntold ==
  /\ busy.doing = "switching"
  /\ WriteFails(SwitchLine(active, Len(switches)))
  /\ lost' = lost \cup {Len(switches)}
  /\ busy' = Idle
  /\ UNCHANGED <<active, reported, switches>>

-----------------------------------------------------------------------------
(* POST /scenarios/{name}/run: a new executor of the root world, whose     *)
(* registry the scenario's setup may have poisoned; afterwards the id of   *)
(* the last trace in the file is reported, unless the append failed.       *)
RunScenario(s) ==
  /\ ApiFree
  /\ LET result == Answer(RootWorld, RootWorld, s.tool, s.taint,
                          IF s.poisoned THEN {s.tool} ELSE {})
         line == DecisionLine("own", s.tool, s.taint, result, RootWorld, 0)
     IN  /\ Logs(result, RootWorld, s.tool)
         /\ \/ Write(line) /\ busy' = [doing |-> "scenario", own |-> Len(file')]
            \/ WriteFails(line) /\ busy' = Idle
  /\ UNCHANGED <<active, reported, switches, lost>>

(* TraceStore._iter_records: the number of its line is the id of a trace,  *)
(* blank lines and lines that do not parse are none.                       *)
Readable == {i \in DOMAIN file : file[i].kind # "garbage"}

\* Deliberate error: traces are counted, not lines.
LastTraceByCount == Cardinality(Readable)

LastTrace ==
  IF Readable = {} THEN 0 ELSE CHOOSE i \in Readable : \A j \in Readable : j <= i

ReportScenario ==
  /\ busy.doing = "scenario"
  /\ reported' = [own |-> busy.own, id |-> LastTrace]
  /\ busy' = Idle
  /\ UNCHANGED <<file, torn, active, switches, lost, complete, tears>>

(* POST /compare: the call on a new executor of each world in turn; a      *)
(* failure, or a world that does not exist, leaves the lines before it.    *)
Compare(s, worlds) ==
  /\ ApiFree
  /\ busy' = [doing |-> "comparing", scenario |-> s, worlds |-> worlds]
  /\ UNCHANGED <<file, torn, active, reported, switches, lost, complete, tears>>

CompareNext ==
  /\ busy.doing = "comparing"
  /\ busy.worlds # << >>
  /\ LET s == busy.scenario
         w == Head(busy.worlds)
         result == Answer(w, w, s.tool, s.taint, IF s.poisoned THEN {s.tool} ELSE {})
         line == DecisionLine("own", s.tool, s.taint, result, w, 0)
     IN  /\ Logs(result, w, s.tool)
         /\ \/ Write(line) /\ busy' = [busy EXCEPT !.worlds = Tail(@)]
            \/ WriteFails(line) /\ busy' = Idle
  /\ UNCHANGED <<active, reported, switches, lost>>

HandlerEnds ==
  /\ busy.doing \in {"comparing", "scenario"}
  /\ busy' = Idle
  /\ UNCHANGED <<file, torn, active, reported, switches, lost, complete, tears>>

-----------------------------------------------------------------------------
(* create_app: _seed_if_empty looks at the file, and writes it if it is    *)
(* missing or empty; seed entries are old ones of the root world.          *)
Seeds == [i \in 1..SeedLength |->
            LET t == CHOOSE t \in Tools : TRUE
            IN  DecisionLine("seed", t, FALSE,
                             Answer(RootWorld, RootWorld, t, FALSE, {}), RootWorld, 0)]

Init ==
  /\ file = << >>
  /\ torn = FALSE
  /\ active = RootWorld
  /\ busy = [doing |-> "seeding"]
  /\ reported = NotReported
  /\ switches = <<RootWorld>>
  /\ lost = {}
  /\ complete = 0
  /\ tears = 0

SeedWrite ==
  /\ busy.doing = "seeding"
  /\ SeedLength <= MaxLines
  /\ file' = Seeds
  /\ torn' = FALSE
  /\ complete' = SeedLength
  /\ busy' = Idle
  /\ UNCHANGED <<active, reported, switches, lost, tears>>

\* Deliberate error: the end of a process that was in another world goes unrecorded.
RestartUncounted ==
  /\ Len(switches) < MaxSwitches
  /\ active' = RootWorld
  /\ lost' = lost \cup {Len(switches) + 1}
  /\ busy' = IF file = << >> THEN [doing |-> "seeding"] ELSE Idle
  /\ UNCHANGED <<file, torn, reported, switches, complete, tears>>

(* The process ends and create_app runs again: in the root world, whatever *)
(* the last WORLD_SWITCH line says.                                        *)
Restart ==
  /\ Len(switches) < MaxSwitches
  /\ active' = RootWorld
  /\ switches' = Append(switches, RootWorld)
  /\ lost' = lost \cup {Len(switches) + 1}
           \cup (IF busy.doing = "switching" THEN {Len(switches)} ELSE {})
  /\ busy' = IF file = << >> THEN [doing |-> "seeding"] ELSE Idle
  /\ UNCHANGED <<file, torn, reported, complete, tears>>

WorldLists == {<<w>> : w \in Worlds} \cup {<<w, x>> : w \in Worlds, x \in Worlds}

Next ==
  \/ \E tool \in Tools, taint \in BOOLEAN : ApiDecides(tool, taint)
  \/ \E tool \in Tools : StdioDecides(tool)
  \/ \E world \in Worlds : Install(world)
  \/ TellSwitch
  \/ SwitchUntold
  \/ \E s \in Scenarios : RunScenario(s)
  \/ ReportScenario
  \/ \E s \in Scenarios, worlds \in WorldLists : Compare(s, worlds)
  \/ CompareNext
  \/ HandlerEnds
  \/ SeedWrite
  \/ Restart

Spec == Init /\ [][Next]_vars

-----------------------------------------------------------------------------
\* Deliberate error, for the mutation runs: a replay judges by the active world.
ApiReplayActive(line) == Answer(active, RootWorld, line.tool, line.taint, {})

(* POST /replay/{id}: the trace loses its world on the way                 *)
(* (_trace_to_audit_entry), so the stored policy and registry judge it.    *)
ApiReplay(line) == Answer(RootWorld, RootWorld, line.tool, line.taint, {})

(* GET /export/bundle and POST /replay/bundle: the root manifest goes with *)
(* the trace, whatever world decided it; the bundle's engine is built      *)
(* without the approval set, its registry without scoped tools.            *)
BundleReplay(line) ==
  AnswerWith([WorldTables[RootWorld] EXCEPT !.approvalRequired = {}],
             MockTools \cap WorldTables[RootWorld].allowlist,
             line.tool, line.taint, {})

Decisions == {i \in DOMAIN file : file[i].kind = "decision"}

(* Every decision the root world's own policy made, whoever asked it and   *)
(* whatever world the API is in by now, replays to what was recorded,      *)
(* descriptor drift aside.                                                 *)
RootDecisionsReplay ==
  \A i \in Decisions :
    file[i].world = RootWorld /\ file[i].result # DescriptorDrift =>
      ApiReplay(file[i]) = file[i].result

(* Two replays are coded, of a trace and of a bundle.  For any trace in    *)
(* the file they differ at most in two ways, and a bundle then allows: the *)
(* root world asks before the call, or taint meets a scoped tool, of which *)
(* the bundle's registry knows no side effect.                             *)
ReplaysDifferOnlyAtGates ==
  \A i \in Decisions :
    ApiReplay(file[i]) # BundleReplay(file[i]) =>
      /\ BundleReplay(file[i]) = DefaultAllow
      /\ ApiReplay(file[i]) \in {ApprovalRequired, TaintedExternal}
      /\ ApiReplay(file[i]) = TaintedExternal => file[i].tool \notin MockTools

(* What the two replays reproduce of a log that several worlds and processes*)
(* have written.                                                           *)
ReplaysReproduce == RootDecisionsReplay /\ ReplaysDifferOnlyAtGates

(* What the log tells of the world of an API decision: the last            *)
(* WORLD_SWITCH line before it, or the root world.                         *)
EpochTold(i) ==
  LET told == {file[j].epoch : j \in {k \in 1..(i - 1) : file[k].kind = "switch"}} \cup {1}
  IN  CHOOSE n \in told : \A m \in told : m <= n

(* A decision of the API is never in a world the log has not told of yet,  *)
(* and never in one that it says was left, unless the line of a switch     *)
(* failed or was garbled, or the process was restarted.                    *)
LogExplainsWorlds ==
  \A i \in Decisions :
    file[i].by = "api" =>
      /\ file[i].world = switches[file[i].epoch]
      /\ EpochTold(i) <= file[i].epoch
      /\ tears = 0 => (EpochTold(i) + 1)..file[i].epoch \subseteq lost

(* A scenario run reports its own trace or, when the other process wrote   *)
(* in between, a later one; an earlier one only if its own continued a     *)
(* line that had been cut short.                                           *)
ScenarioReportsNoEarlier ==
  reported.own \in Readable => reported.id >= reported.own

(* A trace, once readable, keeps its id and its content, and no other      *)
(* trace ever comes under its id, with two exceptions.  The last line,     *)
(* when its append was cut short of the newline only, can be read until    *)
(* the next append, of which process ever, makes garbage of both; and      *)
(* seeding overwrites what another process wrote between its look at the   *)
(* file and its write.                                                     *)
TracesStay ==
  [][~SeedWrite =>
       \A i \in Readable :
         /\ i \in DOMAIN file'
         /\ file'[i] = file[i] \/ (torn /\ i = Len(file) /\ file'[i] = Garbage)]_vars

(* An append that is cut short costs, beside its own line, one other line. *)
TearCostsOneLine == Cardinality(Readable) + tears >= complete

(* A line number stands for one trace: lost lines cost no more than their  *)
(* neighbour, and who asks for the last trace after writing gets no older one.*)
IdsTellTheirLines == ScenarioReportsNoEarlier /\ TearCostsOneLine
=============================================================================
