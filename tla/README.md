# A verification development for safe-mcp-proxy

safe-mcp-proxy stands between an agent and its tools.  It decides every tool
call (ALLOW, DENY, ASK, ABSENT) from a compiled *world manifest*, the provenance
of the request and the state of the tool's descriptor; it holds asked calls until
a human approves or rejects them; it can switch worlds while it runs; and it logs
what it decided, so that decisions can be replayed and watched.

This directory holds TLA+ models of that machinery, TLC runs over small instances
and TLAPS proofs for all instances.  Paths below are relative to the repository
root; `sp/` abbreviates `safe_mcp_proxy/`.

## 1. Inventory

| Component | State | Operations | Talks to | Hard part |
|---|---|---|---|---|
| Policy decision, `sp/policy_engine.py`, `sp/policies/proxy.rego`, `sp/opa_engine.py` | none | `decide` | executor | two implementations of one priority order, one of them unordered rules; a subprocess or a REST server that may fail |
| World compiler, `sp/compiler.py` | none | `compile_world_manifest`, `build_opa_input` | both engines, controller, replay | defaults of half-written entries |
| Provenance, `sp/provenance.py` | immutable values | `from_source`, `derive` | executor, integrations | a running flag against a recomputed one |
| Executor, `sp/executor.py` | registry, stored engine, flags | `execute`, `execute_approved`, `reject_approval`, `replay`, `execute_skill`, `list_tools` | everything | handlers that raise or never return; state read at ASK and used at approval |
| Approval store, `sp/approval_store.py` and `api/main.py` | token -> entry, in memory | `create`, `approve`, `reject`, `mark_executed` | executor, API | retries, crashes, two routes to the same token |
| Registry, `sp/registry.py`, `sp/descriptor.py` | catalog, exposed tools, mutable schemas, pinned hashes | `get_tool`, `get_any_tool`, `execute_tool` | executor | it outlives the world it was built for |
| World controller, `sp/world_controller.py` | world, id, history, lock | `switch`, `.world`, `current_id` | executor, API | compiles outside the lock; readers take it twice |
| Audit log and stream, `api/main.py` | `audit.jsonl`, appended to by several processes | `_audit`, `switch_world`, `_seed_if_empty`, `_sse_stream` | dashboard, trace store | a poller against concurrent appends; appends that fail or are cut short |
| Trace store and bundle replay, `sp/trace_store.py`, `sp/bundle_replay.py`, `sp/scenarios/` | none beyond the log: a trace's id is its line number | listing, scenario runs, comparisons, two replays | API | information lost between record and replay; ids that another writer moves |
| Skill capabilities, `sp/capability_projection.py`, `sp/compiler.py`, `sp/executor.py` | compiled capabilities; the context comes with each call | `project`, `list_tools`, `execute_skill` | executor, log | what is shown against what is executed: two rule chains in two files |
| Skill registry, `sp/skill_registry.py` | sources, catalogue | `register_source`, `import_skills`, `get_skill` | compiler | a directory that changes under an import; keys joined by a colon |
| Capability DSL and scoped tools, `sp/capability_dsl.py`, `sp/registry.py` | tools made from definitions, once | parse, validate, call | registry, executor | parsed at every switch, built only at the start |
| Gemini integration, `sp/integrations/gemini/` | gate with captured engine and registry; the binder's cache of executors | `list_tools`, `execute`, `get_executor` | executor, log | captured state against world switches |
| Atlassian passthrough, `sp/atlassian/` | flow labels, request log | `forward` | upstream MCP server | rules over a sequence of requests, an upstream that fails after the work |
| MCP adapter, `mcp-adapter/src/` | validated manifest, requests in flight | list, call | host, upstream MCP server | every handler awaits the upstream, so requests overlap; listed against callable |
| Jira proxy, `sp/proxy.py`, `sp/policy.py`, `sp/server.py`, `sp/mcp_upstream.py` | policy, one upstream session | list, call | SDK, upstream | overlapping calls, query rewriting, an upstream that ends |
| stdio server, `sp/mcp_server.py` | position in its input | read, dispatch, reply | executor, log | nothing around a line catches an exception |
| mcpzero benchmark, `mcpzero/`, `attacks/loader.py` | registry of each scenario, observer's lines | load, run twice, compare | policy, registry | failures that must not read as success; poison that must not stay |
| demos, dashboard, notebooks, `pub/validate.py` | none | drivers | the above | none |

How the parts interact.  `build_executor` (`sp/main.py`) compiles the initial
world, builds a registry and an engine from it, and hands the executor a world
controller.  From then on `execute` takes the *policy* from the controller's
current world and the *tool* from the registry of the initial world.  The API
holds one executor; its handlers are coroutines without an await, except the
event stream, so calls do not interleave inside one process.  `mcp_server.py` is
a stdio loop.  Threads use the controller directly (the tests do), which is what
its lock is for.  The stdio server and the Gemini session binder build executors of
their own, in processes of their own or next to the API's, and append to the same
log, which is the only thing that survives a restart.

What makes each part correct:

* the engines give one answer (engine choice is invisible), and nothing that the
  manifest does not enable is ever asked about;
* taint cannot be lost along a derivation;
* a tool's handler is entered only for a call that was cleared, directly by the
  policy of the moment or through a question that was logged and answered; a
  question is answered once and acted on once, whatever is retried or crashes;
* the log, the store and the handlers' runs tell one story, and so does the log
  alone about the worlds it was written in, whatever is cut short;
* a recorded decision can be reproduced, or it is known when it cannot;
* the manifest that judges a call is settled by the start, the agent and the
  switches, never by a cache, an override or another agent;
* a switch shows every reader one whole world, and its diffs chain up;
* the stream delivers every line;
* a skill capability can be called exactly where it would be listed, and an ASK
  for it is worth answering;
* the Gemini gate and the executor behind it are one policy until a switch, and
  what is known of the executor's runs stays true with the gate in front of it;
* a tool made by a definition confines its callers to that definition;
* whoever stands between a host and an upstream server (the adapter, the Jira
  proxy) shows what can be called, reaches nothing it does not show, and answers
  what it did;
* the stdio server answers in step, and the benchmark's verdicts can be trusted;
* what the Atlassian upstream returned in one request is remembered by the rules
  of the next, whatever fails in between, and the log shows a decision before any
  work and one response for every request that ended.

## 2. Modules

| Module | Models |
|---|---|
| `Policy` | `decide` and the Rego rules as operators, and manifest compilation.  No state. |
| `PolicyEngines` | both engines given the same manifest and calls; OPA may fail |
| `Provenance` | chains built by `from_source` and `derive` |
| `DecisionInputs` | composes the two: a call carries the flag of the chain it comes from, and both engines decide it |
| `ApprovalGate` | the abstract promise of the approval mechanism |
| `Executor` | composes `Policy` with the registry, the approval store, the API's approval endpoints, the world pointer, schema mutation, the log, restart and replay; refines `ApprovalGate` |
| `ExecutorClaims` | statements of the documentation that `Executor` refutes |
| `GeminiGate` | extends `Executor` by the API's Gemini route: mapper, gate, proxy |
| `EngineSelection` | which manifest and engine judges a call or a replay, for `main.py`, the API and the Gemini session binder, while manifests and the OPA binary come and go |
| `WorldController` | the controller under threads, one step per assignment that another thread could see |
| `AuditStream` | one client of the event stream against appends at every point |
| `AuditLog` | the file with the API and a stdio server writing to it, failing and partial appends, switch lines, seeding, restart, scenario runs, comparisons, and the two replays of what is in it |
| `StdioServer` | the read-dispatch-reply loop with every kind of line and every way of dying |
| `ScopedTools` | definitions of a manifest made into tools, and what their handlers are given |
| `SkillExecution` | compilation of skill capabilities, `list_tools`, `execute_skill` |
| `SkillRegistry` | sources and imports, file by file, while the directory changes |
| `AtlassianFlow` | `MCPPassthrough.forward` with an upstream that answers, fails or garbles |
| `JiraProxy` | overlapping list and call requests in front of one upstream session |
| `Adapter` | the TypeScript adapter: validation, projection, planning, translation, constraints, and requests that overlap at every await |
| `Mcpzero` | loading, both runs of every attack scenario, verdicts, exit code |
| `PolicyLemmas`, `DecisionProofs`, `ExecutorProofs`, `LogProofs`, `SkillProofs`, `AtlassianProofs`, `ServingProofs`, `AdapterProofs` | theorems |
| `MC*` and `*.cfg` | instances for TLC |

`MCServing` and `MCResolving` each check four modules that share no state with one
another.  A behaviour is one of the four programs, chosen at the start by the
variable `program`; the variables of the others are parked at one value.  The
states of such a run are the sum of the parts', and each part's properties are
checked on all of its own behaviours.

### How state and actions correspond

`Executor`.  `current` is the controller's id (its manifest is
`WorldTables[current]`); `store` is `ApprovalStore._pending`; `audit` is
`audit.jsonl`; `drifted` is the set of exposed tools whose schema object no
longer hashes to the pinned value.  `serving` is the program counter of
`POST /approvals/{token}/approve` between `approve` and `execute_approved`.
`runs` is history: every handler invocation with what is needed to judge it.  A
call that reaches a handler is two actions (`ExecuteAllowed` or
`ExecuteApprovedRun`, then `HandlerReturns` or `HandlerRaises`) because the
handler is foreign code in which the process may raise or die; everything the
method does after the handler, `mark_executed` and the audit entry, is part of
the second action.  All other branches of `execute`, `execute_approved` and
`reject_approval` are single actions, one per branch, with the branch's early
returns as guards.  `Restart` may strike at any moment.

Tools are opaque and a tool's capability is its name, because every tool built by
`registry.py` has it so.  A tool that does not resolve in the stored registry has
side effect `"unknown"` and an intact hash, as `_tool_context` says.
`ExposedIn(InitialWorld)` is used throughout since the registry is never rebuilt;
`ReplayInWorld` builds a fresh one, as `_build_components_for_world` does.

`WorldController`.  `switch()` is `Compile` (outside the lock), `Acquire`,
`InstallWorld`, `InstallId`, `Return`.  A reader is `ReadWorld` then `ReadId`:
two critical sections, as in `_resolve_components` and `GET /worlds/current`.

`AuditStream`.  `Connect` measures the file, `Measure` is the poll that found
more, `OpenAndSeek`, one `SendLine` per `yield`, and `EndOfFile` with
`offset = size`.  Appends may come between any two of these.

`DecisionInputs`.  Calls are those whose `taint` is the flag of the current
provenance, as `execute` reads `provenance.tainted` and nothing else of the chain.
`Evaluate` is one call put to both engines; a derivation changes the provenance.

`AuditLog`.  A line keeps what the readers use of it.  `Write` is one
`open("a")` and `write`; `WriteFails` writes nothing, a part of the line, which does
not parse (`Garbage`), or the line without its newline, which does, until the next
append of either process continues it and makes garbage of both.  The API's
handlers have no await, so while `busy` is set only the other process runs.
`Install` and `TellSwitch` are the two halves of `POST /world/switch`.  Seeding is
two steps, the look at the file (at the start) and `SeedWrite`, and so are a
scenario run and its look at the last trace.  `epoch`, `switches`, `lost`,
`complete` and `tears` are history.

`EngineSelection`.  An executor is what `build_executor` keeps: the stored engine,
the active world and that world's engine.  `WithExecutor` adds one to the binder's
cache.  `Judge` records which world and engine decided what; the decision itself
is `PolicyEngines`' matter.  `Edit` changes a manifest file or the PATH.  The
launchers are `main.py`, the API, the session binder and a program that uses the
package as a library, as tests and demos do.  `ReplayEntry`, the library's, replays
an entry with the world it was recorded in; `ReplayTrace`, the API's, an entry that
`_trace_to_audit_entry` built without one.

`StdioServer`.  `AtLine` is the loop's read; a `tools/call` is `BeginToolCall`,
perhaps `EnterToolHandler`, and one of three ends.  A line is a form, a method and
whether it has an id.

`ScopedTools`.  `StartUp` parses, validates and builds; `SwitchTo` parses and
validates only, as `switch()` compiles a manifest and leaves the registry alone.
`HandlerArgs` is the wrapper that `registry.py` puts around a base handler.  `Str` is
what `str()` makes of a value; a literal is kept as that.  A tool's dict of
properties is its own, but the properties in it are the base tool's objects:
`MutateSchemaOf` changes one tool's schema, `MutateProperty` also those of all that
share the property (`SharesProperty`).

`SkillRegistry`.  `BeginImport` lists and sorts; `IsFile`, `ReadFile` and
`OpenFails` are the steps at each listed file, between which `ChangeDisk` may come.

`JiraProxy`.  A handler runs up to its upstream call (`AskList`, `CallForwarded`)
and from its answer on (`ListAnswered`, `CallAnswered`, `WaitFails`).  Arguments
are told apart by form: absent, blank, the policy's own, the client's, the
conjunction, or no string.

`Adapter`.  Both handlers are `Arrive`, `ListArrives` and one continuation without
an await, `AnswerList` or `AnswerCall`; a forwarded call waits for
`ResultArrives`.  `Timeout` is the MCP client's timer, `UpstreamDies` rejects what
is still awaited.  `during`, what the upstream offered while a request was in
flight, is history.

`Mcpzero`.  `RunBaseline` is the direct agent, `ProtectedStep` one call through a
proxy whose registry only this scenario poisons, `CompareRuns` the verdict.

`GeminiGate`.  Every action of `Executor` stays a step, and `Gemini` is the other
route, one action per branch of `GeminiProxy.execute`.  `GateAnswer` is
`Decide` on `WorldTables[InitialWorld]`, since gate and mapper keep the engine
and the registry of the moment they are built; `GeminiDelegated` is the
executor's whole `Execute`, with the policy of the current world.  `Record`
writes the executor's log.  The entries' field `by` is history: the executor or
the gate.  Gemini requests are `INTERACTIVE`, because the mode is the default of
`Provenance.from_source`.  Session and agent ids are left out.

`SkillExecution`.  `manifest` is the capabilities block, `Capability(name)` what
`parse_skill_capabilities` makes of an entry.  `ListTools` and `ExecuteSkill` are
the two operations, each with its log entry.  A `Contexts` record comes with
every call and is free to differ from the last, since nothing ties a call to a
listing.  `readonly` stands for `_is_readonly_workflow` of the workflow id, and a
payload for the constraints it breaks.  `Hidden` and `Guard` are kept as two
chains, as in the code.  `ExecuteSkillRaises` is a call whose `bytes_billed` does
not compare with a number: it leaves without a log entry.

`AtlassianFlow`.  `call.phase` is where `forward` is: `gate` (the request is
logged, `evaluate` comes next), `blocked`, `forward` (with stub or upstream),
`answered` (label and response entry are one action, as nothing outside can see
between them).  Request entry, gate and upstream are separate
because the process may die or the upstream may fail between them.  `events` is
history: work of the upstream (`effect`) and answers that reached the client
(`delivery`).  `UpstreamFails(TRUE)` is a timeout after the work.
`UpstreamTrickles` is a part of the answer arriving within a socket operation
(`call.heard`), `ReadOn` the next socket operation, with a timeout of its own.
`UpstreamGarbles` is the answer that is no JSON-RPC response or ends too early, whose
exception `forward` does not catch.  `NewSession` is a restart or a new passthrough, at any
phase.

Operators commented as *deliberate errors* are mutated forms of the definition
that follows them; each property is known to fail when one of them is put in its
place.

## 3. Runs

| Run | Instance | Shows |
|---|---|---|
| `decision_inputs` | 1 tool, 2 capabilities with every entry form, 1 clean and 1 tainted channel, at most 2 parents, every call; 143 000 states | `EnginesAgree`, `AskOnlyWhatExists`, `FlagIsRecomputable`, `TaintedChainNeverActs` |
| `executor_approvals` | 2 worlds, 2 external tools, 2 tokens, 2 runs, 3 entries, no simulation, store and API callers; 450 000 states | `DirectRunsCleared`, `ApprovedRunsCleared`, `ApprovalsAccounted`, `ImplementsGate` |
| `executor_api` | `GeminiGate` over `Executor`: 2 worlds, 5 tools, 1 token, 1 run, 2 entries, simulation, API callers only; 305 000 states | `RunsAccounted`, `RoutesReplayFaithfully`, `GateAgreesUnswitched`, `SimulationContains` |
| `audit_log` | 3 lines, 3 switches or restarts, 2 torn appends, 1 seed line, 2 processes; 530 000 states | `TypeOK`, `ReplaysReproduce`, `LogExplainsWorlds`, `IdsTellTheirLines`, `TracesStay` |
| `serving` | stream with 5 lines; 2 switchers, 1 caller, 3 worlds; stdio input of 3 lines; at most 2 attack files; 60 000 states | `StreamFaithful`, `SwitchesChainUp`, `AnswersInStep`, `VerdictsTrusted`, `AllKeepMoving` |
| `resolving` | 3 worlds in 2 directories, 2 agents, 1 edit; 2 scoped worlds, 2 arguments; 2 Jira requests; 2 imports, 1 change of the directory; 936 000 states | `ManifestsDecide`, `ReplayWorldsSettled`, `ScopedToolsConfine`, `JiraAccounted`, `CatalogueFaithful` |
| `skills` | 2 capabilities, every entry of one that compiles differently, every context, 3 payloads, 2 calls; 836 000 states | `GuardMatchesProjection`, `AskIsAnswerable`, `SimulationCoversEffects` |
| `atlassian_flow` | 3 tools, 2 flow rules, 3 requests, 2 sessions, every configuration; 394 000 states | `FlowRulesHold`, `LogAccountsForWork`, `CallEnds` |
| `adapter` | 2 overlapping requests, 2 tools, 3 names, 3 valid manifests and one that is not; 195 000 states | `ListedIsCallable`, `UnlistableNeverReached`, `AnswerTellsEffect`, `ServedFromOwnList`, `EveryRequestAnswered` |
| `claims_*` | as small as the counterexample allows | see section 6 |

Several properties are conjunctions of named parts, each with its own comment in
the module:

| Property | Parts |
|---|---|
| `RunsAccounted` | `CompletedRunsAudited`, `OnlyFailuresStayApproved` |
| `ReplaysReproduce` | `RootDecisionsReplay`, `ReplaysDifferOnlyAtGates` |
| `IdsTellTheirLines` | `ScenarioReportsNoEarlier`, `TearCostsOneLine` |
| `StreamFaithful` | `NothingSkipped`, `InFileOrder` |
| `SwitchesChainUp` | `ConsistentWhenFree`, `DiffsFollowHistory`, `OneDiffPerSwitch`, `TornOnlyForward` |
| `AnswersInStep` | `OneReplyInOrder`, `EffectsAnswered` |
| `VerdictsTrusted` | `VerdictsIndependent`, `TaintedAttacksPass`, `ZeroMeansAllStopped` |
| `AllKeepMoving` | `EveryLineDelivered`, `SwitchReturns`, `CallResolves`, `EveryLineRead`, `BenchmarkEnds` |
| `ManifestsDecide` | `CallsFollowTheirManifest`, `AgentsKeepTheirWorlds` |
| `ReplayWorldsSettled` | `EntriesKeepTheirWorld`, `TracesGoToTheFirstWorld` |
| `ScopedToolsConfine` | `CallsConfined`, `SchemaTellsWhatPasses`, `TaintStopsAtBase` |
| `JiraAccounted` | `ShownIsCallable`, `QueriesConstrained`, `LogTellsForwarded`, `JiraAnswersTellEffect` |
| `CatalogueFaithful` | `CompleteImportCovers`, `LookupFindsOwn` |
| `GuardMatchesProjection` | `AllowedWasVisible`, `ListedIsCallable` (of `SkillExecution`) |
| `LogAccountsForWork` | `WorkFollowsDecision`, `ResponsesAccounted` |

`ServingTypeOK` and `ResolvingTypeOK` are the type invariants of the modules in
those runs.  The type invariants of the modules with proofs of their own are
theorems and are not repeated in runs.

Why the bounds are enough.  In the executor a token's life involves one ASK
entry, one answer and one run; two tokens and two runs let two lives interleave
and let one token be served twice if the code allowed it.  Three entries let both
tokens be asked and one be settled; a third token or entry adds only a third copy
of the same independent record.  The ontology of `MCExecutor` has a tool for each
case of `(exposed, known, unknown to the stored registry) x (allowed, asked,
capability disabled)` that the code distinguishes.  `MaxTokens`, `MaxRuns` and
`MaxAudit` bound the history, and the guards that use them are the only places
where the model stops earlier than the program: a call that would log past
`MaxAudit`, ask past `MaxTokens` or enter a handler past `MaxRuns` is not made.
For the engines one tool is enough because both read the list only through
membership of the call's tool; two capabilities because an entry of another
capability must not matter.  In the controller three switches by two threads give
every overlap of one compile with another installation; `MaxHistory` bounds the
number of switches.  In the stream five lines give lines before the connection,
in a batch, between the measurement and the end of a batch, and after.  All three
are proved without these bounds.

In the log three lines are the least with a switch, a decision before it and one
after; one torn append garbles its own line, or itself and the next, and a second one
may strike a line that the first has left; three
entries of `switches` allow a switch that is undone by a restart.  A Jira or
adapter request interacts with another only through the upstream, so two of them
show every overlap; two tools, of which one is renamed over, constrained or hidden,
are what the rows of a manifest can tell apart.  In `resolving` one edit is enough
for a world to vanish or to change its engine between record and replay, and one
change of the directory for a file to come, go or change at any step of an import,
while two imports let one source write over another's key.  Three lines of stdio
input put a call between two others.  Two attack files show whether the first
leaves something for the second.  `MaxEdits`, `MaxChanges`, `MaxImports`,
`JiraRequests`, `MaxInput`, `MaxLines`, `MaxSwitches`, `MaxTears` and `MaxHistory`
bound the inputs and histories and stand in guards of the environment's actions,
or, for `MaxLines`, of the append.

For the skills two calls give a listing followed by a call, and a call in a
context that has changed; nothing else is remembered between calls.  One
capability takes every form and the other is there so that approvals differ.  In
the passthrough two requests are a labelled answer and a call that is tested
against it, and a third comes before, between or after; a second session shows that labels end with theirs and that what was
in flight when it ended is still judged by the labels of its own session.  Longer
sessions are covered by the proof.  `MaxCalls`, `MaxRequests` and `MaxSessions`
bound the histories.

Deadlock is checked in `decision_inputs`, the two executor runs and the other two
`claims` runs.  In `skills`, `atlassian_flow`, `claims_flow`, `adapter`, `audit_log`,
`serving` and `resolving` the environment stops at a bound, a process exits or a
benchmark is over, and nothing more happens; that nothing hangs before is what
`CallEnds`, `EveryRequestAnswered` and `AllKeepMoving` say.

Symmetry is used in `decision_inputs` only, over capabilities; its one temporal
property is an action property.

### Fairness

Six specifications have fairness.  `WorldController` assumes weak fairness
of each switcher's steps after `Compile` and of each caller's steps after its
first read: threads of one Python process are scheduled.  Starting a switch or a
call is the environment's, and is not assumed.  Weak fairness of `Acquire` could
be too weak if the lock were taken over and over, but the history bound ends
that within the model; the runtime's lock makes the same promise in practice
only as far as its scheduler does.  `AuditStream` assumes weak fairness of the
generator's own step, since the event loop resumes a sleeping or ready
coroutine; appends and the client are not assumed to do anything.
`AtlassianFlow` assumes weak fairness of `ProxyStep`: `forward` runs on, and a
socket operation in which nothing arrives fails by itself when the timeout given to
`urlopen` (`config.timeout`) is over.  That timeout is one of each socket operation
and none of the answer as a whole.  So a silent or stalled upstream cannot hold
`forward`, but one that keeps sending can, for ever; `CallEnds` says so by its second
disjunct.  Clients are not assumed to do anything.
`Adapter` assumes weak fairness of the two continuations, which the event loop runs
once their promise is settled, and of the MCP client's timer, which fires for every
request still waited for; `ListArrives` and `ResultArrives` are the upstream's and
are not assumed.  `StdioServer` assumes it of the one thread's steps, so that tools
return or raise; `Mcpzero` likewise.  A client that never writes or closes is
allowed in both streams.

## 4. Proofs

Everything here holds for every set of tools, worlds and channels, every
manifest, and every value of the bounds, from the named assumptions of the
modules only, which type the constants and are evaluated by TLC in the runs.

* `PolicyLemmas`.  The six results differ (`ResultsDistinct`); from this the set
  of Rego rules that hold for an input is shown to be exactly the singleton of
  the chain's result, or empty for the default (`RulesFollowChain`), hence
  `RegoIsDecide`.  `DecideAllows` and `DecideAsks` say what an ALLOW and an ASK
  have established.
* `DecisionProofs`.  `EnginesAlwaysAgree` and `OnlyWhatExistsIsAsked` follow step
  by step from those lemmas.  `OneMoreParent`: appending a parent adds that
  parent's taint.  With it `derive` commutes with `from_source`, and the types of
  both parts with `FlagIsRecomputable` are inductive.  `TaintedChainsNeverAct` needs
  both halves: the flag says what the chain calls for, and a call with that flag
  is not allowed an external effect (`ActsOnlyUntainted`).

  The engines (`EngineInv`): until a manifest is edited, the active engine of every
  executor that the process holds is the one named by the manifest of its active
  world (`ManifestsKnown`), and the binder's executors stay in the world they were
  built for (`BoundToWorlds`); both are of all executors, since the next call may come
  to any of them.  `ReplaysKeepTheirWorld` is an action property and holds with edits
  too; that a trace is judged by the engine of the first world's manifest also needs
  that the API has one executor and no override (`StoredKnown`).
  The Jira proxy (`JiraInv`): `JiraAccounted` alone is not inductive, since a request
  that is under way has no answer yet that could say whether the upstream has its
  call; `RequestsAccounted` says for every stage of a request what the log and the
  upstream have of it, and one lemma each covers the steps that print nothing
  (`QuietRequestStep`) and those that do (`LoggingKeeps`).
  The scoped tools (`ScopedInv`): once the process is up its registry is the one built
  from the start world, whatever is switched to (`RegistryOfStart`), and what the last
  call entered is what the handler of its tool makes of the arguments
  (`EnteredByTool`); `ScopedToolsAlwaysConfine` then is about the handler of a tool
  that a definition made, which is told apart from a base tool of the same name
  (`ScopedToolTellsApart`).
  The skill registry (`RegistryInv`): a file that has not changed since the listing and is
  not among those to be done is in the catalogue, and all that are to be done come
  after it (`PassedAreCovered`; that there is a first one is a minimum of a well-founded
  order, `ThisFileIsFirst`).  `CatalogueIsFaithful` also needs that a key
  tells source and stem where both are single words (`KeyTellsStem`, `KeyOfOnePart`).
  `ResolvingTypeCorrect` puts these four side by side as `MCResolving` does: a parked
  part is in a state its invariant allows (`ResolvingParkedAllowed`) and one moves at a
  time, so all four invariants hold of the composition that the run checks.
* `ExecutorProofs`.  `TypeCorrect`, one lemma per group of actions.  Then
  `IInv == TypeOK /\ TokensCleared /\ DirectRunsCleared /\ ApprovedRunsCleared`.
  `ApprovedRunsCleared` alone is not inductive: `execute_approved` consults no
  policy, so that what it runs was asked about and is no tainted external request
  has to be known of every token in the store beforehand, which is
  `TokensCleared`.  That in turn rests on `DecideAsks` (the taint rule stands
  before the approval rule), on the log only growing (`AskedStays`) and on no
  operation changing what a token stands for (`StoreSteps`).
  With the Gemini route in front (`GSpec`; `Spec` implies it): the three branches
  that the gate settles are a `Record` of a known result (`GateResults`), and a
  record, an entry without a token, keeps `IInv`; a delegated request is a step of
  `Executor`, for which the executor's lemma is cited.  So `GeminiRunsAreCleared`
  says that a second, stale gate in front of the executor weakens nothing.
  `GateAgrees` needs no history: where gate and executor are told different side
  effects the tool is not exposed, and then rule 1 settles the call before the side
  effect is read.

  `ExecutorImplementsGate` and `RouteImplementsGate`, the refinement: the initial
  states map, and every step is a step of `ApprovalGate` or a stutter (`GateStep`).
  For that, a running handler's token has to be approved and without a completed
  run, and a completed run's token settled (`TokenInv`).
  `ApprovalsAreAccounted` counts entries: `LogInv` says of each token which entries
  it has, as sets with one or no element, so that the cardinalities follow at the
  end (`LogInvCounts`).  `RunsAreAccounted` counts runs against entries: each step
  adds one element to both sets or to none, by the lemmas on the cardinality of a
  set of positions after an append.  `RoutesAlwaysReplay` has an invariant of its
  own (`DecidedInv`): what each entry was decided from, in terms that later switches
  and restarts do not touch, from which the replay is computed (`DecidedReplays`).
* `SkillProofs`.  What was listed and answered is history, so the invariant is
  that it is what `Visible` and `Guard` say of the recorded context
  (`ListingIsVisible`, `ReplyIsGuard`); the rest, `GuardIsProjection` above all, is
  about these two chains.  `SimulationAlwaysCovers` follows from the same invariant
  and from the order of the effect rules in `Guard`, for effects of every name.
* `AtlassianProofs`.  `FlowRulesHold` relates an answer to a later effect and is
  not inductive.  `LabelsRemember` (labels contain those of every answer given in
  this session), `ForwardedIsCleared` (what is with the upstream is cleared by the
  labels as they are now, because nothing is labelled while it is there) and
  `EventsArePast` (so that no event of a future session or request exists)
  strengthen it; one lemma per kind of step (`QuietStep`, `EffectStep`,
  `RespondStep`, `SessionStep`).  `LogAlwaysAccounts` has an invariant of its own,
  `LogInv`: while a call is inside `forward` it has no response entry and was not left
  behind (`OpenIsUnanswered`), and what the log says of its gate is told by how far
  it has come (`GateIsLogged`).
* `LogProofs`, the file.  All of it rests on one fact: to the file a step adds one
  line, adds what a failed write left of one, makes garbage of a last line without
  newline, or seeds it (`FileStep`, `FileSteps`, `FileGrows`).  `TracesAlwaysStay`
  follows from it.  `ReplaysAlwaysReproduce`: a line
  keeps what it was decided from, and where the two ways to judge it differ is a
  fact about `Decide` (`ChainsDifferAtGates`).  `LogAlwaysExplains` needs to know
  where the lines of later worlds cannot stand yet (`LinesPlaced`) and which worlds
  are told of already (`WorldsTold`); the world that the log shows is then the
  greatest one told of before a line (`ToldIsGreatest`, by a maximum of a set of
  positions).  `IdsAlwaysTell`: a reported id is not before the line it is about
  (`ReportsPlaced`), and readable lines and tears together are no fewer than the
  writes that completed, one line ahead while the last line is torn and cannot be
  read, two ahead while it can (`TearsCounted`, `Owed`).

* `ServingProofs`, four programs.  The stream: a batch ends at the end of the file,
  which lies behind the size that becomes the next offset, so between two batches
  everything up to the offset has been sent, and within one everything up to the
  position (`BatchInOrder`).  The stdio server: inside a call the line it came with
  is the last one read and has no reply yet (`AtOneLine`); a reply to such a line
  keeps everything (`ReplyPreserves`).  The controller: mutual exclusion
  (`Exclusion`: the lock is held by the one switcher between its steps, and by
  nobody else), what the holder has read is the end of the history and how far it
  has installed its world (`HalfInstalled`), then one lemma per step.  The
  assumption that no thread is called "free" is what makes the lock's value say
  who holds it.  The benchmark (`McInv`): a run under way depends on its own file only
  (`RunsAreOwn`), and the lines of each scenario that is over are one block of the
  trace, baseline first (`TraceIsLaidOut`; `TracedStays`: a block stays when another
  scenario's lines come).  That a tainted reach for an external tool is stopped is a
  fact about `Decide` (`TaintedExternalStopped`).
  `ServingTypeCorrect` puts the four side by side in the same way.
* `AdapterProofs`.  About the operators: the first row that exposes a name exists
  (`LeastPosition`, a minimum of a set of positions), an allowed plan reaches a tool
  that some list would show (`PlanReaches`), and with an unambiguous manifest list
  and plan agree (`ListsAgreeWithPlans`).  About requests: `RequestOK` says of each
  request, whatever the others do, that nothing was sent before its list was
  there, that the list is of tools offered meanwhile, and what its answer stands
  for; every action changes requests to ones that are `RequestOK` again
  (`RequestStep`).

Only model-checked are the liveness properties (`CallEnds`, `EveryRequestAnswered`,
`AllKeepMoving`): liveness under fairness is out of the prover's reach.

## 5. What the passing properties say of the code

* A drifted or tainted external call through `execute` never reaches a handler of
  a tool the stored registry exposes (`DirectRunsCleared`), and neither does one
  through the approval path, tainted or never asked about (`ApprovedRunsCleared`).
* Whatever raises, is retried or crashes, each token has exactly one ASK entry and
  at most one entry that settles it, and the store agrees with the log about which
  (`ApprovalsAccounted`).
* One tainted channel anywhere in a chain of any length keeps every later call made
  from it from external effects, on either engine (`TaintedChainNeverActs`).
* Simulation is contained although the policy is told "unknown" for tools it
  cannot resolve, because the flag is tested on the tool that would run
  (`SimulationContains`).
* A torn read of world and id can attribute a decision to a newer world than the
  policy's, never to an older one (`TornOnlyForward`).
* The stream may repeat, but never skips (`NothingSkipped`,
  `EveryLineDelivered`).
* The log tells in which world the API decided, up to switches whose line was lost
  and restarts, of which it says nothing (`LogExplainsWorlds`).  A torn append costs
  one neighbour; when only its newline is missing it can be read at first, and is
  lost with that neighbour by the next append (`TracesStay`).  A scenario run may report a later trace than its own, never an
  older one unless its own line was garbled.
* The two replays agree on a trace except where the root world asks, or where taint
  meets a scoped tool; there the bundle's replay ALLOWs (`ReplaysDifferOnlyAtGates`).
* The stored engine never decides a call (`CallsFollowTheirManifest`), only a replay:
  one of an entry whose world is gone, and every one of the API's, which drops the
  world of the trace (`ReplayWorldsSettled`).
* A scoped tool keeps the literals of the world the process was started with, also
  in a world that gives its name others; its handler gets them as strings, also where
  the manifest has a number (`CallsConfined`).
* An adapter manifest whose rows do not collide shows exactly names that can be
  called; hidden tools are out of reach for every manifest, colliding or not.
* A Jira query of the client's passes unconstrained only as `query` beside a `jql`
  that was constrained (`QueriesConstrained`).  This is a claim of structure: that the
  client's part stands in a conjunction with the policy's.  `sp/policy.py:51` puts
  parentheses around the client's text without parsing it, so that a text with
  parentheses of its own, like `x) OR (y`, is grouped otherwise by whoever reads it.
* The stdio server's client knows, when the server dies, of one line at most that it
  cannot tell what became of it (`AnswersInStep`).
* The two chains of skill rules are equally wide as far as context goes; an ASK
  never hides a denial that does not depend on the payload.
* The Gemini gate's answer can differ from the executor's only after a switch.
  Then its DENY and its SIMULATE stand, and everything else is decided by the
  current world (`GeminiDelegated`).
* A flow rule is enforced by labels that survive failing, unreadable and late
  answers; an answer that cannot be read sets no label, but did not reach the
  client either (`FlowRulesHold`).

## 6. Where the documentation says more than the code does

Each of these is a run whose counterexample TLC prints.

| Run | Statement | What happens |
|---|---|---|
| `claims_taint` | `README.md:77`, rule 4 | A world switch allows a tool that the stored registry does not expose; its side effect is reported as "unknown" and a tainted call is ALLOWed.  With the shipped `config/policy.yaml` the effect itself is simulated. |
| `claims_drift` | `README.md:21`, mutation is blocked before execution | A schema mutated after the ASK is not compared again when the token is approved.  In the same way a tool that the current world no longer has still runs once its token is approved. |
| `claims_flow` | `manifests/atlassian_mvp.yaml:52`, `docs/atlassian-quickstart.md:50-53`, a page read labels the session `confluence_raw` and a Jira write is then DENY | `was_abstracted` is a property of the tool, so every page read is labelled `confluence_summary`, of which the manifest has no rule, and the write is forwarded. |

Others met while modelling, which have no run of their own:

* `api/main.py:479` says the stream emits each new entry; an entry appended while a
  batch is read is sent twice, since the next offset is the size measured before
  it (`api/main.py:86`).  `StreamFaithful` states what remains.
* `sp/main.py:88` says `--engine` overrides the manifest's `policy_engine` key; it
  sets the stored engine, which `execute` never consults (`CallsFollowTheirManifest`).
* `sp/policy.py:47` says both `jql` and `query` are constrained; with both, or for
  `read_issue`, only `jql` is (`QueriesConstrained`).
* `mcp-adapter/src/adapterManifest.ts:285` calls what is left "visible as itself";
  a tool whose rows expose it under other names gets there too, and is called
  under its own name with the default decision and without its rows' constraints.
* `_seed_if_empty` looks at the log and writes it as a whole; what another process
  appends in between is overwritten (an exception in `TracesStay`).
* The Jira proxy prints its decisions to standard output, on which the SDK speaks
  the protocol; an upstream answer's `isError` is not passed on.

* `wiki/architecture.md:77` says every invocation is logged; a handler's exception
  leaves `execute` and `execute_approved` before `_audit` (`HandlerRaises`).
* `README.md:256` says replay reconstructs the decision from any record; it uses
  the live registry or a fresh one, not the one that decided.  `EntryReplays` and
  `GateEntryReplays` state what remains of the promise.
* `sp/world_controller.py:4-5` says a switch is atomic relative to in-flight calls
  that read `.world`; `_resolve_components` takes the lock twice, so a call can
  have the policy of one world and the id of the next.  `TornOnlyForward` states
  what remains.
* `docs/safe_skills_projection.md:172` says every `execute_skill` call produces an
  entry; one whose `bytes_billed` does not compare with a number raises first.
* `sp/compiler.py:50` calls `exposed_as` the name visible to the agent, and in the
  example of `docs/safe_skills_projection.md:268-295` it differs from the key, but
  `execute_skill` looks up keys.
* Without a projection engine `list_tools` lists nothing while `execute_skill`
  skips the effect rules and lets calls through; `build_executor` configures
  neither engine nor skill capabilities.
* The docstring of `sp/integrations/gemini/proxy.py` describes an allowlist miss
  as ABSENT; it is delegated, and after a switch to a world that has the tool the
  executor may ALLOW it.  The Gemini tool list is that of the initial world.
* `POST /atlassian/mcp` builds a passthrough for every request, without a
  `FlowContext` (`config.tracked = FALSE`), so the flow rules of the manifest are
  never consulted on that route.

## 7. Not modelled, and why

* Payloads, descriptor hashes as values, timestamps, identities: no decision
  modelled here depends on them.
* In `Executor` audit appends are taken not to fail, and the `WORLD_SWITCH` line,
  which is not a decision, is not in `audit`; both are in `AuditLog`, which in turn
  leaves the lines of approvals to `Executor`.
* An ALLOW for a tool that no registry resolves raises `KeyError` before anything
  has changed; it is no step.
* OPA failures are in `PolicyEngines` only; in `Executor` a failing engine would
  raise before any change, like the case above.
* Manifests on disk do not change while the process runs, except in
  `EngineSelection`, where they may.
* In `AtlassianFlow`, malformed requests (arguments that are no mapping), a passthrough
  without a log (`log_path` None) and log appends that fail; what an answer says, and
  the cutting of page text to a safe alias, since labels and rules go by the tool; the filter of `tools/list`, which is configured apart from
  the manifest's allowlist.
* The stream's keepalive comments, and lines longer than one write.
* In `Adapter`, arguments but one path, how expressions nest, and what an upstream's
  schema says.  Files are parsed outside it.
* In `JiraProxy`, the wording of a query: only where it came from.
* The skill registry's export of a manifest, a copy of the catalogue to a file; the
  Gemini trace logger, a second log of the same lines.
* `demos/`, the dashboard, the notebooks and `pub/validate.py`: scripts that call the
  parts above in a fixed order and print, or check the text of articles; they keep
  no state that anything else reads.

## 8. Plan

Done: policy and provenance, executor with approvals, controller, stream, skills, the
Gemini route, the Atlassian passthrough; then the log and its replays, engine
selection and the session binder, scoped tools, the skill registry, the adapter,
the Jira proxy, the stdio server and the benchmark; and the theorems of section 4.

Nothing with state of its own is left out but what section 7 names, and every safety
property of the runs is stated by a theorem.  What is left is to say more about the
parts: what a restart keeps of the executor, and lemmas in place of the longer
steps.
