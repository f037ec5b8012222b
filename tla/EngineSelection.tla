---------------------------- MODULE EngineSelection ----------------------------
(***************************************************************************)
(* Which manifest, and with it which engine, decides a request.  An        *)
(* executor is built by main.py for one call, by the API for its lifetime, *)
(* by a program that uses the package as a library (the tests and demos    *)
(* do), or by the Gemini session binder, one per world and kept in a cache.*)
(* It holds two engines' worth of choices: the stored one, which the       *)
(* --engine argument of main.py overrides, and the one the active world    *)
(* names, which execute() builds anew for every call (executor.py,         *)
(* _build_policy_for_world).                                               *)
(*                                                                         *)
(* Manifests are found in two directories and may be edited, and the OPA   *)
(* binary may be installed or removed, while the process runs.  What an    *)
(* engine answers is the matter of PolicyEngines.                          *)
(***************************************************************************)
EXTENDS Naturals

CONSTANTS
  Ids,            \* world ids, RootWorldId among them
  RootWorldId,    \* the id of the root manifest: the empty string
  FallbackWorld,  \* _DEFAULT_RESTRICTIVE_WORLD
  Agents,
  AgentMap,       \* mapped agents -> world
  MaxEdits        \* bound: edits of manifests and of the PATH

ASSUME IdsAssumption ==
  /\ {RootWorldId, FallbackWorld} \subseteq Ids
  /\ \A agent \in DOMAIN AgentMap : AgentMap[agent] \in Ids
ASSUME MaxEditsAssumption == MaxEdits \in Nat

VARIABLES
  launcher,       \* "main", "api", "library" or "binder"
  override,       \* main.py's --engine, or NoOverride
  manifests,          \* manifest file -> the engine it names, or NoFile
  opaOnPath,
  executors,      \* world it was built for -> executor
  running,        \* "starting", "up" or "over"
  recorded,       \* worlds of the entries in the audit log
  judged,         \* the last decision: what was asked and who answered
  edits           \* number of edits so far

engineVars ==
  <<launcher, override, manifests, opaOnPath, executors, running, recorded, judged, edits>>

Engines == {"python", "opa"}
NoOverride == "none"
NoFile == "none"
NoAgent == "none"
NothingJudged == [kind |-> "none"]
Launchers == {"main", "api", "library", "binder"}

ManifestFiles ==
  {<<"base", RootWorldId>>} \cup ({"config", "worlds"} \X (Ids \ {RootWorldId}))

EngineTypeOK ==
  /\ launcher \in Launchers
  /\ override \in Engines \cup {NoOverride}
  /\ manifests \in [ManifestFiles -> Engines \cup {NoFile}]
  /\ running \in {"starting", "up", "over"}
  /\ DOMAIN executors \subseteq Ids
  /\ executors \in [DOMAIN executors ->
                      [storedEngine : Engines, activeWorld : Ids, activeEngine : Engines]]
  /\ recorded \subseteq Ids
  /\ edits \in 0..MaxEdits

-----------------------------------------------------------------------------
\* Deliberate error, for the mutation runs: worlds/ is searched first.
ManifestWorldsFirst(w) ==
  IF w = RootWorldId THEN manifests[<<"base", w>>]
  ELSE IF manifests[<<"worlds", w>>] # NoFile THEN manifests[<<"worlds", w>>]
  ELSE manifests[<<"config", w>>]

(* resolve_manifest_path and compile_world_manifest: the engine that the   *)
(* manifest of w names, NoFile when there is none (FileNotFoundError).     *)
Manifest(w) ==
  IF w = RootWorldId THEN manifests[<<"base", w>>]
  ELSE IF manifests[<<"config", w>>] # NoFile THEN manifests[<<"config", w>>]
  ELSE manifests[<<"worlds", w>>]

(* The constructor of the OPA engine looks for the binary, and raises.     *)
Works(engine) == engine = "opa" => opaOnPath

StoredEngine(w) == IF override # NoOverride THEN override ELSE Manifest(w)
CanLaunch(w) == Manifest(w) # NoFile /\ Works(StoredEngine(w))

(* build_executor.                                                         *)
Built(w) == [storedEngine |-> StoredEngine(w), activeWorld |-> w, activeEngine |-> Manifest(w)]
WithExecutor(w) ==
  [k \in DOMAIN executors \cup {w} |-> IF k = w THEN Built(w) ELSE executors[k]]

(* resolve_world_id.                                                       *)
WorldFor(agent) == IF agent \in DOMAIN AgentMap THEN AgentMap[agent] ELSE FallbackWorld

-----------------------------------------------------------------------------
EngineInit ==
  /\ launcher \in Launchers
  /\ override \in Engines \cup {NoOverride}
  /\ launcher # "main" => override = NoOverride
  /\ manifests \in [ManifestFiles -> Engines \cup {NoFile}]
  /\ opaOnPath \in BOOLEAN
  /\ executors = << >>
  /\ running = "starting"
  /\ recorded = {}
  /\ judged = NothingJudged
  /\ edits = 0

Launch(w) ==
  /\ running = "starting" /\ launcher # "binder"
  /\ CanLaunch(w)
  /\ executors' = WithExecutor(w)
  /\ running' = "up"
  /\ UNCHANGED <<launcher, override, manifests, opaOnPath, recorded, judged, edits>>

LaunchFails(w) ==
  /\ running = "starting" /\ launcher # "binder"
  /\ ~CanLaunch(w)
  /\ running' = "over"
  /\ UNCHANGED <<launcher, override, manifests, opaOnPath, executors, recorded, judged, edits>>

(* get_executor: what could not be built is not cached, and tried again by *)
(* the next request.                                                       *)
BindBuilds(agent) ==
  /\ launcher = "binder"
  /\ WorldFor(agent) \notin DOMAIN executors
  /\ CanLaunch(WorldFor(agent))
  /\ executors' = WithExecutor(WorldFor(agent))
  /\ running' = "up"
  /\ UNCHANGED <<launcher, override, manifests, opaOnPath, recorded, judged, edits>>

Judge(kind, asked, world, engine) ==
  judged' = [kind |-> kind, asked |-> asked, world |-> world, engine |-> engine]

\* Deliberate error: the stored engine decides.
ExecuteOnStored(w, agent) ==
  /\ running = "up"
  /\ w \in DOMAIN executors
  /\ IF launcher = "binder" THEN w = WorldFor(agent) ELSE agent = NoAgent
  /\ Works(executors[w].storedEngine)
  /\ Judge("call", agent, executors[w].activeWorld, executors[w].storedEngine)
  /\ recorded' = recorded \cup {executors[w].activeWorld}
  /\ running' = IF launcher = "main" THEN "over" ELSE running
  /\ UNCHANGED <<launcher, override, manifests, opaOnPath, executors, edits>>

(* _resolve_components in execute(): the engine is the active world's.     *)
ExecuteOn(w, agent) ==
  /\ running = "up"
  /\ w \in DOMAIN executors
  /\ IF launcher = "binder" THEN w = WorldFor(agent) ELSE agent = NoAgent
  /\ Works(executors[w].activeEngine)
  /\ Judge("call", agent, executors[w].activeWorld, executors[w].activeEngine)
  /\ recorded' = recorded \cup {executors[w].activeWorld}
  /\ running' = IF launcher = "main" THEN "over" ELSE running
  /\ UNCHANGED <<launcher, override, manifests, opaOnPath, executors, edits>>

(* Without its engine a call raises and is not logged.  It ends main.py;   *)
(* a server goes on.                                                       *)
MainRaises(w) ==
  /\ running = "up" /\ launcher = "main"
  /\ w \in DOMAIN executors /\ ~Works(executors[w].activeEngine)
  /\ running' = "over"
  /\ UNCHANGED <<launcher, override, manifests, opaOnPath, executors, recorded, judged, edits>>

\* Deliberate error: a world without a manifest is switched to.
SwitchActiveUnfound(w, target) ==
  /\ running = "up" /\ launcher \in {"api", "library"}
  /\ w \in DOMAIN executors
  /\ executors' = [executors EXCEPT ![w].activeWorld = target,
                                    ![w].activeEngine = Manifest(target)]
  /\ UNCHANGED <<launcher, override, manifests, opaOnPath, running, recorded, judged, edits>>

(* switch() compiles a manifest and does not ask whether its engine works. *)
SwitchActive(w, target) ==
  /\ running = "up" /\ launcher \in {"api", "library"}
  /\ w \in DOMAIN executors
  /\ Manifest(target) # NoFile
  /\ executors' = [executors EXCEPT ![w].activeWorld = target,
                                    ![w].activeEngine = Manifest(target)]
  /\ UNCHANGED <<launcher, override, manifests, opaOnPath, running, recorded, judged, edits>>

ReplayableIn(world) == world # RootWorldId /\ Manifest(world) # NoFile /\ Works(Manifest(world))

JudgeByStored(kind, asked, w) ==
  Works(executors[w].storedEngine) /\ Judge(kind, asked, w, executors[w].storedEngine)

\* Deliberate error: a recorded world is looked up only while it is the active one.
ReplayEntryActive(w, world) ==
  /\ running = "up" /\ launcher = "library"
  /\ w \in DOMAIN executors /\ world \in recorded
  /\ IF ReplayableIn(world) /\ world = executors[w].activeWorld
     THEN Judge("replay", world, world, Manifest(world))
     ELSE JudgeByStored("replay", world, w)
  /\ UNCHANGED <<launcher, override, manifests, opaOnPath, executors, running, recorded, edits>>

(* replay() of an entry as it stands in the log: the manifest of its world *)
(* as it is now; whatever raises there, and an entry without an id, falls  *)
(* back to what is stored.                                                 *)
ReplayEntry(w, world) ==
  /\ running = "up" /\ launcher = "library"
  /\ w \in DOMAIN executors /\ world \in recorded
  /\ IF ReplayableIn(world)
     THEN Judge("replay", world, world, Manifest(world))
     ELSE JudgeByStored("replay", world, w)
  /\ UNCHANGED <<launcher, override, manifests, opaOnPath, executors, running, recorded, edits>>

(* POST /replay/{trace_id}: _trace_to_audit_entry keeps the tool, the taint*)
(* and what was decided, so replay() finds no world in any entry.          *)
ReplayTrace(w, world) ==
  /\ running = "up" /\ launcher = "api"
  /\ w \in DOMAIN executors /\ world \in recorded
  /\ JudgeByStored("trace", world, w)
  /\ UNCHANGED <<launcher, override, manifests, opaOnPath, executors, running, recorded, edits>>

(* What changes before a launch is a matter of the initial state.         *)
Edit ==
  /\ running = "up"
  /\ edits < MaxEdits
  /\ edits' = edits + 1
  /\ \/ \E f \in ManifestFiles, content \in Engines \cup {NoFile} :
          manifests' = [manifests EXCEPT ![f] = content] /\ UNCHANGED opaOnPath
     \/ opaOnPath' = ~opaOnPath /\ UNCHANGED manifests
  /\ UNCHANGED <<launcher, override, executors, running, recorded, judged>>

EngineNext ==
  \/ \E w \in Ids : Launch(w)
  \/ \E w \in Ids : LaunchFails(w)
  \/ \E agent \in Agents : BindBuilds(agent)
  \/ \E w \in Ids, agent \in Agents \cup {NoAgent} : ExecuteOn(w, agent)
  \/ \E w \in Ids : MainRaises(w)
  \/ \E w, target \in Ids : SwitchActive(w, target)
  \/ \E w, world \in Ids : ReplayEntry(w, world)
  \/ \E w, world \in Ids : ReplayTrace(w, world)
  \/ Edit

EngineSpec == EngineInit /\ [][EngineNext]_engineVars

-----------------------------------------------------------------------------
Judging(kind) == judged' # judged /\ judged'.kind = kind

(* Until a manifest is edited every call is decided by the engine that the *)
(* manifest of the active world names, from config/worlds before worlds:   *)
(* neither the stored engine nor an override, nor a switch in between, has *)
(* a say.                                                                  *)
CallsFollowTheirManifest ==
  judged.kind = "call" /\ edits = 0 =>
    LET own == {f \in ManifestFiles : f[2] = judged.world /\ manifests[f] # NoFile}
    IN  \E f \in own : manifests[f] = judged.engine /\ (f[1] = "worlds" => own = {f})

(* A mapped agent is decided in its world and every other in the fallback, *)
(* whoever asked before and whatever could not be built for them.          *)
AgentsKeepTheirWorlds ==
  judged.kind = "call" /\ launcher = "binder" =>
    judged.world = IF judged.asked \in DOMAIN AgentMap THEN AgentMap[judged.asked]
                   ELSE FallbackWorld

(* Who decides a call is settled by the agent, or the start of the process,*)
(* and the switches since: never by an override, a cache or another agent. *)
ManifestsDecide == CallsFollowTheirManifest /\ AgentsKeepTheirWorlds

(* Which world judges a replay depends on the route.  An entry that comes  *)
(* with its world is judged in another one only when that world cannot be  *)
(* built at the moment.  A trace of the API is judged in the world that the*)
(* API was started with, whatever it was switched to since and whatever    *)
(* world decided the trace, and until an edit by the engine that this      *)
(* world's manifest names.                                                 *)
EntriesKeepTheirWorld ==
  Judging("replay") /\ judged'.world # judged'.asked =>
    \/ judged'.asked = RootWorldId
    \/ Manifest(judged'.asked) = NoFile
    \/ Manifest(judged'.asked) = "opa" /\ ~opaOnPath

TracesGoToTheFirstWorld ==
  Judging("trace") =>
    /\ DOMAIN executors = {judged'.world}
    /\ edits = 0 => judged'.engine = Manifest(judged'.world)

ReplayWorldsSettled == [][EntriesKeepTheirWorld /\ TracesGoToTheFirstWorld]_engineVars
=============================================================================
