---------------------------- MODULE DecisionProofs ----------------------------
(***************************************************************************)
(* Theorems about decisions: the two engines and the provenance behind     *)
(* them, for every set of tools, capabilities and channels, every manifest *)
(* and chains of every length; the manifest that decides, for every set of *)
(* worlds and any history of their files; the policy of the Jira proxy,    *)
(* for any number of overlapping requests; what a manifest's scoped tools  *)
(* let through; and what skill a name stands for in the catalogue, for     *)
(* every directory and every history of it.                                *)
(***************************************************************************)
EXTENDS DecisionInputs, PolicyLemmas, MCResolving, SequenceTheorems,
        WellFoundedInduction

(* One more parent adds that parent's taint to that of the list.           *)
LEMMA OneMoreParent ==
  ASSUME NEW ps \in Seq(Channels), NEW c \in Channels
  PROVE  SomeTainted(Append(ps, c)) <=> SomeTainted(ps) \/ c \in TaintedChannels
<1>1. ASSUME SomeTainted(ps) PROVE SomeTainted(Append(ps, c))
  <2>1. PICK i \in DOMAIN ps : ps[i] \in TaintedChannels
    BY <1>1 DEF SomeTainted
  <2>2. i \in DOMAIN Append(ps, c) /\ Append(ps, c)[i] = ps[i]
    BY <2>1
  <2> QED BY <2>1, <2>2 DEF SomeTainted
<1>2. ASSUME c \in TaintedChannels PROVE SomeTainted(Append(ps, c))
  <2>1. Len(ps) + 1 \in DOMAIN Append(ps, c) /\ Append(ps, c)[Len(ps) + 1] = c
    OBVIOUS
  <2> QED BY <1>2, <2>1 DEF SomeTainted
<1>3. ASSUME SomeTainted(Append(ps, c)) PROVE SomeTainted(ps) \/ c \in TaintedChannels
  <2>1. PICK i \in DOMAIN Append(ps, c) : Append(ps, c)[i] \in TaintedChannels
    BY <1>3 DEF SomeTainted
  <2>2. \/ i \in DOMAIN ps /\ Append(ps, c)[i] = ps[i]
        \/ Append(ps, c)[i] = c
    OBVIOUS
  <2> QED BY <2>1, <2>2 DEF SomeTainted
<1> QED BY <1>1, <1>2, <1>3

LEMMA FromSourceTypes ==
  ASSUME NEW c \in Channels, NEW ps \in Seq(Channels), NEW m \in Modes
  PROVE  /\ FromSource(c, ps, m) \in Provenances
         /\ FromSource(c, ps, m) =
              FromSource(FromSource(c, ps, m).channel, FromSource(c, ps, m).parents,
                         FromSource(c, ps, m).mode)
BY DEF FromSource, Provenances, SomeTainted

(* derive, given a provenance whose flag is the one its chain calls for,   *)
(* returns another: adding a channel to the chain and to the flag commute. *)
LEMMA DeriveCommutes ==
  ASSUME NEW p \in Provenances, NEW c \in Channels,
         p = FromSource(p.channel, p.parents, p.mode)
  PROVE  /\ Derive(p, c) \in Provenances
         /\ Derive(p, c) = FromSource(c, Append(p.parents, p.channel), p.mode)
<1>1. /\ p.channel \in Channels /\ p.parents \in Seq(Channels) /\ p.mode \in Modes
      /\ p.tainted \in BOOLEAN
  BY DEF Provenances
<1>2. p.tainted = (p.channel \in TaintedChannels \/ SomeTainted(p.parents))
  <2>1. p.tainted = FromSource(p.channel, p.parents, p.mode).tainted
    OBVIOUS
  <2> QED BY <2>1 DEF FromSource
<1>3. SomeTainted(Append(p.parents, p.channel)) <=> p.tainted
  BY <1>1, <1>2, OneMoreParent
<1>4. Append(p.parents, p.channel) \in Seq(Channels)
  BY <1>1
<1>5. (p.tainted \/ c \in TaintedChannels)
        = (c \in TaintedChannels \/ SomeTainted(Append(p.parents, p.channel)))
  <2>1. (p.tainted \/ c \in TaintedChannels) \in BOOLEAN
    OBVIOUS
  <2>2. (c \in TaintedChannels \/ SomeTainted(Append(p.parents, p.channel))) \in BOOLEAN
    OBVIOUS
  <2> QED BY <1>3, <2>1, <2>2
<1>6. Derive(p, c) = FromSource(c, Append(p.parents, p.channel), p.mode)
  BY <1>5 DEF Derive, FromSource
<1> QED BY <1>1, <1>4, <1>6, FromSourceTypes

-----------------------------------------------------------------------------
(* What an approval rule of the compiled manifest says about the raw one.  *)
LEMMA AskNeedsEntry ==
  ASSUME NEW c \in Calls, PythonAnswer(c) = ApprovalRequired
  PROVE  /\ c.tool \in manifest.allowedTools
         /\ LET e == manifest.capabilities[c.capability]
            IN  e.form = "mapping" /\ e.approval /\ e.allowed \notin {"missing", "false"}
         /\ ~(c.taint /\ c.sideEffect = "external")
<1>1. /\ c.tool \in World.allowlist
      /\ c.capability \in World.capabilities
      /\ c.capability \in World.approvalRequired
      /\ ~(c.taint /\ c.sideEffect = "external")
  BY DecideAsks DEF PythonAnswer
<1> DEFINE e == manifest.capabilities[c.capability]
<1>2. e.form = "mapping" /\ e.approval
  BY <1>1 DEF World, CompileManifest
<1>3. (e.form = "flag" /\ e.value) \/ (e.form = "mapping" /\ Truthy(e.allowed))
  BY <1>1 DEF World, CompileManifest
<1>4. e.allowed \in {"true", "conditional"}
  BY <1>2, <1>3 DEF Truthy
<1> QED BY <1>1, <1>2, <1>4 DEF World, CompileManifest

(* A result of the chain that lets a call through or asks about it rules   *)
(* out a tainted external request.                                         *)
LEMMA ActsOnlyUntainted ==
  ASSUME NEW c \in Calls, PythonAnswer(c).decision \in {"ALLOW", "ASK"}
  PROVE  ~(c.taint /\ c.sideEffect = "external")
<1>1. PythonAnswer(c) \in PolicyResults
  BY DecideType DEF PythonAnswer
<1>2. PythonAnswer(c) \in {DefaultAllow, ApprovalRequired}
  BY <1>1 DEF PolicyResults, Result, NotAllowlisted, CapabilityNotAllowed,
              DescriptorDrift, TaintedExternal, ApprovalRequired, DefaultAllow
<1>3. CASE PythonAnswer(c) = DefaultAllow
  BY <1>3, DecideAllows DEF PythonAnswer
<1>4. CASE PythonAnswer(c) = ApprovalRequired
  BY <1>4, DecideAsks DEF PythonAnswer
<1> QED BY <1>2, <1>3, <1>4

-----------------------------------------------------------------------------
IInv ==
  /\ TypeOK
  /\ EnginesAgree
  /\ AskOnlyWhatExists
  /\ ProvTypeOK
  /\ FlagIsRecomputable

LEMMA DecisionsStart == DecisionInit => IInv
<1> SUFFICES ASSUME DecisionInit PROVE IInv
  OBVIOUS
<1>1. TypeOK
  BY DEF DecisionInit, Init, TypeOK
<1>2. EnginesAgree
  BY DEF DecisionInit, Init, EnginesAgree
<1>3. AskOnlyWhatExists
  BY ResultsDistinct
  DEF DecisionInit, Init, AskOnlyWhatExists, NoAnswer, ApprovalRequired, Result
<1>4. ProvTypeOK /\ FlagIsRecomputable
  <2>1. ParentLists \subseteq Seq(Channels)
    BY MaxParentsAssumption DEF ParentLists
  <2>2. PICK c \in Channels, ps \in Seq(Channels), m \in Modes : prov = FromSource(c, ps, m)
    BY <2>1 DEF DecisionInit, ProvInit
  <2> QED BY <2>2, FromSourceTypes DEF ProvTypeOK, FlagIsRecomputable
<1> QED BY <1>1, <1>2, <1>3, <1>4 DEF IInv

(* A decision of both engines.                                             *)
LEMMA EvaluatePreserves ==
  ASSUME IInv, NEW c \in Calls, Evaluate(c), UNCHANGED provVars
  PROVE  IInv'
<1>1. /\ call' = c /\ manifest' = manifest
      /\ python' = PythonAnswer(c) /\ opa' = python'
  BY RegoIsDecide DEF Evaluate, PythonAnswer, OpaAnswer
<1>2. TypeOK'
  <2>1. python' \in PolicyResults
    BY <1>1, DecideType DEF PythonAnswer
  <2> QED BY <1>1, <2>1 DEF IInv, TypeOK
<1>3. EnginesAgree'
  BY <1>1 DEF EnginesAgree
<1>4. AskOnlyWhatExists'
  BY <1>1, AskNeedsEntry DEF AskOnlyWhatExists
<1>5. ProvTypeOK' /\ FlagIsRecomputable'
  BY DEF IInv, ProvTypeOK, FlagIsRecomputable, provVars
<1> QED BY <1>2, <1>3, <1>4, <1>5 DEF IInv

(* A decision while OPA fails.                                             *)
LEMMA EvaluateOpaFailsPreserves ==
  ASSUME IInv, NEW c \in Calls, EvaluateOpaFails(c), UNCHANGED provVars
  PROVE  IInv'
<1>1. /\ call' = c /\ manifest' = manifest
      /\ python' = PythonAnswer(c) /\ opa' = Raised
  BY DEF EvaluateOpaFails
<1>2. TypeOK'
  <2>1. python' \in PolicyResults
    BY <1>1, DecideType DEF PythonAnswer
  <2> QED BY <1>1, <2>1 DEF IInv, TypeOK
<1>3. EnginesAgree'
  BY <1>1 DEF EnginesAgree
<1>4. AskOnlyWhatExists'
  <2>1. opa' # ApprovalRequired
    BY <1>1 DEF Raised, ApprovalRequired, Result
  <2> QED BY <1>1, <2>1, AskNeedsEntry DEF AskOnlyWhatExists
<1>5. ProvTypeOK' /\ FlagIsRecomputable'
  BY DEF IInv, ProvTypeOK, FlagIsRecomputable, provVars
<1> QED BY <1>2, <1>3, <1>4, <1>5 DEF IInv

LEMMA DerivePreserves ==
  ASSUME IInv, DeriveStep, UNCHANGED vars
  PROVE  IInv'
<1>1. PICK c \in Channels : prov' = Derive(prov, c)
  BY DEF DeriveStep
<1>2. prov' = FromSource(c, Append(prov.parents, prov.channel), prov.mode)
  BY <1>1, DeriveCommutes DEF IInv, ProvTypeOK, FlagIsRecomputable
<1>3. prov' \in Provenances
  BY <1>1, DeriveCommutes DEF IInv, ProvTypeOK, FlagIsRecomputable
<1>4. ProvTypeOK' /\ FlagIsRecomputable'
  BY <1>2, <1>3 DEF ProvTypeOK, FlagIsRecomputable, FromSource
<1>5. TypeOK' /\ EnginesAgree' /\ AskOnlyWhatExists'
  BY DEF IInv, TypeOK, EnginesAgree, AskOnlyWhatExists, vars
<1> QED BY <1>4, <1>5 DEF IInv

LEMMA DecisionsInductive == IInv /\ [DecisionNext]_decisionVars => IInv'
<1> SUFFICES ASSUME IInv, [DecisionNext]_decisionVars PROVE IInv'
  OBVIOUS
<1>1. CASE UNCHANGED decisionVars
  BY <1>1 DEF decisionVars, vars, provVars, IInv, TypeOK, EnginesAgree, AskOnlyWhatExists,
              ProvTypeOK, FlagIsRecomputable
<1>2. CASE DecisionNext
  BY <1>2, EvaluatePreserves, EvaluateOpaFailsPreserves, DerivePreserves DEF DecisionNext
<1> QED BY <1>1, <1>2

LEMMA DecisionsInvariant == DecisionSpec => []IInv
BY DecisionsStart, DecisionsInductive, PTL DEF DecisionSpec

(* The two engines' answers and the manifest keep their types.             *)
THEOREM DecisionTypeCorrect == DecisionSpec => []TypeOK
<1>1. IInv => TypeOK
  BY DEF IInv
<1> QED BY <1>1, DecisionsInvariant, PTL

(* Whichever engine a world selects, and whatever its manifest and the     *)
(* call, an answer from OPA is the answer of the Python engine: choosing   *)
(* the engine never changes what the proxy decides.                        *)
THEOREM EnginesAlwaysAgree == DecisionSpec => []EnginesAgree
<1>1. IInv => EnginesAgree
  BY DEF IInv
<1> QED BY <1>1, DecisionsInvariant, PTL

(* Neither engine, whatever the manifest, asks a human about a tool or a   *)
(* capability the world does not contain, or about a tainted request to an *)
(* external tool.                                                          *)
THEOREM OnlyWhatExistsIsAsked == DecisionSpec => []AskOnlyWhatExists
<1>1. IInv => AskOnlyWhatExists
  BY DEF IInv
<1> QED BY <1>1, DecisionsInvariant, PTL

(* However provenances are created and derived from one another, the flag  *)
(* given to the policy is the one the recorded chain calls for.            *)
THEOREM FlagAlwaysRecomputable == DecisionSpec => []FlagIsRecomputable
<1>1. IInv => FlagIsRecomputable
  BY DEF IInv
<1> QED BY <1>1, DecisionsInvariant, PTL

(* No derivation, of any length, launders a tainted request or turns a     *)
(* background one interactive.                                             *)
THEOREM DerivationNeverLaunders == DecisionSpec => DeriveNeverLaunders
<1>1. ASSUME ProvTypeOK, DeriveStep
      PROVE  (prov.tainted => prov'.tainted) /\ prov'.mode = prov.mode
  <2>1. PICK c \in Channels : prov' = Derive(prov, c)
    BY <1>1 DEF DeriveStep
  <2>2. prov'.tainted = (prov.tainted \/ c \in TaintedChannels)
    BY <2>1 DEF Derive
  <2> QED BY <2>1, <2>2 DEF Derive
<1>2. IInv => ProvTypeOK
  BY DEF IInv
<1> QED BY <1>1, <1>2, DecisionsInvariant, PTL DEF DeriveNeverLaunders

(* From one tainted channel anywhere in a chain of any length to the       *)
(* answer of either engine: no such request acts on the outside, and none  *)
(* is offered to a human.                                                  *)
THEOREM TaintedChainsNeverAct == DecisionSpec => TaintedChainNeverActs
<1>1. ASSUME IInv, [DecisionNext]_decisionVars,
             prov.channel \in TaintedChannels \/ SomeTainted(prov.parents),
             Decided, call'.sideEffect = "external"
      PROVE  {python'.decision, opa'.decision} \cap {"ALLOW", "ASK"} = {}
  <2>1. PICK c \in Calls : /\ c.taint = prov.tainted
                           /\ Evaluate(c) \/ EvaluateOpaFails(c)
    BY <1>1 DEF Decided
  <2>2. /\ call' = c /\ python' = PythonAnswer(c)
        /\ opa' \in {PythonAnswer(c), Raised}
    BY <2>1, RegoIsDecide DEF Evaluate, EvaluateOpaFails, PythonAnswer, OpaAnswer
  <2>3. prov.tainted = TRUE
    <3>1. prov.tainted = FromSource(prov.channel, prov.parents, prov.mode).tainted
      BY <1>1 DEF IInv, FlagIsRecomputable
    <3>2. prov.tainted
            = (prov.channel \in TaintedChannels \/ SomeTainted(prov.parents))
      BY <3>1 DEF FromSource
    <3> QED BY <1>1, <3>2
  <2>4. PythonAnswer(c).decision \notin {"ALLOW", "ASK"}
    <3>1. c.taint
      BY <2>1, <2>3
    <3>2. c.sideEffect = "external"
      BY <1>1, <2>2
    <3>3. ~(PythonAnswer(c).decision \in {"ALLOW", "ASK"})
      BY <3>1, <3>2, ActsOnlyUntainted
    <3> QED BY <3>3
  <2>5. Raised.decision = "ERROR"
    BY DEF Raised, Result
  <2> QED BY <2>2, <2>4, <2>5
<1> QED BY <1>1, DecisionsInvariant, PTL DEF TaintedChainNeverActs, DecisionSpec

-----------------------------------------------------------------------------
(* Which manifest decides.                                                 *)
JudgedTyped ==
  judged # NothingJudged =>
    /\ judged.kind \in {"call", "replay", "trace"}
    /\ judged.kind = "call" => judged.world \in Ids

(* What Manifest reads, of given files.                                    *)
EngineNamed(there, w) ==
  IF w = RootWorldId THEN there[<<"base", w>>]
  ELSE IF there[<<"config", w>>] # NoFile THEN there[<<"config", w>>]
  ELSE there[<<"worlds", w>>]

(* Until an edit, an executor's active engine is that of its active world, *)
(* whose manifest is there, and so was the engine of the last call.        *)
ManifestsKnown ==
  edits = 0 =>
    /\ \A w \in DOMAIN executors :
         /\ executors[w].activeEngine = EngineNamed(manifests, executors[w].activeWorld)
         /\ executors[w].activeEngine # NoFile
    /\ judged.kind = "call" =>
         judged.engine = EngineNamed(manifests, judged.world) /\ judged.engine # NoFile

(* The binder's executors stay in the world they were built for.           *)
BoundToWorlds ==
  launcher = "binder" =>
    /\ \A w \in DOMAIN executors : executors[w].activeWorld = w
    /\ judged.kind = "call" => judged.world = WorldFor(judged.asked)

(* The API has one executor, and until an edit its stored engine is the    *)
(* one that the manifest of its first world names.                         *)
StoredKnown ==
  launcher = "api" =>
    /\ override = NoOverride
    /\ running = "starting" => DOMAIN executors = {}
    /\ running = "up" => \E w \in Ids : DOMAIN executors = {w}
    /\ edits = 0 => \A w \in DOMAIN executors :
                     executors[w].storedEngine = EngineNamed(manifests, w)

EngineInv == EngineTypeOK /\ JudgedTyped /\ ManifestsKnown /\ BoundToWorlds /\ StoredKnown

LEMMA ManifestTyped ==
  ASSUME EngineTypeOK, NEW w \in Ids
  PROVE  Manifest(w) \in Engines \cup {NoFile}
BY DEF EngineTypeOK, Manifest, ManifestFiles

LEMMA ManifestNames == \A w : Manifest(w) = EngineNamed(manifests, w)
BY DEF Manifest, EngineNamed

(* An executor is built only where a manifest is, and an engine to name.   *)
LEMMA BuiltTyped ==
  ASSUME EngineTypeOK, NEW w \in Ids, CanLaunch(w)
  PROVE  /\ Manifest(w) \in Engines
         /\ StoredEngine(w) \in Engines
         /\ Built(w).activeWorld = w /\ Built(w).activeEngine = Manifest(w)
         /\ Built(w).storedEngine = StoredEngine(w)
<1>1. Manifest(w) \in Engines
  BY ManifestTyped DEF CanLaunch
<1>2. override \in Engines \cup {NoOverride}
  BY DEF EngineTypeOK
<1> QED BY <1>1, <1>2 DEF StoredEngine, Built

LEMMA BuildingKeeps ==
  ASSUME EngineInv, NEW w \in Ids, CanLaunch(w), executors' = WithExecutor(w),
         running' = "up", launcher = "api" => running = "starting",
         UNCHANGED <<launcher, override, manifests, opaOnPath, recorded, judged, edits>>
  PROVE  EngineInv'
<1>1. /\ DOMAIN executors' = DOMAIN executors \cup {w}
      /\ executors'[w] = Built(w)
      /\ \A k \in DOMAIN executors : k # w => executors'[k] = executors[k]
  BY DEF WithExecutor
<1>2. /\ Manifest(w) \in Engines
      /\ StoredEngine(w) \in Engines
      /\ Built(w).activeWorld = w /\ Built(w).activeEngine = Manifest(w)
      /\ Built(w).storedEngine = StoredEngine(w)
  BY BuiltTyped DEF EngineInv
<1>3. manifests' = manifests /\ Manifest(w) = EngineNamed(manifests, w)
  BY ManifestNames
<1>4. Manifest(w) # NoFile
  BY DEF CanLaunch
<1>5. EngineTypeOK'
  <2> DEFINE Shape == [storedEngine : Engines, activeWorld : Ids, activeEngine : Engines]
  <2>1. Built(w) \in Shape
    BY <1>2 DEF Built
  <2>2. \A k \in DOMAIN executors' : executors'[k] \in Shape
    BY <1>1, <2>1 DEF EngineInv, EngineTypeOK
  <2>3. executors' = [k \in DOMAIN executors' |-> executors'[k]]
    BY <1>1 DEF WithExecutor
  <2>4. executors' \in [DOMAIN executors' -> Shape]
    BY <2>2, <2>3
  <2> QED BY <1>1, <2>4 DEF EngineInv, EngineTypeOK
<1>6. JudgedTyped'
  BY DEF EngineInv, JudgedTyped
<1>7. ManifestsKnown'
  <2> SUFFICES ASSUME edits = 0 PROVE ManifestsKnown'
    BY DEF ManifestsKnown
  <2>1. ASSUME NEW k \in DOMAIN executors'
        PROVE  /\ executors'[k].activeEngine
                    = EngineNamed(manifests, executors'[k].activeWorld)
               /\ executors'[k].activeEngine # NoFile
    <3>1. CASE k = w
      BY <1>1, <1>2, <1>3, <1>4, <3>1
    <3>2. CASE k # w
      BY <1>1, <2>1, <3>2 DEF EngineInv, ManifestsKnown
    <3> QED BY <3>1, <3>2
  <2>2. judged.kind = "call" =>
          judged.engine = EngineNamed(manifests, judged.world) /\ judged.engine # NoFile
    BY DEF EngineInv, ManifestsKnown
  <2> QED BY <1>3, <2>1, <2>2 DEF ManifestsKnown
<1>8. BoundToWorlds'
  BY <1>1, <1>2 DEF EngineInv, BoundToWorlds, WorldFor
<1>9. StoredKnown'
  <2> SUFFICES ASSUME launcher = "api" PROVE StoredKnown'
    BY DEF StoredKnown
  <2>1. override = NoOverride /\ DOMAIN executors = {}
    BY DEF EngineInv, StoredKnown
  <2>2. DOMAIN executors' = {w}
    BY <1>1, <2>1
  <2>3. executors'[w].storedEngine = EngineNamed(manifests, w)
    BY <1>1, <1>2, <1>3, <2>1 DEF StoredEngine
  <2> QED BY <1>3, <2>1, <2>2, <2>3 DEF StoredKnown
<1> QED BY <1>5, <1>6, <1>7, <1>8, <1>9 DEF EngineInv

LEMMA EngineInvInductive ==
  ASSUME EngineInv, [EngineNext]_engineVars
  PROVE  EngineInv'
<1>1. ASSUME NEW w \in Ids, Launch(w) PROVE EngineInv'
  BY <1>1, BuildingKeeps DEF Launch
<1>2. ASSUME NEW w \in Ids, LaunchFails(w) PROVE EngineInv'
  BY <1>2 DEF LaunchFails, EngineInv, EngineTypeOK, JudgedTyped, ManifestsKnown, BoundToWorlds,
              StoredKnown
<1>3. ASSUME NEW agent \in Agents, BindBuilds(agent) PROVE EngineInv'
  <2>1. WorldFor(agent) \in Ids
    BY IdsAssumption DEF WorldFor
  <2> QED BY <1>3, <2>1, BuildingKeeps DEF BindBuilds
<1>4. ASSUME NEW w \in Ids, NEW agent \in Agents \cup {NoAgent}, ExecuteOn(w, agent)
      PROVE  EngineInv'
  <2>1. /\ w \in DOMAIN executors
        /\ launcher = "binder" => w = WorldFor(agent)
        /\ UNCHANGED <<launcher, override, manifests, opaOnPath, executors, edits>>
        /\ recorded' = recorded \cup {executors[w].activeWorld}
        /\ running' = IF launcher = "main" THEN "over" ELSE running
        /\ judged' = [kind |-> "call", asked |-> agent, world |-> executors[w].activeWorld,
                      engine |-> executors[w].activeEngine]
    BY <1>4 DEF ExecuteOn, Judge
  <2>2. /\ judged'.kind = "call" /\ judged'.asked = agent
        /\ judged'.world = executors[w].activeWorld
        /\ judged'.engine = executors[w].activeEngine
    BY <2>1
  <2>3. executors[w].activeWorld \in Ids
    BY <2>1 DEF EngineInv, EngineTypeOK
  <2>4. EngineTypeOK'
    BY <2>1, <2>3 DEF EngineInv, EngineTypeOK
  <2>5. JudgedTyped'
    BY <2>2, <2>3 DEF JudgedTyped
  <2>6. ManifestsKnown'
    BY <2>1, <2>2 DEF EngineInv, ManifestsKnown
  <2>7. BoundToWorlds'
    BY <2>1, <2>2 DEF EngineInv, BoundToWorlds, WorldFor
  <2>8. StoredKnown'
    BY <2>1 DEF EngineInv, StoredKnown
  <2> QED BY <2>4, <2>5, <2>6, <2>7, <2>8 DEF EngineInv
<1>5. ASSUME NEW w \in Ids, MainRaises(w) PROVE EngineInv'
  BY <1>5 DEF MainRaises, EngineInv, EngineTypeOK, JudgedTyped, ManifestsKnown, BoundToWorlds,
              StoredKnown
<1>6. ASSUME NEW w \in Ids, NEW target \in Ids, SwitchActive(w, target) PROVE EngineInv'
  <2>1. /\ launcher \in {"api", "library"} /\ w \in DOMAIN executors
        /\ Manifest(target) # NoFile
        /\ executors' = [executors EXCEPT ![w].activeWorld = target,
                                          ![w].activeEngine = Manifest(target)]
        /\ UNCHANGED <<launcher, override, manifests, opaOnPath, running, recorded, judged,
                       edits>>
    BY <1>6 DEF SwitchActive
  <2>2. Manifest(target) \in Engines /\ Manifest(target) = EngineNamed(manifests, target)
    BY <2>1, ManifestTyped, ManifestNames DEF EngineInv
  <2>3. /\ DOMAIN executors' = DOMAIN executors
        /\ executors'[w].storedEngine = executors[w].storedEngine
        /\ executors'[w].activeWorld = target
        /\ executors'[w].activeEngine = Manifest(target)
        /\ \A k \in DOMAIN executors : k # w => executors'[k] = executors[k]
    BY <2>1 DEF EngineInv, EngineTypeOK
  <2>4. EngineTypeOK'
    BY <2>1, <2>2, <2>3 DEF EngineInv, EngineTypeOK
  <2>5. JudgedTyped'
    BY <2>1 DEF EngineInv, JudgedTyped
  <2>6. ManifestsKnown'
    BY <2>1, <2>2, <2>3 DEF EngineInv, ManifestsKnown
  <2>7. BoundToWorlds'
    BY <2>1 DEF BoundToWorlds
  <2>8. StoredKnown'
    BY <2>1, <2>3 DEF EngineInv, StoredKnown
  <2> QED BY <2>4, <2>5, <2>6, <2>7, <2>8 DEF EngineInv
<1>7. ASSUME NEW w \in Ids, NEW world \in Ids,
             ReplayEntry(w, world) \/ ReplayTrace(w, world)
      PROVE  EngineInv'
  <2>1. /\ judged'.kind \in {"replay", "trace"}
        /\ UNCHANGED <<launcher, override, manifests, opaOnPath, executors, running, recorded,
                       edits>>
    BY <1>7 DEF ReplayEntry, ReplayTrace, JudgeByStored, Judge
  <2> QED BY <2>1 DEF EngineInv, EngineTypeOK, JudgedTyped, ManifestsKnown, BoundToWorlds,
                      StoredKnown
<1>8. CASE Edit
  <2>1. /\ edits' = edits + 1 /\ edits < MaxEdits
        /\ UNCHANGED <<launcher, override, executors, running, recorded, judged>>
        /\ \/ \E f \in ManifestFiles, content \in Engines \cup {NoFile} :
                manifests' = [manifests EXCEPT ![f] = content]
           \/ manifests' = manifests
    BY <1>8 DEF Edit
  <2>2. edits \in 0..MaxEdits
    BY DEF EngineInv, EngineTypeOK
  <2>3. EngineTypeOK'
    BY <2>1, <2>2, MaxEditsAssumption DEF EngineInv, EngineTypeOK
  <2>4. JudgedTyped' /\ BoundToWorlds'
    BY <2>1 DEF EngineInv, JudgedTyped, BoundToWorlds, WorldFor
  <2>5. ManifestsKnown'
    BY <2>1, <2>2, MaxEditsAssumption DEF ManifestsKnown
  <2>6. StoredKnown'
    <3>1. edits' # 0
      BY <2>1, <2>2, MaxEditsAssumption
    <3>2. UNCHANGED <<launcher, override, executors, running>>
      BY <2>1
    <3> QED BY <3>1, <3>2, Zenon DEF EngineInv, StoredKnown
  <2> QED BY <2>3, <2>4, <2>5, <2>6 DEF EngineInv
<1>9. CASE UNCHANGED engineVars
  BY <1>9 DEF engineVars, EngineInv, EngineTypeOK, JudgedTyped, ManifestsKnown, BoundToWorlds,
              WorldFor, StoredKnown
<1> QED BY <1>1, <1>2, <1>3, <1>4, <1>5, <1>6, <1>7, <1>8, <1>9 DEF EngineNext

LEMMA EngineStarts == EngineInit => EngineInv
BY MaxEditsAssumption
   DEF EngineInit, EngineInv, EngineTypeOK, JudgedTyped, ManifestsKnown, BoundToWorlds,
       NothingJudged, StoredKnown, Launchers

LEMMA EngineInvHolds == EngineSpec => []EngineInv
BY EngineStarts, EngineInvInductive, PTL DEF EngineSpec

(* Launching, binding, switching and edits keep every variable's type; an  *)
(* executor names engines and a world that exist.                          *)
THEOREM EngineTypeCorrect == EngineSpec => []EngineTypeOK
<1>1. EngineInv => EngineTypeOK
  BY DEF EngineInv
<1> QED BY <1>1, EngineInvHolds, PTL

(* The file that names an engine is the first of two, in their order.      *)
LEMMA NamedByFirst ==
  ASSUME EngineTypeOK, NEW w \in Ids, EngineNamed(manifests, w) # NoFile
  PROVE  LET own == {f \in ManifestFiles : f[2] = w /\ manifests[f] # NoFile}
         IN  \E f \in own : /\ manifests[f] = EngineNamed(manifests, w)
                            /\ f[1] = "worlds" => own = {f}
<1> DEFINE own == {f \in ManifestFiles : f[2] = w /\ manifests[f] # NoFile}
<1>1. CASE w = RootWorldId
  <2>1. <<"base", w>> \in own
    BY <1>1 DEF EngineNamed, ManifestFiles
  <2> QED BY <1>1, <2>1 DEF EngineNamed
<1>2. CASE w # RootWorldId /\ manifests[<<"config", w>>] # NoFile
  <2>1. <<"config", w>> \in own
    BY <1>2 DEF ManifestFiles
  <2> QED BY <1>2, <2>1 DEF EngineNamed
<1>3. CASE w # RootWorldId /\ manifests[<<"config", w>>] = NoFile
  <2>1. <<"worlds", w>> \in own /\ manifests[<<"worlds", w>>] = EngineNamed(manifests, w)
    BY <1>3 DEF ManifestFiles, EngineNamed
  <2>2. \A f \in own : f = <<"worlds", w>>
    BY <1>3 DEF ManifestFiles
  <2> QED BY <2>1, <2>2
<1> QED BY <1>1, <1>2, <1>3

(* With any number of worlds, agents and executors: before an edit a call  *)
(* is decided by the engine that the active world's manifest names, first  *)
(* found first; and an agent of the binder always in its own world.        *)
THEOREM ManifestsAlwaysDecide == EngineSpec => []ManifestsDecide
<1>1. EngineInv => ManifestsDecide
  <2> SUFFICES ASSUME EngineInv PROVE ManifestsDecide
    OBVIOUS
  <2>1. CallsFollowTheirManifest
    <3> SUFFICES ASSUME judged.kind = "call", edits = 0
                 PROVE  LET own == {f \in ManifestFiles : f[2] = judged.world
                                                          /\ manifests[f] # NoFile}
                        IN  \E f \in own : /\ manifests[f] = judged.engine
                                           /\ f[1] = "worlds" => own = {f}
      BY DEF CallsFollowTheirManifest
    <3>1. PICK w \in Ids : w = judged.world
      BY DEF EngineInv, JudgedTyped, NothingJudged
    <3>2. judged.engine = EngineNamed(manifests, w) /\ judged.engine # NoFile
      BY <3>1 DEF EngineInv, ManifestsKnown
    <3> QED BY <3>1, <3>2, NamedByFirst DEF EngineInv
  <2>2. AgentsKeepTheirWorlds
    BY DEF AgentsKeepTheirWorlds, EngineInv, BoundToWorlds, WorldFor
  <2> QED BY <2>1, <2>2 DEF ManifestsDecide
<1> QED BY <1>1, EngineInvHolds, PTL

(* An entry replayed with its world leaves it only when it cannot be built *)
(* at that moment; a trace replayed by the API goes to the API's first     *)
(* world, whose manifest's engine judges it until an edit.                 *)
THEOREM ReplaysKeepTheirWorld == EngineSpec => ReplayWorldsSettled
<1> DEFINE Keep == EntriesKeepTheirWorld /\ TracesGoToTheFirstWorld
<1>1. ASSUME EngineInv, [EngineNext]_engineVars PROVE Keep
  <2>1. CASE judged' = judged
    BY <2>1 DEF Judging, EntriesKeepTheirWorld, TracesGoToTheFirstWorld
  <2>2. CASE judged' # judged /\ judged'.kind \notin {"replay", "trace"}
    BY <2>2 DEF Judging, EntriesKeepTheirWorld, TracesGoToTheFirstWorld
  <2>3. ASSUME judged' # judged, judged'.kind \in {"replay", "trace"}
        PROVE  \E w \in Ids, world \in Ids : ReplayEntry(w, world) \/ ReplayTrace(w, world)
    <3>1. ASSUME NEW w \in Ids, NEW agent \in Agents \cup {NoAgent}, ExecuteOn(w, agent)
          PROVE  FALSE
      BY <2>3, <3>1 DEF ExecuteOn, Judge
    <3> QED BY <1>1, <2>3, <3>1 DEF EngineNext, Launch, LaunchFails, BindBuilds, MainRaises,
                                    SwitchActive, Edit, engineVars
  <2>4. ASSUME NEW w \in Ids, NEW world \in Ids, ReplayEntry(w, world) PROVE Keep
    <3>1. judged'.kind = "replay" /\ judged'.asked = world
      BY <2>4 DEF ReplayEntry, JudgeByStored, Judge
    <3>2. CASE ReplayableIn(world)
      <4>1. judged'.world = world
        BY <2>4, <3>2 DEF ReplayEntry, Judge
      <4> QED BY <3>1, <4>1 DEF Judging, EntriesKeepTheirWorld, TracesGoToTheFirstWorld
    <3>3. CASE ~ReplayableIn(world)
      <4>1. \/ world = RootWorldId
            \/ Manifest(world) = NoFile
            \/ Manifest(world) = "opa" /\ ~opaOnPath
        BY <3>3 DEF ReplayableIn, Works
      <4> QED BY <3>1, <4>1 DEF Judging, EntriesKeepTheirWorld, TracesGoToTheFirstWorld
    <3> QED BY <3>2, <3>3
  <2>5. ASSUME NEW w \in Ids, NEW world \in Ids, ReplayTrace(w, world) PROVE Keep
    <3>1. /\ judged'.kind = "trace" /\ judged'.world = w
          /\ judged'.engine = executors[w].storedEngine
          /\ launcher = "api" /\ running = "up" /\ w \in DOMAIN executors
      BY <2>5 DEF ReplayTrace, JudgeByStored, Judge
    <3>2. PICK v \in Ids : DOMAIN executors = {v}
      BY <1>1, <3>1, Zenon DEF EngineInv, StoredKnown
    <3>3. v = w /\ DOMAIN executors = {w}
      BY <3>1, <3>2
    <3>4. edits = 0 => executors[w].storedEngine = EngineNamed(manifests, w)
      BY <1>1, <3>1, Zenon DEF EngineInv, StoredKnown
    <3>5. edits = 0 => executors[w].storedEngine = Manifest(w)
      BY <3>4 DEF Manifest, EngineNamed
    <3> QED BY <3>1, <3>3, <3>5 DEF Judging, EntriesKeepTheirWorld, TracesGoToTheFirstWorld
  <2> HIDE DEF Keep
  <2> QED BY <2>1, <2>2, <2>3, <2>4, <2>5 DEF Keep
<1>2. EngineInv /\ [EngineNext]_engineVars => [Keep]_engineVars
  BY <1>1
<1> HIDE DEF Keep
<1>3. EngineSpec => [][Keep]_engineVars
  BY <1>2, EngineInvHolds, PTL DEF EngineSpec
<1> QED BY <1>3 DEF ReplayWorldsSettled, Keep

-----------------------------------------------------------------------------
(* The Jira proxy.  What reaches the upstream is constrained.              *)
ArgsConstrained(tool, args) ==
  /\ args.jql \in {"absent", "allowed", "conjunction"}
  /\ args.jql = "absent" =>
       args.query \in {"absent", "allowed", "conjunction"} /\ tool # ReadIssue

LEMMA JiraDecideShape ==
  ASSUME NEW tool \in JiraTools, NEW args \in ClientArgs
  PROVE  /\ JiraDecide(tool, args).args \in CallArgs
         /\ JiraDecide(tool, args).decision \in {"DENY", "SIMULATE", "ALLOW", "MODIFY"}
         /\ JiraDecide(tool, args).decision \in {"ALLOW", "MODIFY"} <=> CanExpose(tool)
         /\ CanExpose(tool) /\ ~DecideRaises(tool, args) =>
              ArgsConstrained(tool, JiraDecide(tool, args).args)
<1> DEFINE d == JiraDecide(tool, args)
<1>1. CASE ~CanExpose(tool)
  <2>1. d.args = args /\ d.decision \in {"DENY", "SIMULATE"}
    BY <1>1 DEF JiraDecide, CanExpose
  <2>2. args \in CallArgs
    BY DEF ClientArgs, CallArgs, ArgForms
  <2> QED BY <1>1, <2>1, <2>2
<1>2. CASE CanExpose(tool) /\ (args.jql # "absent" \/ tool = ReadIssue)
  <2>1. d = [decision |-> "MODIFY", args |-> [args EXCEPT !.jql = Constrained(@)]]
    BY <1>2 DEF JiraDecide, CanExpose
  <2>2. /\ Constrained(args.jql) \in {"allowed", "conjunction"}
    BY DEF Constrained
  <2>3. d.args \in CallArgs /\ d.args.jql \in {"allowed", "conjunction"}
    BY <2>1, <2>2 DEF ClientArgs, CallArgs, ArgForms
  <2> QED BY <1>2, <2>1, <2>3 DEF ArgsConstrained
<1>3. CASE CanExpose(tool) /\ args.jql = "absent" /\ tool # ReadIssue /\ args.query # "absent"
  <2>1. d = [decision |-> "MODIFY", args |-> [args EXCEPT !.query = Constrained(@)]]
    BY <1>3 DEF JiraDecide, CanExpose
  <2>2. /\ Constrained(args.query) \in {"allowed", "conjunction"}
    BY DEF Constrained
  <2>3. /\ d.args \in CallArgs /\ d.args.query \in {"allowed", "conjunction"}
        /\ d.args.jql = "absent"
    BY <1>3, <2>1, <2>2 DEF ClientArgs, CallArgs, ArgForms
  <2> QED BY <1>3, <2>1, <2>3 DEF ArgsConstrained
<1>4. CASE CanExpose(tool) /\ args.jql = "absent" /\ tool # ReadIssue /\ args.query = "absent"
  <2>1. d = [decision |-> "ALLOW", args |-> args]
    BY <1>4 DEF JiraDecide, CanExpose
  <2>2. args \in CallArgs
    BY DEF ClientArgs, CallArgs, ArgForms
  <2> QED BY <1>4, <2>1, <2>2 DEF ArgsConstrained
<1> QED BY <1>1, <1>2, <1>3, <1>4

(* Where a request is tells what there is of it in the log and upstream.   *)
Early == {"unsent", "listing", "listed"}
Arrived(r) == \E sent \in received : sent.request = r

RequestsAccounted ==
  \A r \in JiraRequests :
    /\ requests[r].stage \in Early =>
         ~Arrived(r) /\ \A line \in decisionLog : line.request # r
    /\ requests[r].stage = "calling" => Arrived(r)
    /\ requests[r].answer # NoAnswerYet => requests[r].stage = "answered"
    /\ requests[r].answer \in {"denied", "simulated"} => ~Arrived(r)
    /\ requests[r].answer = "result" => Arrived(r)
    /\ requests[r].stage = "listed" => \A t \in requests[r].shown : CanExpose(t)

CallsConstrained == \A sent \in received : ArgsConstrained(sent.tool, sent.args)

JiraInv == JiraTypeOK /\ RequestsAccounted /\ CallsConstrained /\ LogTellsForwarded

(* Where a step takes request r, and that it takes no other anywhere.      *)
Becomes(r, stage, answer, shown) ==
  /\ requests' \in [JiraRequests ->
                      [stage : Stages, answer : Answers, shown : SUBSET JiraTools]]
  /\ requests'[r].stage = stage /\ requests'[r].answer = answer /\ requests'[r].shown = shown
  /\ \A q \in JiraRequests : q # r => requests'[q] = requests[q]

(* A step of one request that logs and sends nothing.                      *)
LEMMA QuietRequestStep ==
  ASSUME JiraInv, NEW r \in JiraRequests, NEW stage \in Stages, NEW answer \in Answers,
         NEW shown \in SUBSET JiraTools,
         Becomes(r, stage, answer, shown),
         UNCHANGED <<policy, decisionLog, received>>, upstream' \in {"up", "gone", "closed"},
         requests[r].answer # "error",
         stage \in Early => requests[r].stage \in Early,
         stage = "calling" => Arrived(r),
         answer # NoAnswerYet => stage = "answered",
         answer \in {"denied", "simulated"} => ~Arrived(r),
         answer = "result" => Arrived(r),
         stage = "listed" => \A t \in shown : CanExpose(t)
  PROVE  JiraInv'
<1>1. /\ requests'[r].stage = stage /\ requests'[r].answer = answer
      /\ requests'[r].shown = shown
      /\ \A q \in JiraRequests : q # r => requests'[q] = requests[q]
      /\ requests' \in [JiraRequests ->
                          [stage : Stages, answer : Answers, shown : SUBSET JiraTools]]
  BY DEF Becomes
<1>2. JiraTypeOK'
  BY <1>1 DEF JiraInv, JiraTypeOK
<1>3. RequestsAccounted'
  BY <1>1 DEF JiraInv, RequestsAccounted, Arrived, CanExpose
<1>4. CallsConstrained'
  BY DEF JiraInv, CallsConstrained
<1>5. LogTellsForwarded'
  <2>1. \A line \in decisionLog : line.request \in JiraRequests
    BY DEF JiraInv, JiraTypeOK
  <2> QED BY <1>1, <2>1 DEF JiraInv, LogTellsForwarded, Forwarded
<1> QED BY <1>2, <1>3, <1>4, <1>5 DEF JiraInv

(* Logging the decision of a request that was unsent, and what follows.    *)
LEMMA LoggingKeeps ==
  ASSUME JiraInv, NEW r \in JiraRequests, NEW tool \in JiraTools, NEW args \in ClientArgs,
         NEW d, d = JiraDecide(tool, args), ~DecideRaises(tool, args),
         requests[r].stage = "unsent",
         NEW stage \in {"calling", "answered"}, NEW answer \in Answers,
         NEW shown \in SUBSET JiraTools,
         Becomes(r, stage, answer, shown),
         decisionLog' = decisionLog \cup {LogLine(r, tool, d)},
         \/ /\ d.decision \in {"DENY", "SIMULATE"}
            /\ stage = "answered" /\ answer \in {"denied", "simulated"}
            /\ received' = received
         \/ /\ d.decision \in {"ALLOW", "MODIFY"}
            /\ stage = "calling" /\ answer = NoAnswerYet
            /\ received' = received \cup {[request |-> r, tool |-> tool, args |-> d.args]}
         \/ /\ d.decision \in {"ALLOW", "MODIFY"}
            /\ stage = "answered" /\ answer = "error"
            /\ received' = received,
         UNCHANGED <<policy, upstream>>
  PROVE  JiraInv'
<1> DEFINE line == LogLine(r, tool, d)
           sent == [request |-> r, tool |-> tool, args |-> d.args]
<1>1. /\ requests'[r].stage = stage /\ requests'[r].answer = answer
      /\ requests'[r].shown = shown
      /\ \A q \in JiraRequests : q # r => requests'[q] = requests[q]
      /\ requests' \in [JiraRequests ->
                          [stage : Stages, answer : Answers, shown : SUBSET JiraTools]]
  BY DEF Becomes
<1>2. d.args \in CallArgs
  BY JiraDecideShape
<1>3. /\ line.request = r /\ line.tool = tool /\ line.args = d.args
      /\ line.decision = d.decision
      /\ sent.request = r /\ sent.tool = tool /\ sent.args = d.args
  BY DEF LogLine
<1>4. received' = received \/ received' = received \cup {sent}
  OBVIOUS
<1>5. stage = "calling" => received' = received \cup {sent} /\ d.decision \in {"ALLOW", "MODIFY"}
  OBVIOUS
<1>6. /\ stage = "answered" => received' = received /\ answer # NoAnswerYet /\ answer # "result"
      /\ stage = "answered" /\ d.decision \in {"ALLOW", "MODIFY"} => answer = "error"
      /\ stage = "calling" => answer = NoAnswerYet
  BY DEF NoAnswerYet
<1> HIDE DEF line, sent
<1>7. /\ ~Arrived(r) /\ \A l \in decisionLog : l.request # r
  BY DEF JiraInv, RequestsAccounted, Early
<1>8. JiraTypeOK'
  <2>1. \A l \in decisionLog' :
          l.request \in JiraRequests /\ l.tool \in JiraTools /\ l.args \in CallArgs
    BY <1>2, <1>3 DEF JiraInv, JiraTypeOK, line
  <2>2. \A c \in received' :
          c.request \in JiraRequests /\ c.tool \in JiraTools /\ c.args \in CallArgs
    BY <1>2, <1>3, <1>4 DEF JiraInv, JiraTypeOK
  <2> QED BY <1>1, <2>1, <2>2 DEF JiraInv, JiraTypeOK
<1>9. RequestsAccounted'
  <2> SUFFICES ASSUME NEW q \in JiraRequests
               PROVE  /\ requests'[q].stage \in Early =>
                           ~Arrived(q)' /\ \A l \in decisionLog' : l.request # q
                      /\ requests'[q].stage = "calling" => Arrived(q)'
                      /\ requests'[q].answer # NoAnswerYet => requests'[q].stage = "answered"
                      /\ requests'[q].answer \in {"denied", "simulated"} => ~Arrived(q)'
                      /\ requests'[q].answer = "result" => Arrived(q)'
                      /\ requests'[q].stage = "listed" =>
                           \A t \in requests'[q].shown : CanExpose(t)'
    BY DEF RequestsAccounted
  <2>1. CASE q = r
    <3>1. /\ requests'[q].stage = stage /\ requests'[q].answer = answer
          /\ stage \notin Early /\ stage # "listed"
      BY <1>1, <2>1 DEF Early
    <3>2. stage = "calling" => Arrived(q)'
      BY <1>3, <1>5, <2>1 DEF Arrived
    <3>3. stage = "answered" => ~Arrived(q)'
      BY <1>6, <1>7, <2>1 DEF Arrived
    <3>4. CASE stage = "calling"
      BY <1>6, <3>1, <3>2, <3>4 DEF NoAnswerYet
    <3>5. CASE stage = "answered"
      BY <1>6, <3>1, <3>3, <3>5
    <3> QED BY <3>4, <3>5
  <2>2. CASE q # r
    <3>1. requests'[q] = requests[q]
      BY <1>1, <2>2
    <3>2. Arrived(q)' <=> Arrived(q)
      BY <1>3, <1>4, <2>2 DEF Arrived
    <3>3. (\A l \in decisionLog' : l.request # q) <=> (\A l \in decisionLog : l.request # q)
      BY <1>3, <2>2 DEF line
    <3>4. \A t : CanExpose(t)' <=> CanExpose(t)
      BY DEF CanExpose
    <3> QED BY <3>1, <3>2, <3>3, <3>4 DEF JiraInv, RequestsAccounted
  <2> QED BY <2>1, <2>2
<1>10. CallsConstrained'
  <2>1. d.decision \in {"ALLOW", "MODIFY"} => ArgsConstrained(tool, d.args)
    BY JiraDecideShape
  <2>2. ASSUME received' = received \cup {sent}, d.decision \in {"ALLOW", "MODIFY"}
        PROVE  CallsConstrained'
    BY <1>3, <2>1, <2>2 DEF JiraInv, CallsConstrained
  <2>3. ASSUME received' = received PROVE CallsConstrained'
    BY <2>3 DEF JiraInv, CallsConstrained
  <2> QED BY <1>5, <1>6, <2>2, <2>3
<1>11. LogTellsForwarded'
  <2>1. Forwarded' = Forwarded \cup (IF d.decision \in {"ALLOW", "MODIFY"} THEN {line} ELSE {})
    BY <1>3 DEF Forwarded, line
  <2>2. ASSUME NEW c \in received'
        PROVE  \E l \in Forwarded' : <<l.request, l.tool, l.args>> = <<c.request, c.tool, c.args>>
    <3>1. CASE c \in received
      BY <2>1, <3>1 DEF JiraInv, LogTellsForwarded
    <3>2. CASE c \notin received
      <4>1. c = sent /\ stage = "calling"
        BY <1>4, <1>6, <2>2, <3>2
      <4> QED BY <1>3, <1>5, <2>1, <4>1
    <3> QED BY <3>1, <3>2
  <2>3. ASSUME NEW l \in Forwarded'
        PROVE  (\E c \in received' : c.request = l.request) \/ requests'[l.request].answer = "error"
    <3>1. CASE l \in Forwarded
      <4>1. l.request \in JiraRequests /\ l.request # r
        BY <1>7, <3>1 DEF Forwarded, JiraInv, JiraTypeOK
      <4> QED BY <1>1, <1>4, <3>1, <4>1 DEF JiraInv, LogTellsForwarded
    <3>2. CASE l \notin Forwarded
      <4>1. l = line /\ d.decision \in {"ALLOW", "MODIFY"}
        BY <2>1, <2>3, <3>2
      <4>2. CASE stage = "calling"
        BY <1>3, <1>5, <4>1, <4>2
      <4>3. CASE stage = "answered"
        BY <1>1, <1>3, <1>6, <4>1, <4>3
      <4> QED BY <4>2, <4>3
    <3> QED BY <3>1, <3>2
  <2> QED BY <2>2, <2>3 DEF LogTellsForwarded
<1> QED BY <1>8, <1>9, <1>10, <1>11 DEF JiraInv

LEMMA JiraInvInductive ==
  ASSUME JiraInv, [JiraNext]_jiraVars
  PROVE  JiraInv'
<1>1. /\ requests \in [JiraRequests ->
                         [stage : Stages, answer : Answers, shown : SUBSET JiraTools]]
      /\ upstream \in {"up", "gone", "closed"}
  BY DEF JiraInv, JiraTypeOK
<1>2. ASSUME NEW r \in JiraRequests PROVE
        /\ requests[r].stage \in Stages /\ requests[r].answer \in Answers
        /\ requests[r].shown \in SUBSET JiraTools
        /\ requests[r].stage # "answered" => requests[r].answer = NoAnswerYet
  BY <1>1 DEF JiraInv, RequestsAccounted
<1>3. ASSUME NEW r \in JiraRequests, AskList(r) PROVE JiraInv'
  <2>1. PICK shown \in SUBSET JiraTools : shown = requests[r].shown
    BY <1>2
  <2>2. /\ requests[r].stage = "unsent" /\ requests[r].answer = NoAnswerYet
        /\ Becomes(r, "listing", NoAnswerYet, shown)
        /\ UNCHANGED <<policy, upstream, decisionLog, received>>
    BY <1>1, <1>2, <1>3, <2>1 DEF AskList, Becomes, Stages
  <2>3. /\ "listing" \in Stages /\ "listing" \in Early /\ requests[r].stage \in Early
        /\ NoAnswerYet \in Answers
        /\ NoAnswerYet \notin {"denied", "simulated", "result", "error"}
        /\ upstream' \in {"up", "gone", "closed"}
    BY <1>1, <2>2 DEF Early, Stages, NoAnswerYet, Answers
  <2> QED BY <2>1, <2>2, <2>3, QuietRequestStep
<1>4. ASSUME NEW r \in JiraRequests, NEW offered \in SUBSET JiraTools, ListAnswered(r, offered)
      PROVE  JiraInv'
  <2>1. PICK shown \in SUBSET JiraTools : shown = {t \in offered : CanExpose(t)}
    OBVIOUS
  <2>2. /\ requests[r].stage = "listing" /\ requests[r].answer = NoAnswerYet
        /\ UNCHANGED <<policy, upstream, decisionLog, received>>
    BY <1>2, <1>4, <2>1 DEF ListAnswered
  <2>3. Becomes(r, "listed", NoAnswerYet, shown)
    BY <1>1, <1>2, <1>4, <2>1, <2>2 DEF ListAnswered, Becomes, Stages
  <2>4. /\ "listed" \in Stages /\ "listed" \in Early /\ requests[r].stage \in Early
        /\ NoAnswerYet \in Answers
        /\ NoAnswerYet \notin {"denied", "simulated", "result", "error"}
        /\ upstream' \in {"up", "gone", "closed"}
        /\ \A t \in shown : CanExpose(t)
    BY <1>1, <2>1, <2>2 DEF Early, Stages, NoAnswerYet, Answers
  <2> QED BY <2>1, <2>2, <2>3, <2>4, QuietRequestStep
<1>5. ASSUME NEW r \in JiraRequests, NEW tool \in JiraTools, NEW args \in ClientArgs,
             CallRaises(r, tool, args)
      PROVE  JiraInv'
  <2>1. PICK shown \in SUBSET JiraTools : shown = requests[r].shown
    BY <1>2
  <2>2. /\ requests[r].stage = "unsent" /\ requests[r].answer = NoAnswerYet
        /\ Becomes(r, "answered", "error", shown)
        /\ UNCHANGED <<policy, upstream, decisionLog, received>>
    BY <1>1, <1>2, <1>5, <2>1 DEF CallRaises, Answered, Becomes, Stages, Answers
  <2>3. ~Arrived(r)
    BY <2>2 DEF JiraInv, RequestsAccounted, Early
  <2> QED BY <1>1, <2>2, <2>3, QuietRequestStep DEF Early, Stages, Answers, NoAnswerYet
<1>6. ASSUME NEW r \in JiraRequests, NEW tool \in JiraTools, NEW args \in ClientArgs,
             CallRefused(r, tool, args)
      PROVE  JiraInv'
  <2>1. PICK shown \in SUBSET JiraTools : shown = requests[r].shown
    BY <1>2
  <2>2. PICK d : d = JiraDecide(tool, args)
    OBVIOUS
  <2>3. PICK answer \in {"denied", "simulated"} :
               answer = IF d.decision = "DENY" THEN "denied" ELSE "simulated"
    OBVIOUS
  <2>4. /\ requests[r].stage = "unsent" /\ ~DecideRaises(tool, args)
        /\ d.decision \in {"DENY", "SIMULATE"}
        /\ decisionLog' = decisionLog \cup {LogLine(r, tool, d)}
        /\ requests' = Answered(r, answer)
        /\ UNCHANGED <<policy, upstream, received>>
    BY <1>6, <2>2, <2>3 DEF CallRefused
  <2>5. answer \in Answers
    BY DEF Answers
  <2>6. Becomes(r, "answered", answer, shown)
    BY <1>1, <1>2, <2>1, <2>4, <2>5 DEF Answered, Becomes, Stages
  <2> QED BY <2>2, <2>4, <2>5, <2>6, LoggingKeeps
<1>7. ASSUME NEW r \in JiraRequests, NEW tool \in JiraTools, NEW args \in ClientArgs,
             CallForwarded(r, tool, args)
      PROVE  JiraInv'
  <2>1. PICK shown \in SUBSET JiraTools : shown = requests[r].shown
    BY <1>2
  <2>2. PICK d : d = JiraDecide(tool, args)
    OBVIOUS
  <2>3. /\ requests[r].stage = "unsent" /\ ~DecideRaises(tool, args)
        /\ requests[r].answer = NoAnswerYet
        /\ d.decision \in {"ALLOW", "MODIFY"}
        /\ decisionLog' = decisionLog \cup {LogLine(r, tool, d)}
        /\ UNCHANGED <<policy, upstream>>
    BY <1>2, <1>7, <2>2 DEF CallForwarded
  <2>4. CASE upstream = "up"
    <3>1. /\ received' = received \cup {[request |-> r, tool |-> tool, args |-> d.args]}
          /\ requests' = [requests EXCEPT ![r].stage = "calling"]
      BY <1>7, <2>2, <2>4 DEF CallForwarded
    <3>2. Becomes(r, "calling", NoAnswerYet, shown)
      BY <1>1, <1>2, <2>1, <2>3, <3>1 DEF Becomes, Stages
    <3>3. NoAnswerYet \in Answers
      BY DEF Answers
    <3> QED BY <2>2, <2>3, <3>1, <3>2, <3>3, LoggingKeeps
  <2>5. CASE upstream # "up"
    <3>1. requests' = Answered(r, "error") /\ received' = received
      BY <1>7, <2>2, <2>5 DEF CallForwarded
    <3>2. "error" \in Answers
      BY DEF Answers
    <3>3. Becomes(r, "answered", "error", shown)
      BY <1>1, <1>2, <2>1, <3>1, <3>2 DEF Answered, Becomes, Stages
    <3> QED BY <2>2, <2>3, <3>1, <3>2, <3>3, LoggingKeeps
  <2> QED BY <2>4, <2>5
<1>8. ASSUME NEW r \in JiraRequests, CallAnswered(r) PROVE JiraInv'
  <2>1. PICK shown \in SUBSET JiraTools : shown = requests[r].shown
    BY <1>2
  <2>2. /\ requests[r].stage = "calling" /\ requests[r].answer = NoAnswerYet
        /\ Becomes(r, "answered", "result", shown)
        /\ UNCHANGED <<policy, upstream, decisionLog, received>>
    BY <1>1, <1>2, <1>8, <2>1 DEF CallAnswered, Answered, Becomes, Stages, Answers
  <2>3. Arrived(r)
    BY <2>2 DEF JiraInv, RequestsAccounted
  <2> QED BY <1>1, <2>2, <2>3, QuietRequestStep DEF Early, Stages, Answers, NoAnswerYet
<1>9. CASE UpstreamEnds
  BY <1>9 DEF UpstreamEnds, JiraInv, JiraTypeOK, RequestsAccounted, CallsConstrained,
              LogTellsForwarded, Forwarded, Arrived, CanExpose
<1>10. ASSUME NEW r \in JiraRequests, WaitFails(r) PROVE JiraInv'
  <2>1. PICK shown \in SUBSET JiraTools : shown = requests[r].shown
    BY <1>2
  <2>2. /\ requests[r].stage \in {"listing", "calling"} /\ requests[r].answer = NoAnswerYet
        /\ Becomes(r, "answered", "error", shown)
        /\ UNCHANGED <<policy, upstream, decisionLog, received>>
    BY <1>1, <1>2, <1>10, <2>1 DEF WaitFails, Answered, Becomes, Stages, Answers
  <2> QED BY <1>1, <2>2, QuietRequestStep DEF Early, Stages, Answers, NoAnswerYet
<1>11. CASE ClientLeaves
  <2>1. /\ upstream' = "closed" /\ UNCHANGED <<policy, decisionLog, received>>
        /\ requests' = [r \in JiraRequests |->
                          IF requests[r].stage \in {"listing", "calling"}
                          THEN [requests[r] EXCEPT !.stage = "cut"] ELSE requests[r]]
    BY <1>11 DEF ClientLeaves
  <2>2. ASSUME NEW r \in JiraRequests
        PROVE  \/ requests'[r] = requests[r]
               \/ /\ requests'[r].stage = "cut"
                  /\ requests'[r].answer = requests[r].answer
                  /\ requests'[r].shown = requests[r].shown
                  /\ requests[r].stage \in {"listing", "calling"}
                  /\ requests'[r] \in [stage : Stages, answer : Answers, shown : SUBSET JiraTools]
    BY <1>1, <2>1 DEF Stages
  <2>3. \A r \in JiraRequests :
          requests'[r] \in [stage : Stages, answer : Answers, shown : SUBSET JiraTools]
    BY <1>1, <2>2
  <2>4. requests' \in [JiraRequests -> [stage : Stages, answer : Answers, shown : SUBSET JiraTools]]
    BY <2>1, <2>3
  <2>5. JiraTypeOK'
    BY <2>1, <2>4 DEF JiraInv, JiraTypeOK
  <2>6. \A r \in JiraRequests : (Arrived(r)' <=> Arrived(r)) /\ \A t : CanExpose(t)' <=> CanExpose(t)
    BY <2>1 DEF Arrived, CanExpose
  <2>7. RequestsAccounted'
    BY <1>2, <2>1, <2>2, <2>6 DEF JiraInv, RequestsAccounted, Early, NoAnswerYet
  <2>8. CallsConstrained' /\ LogTellsForwarded'
    <3>1. \A line \in decisionLog : line.request \in JiraRequests
      BY DEF JiraInv, JiraTypeOK
    <3>2. \A r \in JiraRequests : requests'[r].answer = requests[r].answer
      BY <2>2
    <3> QED BY <2>1, <3>1, <3>2 DEF JiraInv, CallsConstrained, LogTellsForwarded, Forwarded
  <2> QED BY <2>5, <2>7, <2>8 DEF JiraInv
<1>12. CASE UNCHANGED jiraVars
  BY <1>12 DEF jiraVars, JiraInv, JiraTypeOK, RequestsAccounted, CallsConstrained,
               LogTellsForwarded, Forwarded, Arrived, CanExpose
<1> QED BY <1>3, <1>4, <1>5, <1>6, <1>7, <1>8, <1>9, <1>10, <1>11, <1>12 DEF JiraNext

LEMMA JiraStarts == JiraInit => JiraInv
<1> SUFFICES ASSUME JiraInit PROVE JiraInv
    OBVIOUS
<1>1. /\ policy \in Policies /\ upstream = "up" /\ decisionLog = {} /\ received = {}
      /\ \A r \in JiraRequests : /\ requests[r].stage = "unsent"
                                 /\ requests[r].answer = NoAnswerYet
                                 /\ requests[r].shown = {}
      /\ requests \in [JiraRequests ->
                         [stage : Stages, answer : Answers, shown : SUBSET JiraTools]]
  BY DEF JiraInit, Stages, Answers
<1> QED BY <1>1 DEF JiraInv, JiraTypeOK, RequestsAccounted, CallsConstrained,
                    LogTellsForwarded, Forwarded, Arrived, NoAnswerYet

LEMMA JiraInvHolds == JiraSpec => []JiraInv
BY JiraStarts, JiraInvInductive, PTL DEF JiraSpec

(* The variables of the Jira proxy keep their types for any number of      *)
(* overlapping requests.                                                   *)
THEOREM JiraTypeCorrect == JiraSpec => []JiraTypeOK
<1>1. JiraInv => JiraTypeOK
  BY DEF JiraInv
<1> QED BY <1>1, JiraInvHolds, PTL

(* For every policy file, every set of tools and any number of overlapping *)
(* requests: what a client is shown it may call, no query of its own alone *)
(* reaches the upstream, the log shows what was let through, and an answer *)
(* tells whether the upstream received the call.                           *)
THEOREM JiraAlwaysAccounted == JiraSpec => []JiraAccounted
<1>1. JiraInv => JiraAccounted
  <2> SUFFICES ASSUME JiraInv PROVE JiraAccounted
    OBVIOUS
  <2>1. ShownIsCallable
    <3> SUFFICES ASSUME NEW r \in JiraRequests, NEW t \in JiraTools, NEW args \in ClientArgs,
                        requests[r].stage = "listed", t \in requests[r].shown
                 PROVE  JiraDecide(t, args).decision \in {"ALLOW", "MODIFY"}
      BY DEF ShownIsCallable
    <3>1. CanExpose(t)
      BY DEF JiraInv, RequestsAccounted
    <3> QED BY <3>1, JiraDecideShape
  <2>2. QueriesConstrained
    BY DEF JiraInv, CallsConstrained, ArgsConstrained, QueriesConstrained
  <2>3. JiraAnswersTellEffect
    BY DEF JiraInv, RequestsAccounted, Arrived, JiraAnswersTellEffect
  <2> QED BY <2>1, <2>2, <2>3 DEF JiraInv, JiraAccounted
<1> QED BY <1>1, JiraInvHolds, PTL

-----------------------------------------------------------------------------
(* Scoped tools.  What a definition that parses makes of an argument.      *)
RawArgLists == UNION {[as -> RawArgs] : as \in SUBSET Args}

(* The call that entered last was one of a tool of the start world, with   *)
(* what its handler makes of a payload, and not tainted if the tool is     *)
(* exposed and external.                                                   *)
EnteredByTool ==
  entered # NotEntered =>
    /\ entered.name \in DOMAIN toolNames
    /\ entered.payload \in Payloads
    /\ entered.base = toolNames[entered.name].base
    /\ entered.args = HandlerArgs(toolNames[entered.name], entered.payload)
    /\ entered.taint /\ entered.name \in Allowlists[StartWorld] =>
         toolNames[entered.name].effect # "external"

(* The registry is that of the start world, from the start to the end.     *)
RegistryOfStart ==
  IF phase = "up"
  THEN /\ toolNames = Registry(sections[StartWorld])
       /\ Buildable(sections[StartWorld])
  ELSE DOMAIN toolNames = {} /\ entered = NotEntered

ScopedInv ==
  /\ \A w \in ScopedWorlds : sections[w] \in Sections[w]
  /\ phase \in {"starting", "up", "failed"}
  /\ activeWorld \in ScopedWorlds
  /\ mutated \subseteq DOMAIN toolNames
  /\ RegistryOfStart
  /\ EnteredByTool

LEMMA ParsedArg ==
  ASSUME NEW raw \in RawArgs, ParseArg(raw).source = "literal"
  PROVE  ParseArg(raw).value = Str[raw.value] /\ Str[raw.value] \in Values
<1>1. \/ ParseArg(raw).source # "literal"
      \/ ParseArg(raw) = [source |-> "literal", value |-> Str[raw.value]]
  <2>1. Malformed.source # "literal"
    BY DEF Malformed
  <2>2. CASE raw.kinds = {"literal"} /\ raw.field
    BY <2>2 DEF ParseArg
  <2>3. CASE ~(raw.kinds = {"literal"} /\ raw.field) /\ (raw.kinds = {"actor_input"} \/ (raw.kinds = {"context_ref"} /\ raw.field))
    <3>1. ParseArg(raw).source = CHOOSE k \in raw.kinds : TRUE
      BY <2>3 DEF ParseArg
    <3>2. (CHOOSE k \in raw.kinds : TRUE) \in raw.kinds
      BY <2>3
    <3> QED BY <2>3, <3>1, <3>2
  <2>4. CASE ~(raw.kinds = {"literal"} /\ raw.field) /\ ~(raw.kinds = {"actor_input"} \/ (raw.kinds = {"context_ref"} /\ raw.field))
    BY <2>1, <2>4 DEF ParseArg
  <2> QED BY <2>2, <2>3, <2>4
<1>2. raw.value \in Values
  BY DEF RawArgs
<1> QED BY <1>1, <1>2, StrAssumption DEF StrAssumption

(* What scoped_handler passes on, of a tool made by a definition.          *)
LEMMA HandlerArgsOfScoped ==
  ASSUME NEW def, def.args \in RawArgLists, NEW p \in Payloads
  PROVE  LET got == HandlerArgs(ScopedTool(def), p)
         IN  /\ got \in Payloads
             /\ DOMAIN got = ArgsFrom(def, "literal") \cup (DOMAIN p \cap ArgsFrom(def, "actor_input"))
             /\ \A a \in DOMAIN got :
                  got[a] = IF SourceOf(def, a) = "literal" THEN Str[def.args[a].value] ELSE p[a]
<1> DEFINE got == HandlerArgs(ScopedTool(def), p)
           literals == [a \in ArgsFrom(def, "literal") |-> ParseArg(def.args[a]).value]
           passes == ArgsFrom(def, "actor_input")
<1>1. ScopedTool(def).literals = literals /\ ScopedTool(def).passes = passes
  BY DEF ScopedTool
<1>2. got = [a \in ArgsFrom(def, "literal") \cup (DOMAIN p \cap passes) |->
               IF a \in ArgsFrom(def, "literal") THEN literals[a] ELSE p[a]]
  BY <1>1 DEF HandlerArgs
<1>3. PICK as \in SUBSET Args : def.args \in [as -> RawArgs]
  BY DEF RawArgLists
<1>4. PICK bs \in SUBSET Args : p \in [bs -> Values]
  BY DEF Payloads
<1>5. \A a \in ArgsFrom(def, "literal") :
        /\ a \in Args /\ SourceOf(def, a) = "literal"
        /\ literals[a] = Str[def.args[a].value] /\ Str[def.args[a].value] \in Values
  <2> SUFFICES ASSUME NEW a \in ArgsFrom(def, "literal")
               PROVE  /\ a \in Args /\ SourceOf(def, a) = "literal"
                      /\ literals[a] = Str[def.args[a].value] /\ Str[def.args[a].value] \in Values
    OBVIOUS
  <2>1. a \in as /\ SourceOf(def, a) = "literal" /\ def.args[a] \in RawArgs
    BY <1>3 DEF ArgsFrom
  <2>2. ParseArg(def.args[a]).value = Str[def.args[a].value] /\ Str[def.args[a].value] \in Values
    BY <2>1, ParsedArg DEF SourceOf
  <2> QED BY <2>1, <2>2
<1>6. \A a \in DOMAIN p \cap passes : /\ a \in Args /\ p[a] \in Values
                                      /\ SourceOf(def, a) = "actor_input"
  BY <1>4 DEF ArgsFrom
<1> HIDE DEF got, literals
<1>7. DOMAIN got = ArgsFrom(def, "literal") \cup (DOMAIN p \cap passes)
  BY <1>2
<1>8. \A a \in DOMAIN got :
        got[a] = IF SourceOf(def, a) = "literal" THEN Str[def.args[a].value] ELSE p[a]
  BY <1>2, <1>5, <1>6, <1>7
<1>9. got \in [DOMAIN got -> Values] /\ DOMAIN got \in SUBSET Args
  BY <1>2, <1>5, <1>6, <1>7
<1> QED BY <1>7, <1>8, <1>9 DEF Payloads, got

(* A mock tool passes what it gets.                                        *)
LEMMA HandlerArgsOfBase ==
  ASSUME NEW n, NEW p \in Payloads
  PROVE  HandlerArgs(BaseTool(n), p) = p
<1>1. PICK bs \in SUBSET Args : p \in [bs -> Values]
  BY DEF Payloads
<1>2. BaseTool(n).passes = Args /\ BaseTool(n).literals = << >>
  BY DEF BaseTool
<1>3. HandlerArgs(BaseTool(n), p) = [a \in DOMAIN p |-> p[a]]
  BY <1>1, <1>2 DEF HandlerArgs
<1> QED BY <1>1, <1>3

(* Two payloads are told apart by a scoped tool's handler exactly if they  *)
(* differ in an argument its schema names.                                 *)
LEMMA ScopedToolTellsApart ==
  ASSUME NEW def, def.args \in RawArgLists, NEW p \in Payloads, NEW q \in Payloads
  PROVE  HandlerArgs(ScopedTool(def), p) # HandlerArgs(ScopedTool(def), q) <=>
           \E a \in ScopedTool(def).props :
             \/ a \in (DOMAIN p \ DOMAIN q) \cup (DOMAIN q \ DOMAIN p)
             \/ a \in DOMAIN p \cap DOMAIN q /\ p[a] # q[a]
<1> DEFINE tool == ScopedTool(def)
           literals == ArgsFrom(def, "literal")
           inputs == ArgsFrom(def, "actor_input")
           gotP == HandlerArgs(tool, p)
           gotQ == HandlerArgs(tool, q)
<1>1. tool.props = inputs /\ tool.passes = inputs /\ DOMAIN tool.literals = literals
  BY DEF ScopedTool
<1>2. literals \cap inputs = {}
  BY DEF ArgsFrom
<1>3. /\ gotP = [a \in literals \cup (DOMAIN p \cap inputs) |->
                 IF a \in literals THEN tool.literals[a] ELSE p[a]]
      /\ gotQ = [a \in literals \cup (DOMAIN q \cap inputs) |->
                 IF a \in literals THEN tool.literals[a] ELSE q[a]]
  BY <1>1 DEF HandlerArgs
<1> HIDE DEF tool, literals, inputs, gotP, gotQ
<1>4. ASSUME NEW a \in inputs,
             \/ a \in (DOMAIN p \ DOMAIN q) \cup (DOMAIN q \ DOMAIN p)
             \/ a \in DOMAIN p \cap DOMAIN q /\ p[a] # q[a]
      PROVE  gotP # gotQ
  <2>1. CASE a \in DOMAIN p /\ a \notin DOMAIN q
    <3>1. a \in DOMAIN gotP /\ a \notin DOMAIN gotQ
      BY <1>2, <1>3, <2>1
    <3> QED BY <3>1
  <2>2. CASE a \in DOMAIN q /\ a \notin DOMAIN p
    <3>1. a \in DOMAIN gotQ /\ a \notin DOMAIN gotP
      BY <1>2, <1>3, <2>2
    <3> QED BY <3>1
  <2>3. CASE a \in DOMAIN p \cap DOMAIN q /\ p[a] # q[a]
    <3>1. gotP[a] = p[a] /\ gotQ[a] = q[a]
      BY <1>2, <1>3, <2>3
    <3> QED BY <2>3, <3>1
  <2> QED BY <1>4, <2>1, <2>2, <2>3
<1>5. ASSUME \A a \in inputs :
               /\ a \notin (DOMAIN p \ DOMAIN q) \cup (DOMAIN q \ DOMAIN p)
               /\ a \in DOMAIN p \cap DOMAIN q => p[a] = q[a]
      PROVE  gotP = gotQ
  <2>1. DOMAIN p \cap inputs = DOMAIN q \cap inputs
    BY <1>5
  <2>2. \A a \in DOMAIN p \cap inputs : p[a] = q[a]
    BY <1>5
  <2> QED BY <1>3, <2>1, <2>2
<1>6. gotP # gotQ <=> \E a \in inputs :
                       \/ a \in (DOMAIN p \ DOMAIN q) \cup (DOMAIN q \ DOMAIN p)
                       \/ a \in DOMAIN p \cap DOMAIN q /\ p[a] # q[a]
  BY <1>4, <1>5
<1> QED BY <1>1, <1>6 DEF gotP, gotQ, tool

LEMMA ScopedInvInductive ==
  ASSUME ScopedInv, [ScopedNext]_scopedVars
  PROVE  ScopedInv'
<1>1. CASE StartUp
  BY <1>1 DEF StartUp, ScopedInv, RegistryOfStart, EnteredByTool
<1>2. CASE StartFails
  BY <1>2 DEF StartFails, ScopedInv, RegistryOfStart, EnteredByTool
<1>3. ASSUME NEW w \in ScopedWorlds, SwitchTo(w) PROVE ScopedInv'
  BY <1>3 DEF SwitchTo, ScopedInv, RegistryOfStart, EnteredByTool
<1>4. ASSUME NEW n \in DOMAIN toolNames, MutateSchemaOf(n) PROVE ScopedInv'
  BY <1>4 DEF MutateSchemaOf, ScopedInv, RegistryOfStart, EnteredByTool
<1>5. ASSUME NEW n \in DOMAIN toolNames, NEW a \in Args, MutateProperty(n, a) PROVE ScopedInv'
  BY <1>5 DEF MutateProperty, ScopedInv, RegistryOfStart, EnteredByTool
<1>6. ASSUME NEW n \in DOMAIN toolNames, NEW payload \in Payloads, NEW taint \in BOOLEAN,
             CallTool(n, payload, taint)
      PROVE  ScopedInv'
  <2>1. taint /\ n \in Allowlists[StartWorld] => toolNames[n].effect # "external"
    <3> SUFFICES ASSUME n \in Allowlists[StartWorld]
                 PROVE  ~(taint /\ toolNames[n].effect = "external")
      OBVIOUS
    <3> DEFINE tables == [allowlist |-> Allowlists[activeWorld],
                          capabilities |-> Allowlists[activeWorld], approvalRequired |-> {}]
               exposed == n \in DOMAIN toolNames \cap Allowlists[StartWorld]
    <3>1. Decide(tables, n, n, taint, IF exposed THEN toolNames[n].effect ELSE "unknown",
                 exposed => n \notin mutated) = DefaultAllow
      BY <1>6 DEF CallTool, Decision
    <3>2. (IF exposed THEN toolNames[n].effect ELSE "unknown") = toolNames[n].effect
      OBVIOUS
    <3> HIDE DEF tables, exposed
    <3> QED BY <3>1, <3>2, DecideAllows
  <2>2. /\ entered'.name = n /\ entered'.base = toolNames[n].base
        /\ entered'.payload = payload /\ entered'.taint = taint
        /\ entered'.args = HandlerArgs(toolNames[n], payload)
        /\ phase = "up" /\ UNCHANGED <<sections, phase, toolNames, activeWorld, mutated>>
    BY <1>6 DEF CallTool
  <2>3. EnteredByTool'
    BY <2>1, <2>2 DEF EnteredByTool, HandlerArgs
  <2>4. RegistryOfStart'
    BY <2>2 DEF ScopedInv, RegistryOfStart
  <2> QED BY <2>2, <2>3, <2>4 DEF ScopedInv
<1>7. CASE UNCHANGED scopedVars
  BY <1>7 DEF scopedVars, ScopedInv, RegistryOfStart, EnteredByTool
<1> QED BY <1>1, <1>2, <1>3, <1>4, <1>5, <1>6, <1>7 DEF ScopedNext

LEMMA ScopedStarts == ScopedInit => ScopedInv
BY StartAssumption DEF ScopedInit, ScopedInv, RegistryOfStart, EnteredByTool

LEMMA ScopedInvHolds == ScopedSpec => []ScopedInv
BY ScopedStarts, ScopedInvInductive, PTL DEF ScopedSpec

(* A name of the registry is one of the start world's definitions, or a    *)
(* mock tool's.                                                            *)
LEMMA ToolOfName ==
  ASSUME ScopedInv, NEW n \in DOMAIN toolNames
  PROVE  IF n \in DOMAIN sections[StartWorld]
         THEN /\ toolNames[n] = ScopedTool(sections[StartWorld][n])
              /\ sections[StartWorld][n].args \in RawArgLists
              /\ sections[StartWorld][n].base \in BaseTools
         ELSE toolNames[n] = BaseTool(n) /\ n \in BaseTools
<1>1. /\ toolNames = Registry(sections[StartWorld])
      /\ Buildable(sections[StartWorld])
  BY DEF ScopedInv, RegistryOfStart
<1>2. sections[StartWorld] \in Sections[StartWorld]
  BY StartAssumption DEF ScopedInv
<1> QED BY <1>1, <1>2, StartAssumption, SectionsAssumption DEF Registry, Buildable, RawArgLists

LEMMA ScopedTyped == ScopedInv => ScopedTypeOK
<1> SUFFICES ASSUME ScopedInv PROVE ScopedTypeOK
    OBVIOUS
<1>1. ASSUME entered # NotEntered
      PROVE  entered.name \in DOMAIN toolNames /\ entered.args \in Payloads
  <2>1. /\ entered.name \in DOMAIN toolNames /\ entered.payload \in Payloads
        /\ entered.args = HandlerArgs(toolNames[entered.name], entered.payload)
    BY <1>1 DEF ScopedInv, EnteredByTool
  <2>2. CASE entered.name \in DOMAIN sections[StartWorld]
    <3>1. PICK def : def = sections[StartWorld][entered.name]
      OBVIOUS
    <3>2. toolNames[entered.name] = ScopedTool(def) /\ def.args \in RawArgLists
      BY <2>1, <2>2, <3>1, ToolOfName
    <3>3. HandlerArgs(ScopedTool(def), entered.payload) \in Payloads
      BY <2>1, <3>2, HandlerArgsOfScoped
    <3> QED BY <2>1, <3>2, <3>3
  <2>3. CASE entered.name \notin DOMAIN sections[StartWorld]
    <3>1. toolNames[entered.name] = BaseTool(entered.name)
      BY <2>1, <2>3, ToolOfName
    <3> QED BY <2>1, <3>1, HandlerArgsOfBase
  <2> QED BY <2>2, <2>3
<1>2. phase = "up" => BaseTools \subseteq DOMAIN toolNames
  BY DEF ScopedInv, RegistryOfStart, Registry
<1> QED BY <1>1, <1>2 DEF ScopedInv, ScopedTypeOK

(* The variables keep their types: what a mock handler is given are names  *)
(* and values of arguments, whatever the definition.                       *)
THEOREM ScopedTypeCorrect == ScopedSpec => []ScopedTypeOK
BY ScopedTyped, ScopedInvHolds, PTL

(* Whatever manifest the process was started with, what was switched to    *)
(* since, whose schema changed and whatever a caller sends: a scoped tool  *)
(* passes its literals and what its schema shows, to its base, and no      *)
(* external base is reached by a tainted request under an exposed name.    *)
THEOREM ScopedToolsAlwaysConfine == ScopedSpec => []ScopedToolsConfine
<1>1. ScopedInv => ScopedToolsConfine
  <2> SUFFICES ASSUME ScopedInv PROVE ScopedToolsConfine
    OBVIOUS
  <2>1. CallsConfined
    <3> SUFFICES ASSUME entered # NotEntered, entered.name \in DOMAIN sections[StartWorld]
                 PROVE  LET def == sections[StartWorld][entered.name]
                        IN  /\ entered.base = def.base
                            /\ DOMAIN entered.args =
                                 ArgsFrom(def, "literal")
                                   \cup (DOMAIN entered.payload \cap ArgsFrom(def, "actor_input"))
                            /\ \A a \in DOMAIN entered.args :
                                 entered.args[a] = IF SourceOf(def, a) = "literal"
                                                   THEN Str[def.args[a].value] ELSE entered.payload[a]
      BY DEF CallsConfined
    <3>1. PICK def : def = sections[StartWorld][entered.name]
      OBVIOUS
    <3>2. /\ entered.name \in DOMAIN toolNames /\ entered.payload \in Payloads
          /\ entered.base = toolNames[entered.name].base
          /\ entered.args = HandlerArgs(toolNames[entered.name], entered.payload)
      BY DEF ScopedInv, EnteredByTool
    <3>3. toolNames[entered.name] = ScopedTool(def) /\ def.args \in RawArgLists
      BY <3>1, <3>2, ToolOfName
    <3>4. ScopedTool(def).base = def.base
      BY DEF ScopedTool
    <3> DEFINE got == HandlerArgs(ScopedTool(def), entered.payload)
    <3>5. /\ DOMAIN got = ArgsFrom(def, "literal")
                            \cup (DOMAIN entered.payload \cap ArgsFrom(def, "actor_input"))
          /\ \A a \in DOMAIN got :
               got[a] = IF SourceOf(def, a) = "literal" THEN Str[def.args[a].value]
                        ELSE entered.payload[a]
      BY <3>2, <3>3, HandlerArgsOfScoped
    <3>6. entered.args = got
      BY <3>2, <3>3
    <3> HIDE DEF got
    <3> QED BY <3>1, <3>2, <3>3, <3>4, <3>5, <3>6
  <2>2. SchemaTellsWhatPasses
    <3> SUFFICES ASSUME NEW n \in DOMAIN toolNames \cap DOMAIN sections[StartWorld],
                        NEW p \in Payloads, NEW q \in Payloads
                 PROVE  HandlerArgs(toolNames[n], p) # HandlerArgs(toolNames[n], q) <=>
                          \E a \in toolNames[n].props :
                            \/ a \in (DOMAIN p \ DOMAIN q) \cup (DOMAIN q \ DOMAIN p)
                            \/ a \in DOMAIN p \cap DOMAIN q /\ p[a] # q[a]
      BY DEF SchemaTellsWhatPasses
    <3>1. PICK def : def = sections[StartWorld][n]
      OBVIOUS
    <3>2. toolNames[n] = ScopedTool(def) /\ def.args \in RawArgLists
      BY <3>1, ToolOfName
    <3> QED BY <3>2, ScopedToolTellsApart
  <2>3. TaintStopsAtBase
    <3> SUFFICES ASSUME entered # NotEntered, entered.taint,
                        entered.name \in Allowlists[StartWorld]
                 PROVE  BaseEffect[entered.base] # "external"
      BY DEF TaintStopsAtBase
    <3>1. /\ entered.name \in DOMAIN toolNames
          /\ entered.base = toolNames[entered.name].base
          /\ toolNames[entered.name].effect # "external"
      BY DEF ScopedInv, EnteredByTool
    <3>2. toolNames[entered.name].effect = BaseEffect[toolNames[entered.name].base]
      BY <3>1, ToolOfName DEF ScopedTool, BaseTool
    <3> QED BY <3>1, <3>2
  <2> QED BY <2>1, <2>2, <2>3 DEF ScopedToolsConfine
<1> QED BY <1>1, ScopedInvHolds, PTL

-----------------------------------------------------------------------------
(* The catalogue of skills.  SkillNames, and the keys made of two of them.      *)
LEMMA KeyLength ==
  ASSUME NEW s \in Seq(STRING), NEW a \in Seq(STRING)
  PROVE  Len(s \o a) = Len(s) + Len(a)
OBVIOUS

LEMMA KeyTellsStem ==
  ASSUME NEW s \in SkillNames, NEW a \in SkillNames, NEW b \in SkillNames, Key(s, a) = Key(s, b)
  PROVE  a = b
<1>1. s \in Seq(STRING) /\ a \in Seq(STRING) /\ b \in Seq(STRING)
  BY DEF SkillNames
<1>2. s \o a = s \o b
  BY DEF Key
<1>3. Len(a) = Len(b)
  <2>1. Len(s \o a) = Len(s) + Len(a) /\ Len(s \o b) = Len(s) + Len(b)
    BY <1>1, KeyLength
  <2> QED BY <1>1, <1>2, <2>1
<1>4. \A i \in 1..Len(a) : a[i] = b[i]
  <2> TAKE i \in 1..Len(a)
  <2>1. (s \o a)[Len(s) + i] = a[i]
    BY <1>1
  <2>2. (s \o b)[Len(s) + i] = b[i]
    BY <1>1, <1>3
  <2> QED BY <1>2, <2>1, <2>2
<1> QED BY <1>1, <1>3, <1>4

LEMMA ShortNameOfOnePart ==
    ASSUME NEW a \in SkillNames, ~(Len(a) > 1)
    PROVE  Len(a) = 1
<1>1. a \in Seq(STRING) /\ a # << >>
  BY DEF SkillNames
<1>2. Len(a) \in Nat \ {0}
  BY <1>1, EmptySeq, Zenon
<1>3. PICK n \in Nat \ {0} : n = Len(a)
  BY <1>2
<1>4. ~(n > 1)
  BY <1>3
<1>5. n = 1
  BY <1>4
<1> QED BY <1>3, <1>5

LEMMA KeyOfOnePart ==
  ASSUME NEW s \in SkillNames, NEW t \in SkillNames, NEW a \in SkillNames, NEW b \in SkillNames,
         Len(a) = 1, Len(b) = 1, Key(s, a) = Key(t, b)
  PROVE  s = t /\ a = b
<1>1. /\ s \in Seq(STRING) /\ t \in Seq(STRING)
      /\ a \in Seq(STRING) /\ b \in Seq(STRING)
  BY DEF SkillNames
<1>2. s \o a = t \o b
  BY DEF Key
<1>3. Len(s) = Len(t)
  <2>1. Len(s \o a) = Len(s) + Len(a) /\ Len(t \o b) = Len(t) + Len(b)
    BY <1>1, KeyLength, Zenon
  <2>2. Len(s) \in Nat /\ Len(t) \in Nat
    BY <1>1
  <2> QED BY <1>2, <2>1, <2>2
<1>4. \A i \in 1..Len(s) : s[i] = t[i]
  <2> TAKE i \in 1..Len(s)
  <2>1. (s \o a)[i] = s[i] /\ (t \o b)[i] = t[i]
    BY <1>1, <1>3
  <2> QED BY <1>2, <2>1
<1>5. s = t
  BY <1>1, <1>3, <1>4
<1> QED BY <1>5, KeyTellsStem

-----------------------------------------------------------------------------
Imports == [source : SourceNames, path : Directories, todo : SUBSET Files,
            opening : BOOLEAN, done : BOOLEAN]

(* An entry that a file of this content, or a later one of its stem, left. *)
Covers(entry, i, path, content) ==
  /\ entry.path = path
  /\ \E j \in i..Len(FileOrder) :
       entry.file = FileOrder[j] /\ StemOf[FileOrder[j]] = StemOf[FileOrder[i]]
  /\ entry.file = FileOrder[i] => entry.content = content

(* A file that stands unchanged since the listing and is no longer to be   *)
(* done was catalogued, and those still to be done come after it.          *)
PassedAreCovered ==
  ~Idling =>
    \A i \in DOMAIN FileOrder :
      LET f == FileOrder[i]
          k == Key(importing.source, StemOf[f])
      IN  /\ f \in SkillFiles \cap untouched
          /\ disk[importing.path][f] \in Contents
          /\ f \notin importing.todo
          => /\ \A j \in DOMAIN FileOrder : FileOrder[j] \in importing.todo => i < j
             /\ k \in DOMAIN skills
             /\ Covers(skills[k], i, importing.path, disk[importing.path][f])

RegistryInv ==
  /\ RegistryTypeOK
  /\ \A k \in DOMAIN skills : skills[k].name \in SkillNames
  /\ ~Idling => importing \in Imports /\ (importing.done => importing.todo = {})
  /\ PassedAreCovered

LEMMA StemTyped ==
  /\ DOMAIN FileOrder = 1..Len(FileOrder) /\ Len(FileOrder) \in Nat
  /\ \A i \in DOMAIN FileOrder : FileOrder[i] \in Files /\ StemOf[FileOrder[i]] \in SkillNames
  /\ \A f \in Files : StemOf[f] \in SkillNames /\ \E i \in DOMAIN FileOrder : f = FileOrder[i]
BY NamesAssumption DEF Files

(* The file that comes next is the first one still to be done.             *)
LEMMA ThisFileIsFirst ==
  ASSUME RegistryInv, AtFile
  PROVE  \E n \in DOMAIN FileOrder :
           /\ ThisFile = FileOrder[n] /\ ThisFile \in importing.todo
           /\ \A j \in DOMAIN FileOrder : FileOrder[j] \in importing.todo => n <= j
<1> DEFINE S == {i \in DOMAIN FileOrder : FileOrder[i] \in importing.todo}
           R == OpToRel(<, Nat)
<1>1. importing.todo # {} /\ importing.todo \subseteq Files
  BY DEF AtFile, RegistryInv, RegistryTypeOK
<1>2. S # {} /\ S \in SUBSET Nat
  BY <1>1, StemTyped
<1>3. IsWellFoundedOn(R, Nat)
  BY NatLessThanWellFounded
<1>4. PICK i \in S : \A j \in S : <<j, i>> \notin R
  <2> HIDE DEF R, S
  <2> QED BY <1>2, <1>3, WFMin, Zenon
<1>5. \A j \in S : ~(j < i)
  BY <1>2, <1>4 DEF OpToRel
<1>6. \E n \in DOMAIN FileOrder :
        /\ FileOrder[n] \in importing.todo
        /\ \A j \in DOMAIN FileOrder : FileOrder[j] \in importing.todo => n <= j
  <2>1. i \in DOMAIN FileOrder /\ FileOrder[i] \in importing.todo /\ i \in Nat
    BY <1>2, <1>4
  <2>2. ASSUME NEW j \in DOMAIN FileOrder, FileOrder[j] \in importing.todo PROVE i <= j
    <3>1. j \in S /\ j \in Nat
      BY <1>2, <2>2
    <3>2. ~(j < i)
      BY <1>5, <3>1
    <3> QED BY <2>1, <3>1, <3>2
  <2> QED BY <2>1, <2>2
<1> QED BY <1>6 DEF ThisFile

(* Steps that leave the import alone, or the catalogue and the files.      *)
LEMMA CoverageStays ==
  ASSUME PassedAreCovered, RegistryTypeOK, UNCHANGED <<importing, skills>>,
         untouched' \subseteq untouched,
         ~Idling => \A f \in untouched' : disk'[importing.path][f] = disk[importing.path][f]
  PROVE  PassedAreCovered'
BY DEF PassedAreCovered, Covers, Idling

(* One file is done with: skipped because there is nothing to read in it,  *)
(* or read into the catalogue.                                             *)
LEMMA FileDone ==
  ASSUME RegistryInv, AtFile, importing' = NextFile, UNCHANGED <<disk, untouched>>,
         \/ /\ skills' = skills
            /\ ThisFile \notin SkillFiles \/ Found \notin Contents
         \/ /\ Found \in Contents
            /\ skills' = Catalogued(importing.source, StemOf[ThisFile], importing.path,
                                    ThisFile, Found)
  PROVE  /\ importing' \in Imports /\ ~importing'.done /\ importing'.source = importing.source
         /\ importing'.path = importing.path
         /\ PassedAreCovered'
<1>1. /\ importing \in Imports /\ ~importing.done
  BY DEF RegistryInv, AtFile
<1>2. /\ importing' \in Imports /\ ~importing'.done /\ importing'.source = importing.source
      /\ importing'.path = importing.path /\ importing'.todo = importing.todo \ {ThisFile}
  BY <1>1 DEF NextFile, Imports
<1>3. PICK n \in DOMAIN FileOrder :
             /\ ThisFile = FileOrder[n] /\ ThisFile \in importing.todo
             /\ \A j \in DOMAIN FileOrder : FileOrder[j] \in importing.todo => n <= j
  BY ThisFileIsFirst
<1>4. PICK path \in Directories, source \in SourceNames :
             path = importing.path /\ source = importing.source
  BY <1>1 DEF Imports
<1>5. PICK content : content = Found
  OBVIOUS
<1>6. ASSUME NEW i \in DOMAIN FileOrder,
             FileOrder[i] \in SkillFiles \cap untouched,
             disk[path][FileOrder[i]] \in Contents,
             FileOrder[i] \notin importing'.todo
      PROVE  /\ \A j \in DOMAIN FileOrder : FileOrder[j] \in importing'.todo => i < j
             /\ Key(source, StemOf[FileOrder[i]]) \in DOMAIN skills'
             /\ Covers(skills'[Key(source, StemOf[FileOrder[i]])], i, path,
                       disk[path][FileOrder[i]])
  <2> DEFINE k == Key(source, StemOf[FileOrder[i]])
             kn == Key(source, StemOf[FileOrder[n]])
             entry == [source |-> source, name |-> StemOf[FileOrder[n]], path |-> path,
                       file |-> FileOrder[n], content |-> content]
  <2>1. CASE i = n
    <3>1. \A j \in DOMAIN FileOrder : FileOrder[j] \in importing'.todo => i < j
      BY <1>2, <1>3, <2>1, StemTyped
    <3>2. content \in Contents /\ content = disk[path][FileOrder[n]]
      BY <1>3, <1>4, <1>5, <1>6, <2>1 DEF Found
    <3>3. skills' = Catalogued(source, StemOf[FileOrder[n]], path, FileOrder[n], content)
      BY <1>3, <1>4, <1>5, <1>6, <2>1, <3>2
    <3>4. kn \in DOMAIN skills' /\ skills'[kn] = entry
      BY <3>3 DEF Catalogued
    <3>5. Covers(entry, n, path, content)
      BY StemTyped DEF Covers
    <3> QED BY <2>1, <3>1, <3>2, <3>4, <3>5
  <2>2. CASE i # n
    <3>1. FileOrder[i] # FileOrder[n]
      BY <2>2, NamesAssumption
    <3>2. FileOrder[i] \notin importing.todo
      BY <1>2, <1>3, <1>6, <3>1
    <3>3. /\ \A j \in DOMAIN FileOrder : FileOrder[j] \in importing.todo => i < j
          /\ k \in DOMAIN skills /\ Covers(skills[k], i, path, disk[path][FileOrder[i]])
      BY <1>4, <1>6, <3>2 DEF RegistryInv, PassedAreCovered, AtFile
    <3>4. i < n
      BY <1>3, <3>3
    <3>5. CASE skills' = skills
      BY <1>2, <3>3, <3>5
    <3>6. CASE skills' = Catalogued(source, StemOf[FileOrder[n]], path, FileOrder[n], content)
      <4>1. /\ k \in DOMAIN skills'
            /\ skills'[k] = IF k = kn THEN entry ELSE skills[k]
        BY <3>3, <3>6 DEF Catalogued
      <4>2. CASE k = kn
        <5>1. StemOf[FileOrder[i]] = StemOf[FileOrder[n]]
          BY <4>2, StemTyped, KeyTellsStem, NamesAssumption
        <5>2. n \in i..Len(FileOrder)
          BY <3>4, StemTyped
        <5>3. Covers(entry, i, path, disk[path][FileOrder[i]])
          BY <3>1, <5>1, <5>2 DEF Covers
        <5> QED BY <1>2, <3>3, <4>1, <4>2, <5>3
      <4>3. CASE k # kn
        BY <1>2, <3>3, <4>1, <4>3
      <4> QED BY <4>2, <4>3
    <3> QED BY <1>3, <1>4, <1>5, <3>5, <3>6
  <2> QED BY <2>1, <2>2
<1>7. PassedAreCovered'
  BY <1>2, <1>4, <1>6 DEF PassedAreCovered
<1> QED BY <1>2, <1>7

(* What is added to the catalogue keeps the types of its entries.          *)
LEMMA CatalogueTyped ==
  ASSUME RegistryInv, NEW source \in SourceNames, NEW stem \in SkillNames, NEW path, NEW file,
         NEW content \in Contents \cup {Metadata},
         skills' = Catalogued(source, stem, path, file, content)
  PROVE  \A k \in DOMAIN skills' :
           /\ skills'[k].source \in SourceNames /\ skills'[k].name \in SkillNames
           /\ k = Key(skills'[k].source, skills'[k].name)
           /\ skills'[k].content \in Contents \cup {Metadata}
<1> SUFFICES ASSUME NEW k \in DOMAIN skills'
             PROVE  /\ skills'[k].source \in SourceNames /\ skills'[k].name \in SkillNames
                    /\ k = Key(skills'[k].source, skills'[k].name)
                    /\ skills'[k].content \in Contents \cup {Metadata}
  OBVIOUS
<1>1. CASE k = Key(source, stem)
  <2>1. skills'[k] = [source |-> source, name |-> stem, path |-> path, file |-> file,
                      content |-> content]
    BY <1>1 DEF Catalogued
  <2> QED BY <1>1, <2>1
<1>2. CASE k # Key(source, stem)
  <2>1. k \in DOMAIN skills /\ skills'[k] = skills[k]
    BY <1>2 DEF Catalogued
  <2> QED BY <2>1 DEF RegistryInv, RegistryTypeOK
<1> QED BY <1>1, <1>2

LEMMA RegistryInvInductive ==
  ASSUME RegistryInv, [RegistryNext]_registryVars
  PROVE  RegistryInv'
<1>1. /\ changes \in 0..MaxChanges /\ imports \in 0..MaxImports
      /\ MaxChanges \in Nat /\ MaxImports \in Nat
  BY BoundsAssumption DEF RegistryInv, RegistryTypeOK
<1>2. ASSUME NEW name \in SourceNames, NEW source \in Registrable, RegisterSource(name, source)
      PROVE  RegistryInv'
  <2>1. /\ Idling' /\ UNCHANGED <<disk, skills, importing, untouched, changes, imports>>
        /\ DOMAIN sources' = DOMAIN sources \cup {name}
        /\ \A n \in DOMAIN sources' : sources'[n] = IF n = name THEN source ELSE sources[n]
    BY <1>2 DEF RegisterSource, Idling
  <2>2. RegistryTypeOK'
    BY <2>1, SourcesAssumption DEF RegistryInv, RegistryTypeOK
  <2> QED BY <2>1, <2>2 DEF RegistryInv, PassedAreCovered
<1>3. ASSUME NEW d \in Directories, NEW f \in Files, NEW there \in OnDisk,
             ChangeDisk(d, f, there)
      PROVE  RegistryInv'
  <2>1. /\ UNCHANGED <<sources, skills, importing, imports>> /\ Idling' = Idling
        /\ disk' = [disk EXCEPT ![d][f] = there]
        /\ changes < MaxChanges /\ changes' = changes + 1
        /\ untouched' = IF ~Idling /\ importing.path = d THEN untouched \ {f} ELSE untouched
    BY <1>3 DEF ChangeDisk, Idling
  <2>2. disk' \in [Directories -> [Files -> OnDisk]]
    BY <2>1 DEF RegistryInv, RegistryTypeOK
  <2>3. untouched' \subseteq untouched
    BY <2>1
  <2>4. ASSUME ~Idling, NEW g \in untouched'
        PROVE  disk'[importing.path][g] = disk[importing.path][g]
    <3>1. importing.path \in Directories /\ g \in Files
      BY <2>3, <2>4 DEF RegistryInv, RegistryTypeOK
    <3>2. importing.path # d \/ g # f
      BY <2>1, <2>4
    <3> QED BY <2>1, <3>1, <3>2 DEF RegistryInv, RegistryTypeOK
  <2>5. PassedAreCovered'
    BY <2>1, <2>3, <2>4, CoverageStays DEF RegistryInv
  <2>6. RegistryTypeOK'
    BY <1>1, <2>1, <2>2, <2>3 DEF RegistryInv, RegistryTypeOK
  <2> QED BY <2>1, <2>5, <2>6 DEF RegistryInv
<1>4. ASSUME NEW name \in SourceNames, BeginImport(name) PROVE RegistryInv'
  <2>1. /\ UNCHANGED <<sources, disk, skills, changes>>
        /\ imports < MaxImports /\ imports' = imports + 1 /\ untouched' = Files
        /\ sources[name].path \in Directories
        /\ importing' = [source |-> name, path |-> sources[name].path,
                         todo |-> Listing(sources[name].path), opening |-> FALSE, done |-> FALSE]
    BY <1>4 DEF BeginImport
  <2>2. Listing(sources[name].path) \subseteq Files
    BY DEF Listing
  <2>3. /\ importing' \in Imports /\ ~importing'.done
        /\ importing'.path = sources[name].path
        /\ importing'.todo = Listing(sources[name].path)
    BY <2>1, <2>2 DEF Imports
  <2>4. ASSUME NEW f \in Files, disk'[importing'.path][f] \in Contents
        PROVE  f \in importing'.todo
    BY <2>1, <2>3, <2>4, ContentsAssumption DEF Listing
  <2>5. PassedAreCovered'
    BY <2>1, <2>4, StemTyped DEF PassedAreCovered
  <2>6. RegistryTypeOK'
    BY <1>1, <2>1, <2>3 DEF RegistryInv, RegistryTypeOK, Imports
  <2> QED BY <2>1, <2>3, <2>5, <2>6 DEF RegistryInv
<1>5. ASSUME NEW name \in SourceNames, ImportGit(name) PROVE RegistryInv'
  <2>1. /\ Idling' /\ UNCHANGED <<sources, disk, importing, untouched, changes>>
        /\ imports < MaxImports /\ imports' = imports + 1
        /\ skills' = Catalogued(name, name, NoPath, Missing, Metadata)
    BY <1>5 DEF ImportGit, Idling
  <2>2. name \in SkillNames
    BY NamesAssumption
  <2>3. \A k \in DOMAIN skills' :
          /\ skills'[k].source \in SourceNames /\ skills'[k].name \in SkillNames
          /\ k = Key(skills'[k].source, skills'[k].name)
          /\ skills'[k].content \in Contents \cup {Metadata}
    BY <2>1, <2>2, CatalogueTyped
  <2>4. RegistryTypeOK'
    BY <1>1, <2>1, <2>3 DEF RegistryInv, RegistryTypeOK
  <2> QED BY <2>1, <2>3, <2>4 DEF RegistryInv, PassedAreCovered
<1>6. CASE SkipFile
  <2>1. /\ AtFile /\ importing' = NextFile
        /\ UNCHANGED <<sources, disk, skills, untouched, changes, imports>>
        /\ ThisFile \notin SkillFiles \/ Found \notin Contents
    BY <1>6, ContentsAssumption DEF SkipFile
  <2>2. importing' \in Imports /\ ~importing'.done /\ PassedAreCovered'
    BY <2>1, FileDone
  <2>3. RegistryTypeOK'
    BY <2>1, <2>2 DEF RegistryInv, RegistryTypeOK, Imports
  <2> QED BY <2>1, <2>2, <2>3 DEF RegistryInv
<1>7. CASE IsFile
  <2>1. /\ importing \in Imports /\ ~importing.done /\ ~Idling
        /\ UNCHANGED <<sources, disk, skills, untouched, changes, imports>>
        /\ importing' = [importing EXCEPT !.opening = TRUE]
    BY <1>7 DEF IsFile, AtFile, RegistryInv
  <2>2. /\ importing' \in Imports /\ ~importing'.done /\ importing'.source = importing.source
        /\ importing'.path = importing.path /\ importing'.todo = importing.todo
    BY <2>1 DEF Imports
  <2>3. PassedAreCovered'
    BY <2>1, <2>2 DEF RegistryInv, PassedAreCovered, Covers
  <2>4. RegistryTypeOK'
    BY <2>1, <2>2 DEF RegistryInv, RegistryTypeOK, Imports
  <2> QED BY <2>1, <2>2, <2>3, <2>4 DEF RegistryInv
<1>8. CASE ReadFile
  <2>1. /\ AtFile /\ importing' = NextFile /\ Found \in Contents
        /\ UNCHANGED <<sources, disk, untouched, changes, imports>>
        /\ skills' = Catalogued(importing.source, StemOf[ThisFile], importing.path,
                                ThisFile, Found)
    BY <1>8 DEF ReadFile
  <2>2. importing' \in Imports /\ ~importing'.done /\ PassedAreCovered'
    BY <2>1, FileDone
  <2>3. importing.source \in SourceNames /\ StemOf[ThisFile] \in SkillNames
    BY <2>1, ThisFileIsFirst, StemTyped DEF AtFile, RegistryInv, Imports
  <2>4. \A k \in DOMAIN skills' :
          /\ skills'[k].source \in SourceNames /\ skills'[k].name \in SkillNames
          /\ k = Key(skills'[k].source, skills'[k].name)
          /\ skills'[k].content \in Contents \cup {Metadata}
    BY <2>1, <2>3, CatalogueTyped
  <2>5. RegistryTypeOK'
    BY <2>1, <2>2, <2>4 DEF RegistryInv, RegistryTypeOK, Imports
  <2> QED BY <2>1, <2>2, <2>4, <2>5 DEF RegistryInv
<1>9. CASE OpenFails \/ ImportReturns
  <2>1. /\ importing' = NotImporting
        /\ UNCHANGED <<sources, disk, skills, untouched, changes, imports>>
    BY <1>9 DEF OpenFails, ImportReturns
  <2> QED BY <2>1 DEF RegistryInv, RegistryTypeOK, PassedAreCovered, Idling
<1>10. CASE ImportComplete
  <2>1. /\ importing \in Imports /\ importing.todo = {} /\ ~Idling
        /\ UNCHANGED <<sources, disk, skills, untouched, changes, imports>>
        /\ importing' = [importing EXCEPT !.done = TRUE]
    BY <1>10 DEF ImportComplete, RegistryInv
  <2>2. /\ importing' \in Imports /\ importing'.source = importing.source
        /\ importing'.path = importing.path /\ importing'.todo = importing.todo
    BY <2>1 DEF Imports
  <2>3. PassedAreCovered'
    BY <2>1, <2>2 DEF RegistryInv, PassedAreCovered, Covers
  <2>4. RegistryTypeOK'
    BY <2>1, <2>2 DEF RegistryInv, RegistryTypeOK, Imports
  <2> QED BY <2>1, <2>2, <2>3, <2>4 DEF RegistryInv
<1>11. CASE UNCHANGED registryVars
  BY <1>11 DEF registryVars, RegistryInv, RegistryTypeOK, PassedAreCovered, Covers, Idling
<1> QED BY <1>2, <1>3, <1>4, <1>5, <1>6, <1>7, <1>8, <1>9, <1>10, <1>11 DEF RegistryNext

LEMMA RegistryStarts == RegistryInit => RegistryInv
<1> SUFFICES ASSUME RegistryInit PROVE RegistryInv
    OBVIOUS
<1>1. disk \in [Directories -> [Files -> OnDisk]]
  <2>1. PICK first : first = {Missing, CHOOSE c \in Contents : TRUE}
    OBVIOUS
  <2>2. first \subseteq OnDisk
    BY <2>1, ContentsAssumption DEF OnDisk
  <2>3. disk \in [Directories -> [Files -> first]]
    BY <2>1 DEF RegistryInit
  <2>4. [Files -> first] \subseteq [Files -> OnDisk]
    BY <2>2
  <2> QED BY <2>3, <2>4
<1>2. Idling /\ DOMAIN sources = {} /\ DOMAIN skills = {}
  BY DEF RegistryInit, Idling
<1> QED BY <1>1, <1>2, BoundsAssumption
        DEF RegistryInit, RegistryInv, RegistryTypeOK, PassedAreCovered

LEMMA RegistryInvHolds == RegistrySpec => []RegistryInv
BY RegistryStarts, RegistryInvInductive, PTL DEF RegistrySpec

(* The variables of the catalogue keep their types, and every entry stands *)
(* under the key of its own names.                                         *)
THEOREM RegistryTypeCorrect == RegistrySpec => []RegistryTypeOK
<1>1. RegistryInv => RegistryTypeOK
  BY DEF RegistryInv
<1> QED BY <1>1, RegistryInvHolds, PTL

(* For every directory, however it changes under an import and whatever    *)
(* was registered or failed before: a complete import has catalogued what  *)
(* stood there unchanged, and a lookup under names of one part finds the   *)
(* skill of those names only.                                              *)
THEOREM CatalogueIsFaithful == RegistrySpec => []CatalogueFaithful
<1>1. RegistryInv => CatalogueFaithful
  <2> SUFFICES ASSUME RegistryInv PROVE CatalogueFaithful
    OBVIOUS
  <2>1. CompleteImportCovers
    <3>1. ~Idling /\ importing.done => importing.todo = {}
      BY DEF RegistryInv
    <3> QED BY <3>1 DEF RegistryInv, PassedAreCovered, Covers, CompleteImportCovers
  <2>2. LookupFindsOwn
    <3> SUFFICES ASSUME NEW s \in SourceNames, NEW f \in Files,
                        Key(s, StemOf[f]) \in DOMAIN skills,
                        ~(Len(StemOf[f]) > 1), ~(Len(skills[Key(s, StemOf[f])].name) > 1)
                 PROVE  /\ skills[Key(s, StemOf[f])].source = s
                        /\ skills[Key(s, StemOf[f])].name = StemOf[f]
      BY DEF LookupFindsOwn
    <3>1. PICK t \in SourceNames, b \in SkillNames :
                 t = skills[Key(s, StemOf[f])].source /\ b = skills[Key(s, StemOf[f])].name
      BY DEF RegistryInv, RegistryTypeOK
    <3>2. PICK a \in SkillNames : a = StemOf[f]
      BY StemTyped
    <3>3. Key(s, a) = Key(t, b)
      BY <3>1, <3>2 DEF RegistryInv, RegistryTypeOK
    <3>4. Len(a) = 1
      BY <3>2, ShortNameOfOnePart
    <3>5. Len(b) = 1
      BY <3>1, ShortNameOfOnePart
    <3>6. s \in SkillNames /\ t \in SkillNames
      BY NamesAssumption
    <3>7. s = t /\ a = b
      BY <3>3, <3>4, <3>5, <3>6, KeyOfOnePart
    <3> QED BY <3>1, <3>2, <3>7
  <2> QED BY <2>1, <2>2 DEF CatalogueFaithful
<1> QED BY <1>1, RegistryInvHolds, PTL

-----------------------------------------------------------------------------
(* The four parts side by side.  One of them moves, the others are parked, *)
(* and a parked part is in a state its invariant allows.                   *)
ResolvingInv == EngineInv /\ ScopedInv /\ JiraInv /\ RegistryInv

LEMMA ResolvingParkedAllowed ==
  /\ engineParked => EngineInv
  /\ scopedParked => ScopedInv
  /\ jiraParked => JiraInv
  /\ registryParked => RegistryInv
<1>1. engineParked => EngineInv
  BY MaxEditsAssumption
     DEF engineParked, EngineInv, EngineTypeOK, JudgedTyped, ManifestsKnown, BoundToWorlds,
         NothingJudged, StoredKnown, Launchers
<1>2. scopedParked => ScopedInv
  BY StartAssumption, SectionsAssumption
     DEF scopedParked, ScopedInv, RegistryOfStart, EnteredByTool
<1>3. ASSUME jiraParked PROVE JiraInv
  <2>1. /\ policy \in Policies /\ upstream = "closed" /\ decisionLog = {} /\ received = {}
        /\ \A r \in JiraRequests : /\ requests[r].stage = "unsent"
                                   /\ requests[r].answer = NoAnswerYet
                                   /\ requests[r].shown = {}
        /\ requests \in [JiraRequests ->
                           [stage : Stages, answer : Answers, shown : SUBSET JiraTools]]
    BY <1>3 DEF jiraParked, Policies, Stages, Answers
  <2> QED BY <2>1 DEF JiraInv, JiraTypeOK, RequestsAccounted, CallsConstrained,
                      LogTellsForwarded, Forwarded, Arrived, NoAnswerYet
<1>4. ASSUME registryParked PROVE RegistryInv
  <2>1. disk \in [Directories -> [Files -> OnDisk]]
    BY <1>4 DEF registryParked, OnDisk
  <2>2. Idling /\ DOMAIN sources = {} /\ DOMAIN skills = {}
    BY <1>4 DEF registryParked, Idling
  <2> QED BY <1>4, <2>1, <2>2, BoundsAssumption
          DEF registryParked, RegistryInv, RegistryTypeOK, PassedAreCovered
<1> QED BY <1>1, <1>2, <1>3, <1>4

LEMMA ResolvingStarts == ResolvingInit => ResolvingInv
BY ResolvingParkedAllowed, EngineStarts, ScopedStarts, JiraStarts, RegistryStarts
   DEF ResolvingInit, ResolvingInv

LEMMA ResolvingInductive == ResolvingInv /\ [ResolvingNext]_resolvingVars => ResolvingInv'
<1> SUFFICES ASSUME ResolvingInv, [ResolvingNext]_resolvingVars PROVE ResolvingInv'
    OBVIOUS
<1>1. /\ [EngineNext]_engineVars /\ [ScopedNext]_scopedVars
      /\ [JiraNext]_jiraVars /\ [RegistryNext]_registryVars
  BY DEF ResolvingNext, resolvingVars
<1> QED BY <1>1, EngineInvInductive, ScopedInvInductive, JiraInvInductive, RegistryInvInductive
        DEF ResolvingInv

(* The types of all four parts, whichever of them runs.                    *)
THEOREM ResolvingTypeCorrect == ResolvingSpec => []ResolvingTypeOK
<1>1. ResolvingInv => EngineTypeOK /\ JiraTypeOK /\ RegistryTypeOK
  BY DEF ResolvingInv, EngineInv, JiraInv, RegistryInv
<1>2. ResolvingInv => ScopedTypeOK
  BY ScopedTyped DEF ResolvingInv
<1>3. ResolvingInv => ResolvingTypeOK
  BY <1>1, <1>2 DEF ResolvingTypeOK
<1> QED BY <1>3, ResolvingStarts, ResolvingInductive, PTL DEF ResolvingSpec

=============================================================================
