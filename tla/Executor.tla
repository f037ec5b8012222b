------------------------------- MODULE Executor -------------------------------
(***************************************************************************)
(* The proxy pipeline (safe_mcp_proxy/executor.py) with the state it works *)
(* on: the world pointer, the stored tool registry, the in-memory approval *)
(* store and the append-only audit log.                                    *)
(*                                                                         *)
(* One Executor serves one call at a time: mcp_server.py is a stdio loop   *)
(* and the API's handlers are coroutines that never await.  What does      *)
(* happen inside a call is that a tool's handler runs: it may return, it   *)
(* may raise (execute and execute_approved have no try), and the process   *)
(* may die under it.  A call that reaches a handler is therefore two       *)
(* steps, and "runs" is the list of handler invocations; its last element  *)
(* is "running" while a call is inside a handler.                          *)
(*                                                                         *)
(* A restart loses what lives in memory (approvals, the switched world,    *)
(* mutated schemas) and keeps audit.jsonl.  Policy is the Python engine;   *)
(* PolicyEngines shows that the OPA engine answers the same.               *)
(*                                                                         *)
(* A tool's capability is its name: every Tool that registry.py builds has *)
(* it so, and a tool that does not resolve is given its name.              *)
(***************************************************************************)
EXTENDS Policy, Naturals, Sequences

CONSTANTS
  Tools,            \* names an agent may call
  Worlds,           \* ids with a manifest on disk
  RootWorld,        \* the id "" of the default manifest
  InitialWorld,     \* the world the process was started with
  WorldTables,      \* world -> its compiled manifest
  Catalog,          \* world -> tools its registry defines (mock and scoped)
  SideEffect,       \* tool -> side effect type of its definition
  SimulateExternal, \* the simulation flag of config/policy.yaml
  LibraryCallers,   \* python code also drives the store, not only the API
  MaxTokens,        \* bound: approval tokens ever issued
  MaxRuns,          \* bound: handler invocations
  MaxAudit          \* bound: audit entries

ASSUME WorldsAssumption ==
  /\ {RootWorld, InitialWorld} \subseteq Worlds
  /\ WorldTables \in [Worlds -> Tables(Tools, Tools)]
  /\ Catalog \in [Worlds -> SUBSET Tools]
  /\ SideEffect \in [Tools -> SideEffects \ {"unknown"}]
ASSUME FlagsAssumption == SimulateExternal \in BOOLEAN /\ LibraryCallers \in BOOLEAN
ASSUME BoundsAssumption == MaxTokens \in Nat /\ MaxRuns \in Nat /\ MaxAudit \in Nat

Modes == {"INTERACTIVE", "BACKGROUND"}
Tokens == 1..MaxTokens
NoToken == 0
Statuses == {"pending", "approved", "rejected", "executed"}
Outcomes == {"running", "ok", "raised", "crashed"}

VARIABLES
  current,          \* WorldController: id of the active world
  drifted,          \* tools whose schema no longer matches its pinned hash
  issued,           \* number of tokens issued so far (uuid4: never reused)
  store,            \* ApprovalStore: token -> entry, in memory
  serving,          \* token an API approval has approved and not yet served
  runs,             \* handler invocations, oldest first
  audit             \* audit.jsonl, oldest first

vars == <<current, drifted, issued, store, serving, runs, audit>>

Approvals == [tool : Tools, taint : BOOLEAN, mode : Modes, status : Statuses]

(* History kept for checking: the token a run serves, the taint of the     *)
(* request behind it, the world and the drift at the time it began.        *)
Runs == [tool : Tools, taint : BOOLEAN, token : Tokens \cup {NoToken},
         world : Worlds, drifted : BOOLEAN, outcome : Outcomes]

AskUnavailable  == Result("DENY", "ask_unavailable_in_background")
Approved        == Result("ALLOW", "approved")
Rejected        == Result("DENY", "approval_rejected")
Results == PolicyResults \cup {AskUnavailable, Approved, Rejected}

(* What record_absence and record_simulation log for an integration.       *)
NotInOntology     == Result("ABSENT", "action_not_in_ontology")
SimulatedExternal == Result("SIMULATE", "simulate_external_action")
RecordedResults == {NotInOntology, SimulatedExternal}

(* "token" and "by" are history: audit.jsonl does not record which token   *)
(* an entry belongs to, nor whether execute() or an integration decided.   *)
AuditEntries == [tool : Tools, result : Results \cup RecordedResults, taint : BOOLEAN,
                 world : Worlds, token : Tokens \cup {NoToken}, by : {"executor", "gate"}]

TypeOK ==
  /\ current \in Worlds
  /\ drifted \subseteq Tools
  /\ issued \in 0..MaxTokens
  /\ DOMAIN store \subseteq 1..issued
  /\ \A k \in DOMAIN store : store[k] \in Approvals
  /\ serving \in Tokens \cup {NoToken}
  /\ runs \in Seq(Runs)
  /\ audit \in Seq(AuditEntries)

-----------------------------------------------------------------------------
(* The registry is built once, from the initial world, and kept across     *)
(* switches: get_tool sees its exposed part, get_any_tool all of it.       *)
ExposedIn(world) == Catalog[world] \cap WorldTables[world].allowlist
Exposed == ExposedIn(InitialWorld)
Known   == Catalog[InitialWorld]

(* _tool_context: what a registry tells the policy about a tool.           *)
SideEffectSeen(tool, exposed) == IF tool \in exposed THEN SideEffect[tool] ELSE "unknown"

\* Deliberate error, for the mutation runs: the pinned hash is not compared.
HashUnchecked(tool, exposed, mutated) == TRUE

HashOk(tool, exposed, mutated) == tool \in exposed => tool \notin mutated

(* _resolve_components and decide: policy of the current world, tool of    *)
(* the stored registry.                                                    *)
PolicyAnswer(tool, taint) ==
  Decide(WorldTables[current], tool, tool, taint,
         SideEffectSeen(tool, Exposed), HashOk(tool, Exposed, drifted))

\* Deliberate error: the simulation flag is tested on the policy's view.
SimulatedAsSeen(tool) == SimulateExternal /\ SideEffectSeen(tool, Exposed) = "external"

Simulated(tool) == SimulateExternal /\ SideEffect[tool] = "external"

InHandler == runs # << >> /\ runs[Len(runs)].outcome = "running"
Idle == ~InHandler /\ serving = NoToken

Entry(tool, result, taint, world, token) ==
  [tool |-> tool, result |-> result, taint |-> taint, world |-> world, token |-> token,
   by |-> "executor"]

(* _audit appends one line; the append itself is taken not to fail.        *)
Audit(tool, result, taint, world, token) ==
  audit' = Append(audit, Entry(tool, result, taint, world, token))

(* A handler is entered; the call's audit entry is still to be written.    *)
EnterHandler(tool, taint, token) ==
  /\ Len(runs) < MaxRuns
  /\ runs' = Append(runs, [tool |-> tool, taint |-> taint, token |-> token,
                           world |-> current, drifted |-> tool \in drifted,
                           outcome |-> "running"])

HandlerEnds(outcome) == runs' = [runs EXCEPT ![Len(runs)].outcome = outcome]

-----------------------------------------------------------------------------
Init ==
  /\ current = InitialWorld
  /\ drifted = {}
  /\ issued = 0
  /\ store = << >>
  /\ serving = NoToken
  /\ runs = << >>
  /\ audit = << >>

-----------------------------------------------------------------------------
(* execute().  Every branch but an unresolvable ALLOW is below: for a tool *)
(* that the current world allows and the stored registry does not know,    *)
(* execute_tool raises KeyError before anything has changed.               *)

Called == Idle /\ Len(audit) < MaxAudit

ExecuteAllowed(tool, taint) ==
  /\ Called
  /\ PolicyAnswer(tool, taint) = DefaultAllow
  /\ tool \in Known
  /\ ~Simulated(tool)
  /\ EnterHandler(tool, taint, NoToken)
  /\ UNCHANGED <<current, drifted, issued, store, serving, audit>>

ExecuteSimulated(tool, taint) ==
  /\ Called
  /\ PolicyAnswer(tool, taint) = DefaultAllow
  /\ tool \in Known
  /\ Simulated(tool)
  /\ Audit(tool, DefaultAllow, taint, current, NoToken)
  /\ UNCHANGED <<current, drifted, issued, store, serving, runs>>

ExecuteRefused(tool, taint) ==
  /\ Called
  /\ PolicyAnswer(tool, taint).decision \in {"DENY", "ABSENT"}
  /\ Audit(tool, PolicyAnswer(tool, taint), taint, current, NoToken)
  /\ UNCHANGED <<current, drifted, issued, store, serving, runs>>

ExecuteAsk(tool, taint) ==
  /\ Called
  /\ PolicyAnswer(tool, taint) = ApprovalRequired
  /\ issued < MaxTokens
  /\ issued' = issued + 1
  /\ store' = [k \in DOMAIN store \cup {issued + 1} |->
                 IF k = issued + 1
                 THEN [tool |-> tool, taint |-> taint,
                       mode |-> "INTERACTIVE", status |-> "pending"]
                 ELSE store[k]]
  /\ Audit(tool, ApprovalRequired, taint, current, issued + 1)
  /\ UNCHANGED <<current, drifted, serving, runs>>

ExecuteAskInBackground(tool, taint) ==
  /\ Called
  /\ PolicyAnswer(tool, taint) = ApprovalRequired
  /\ Audit(tool, AskUnavailable, taint, current, NoToken)
  /\ UNCHANGED <<current, drifted, issued, store, serving, runs>>

Execute(tool, taint, mode) ==
  \/ ExecuteAllowed(tool, taint)
  \/ ExecuteSimulated(tool, taint)
  \/ ExecuteRefused(tool, taint)
  \/ mode = "INTERACTIVE" /\ ExecuteAsk(tool, taint)
  \/ mode = "BACKGROUND" /\ ExecuteAskInBackground(tool, taint)

-----------------------------------------------------------------------------
(* The approval path.                                                      *)

StoreStatus(token, status) == store' = [store EXCEPT ![token].status = status]

(* ApprovalStore.approve called by itself, as tests and demos do.          *)
StoreApprove(token) ==
  /\ Idle
  /\ LibraryCallers
  /\ token \in DOMAIN store
  /\ store[token].status = "pending"
  /\ StoreStatus(token, "approved")
  /\ UNCHANGED <<current, drifted, issued, serving, runs, audit>>

(* POST /approvals/{token}/approve: 404 and 409 change nothing; otherwise  *)
(* approve, and in the same request execute_approved.                      *)
ApiApprove(token) ==
  /\ Called
  /\ token \in DOMAIN store
  /\ store[token].status = "pending"
  /\ StoreStatus(token, "approved")
  /\ serving' = token
  /\ UNCHANGED <<current, drifted, issued, runs, audit>>

\* Deliberate error, for the mutation runs: the status check is missing.
ServiceBeginsUnchecked(token) ==
  /\ \/ serving = token
     \/ Called /\ LibraryCallers
  /\ token \in DOMAIN store
  /\ serving' = NoToken

(* execute_approved enters: from the API with the token it just approved,  *)
(* or from a library caller with any token.                                *)
ServiceBegins(token) ==
  /\ \/ serving = token
     \/ Called /\ LibraryCallers
  /\ token \in DOMAIN store
  /\ store[token].status = "approved"
  /\ serving' = NoToken

(* The stored registry does not expose the tool, or its external effect is *)
(* only simulated: marked executed and audited without a handler.          *)
ExecuteApprovedWithoutRun(token) ==
  /\ ServiceBegins(token)
  /\ LET e == store[token]
     IN  \/ /\ e.tool \notin Exposed
            /\ Audit(e.tool, NotAllowlisted, e.taint, current, token)
         \/ /\ e.tool \in Exposed
            /\ Simulated(e.tool)
            /\ Audit(e.tool, Approved, e.taint, current, token)
  /\ StoreStatus(token, "executed")
  /\ UNCHANGED <<current, drifted, issued, runs>>

ExecuteApprovedRun(token) ==
  /\ ServiceBegins(token)
  /\ store[token].tool \in Exposed
  /\ ~Simulated(store[token].tool)
  /\ EnterHandler(store[token].tool, store[token].taint, token)
  /\ UNCHANGED <<current, drifted, issued, store, audit>>

\* Deliberate error: a token that is no longer pending is rejected as well.
RejectApprovalAnyStatus(token) ==
  /\ Called
  /\ token \in DOMAIN store
  /\ StoreStatus(token, "rejected")
  /\ Audit(store[token].tool, Rejected, store[token].taint, current, token)
  /\ UNCHANGED <<current, drifted, issued, serving, runs>>

(* reject_approval, by the API or directly.                                *)
RejectApproval(token) ==
  /\ Called
  /\ token \in DOMAIN store
  /\ store[token].status = "pending"
  /\ StoreStatus(token, "rejected")
  /\ Audit(store[token].tool, Rejected, store[token].taint, current, token)
  /\ UNCHANGED <<current, drifted, issued, serving, runs>>

-----------------------------------------------------------------------------
(* The rest of execute and execute_approved, after the handler.            *)


\* Deliberate error, for the mutation runs: mark_executed is forgotten.
HandlerReturnsUnmarked ==
  /\ InHandler
  /\ HandlerEnds("ok")
  /\ LET r == runs[Len(runs)]
     IN  Audit(r.tool, IF r.token = NoToken THEN DefaultAllow ELSE Approved,
               r.taint, r.world, r.token)
  /\ UNCHANGED <<current, drifted, issued, store, serving>>

HandlerReturns ==
  /\ InHandler
  /\ HandlerEnds("ok")
  /\ LET r == runs[Len(runs)]
     IN  \/ /\ r.token = NoToken
            /\ Audit(r.tool, DefaultAllow, r.taint, r.world, NoToken)
            /\ UNCHANGED store
         \/ /\ r.token # NoToken
            /\ StoreStatus(r.token, "executed")
            /\ Audit(r.tool, Approved, r.taint, r.world, r.token)
  /\ UNCHANGED <<current, drifted, issued, serving>>

(* The exception leaves the method: no mark_executed, no audit entry.      *)
HandlerRaises ==
  /\ InHandler
  /\ HandlerEnds("raised")
  /\ UNCHANGED <<current, drifted, issued, store, serving, audit>>

-----------------------------------------------------------------------------
(* The environment.                                                        *)

(* WorldController.switch, from POST /world/switch.  Its WORLD_SWITCH line *)
(* is not a decision and is left out of "audit".                           *)
SwitchWorld(world) ==
  /\ Idle
  /\ current' = world
  /\ UNCHANGED <<drifted, issued, store, serving, runs, audit>>

(* The schema object of a registered tool is changed in place.             *)
MutateSchema(tool) ==
  /\ Idle
  /\ tool \in Exposed
  /\ drifted' = drifted \cup {tool}
  /\ UNCHANGED <<current, issued, store, serving, runs, audit>>

(* The process dies and is started again by build_executor.                *)
Restart ==
  /\ current' = InitialWorld
  /\ drifted' = {}
  /\ store' = << >>
  /\ serving' = NoToken
  /\ IF InHandler THEN HandlerEnds("crashed") ELSE UNCHANGED runs
  /\ UNCHANGED <<issued, audit>>

Next ==
  \/ \E tool \in Tools, taint \in BOOLEAN, mode \in Modes : Execute(tool, taint, mode)
  \/ \E token \in Tokens : \/ StoreApprove(token)
                           \/ ApiApprove(token)
                           \/ ExecuteApprovedWithoutRun(token)
                           \/ ExecuteApprovedRun(token)
                           \/ RejectApproval(token)
  \/ HandlerReturns
  \/ HandlerRaises
  \/ \E world \in Worlds : SwitchWorld(world)
  \/ \E tool \in Tools : MutateSchema(tool)
  \/ Restart

Spec == Init /\ [][Next]_vars

-----------------------------------------------------------------------------
(* replay(): the policy asked again about a recorded entry.  An entry with *)
(* a world id is judged by a fresh registry and the policy of that world;  *)
(* one from the root world, whose id is the empty string, falls back to    *)
(* the stored components of this executor.  The API's replay drops the     *)
(* world id, so there every entry takes the fallback.                      *)

ReplayInWorld(e) ==
  Decide(WorldTables[e.world], e.tool, e.tool, e.taint,
         SideEffectSeen(e.tool, ExposedIn(e.world)), HashOk(e.tool, ExposedIn(e.world), {}))

ReplayStored(e) ==
  Decide(WorldTables[InitialWorld], e.tool, e.tool, e.taint,
         SideEffectSeen(e.tool, Exposed), HashOk(e.tool, Exposed, drifted))

\* Deliberate error, for the mutation runs: every entry takes the fallback.
ReplayAlwaysStored(e) == ReplayStored(e)

Replay(e) == IF e.world # RootWorld THEN ReplayInWorld(e) ELSE ReplayStored(e)

ReplayMatches(e) == Replay(e) = e.result

-----------------------------------------------------------------------------
DirectRunCleared(r) ==
  LET w == WorldTables[r.world]
  IN  r.token = NoToken =>
        /\ r.tool \in (w.allowlist \cap w.capabilities) \ w.approvalRequired
        /\ r.tool \in Exposed =>
             ~r.drifted /\ ~(r.taint /\ SideEffect[r.tool] = "external")

(* A handler entered by execute() belongs to a call that the world active  *)
(* at that moment offers and does not gate; and, when the stored registry  *)
(* exposes the tool, to a call whose schema was intact and which does not  *)
(* carry taint outside.  (A tool that only a later world allows escapes    *)
(* the last two checks: see ExecutorClaims.)                               *)
DirectRunsCleared == \A i \in DOMAIN runs : DirectRunCleared(runs[i])

AskedFor(token, tool, taint) ==
  \E j \in DOMAIN audit : /\ audit[j].token = token
                         /\ audit[j].result = ApprovalRequired
                         /\ audit[j].tool = tool
                         /\ audit[j].taint = taint

ApprovedRunCleared(r) ==
  r.token # NoToken =>
    /\ r.tool \in Exposed
    /\ ~(r.taint /\ SideEffect[r.tool] = "external")
    /\ AskedFor(r.token, r.tool, r.taint)

(* execute_approved asks no policy, yet what it runs was cleared: the tool *)
(* is exposed, the request was asked about under the same token, tool and  *)
(* taint, and it does not carry taint outside, because the taint rule      *)
(* stands before the approval rule and both ends resolve the tool in the   *)
(* same stored registry.                                                   *)
ApprovedRunsCleared == \A i \in DOMAIN runs : ApprovedRunCleared(runs[i])

(* What makes that so: every token in the store, whatever its status, was  *)
(* asked for under its tool and taint, and is no tainted external request. *)
TokensCleared ==
  \A k \in DOMAIN store :
    /\ store[k].tool \in Exposed =>
         ~(store[k].taint /\ SideEffect[store[k].tool] = "external")
    /\ AskedFor(k, store[k].tool, store[k].taint)

SettlingEntries(k) ==
  {i \in DOMAIN audit : audit[i].token = k /\ audit[i].result # ApprovalRequired}

(* The log and the store tell the same story about every token, also when  *)
(* handlers raise and the process restarts: one ASK entry for each token   *)
(* issued, at most one entry that settles it, and while the store          *)
(* remembers the token it is settled there exactly when it is in the log.  *)
ApprovalsAccounted ==
  \A k \in 1..issued :
    /\ Cardinality({i \in DOMAIN audit : audit[i].token = k
                                        /\ audit[i].result = ApprovalRequired}) = 1
    /\ Cardinality(SettlingEntries(k)) <= 1
    /\ k \in DOMAIN store =>
         (SettlingEntries(k) # {}) = (store[k].status \in {"executed", "rejected"})

(* As many ALLOW entries for effects that are not simulated as handlers    *)
(* that returned: no completed run goes unrecorded and no entry claims a   *)
(* run that did not complete.                                              *)
CompletedRunsAudited ==
  Cardinality({i \in DOMAIN runs : runs[i].outcome = "ok"}) =
  Cardinality({j \in DOMAIN audit : /\ audit[j].result.decision = "ALLOW"
                                   /\ ~Simulated(audit[j].tool)})

(* Of the promise that replay reproduces every recorded decision, the part *)
(* that holds of one entry: written by execute() with a rule of the policy *)
(* itself, drift aside, it replays to what was recorded, in a named world  *)
(* always and in the root world while the process started in it has not    *)
(* seen the tool drift; provided that the two registries agree on whether  *)
(* the tool is exposed, which matters for tainted requests to external     *)
(* tools.                                                                  *)
EntryReplays(e) ==
  /\ e.result \in PolicyResults \ {DescriptorDrift}
  /\ e.token = NoToken \/ e.result = ApprovalRequired
  /\ \/ /\ e.world # RootWorld
        /\ (e.taint /\ SideEffect[e.tool] = "external") =>
             (e.tool \in ExposedIn(e.world)) = (e.tool \in Exposed)
     \/ /\ e.world = RootWorld /\ InitialWorld = RootWorld
        /\ e.tool \notin drifted
  => ReplayMatches(e)

(* Approvals through the API alone never leave a token half way: one that  *)
(* stays approved between calls does so because its handler raised.        *)
OnlyFailuresStayApproved ==
  Idle /\ ~LibraryCallers =>
    \A k \in DOMAIN store : store[k].status = "approved" =>
      \E i \in DOMAIN runs : runs[i].token = k /\ runs[i].outcome = "raised"

(* Runs, log and store tell the same of every run that was completed and of*)
(* every one that failed.                                                  *)
RunsAccounted == CompletedRunsAudited /\ OnlyFailuresStayApproved

(* While external effects are simulated no handler of an external tool is  *)
(* entered, by either path, not even for a tool that only a later world    *)
(* allows and that the policy took for one of unknown side effect: the     *)
(* flag is tested on the tool that would run, not on the policy's view.    *)
SimulationContains ==
  SimulateExternal => \A i \in DOMAIN runs : SideEffect[runs[i].tool] # "external"

-----------------------------------------------------------------------------
(* The executor keeps the promise of ApprovalGate.                         *)
Phase(k) ==
  IF k > issued THEN "unasked"
  ELSE IF k \notin DOMAIN store THEN "lost"
  ELSE CASE store[k].status = "pending"  -> "open"
         [] store[k].status = "approved" -> "granted"
         [] store[k].status = "rejected" -> "refused"
         [] store[k].status = "executed" -> "closed"

Gate == INSTANCE ApprovalGate WITH
          phase     <- [k \in Tokens |-> Phase(k)],
          performed <- {k \in Tokens : \E i \in DOMAIN runs :
                          runs[i].token = k /\ runs[i].outcome = "ok"}

(* Asked, granted or refused, performed at most once, forgotten: the store, *)
(* the two entry points and the API together never leave that order.       *)
ImplementsGate == Gate!Spec

=============================================================================
