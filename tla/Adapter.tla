-------------------------------- MODULE Adapter --------------------------------
(***************************************************************************)
(* The TypeScript adapter (mcp-adapter/src): one process that is an MCP    *)
(* server to a host and an MCP client of one upstream server.  A manifest  *)
(* of rows renames, constrains and hides the upstream's tools.             *)
(*                                                                         *)
(* Both handlers first await the upstream's tool list, so requests overlap *)
(* and the upstream may change its tools, stall or die under any of them.  *)
(* What follows the list (projection, or plan and constraints) runs        *)
(* without an await.  The call that is forwarded is awaited again.         *)
(*                                                                         *)
(* A call has one argument, a path.  "inside" lies under the base of a     *)
(* path_within constraint, "link" does so lexically only, "object" stands  *)
(* for any value that is neither string, number nor boolean.               *)
(***************************************************************************)
EXTENDS Naturals, Sequences

CONSTANTS
  Tools,        \* names the upstream may offer
  Names,        \* names a host may call: tools and what rows expose
  Requests,     \* requests of the host
  HostValues,   \* arguments a host may give
  RawManifests, \* parsed manifest files
  RoutingKeys,  \* keys rows may be for
  RoutingKey    \* what --routing-key, ROUTING_KEY or "default" gives

Values == {"inside", "outside", "link", "number", "object", "absent"}

ASSUME NamesAssumption == Tools \subseteq Names /\ Names # {}
ASSUME ValuesAssumption == HostValues \subseteq Values
ASSUME KeysAssumption == {"default", RoutingKey} \subseteq RoutingKeys

Decisions == {"allow", "ask", "deny", "simulate", "absent"}
Calls == {"none", "from", "elsewhere", "const", "template", "nested"}
Constraints == {"within", "unknown"}

Rows == [key : RoutingKeys, tool : Tools, exposed : Names, decision : Decisions,
         call : Calls, constraints : SUBSET Constraints]

(* What the parser may leave in a file of rows: a field that is missing or *)
(* of the wrong sort included.                                             *)
RawRows ==
  [key : RoutingKeys \cup {"missing"}, tool : Tools \cup {"malformed"},
   exposed : Names \cup {"malformed"}, decision : Decisions \cup {"unknown"},
   call : Calls, constraints : (SUBSET Constraints) \cup {{"no array"}}]

ASSUME ManifestsAssumption == \A raw \in RawManifests : raw.rows \in Seq(RawRows)

VARIABLES
  phase,        \* of the process
  manifest,     \* the validated manifest
  offered,      \* the upstream's tools, now
  connected,    \* the upstream process lives
  req           \* request -> its state

vars == <<phase, manifest, offered, connected, req>>

-----------------------------------------------------------------------------
(* validateManifest: a row without a routing key gets "default", and       *)
(* constraints that are not an array are taken for none.                   *)
ValidManifest(raw) ==
  /\ raw.version = 1
  /\ raw.default \in Decisions
  /\ \A i \in DOMAIN raw.rows : /\ raw.rows[i].tool # "malformed"
                                /\ raw.rows[i].exposed # "malformed"
                                /\ raw.rows[i].decision \in Decisions

Validated(raw) ==
  [default |-> raw.default,
   rows    |-> [i \in DOMAIN raw.rows |->
                  [raw.rows[i] EXCEPT
                     !.key = IF @ = "missing" THEN "default" ELSE @,
                     !.constraints = IF @ = {"no array"} THEN {} ELSE @]]]

(* validateUpstreamConfig.                                                 *)
UpstreamConfigs ==
  [command : {"given", "missing"}, args : {"missing", "strings", "others"},
   env : {"missing", "strings", "others"}]

ValidUpstreamConfig(c) == c.command = "given" /\ c.args # "others" /\ c.env # "others"

-----------------------------------------------------------------------------
(* projectUpstreamToolsWithManifest: a tool without a row as itself, any   *)
(* other once for each of its rows that is not absent.                     *)
MyRows == {i \in DOMAIN manifest.rows : manifest.rows[i].key = RoutingKey}
RowsOf(tool) == {i \in MyRows : manifest.rows[i].tool = tool}

ListEntry(name, tool, decision) == [name |-> name, tool |-> tool, decision |-> decision]

\* Deliberate error, for the mutation runs: every row is listed.
ProjectAbsentToo(tools) ==
  {ListEntry(t, t, manifest.default) :
     t \in {u \in tools : RowsOf(u) = {} /\ manifest.default # "absent"}}
  \cup
  {ListEntry(manifest.rows[i].exposed, manifest.rows[i].tool, manifest.rows[i].decision) :
     i \in {j \in MyRows : manifest.rows[j].tool \in tools}}

Project(tools) ==
  {ListEntry(t, t, manifest.default) :
     t \in {u \in tools : RowsOf(u) = {} /\ manifest.default # "absent"}}
  \cup
  {ListEntry(manifest.rows[i].exposed, manifest.rows[i].tool, manifest.rows[i].decision) :
     i \in {j \in MyRows : /\ manifest.rows[j].tool \in tools
                           /\ manifest.rows[j].decision # "absent"}}

-----------------------------------------------------------------------------
(* resolveExpression and getByPath on the one argument.  A path that leads *)
(* nowhere gives undefined, a template of anything but a string, a number  *)
(* or a boolean throws, and of a number it makes a string.                 *)
Resolve(call, value) ==
  CASE call \in {"none", "from"} -> value
    [] call = "elsewhere"        -> "absent"
    [] call = "const"            -> "inside"
    [] call = "nested"           -> "object"
    [] call = "template"         -> IF value = "number" THEN "inside" ELSE value

Throws(call, value) == call = "template" /\ value \in {"object", "absent"}

(* evaluateAdapterConstraints: an unknown kind is refused, path_within     *)
(* wants a string that stays under the base lexically and through links.   *)
(* For the links realpathSync has to resolve the base; where that throws   *)
(* (no such directory) it is not as a violation.                           *)
Evaluated(constraints, value, resolves) ==
  CASE constraints = {} -> "allow"
    [] "within" \in constraints /\ value \in {"inside", "link"} /\ ~resolves -> "throws"
    [] OTHER -> IF constraints = {"within"} /\ value = "inside" THEN "allow" ELSE "violation"

(* planToolCallWithManifest: the first row that exposes the name decides;  *)
(* else a tool the upstream offers and no rule hides gets the default.     *)
RowsExposing(name) == {i \in MyRows : manifest.rows[i].exposed = name}
RowFor(name) ==
  CHOOSE i \in RowsExposing(name) : \A j \in RowsExposing(name) : i <= j

\* Deliberate error, for the mutation runs: rows of all sorts make a tool visible.
HiddenWithoutRowsOnly(tool) == RowsOf(tool) = {} /\ manifest.default = "absent"

Hidden(tool) ==
  \/ RowsOf(tool) = {} /\ manifest.default = "absent"
  \/ RowsOf(tool) # {} /\ \A i \in RowsOf(tool) : manifest.rows[i].decision = "absent"

PlanOf(decision, tool, value, constraints) ==
  [decision |-> decision, tool |-> tool, value |-> value, constraints |-> constraints]

RowPlan(row, value) ==
  PlanOf(IF Throws(row.call, value) THEN "throws" ELSE row.decision,
         row.tool, Resolve(row.call, value), row.constraints)

Plan(name, value, tools) ==
  IF RowsExposing(name) # {}
  THEN RowPlan(manifest.rows[RowFor(name)], value)
  ELSE PlanOf(IF name \notin tools \/ Hidden(name) THEN "absent" ELSE manifest.default,
              name, value, {})

-----------------------------------------------------------------------------
(* A request: what was asked, the upstream's list it was given, the call   *)
(* it forwarded and its answer.  "during" is history: every tool the       *)
(* upstream offered at some time since the request arrived, until it is    *)
(* served.                                                                 *)
NoCall == [tool |-> "none"]
Forwarded == [tool : Names, value : Values]
Stages == {"unsent", "awaits list", "has list", "awaits result", "answered"}
Answers == {"none", "tools", "absent", "deny", "ask", "simulated", "violation", "failed", "result"}

ReqStates ==
  [stage : Stages, kind : {"list", "call"}, name : Names, value : Values,
   seen : SUBSET Tools, during : SUBSET Tools,
   shown : SUBSET [name : Names, tool : Tools, decision : Decisions],
   sent : Forwarded \cup {NoCall}, answer : Answers]

TypeOK ==
  /\ phase \in {"starting", "serving", "exited"}
  /\ manifest.default \in Decisions
  /\ \A i \in DOMAIN manifest.rows : manifest.rows[i] \in Rows
  /\ offered \subseteq Tools
  /\ connected \in BOOLEAN
  /\ req \in [Requests -> ReqStates]

AnyName == CHOOSE n \in Names : TRUE

Unsent ==
  [stage |-> "unsent", kind |-> "list", name |-> AnyName, value |-> "absent", seen |-> {},
   during |-> {}, shown |-> {}, sent |-> NoCall, answer |-> "none"]

Init ==
  /\ phase = "starting"
  /\ manifest = [default |-> "absent", rows |-> << >>]
  /\ offered \in SUBSET Tools
  /\ connected = FALSE
  /\ req = [r \in Requests |-> Unsent]

(* runAdapterStdio up to its server: both files valid, upstream connected. *)
Start(raw, config) ==
  /\ phase = "starting"
  /\ ValidManifest(raw)
  /\ ValidUpstreamConfig(config)
  /\ manifest' = Validated(raw)
  /\ phase' = "serving"
  /\ connected' = TRUE
  /\ UNCHANGED <<offered, req>>

(* A path missing on the command line, a file that does not parse or is    *)
(* not valid, or an upstream that does not start: exit status 1.           *)
StartFails ==
  /\ phase = "starting"
  /\ phase' = "exited"
  /\ UNCHANGED <<manifest, offered, connected, req>>

Answered(r, a) ==
  [r EXCEPT !.stage = "answered", !.answer = a, !.value = "absent",
            !.seen = {}, !.during = {}]

(* A request arrives; without an upstream its listTools fails at once.     *)
Arrive(r, kind, name, value) ==
  /\ phase = "serving"
  /\ req[r].stage = "unsent"
  /\ LET new == [req[r] EXCEPT !.kind = kind, !.name = name, !.value = value,
                               !.during = offered, !.stage = "awaits list"]
     IN  req' = [req EXCEPT ![r] = IF connected THEN new ELSE Answered(new, "failed")]
  /\ UNCHANGED <<phase, manifest, offered, connected>>

ListTools(r) == Arrive(r, "list", AnyName, "absent")
CallTool(r) == \E name \in Names, value \in HostValues : Arrive(r, "call", name, value)

Await(r, stage) == phase = "serving" /\ req[r].stage = stage

(* The upstream answers listTools with what it offers at that moment.      *)
ListArrives(r) ==
  /\ Await(r, "awaits list")
  /\ connected
  /\ req' = [req EXCEPT ![r].stage = "has list", ![r].seen = offered]
  /\ UNCHANGED <<phase, manifest, offered, connected>>

AnswerList(r) ==
  /\ Await(r, "has list")
  /\ req[r].kind = "list"
  /\ req' = [req EXCEPT ![r] = Answered([@ EXCEPT !.shown = Project(req[r].seen)], "tools")]
  /\ UNCHANGED <<phase, manifest, offered, connected>>

(* The rest of the call handler, up to its last await: the constraints of  *)
(* a call that is allowed, and the answer to one that is not, or not any   *)
(* more.                                                                   *)
Constrained(plan, resolves) ==
  IF plan.decision = "allow"
  THEN [plan EXCEPT !.decision = Evaluated(plan.constraints, plan.value, resolves)]
  ELSE plan

RefusalFor(plan) ==
  CASE plan.decision = "throws"   -> "failed"
    [] plan.decision = "simulate" -> "simulated"
    [] OTHER                      -> plan.decision

Sent(r, plan) ==
  [r EXCEPT !.stage = "awaits result", !.seen = {}, !.during = {},
            !.sent = [tool |-> plan.tool, value |-> plan.value]]

\* Deliberate error, for the mutation runs: a simulated call goes through as well.
CarryOutSimulating(r, plan) ==
  IF plan.decision = "simulate" THEN Answered(Sent(r, plan), "simulated")
  ELSE IF plan.decision # "allow" THEN Answered(r, RefusalFor(plan))
  ELSE IF connected THEN Sent(r, plan)
  ELSE Answered(r, "failed")

CarryOut(r, plan) ==
  IF plan.decision # "allow" THEN Answered(r, RefusalFor(plan))
  ELSE IF connected THEN Sent(r, plan)
  ELSE Answered(r, "failed")

\* Deliberate errors: the list of any request will do; a throw leaves no answer.
AnswerCallFromCache(r) ==
  /\ Await(r, "has list")
  /\ req[r].kind = "call"
  /\ \E s \in Requests, resolves \in BOOLEAN :
       LET plan == Plan(req[r].name, req[r].value, req[s].seen)
       IN  req' = [req EXCEPT ![r] = CarryOut(@, Constrained(plan, resolves))]
  /\ UNCHANGED <<phase, manifest, offered, connected>>

AnswerCallOrHang(r) ==
  /\ Await(r, "has list")
  /\ req[r].kind = "call"
  /\ \E resolves \in BOOLEAN :
       LET plan == Constrained(Plan(req[r].name, req[r].value, req[r].seen), resolves)
       IN  plan.decision # "throws" /\ req' = [req EXCEPT ![r] = CarryOut(@, plan)]
  /\ UNCHANGED <<phase, manifest, offered, connected>>

AnswerCall(r) ==
  /\ Await(r, "has list")
  /\ req[r].kind = "call"
  /\ \E resolves \in BOOLEAN :
       LET plan == Constrained(Plan(req[r].name, req[r].value, req[r].seen), resolves)
       IN  req' = [req EXCEPT ![r] = CarryOut(@, plan)]
  /\ UNCHANGED <<phase, manifest, offered, connected>>

(* The upstream's result, or its error, is passed on.                      *)
ResultArrives(r) ==
  /\ Await(r, "awaits result")
  /\ connected
  /\ \E a \in {"result", "failed"} : req' = [req EXCEPT ![r] = Answered(@, a)]
  /\ UNCHANGED <<phase, manifest, offered, connected>>

(* The client's timer: the promise is rejected, the host gets an error.    *)
Timeout(r) ==
  /\ phase = "serving"
  /\ req[r].stage \in {"awaits list", "awaits result"}
  /\ req' = [req EXCEPT ![r] = Answered(@, "failed")]
  /\ UNCHANGED <<phase, manifest, offered, connected>>

Waiting(r) == req[r].stage \in {"awaits list", "awaits result"}

(* The upstream process ends: the client rejects what it still waits for.  *)
UpstreamDies ==
  /\ phase = "serving"
  /\ connected
  /\ connected' = FALSE
  /\ req' = [r \in Requests |-> IF Waiting(r) THEN Answered(req[r], "failed") ELSE req[r]]
  /\ UNCHANGED <<phase, manifest, offered>>

InFlight(r) == req[r].stage \in {"awaits list", "has list", "awaits result"}

(* The upstream adds and withdraws tools as it likes.                      *)
UpstreamChanges ==
  /\ phase = "serving"
  /\ connected
  /\ offered' \in SUBSET Tools
  /\ req' = [r \in Requests |->
               IF InFlight(r) THEN [req[r] EXCEPT !.during = @ \cup offered'] ELSE req[r]]
  /\ UNCHANGED <<phase, manifest, connected>>

(* SIGINT or SIGTERM.                                                      *)
Shutdown ==
  /\ phase = "serving"
  /\ phase' = "exited"
  /\ connected' = FALSE
  /\ UNCHANGED <<manifest, offered, req>>

Next ==
  \/ \E raw \in RawManifests, config \in UpstreamConfigs : Start(raw, config)
  \/ StartFails
  \/ \E r \in Requests : \/ ListTools(r)
                         \/ CallTool(r)
                         \/ ListArrives(r)
                         \/ AnswerList(r)
                         \/ AnswerCall(r)
                         \/ ResultArrives(r)
                         \/ Timeout(r)
  \/ UpstreamDies
  \/ UpstreamChanges
  \/ Shutdown

(* Continuations run when their promise is settled and the client's timer  *)
(* fires.  Nothing is asked of the upstream.                               *)
Fairness ==
  \A r \in Requests : WF_vars(AnswerList(r)) /\ WF_vars(AnswerCall(r)) /\ WF_vars(Timeout(r))

Spec == Init /\ [][Next]_vars /\ Fairness

-----------------------------------------------------------------------------
(* No two rows expose one name, and none exposes the name of a tool that   *)
(* has no row: the manifests whose list and calls can agree at all.        *)
Unambiguous ==
  /\ \A i, j \in MyRows : manifest.rows[i].exposed = manifest.rows[j].exposed => i = j
  /\ \A i \in MyRows : manifest.rows[i].exposed \in Tools => RowsOf(manifest.rows[i].exposed) # {}

(* Projection and planning are written twice.  With an unambiguous         *)
(* manifest they agree: whatever a list shows can be called under the name *)
(* shown, reaches the tool it was shown for and gets that tool's decision  *)
(* (or an error, when its arguments do not translate).                     *)
ListedIsCallable ==
  Unambiguous =>
    \A e \in Project(offered), value \in HostValues :
      LET plan == Plan(e.name, value, offered)
      IN  plan.tool = e.tool /\ plan.decision \in {e.decision, "throws"} \ {"absent"}

(* A tool that no list would ever show, whatever the upstream offers, is   *)
(* never reached, under any name and by any of the overlapping requests.   *)
UnlistableNeverReached ==
  \A r \in Requests :
    req[r].sent # NoCall => \E e \in Project(Tools) : e.tool = req[r].sent.tool

(* A request is served from the upstream's tools as they were at some time *)
(* while it was being served, never from another request's view: what it   *)
(* shows, and a tool it forwards to without a row of its own.              *)
ServedFromOwnList ==
  [][\A r \in Requests :
       req[r].stage = "has list" /\ req'[r].stage \in {"awaits result", "answered"} =>
         /\ \A e \in req'[r].shown : e.tool \in req[r].during
         /\ req'[r].sent # NoCall /\ RowsExposing(req[r].name) = {} =>
              req'[r].sent.tool \in req[r].during]_vars

(* The host is not told that a call was refused or simulated when the      *)
(* upstream got it, nor given a result of a call that was not made.        *)
AnswerTellsEffect ==
  \A r \in Requests :
    /\ req[r].answer \in {"absent", "deny", "ask", "simulated", "violation", "tools"} =>
         req[r].sent = NoCall
    /\ req[r].answer = "result" => req[r].sent # NoCall

(* Every request is answered, also when the upstream stalls, dies or its   *)
(* tools change, unless the adapter is shut down.                          *)
EveryRequestAnswered ==
  \A r \in Requests : InFlight(r) ~> (req[r].stage = "answered" \/ phase = "exited")
=============================================================================
