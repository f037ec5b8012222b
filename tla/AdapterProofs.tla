----------------------------- MODULE AdapterProofs -----------------------------
(***************************************************************************)
(* The adapter, for every manifest, every set of tools and any number of   *)
(* requests in flight: what a list shows can be called, what no list shows *)
(* is never reached, each request is served from a list of its own, and    *)
(* its answer tells what was forwarded.                                    *)
(***************************************************************************)
EXTENDS Adapter, WellFoundedInduction, TLAPS

(* A set of positions has a first one.                                     *)
LEMMA LeastPosition ==
  ASSUME NEW S \in SUBSET Nat, S # {}
  PROVE  \E i \in S : \A j \in S : i <= j
<1> DEFINE R == OpToRel(<, Nat)
<1>1. IsWellFoundedOn(R, Nat)
  BY NatLessThanWellFounded
<1>2. PICK i \in S : \A j \in S : <<j, i>> \notin R
  <2> HIDE DEF R
  <2> QED BY <1>1, WFMin, Zenon
<1>3. \A j \in S : ~(j < i)
  BY <1>2 DEF OpToRel
<1> QED BY <1>3

ManifestTyped ==
  /\ manifest.default \in Decisions
  /\ DOMAIN manifest.rows \subseteq Nat
  /\ \A i \in DOMAIN manifest.rows : manifest.rows[i] \in Rows

Entries == [name : Names, tool : Tools, decision : Decisions]

(* The operators: what a list shows, and what a plan may reach.            *)
LEMMA ProjectTyped ==
  ASSUME ManifestTyped, NEW tools \in SUBSET Tools
  PROVE  Project(tools) \subseteq Entries /\ \A e \in Project(tools) : e.tool \in tools
<1> SUFFICES ASSUME NEW e \in Project(tools) PROVE e \in Entries /\ e.tool \in tools
    OBVIOUS
<1>1. CASE \E t \in tools : e = ListEntry(t, t, manifest.default)
  BY <1>1, NamesAssumption DEF ManifestTyped, ListEntry, Entries
<1>2. CASE \E i \in MyRows : /\ manifest.rows[i].tool \in tools
                             /\ e = ListEntry(manifest.rows[i].exposed, manifest.rows[i].tool,
                                              manifest.rows[i].decision)
  <2>1. PICK i \in MyRows : /\ manifest.rows[i].tool \in tools
                            /\ e = ListEntry(manifest.rows[i].exposed, manifest.rows[i].tool,
                                             manifest.rows[i].decision)
    BY <1>2
  <2>2. manifest.rows[i] \in Rows
    BY DEF MyRows, ManifestTyped
  <2> QED BY <2>1, <2>2 DEF Rows, ListEntry, Entries
<1> QED BY <1>1, <1>2 DEF Project

LEMMA RowForExposes ==
  ASSUME ManifestTyped, NEW name, RowsExposing(name) # {}
  PROVE  RowFor(name) \in RowsExposing(name)
<1>1. RowsExposing(name) \in SUBSET Nat
  BY DEF ManifestTyped, RowsExposing, MyRows
<1>2. \E i \in RowsExposing(name) : \A j \in RowsExposing(name) : i <= j
  BY <1>1, LeastPosition
<1> QED BY <1>2 DEF RowFor

LEMMA ResolveTyped ==
  ASSUME NEW call \in Calls, NEW value \in Values
  PROVE  Resolve(call, value) \in Values
BY DEF Calls, Values, Resolve

LEMMA RowPlanned ==
  ASSUME ManifestTyped, NEW name, NEW value \in Values, NEW tools, RowsExposing(name) # {}
  PROVE  LET row  == manifest.rows[RowFor(name)]
             plan == Plan(name, value, tools)
         IN  /\ RowFor(name) \in MyRows /\ row \in Rows /\ row.exposed = name
             /\ plan.tool = row.tool /\ plan.value \in Values
             /\ plan.decision \in {row.decision, "throws"}
<1> DEFINE row == manifest.rows[RowFor(name)]
<1>1. RowFor(name) \in MyRows /\ row.exposed = name
  BY RowForExposes DEF RowsExposing
<1>2. row \in Rows
  BY <1>1 DEF MyRows, ManifestTyped
<1>3. Plan(name, value, tools) = RowPlan(row, value)
  BY DEF Plan
<1> HIDE DEF row
<1>4. row.call \in Calls
  BY <1>2 DEF Rows
<1>5. Resolve(row.call, value) \in Values
  BY <1>4, ResolveTyped
<1>6. /\ RowPlan(row, value).tool = row.tool
      /\ RowPlan(row, value).value \in Values
      /\ RowPlan(row, value).decision \in {row.decision, "throws"}
  BY <1>5 DEF RowPlan, PlanOf
<1> QED BY <1>1, <1>2, <1>3, <1>6 DEF row

(* A plan that is allowed reaches a tool some list would show, and without *)
(* a row of its own one of the list it was made from.                      *)
LEMMA PlanReaches ==
  ASSUME ManifestTyped, NEW name \in Names, NEW value \in Values, NEW tools \in SUBSET Tools
  PROVE  LET plan == Plan(name, value, tools)
         IN  /\ plan.tool \in Names /\ plan.value \in Values
             /\ plan.decision \in Decisions \cup {"throws"}
             /\ plan.decision = "allow" =>
                  /\ \E e \in Project(Tools) : e.tool = plan.tool
                  /\ RowsExposing(name) = {} => plan.tool \in tools
<1> DEFINE plan == Plan(name, value, tools)
<1>1. CASE RowsExposing(name) # {}
  <2> DEFINE i == RowFor(name)
             row == manifest.rows[i]
             entry == ListEntry(row.exposed, row.tool, row.decision)
  <2>1. /\ i \in MyRows /\ row \in Rows /\ plan.tool = row.tool /\ plan.value \in Values
        /\ plan.decision \in {row.decision, "throws"}
    BY <1>1, RowPlanned
  <2> HIDE DEF i, plan
  <2>2. row.tool \in Tools /\ row.decision \in Decisions
    BY <2>1 DEF Rows
  <2>3. plan.decision = "allow" => row.decision # "absent"
    BY <2>1
  <2>4. row.decision # "absent" => entry \in Project(Tools)
    BY <2>1, <2>2 DEF Project
  <2>5. entry.tool = row.tool
    BY DEF ListEntry
  <2> HIDE DEF row, entry
  <2>6. plan.tool \in Names /\ plan.decision \in Decisions \cup {"throws"}
    BY <2>1, <2>2, NamesAssumption
  <2>7. plan.decision = "allow" => \E e \in Project(Tools) : e.tool = plan.tool
    BY <2>1, <2>3, <2>4, <2>5
  <2> QED BY <1>1, <2>1, <2>6, <2>7 DEF plan
<1>2. CASE RowsExposing(name) = {}
  <2>1. plan = PlanOf(IF name \notin tools \/ Hidden(name) THEN "absent" ELSE manifest.default,
                      name, value, {})
    BY <1>2 DEF Plan
  <2>2. /\ plan.tool = name /\ plan.value = value
        /\ plan.decision = IF name \notin tools \/ Hidden(name) THEN "absent"
                           ELSE manifest.default
    BY <2>1 DEF PlanOf
  <2> HIDE DEF plan
  <2>3. plan.decision \in Decisions
    BY <2>2 DEF ManifestTyped, Decisions
  <2>4. ASSUME plan.decision = "allow"
        PROVE  name \in tools /\ \E e \in Project(Tools) : e.tool = name
    <3>1. name \in tools /\ ~Hidden(name) /\ manifest.default = "allow"
      BY <2>2, <2>4
    <3>2. CASE RowsOf(name) = {}
      <4>1. ListEntry(name, name, manifest.default) \in Project(Tools)
        BY <3>1, <3>2 DEF Project
      <4>2. ListEntry(name, name, manifest.default).tool = name
        BY DEF ListEntry
      <4> QED BY <3>1, <4>1, <4>2
    <3>3. CASE RowsOf(name) # {}
      <4>1. PICK i \in RowsOf(name) : manifest.rows[i].decision # "absent"
        BY <3>1, <3>3 DEF Hidden
      <4> DEFINE entry == ListEntry(manifest.rows[i].exposed, manifest.rows[i].tool,
                                    manifest.rows[i].decision)
      <4>2. i \in MyRows /\ manifest.rows[i].tool = name
        BY <4>1 DEF RowsOf
      <4>3. entry \in Project(Tools)
        BY <3>1, <4>1, <4>2 DEF Project
      <4>4. entry.tool = name
        BY <4>2 DEF ListEntry
      <4> QED BY <3>1, <4>3, <4>4
    <3> QED BY <3>2, <3>3
  <2> QED BY <2>2, <2>3, <2>4 DEF plan
<1> QED BY <1>1, <1>2

(* Projection and planning agree: the row a name was listed for is the one *)
(* row that exposes it, and a name without rows is that of its tool.       *)
LEMMA ListsAgreeWithPlans ==
  ASSUME ManifestTyped, offered \subseteq Tools
  PROVE  ListedIsCallable
<1> SUFFICES ASSUME Unambiguous, NEW e \in Project(offered), NEW value \in HostValues
             PROVE  LET plan == Plan(e.name, value, offered)
                    IN  plan.tool = e.tool /\ plan.decision \in {e.decision, "throws"} \ {"absent"}
    BY DEF ListedIsCallable
<1>1. value \in Values
  BY ValuesAssumption
<1>2. CASE \E t \in offered : /\ RowsOf(t) = {} /\ manifest.default # "absent"
                              /\ e = ListEntry(t, t, manifest.default)
  <2>1. PICK t \in offered : /\ RowsOf(t) = {} /\ manifest.default # "absent"
                             /\ e = ListEntry(t, t, manifest.default)
    BY <1>2
  <2>2. e.name = t /\ e.tool = t /\ e.decision = manifest.default
    BY <2>1 DEF ListEntry
  <2>3. RowsExposing(t) = {}
    <3> SUFFICES ASSUME NEW i \in MyRows, manifest.rows[i].exposed = t PROVE FALSE
        BY DEF RowsExposing
    <3> QED BY <2>1 DEF Unambiguous
  <2>4. ~Hidden(t)
    BY <2>1 DEF Hidden
  <2>5. Plan(t, value, offered) = PlanOf(manifest.default, t, value, {})
    BY <2>3, <2>4 DEF Plan
  <2> QED BY <2>1, <2>2, <2>5 DEF PlanOf
<1>3. CASE \E i \in MyRows : /\ manifest.rows[i].decision # "absent"
                             /\ e = ListEntry(manifest.rows[i].exposed, manifest.rows[i].tool,
                                              manifest.rows[i].decision)
  <2>1. PICK i \in MyRows : /\ manifest.rows[i].decision # "absent"
                            /\ e = ListEntry(manifest.rows[i].exposed, manifest.rows[i].tool,
                                             manifest.rows[i].decision)
    BY <1>3
  <2> DEFINE row == manifest.rows[i]
             mine == manifest.rows[RowFor(e.name)]
  <2>2. e.name = row.exposed /\ e.tool = row.tool /\ e.decision = row.decision
    BY <2>1 DEF ListEntry
  <2>3. RowsExposing(e.name) # {}
    BY <2>2 DEF RowsExposing
  <2>4. /\ RowFor(e.name) \in MyRows /\ mine.exposed = e.name
        /\ Plan(e.name, value, offered).tool = mine.tool
        /\ Plan(e.name, value, offered).decision \in {mine.decision, "throws"}
    BY <1>1, <2>3, RowPlanned
  <2>5. RowFor(e.name) = i
    BY <2>2, <2>4 DEF Unambiguous
  <2> QED BY <2>1, <2>2, <2>4, <2>5
<1> QED BY <1>2, <1>3 DEF Project

-----------------------------------------------------------------------------
(* A request: nothing is sent before its list is there, the list is of     *)
(* tools offered meanwhile, and the answer tells whether a call was sent.  *)
RequestOK(q, now, listed) ==
  /\ q \in ReqStates
  /\ q.stage \in {"unsent", "awaits list", "has list"} =>
       q.sent = NoCall /\ q.shown = {} /\ q.answer = "none"
  /\ q.stage \in {"awaits list", "has list"} => now \subseteq q.during
  /\ q.stage = "has list" => q.seen \subseteq q.during
  /\ q.sent # NoCall => \E e \in listed : e.tool = q.sent.tool
  /\ q.answer \in {"absent", "deny", "ask", "simulated", "violation", "tools"} => q.sent = NoCall
  /\ q.stage = "awaits result" => q.sent # NoCall /\ q.answer = "none"
  /\ q.answer = "result" => q.sent # NoCall

AdapterInv ==
  /\ TypeOK /\ ManifestTyped
  /\ phase = "starting" => \A r \in Requests : req[r] = Unsent
  /\ \A r \in Requests : RequestOK(req[r], offered, Project(Tools))

LEMMA ForwardedIsACall == \A c \in Forwarded : c # NoCall
<1> SUFFICES ASSUME NEW c \in Forwarded PROVE c # NoCall
    OBVIOUS
<1>1. "value" \in DOMAIN c
  BY DEF Forwarded
<1>2. DOMAIN NoCall = {"tool"}
  BY DEF NoCall
<1> QED BY <1>1, <1>2

LEMMA UnsentOK ==
  ASSUME NEW now, NEW listed
  PROVE  RequestOK(Unsent, now, listed) /\ Unsent.stage = "unsent"
<1>1. AnyName \in Names
  BY NamesAssumption DEF AnyName
<1>2. Unsent \in ReqStates
  BY <1>1 DEF Unsent, ReqStates, Stages, Values, Answers
<1> QED BY <1>2 DEF Unsent, RequestOK

(* An answer other than a result, where no call was sent.                  *)
LEMMA AnsweredOK ==
  ASSUME NEW now, NEW listed, NEW q, RequestOK(q, now, listed), NEW a \in Answers \ {"none"},
         a = "failed" \/ (a # "result" /\ q.sent = NoCall) \/ (a = "result" /\ q.sent # NoCall)
  PROVE  RequestOK(Answered(q, a), now, listed) /\ Answered(q, a).stage = "answered"
<1> DEFINE new == Answered(q, a)
<1>1. /\ new \in ReqStates /\ new.stage = "answered" /\ new.answer = a
      /\ new.sent = q.sent
  BY DEF Answered, RequestOK, ReqStates, Stages, Values
<1> HIDE DEF new
<1> QED BY <1>1 DEF RequestOK, new

(* Answering a call: what is forwarded is in the plan, and the plan within *)
(* what some list would show.                                              *)
LEMMA CarryOutOK ==
  ASSUME AdapterInv, NEW r \in Requests, req[r].stage = "has list", NEW resolves \in BOOLEAN
  PROVE  LET plan == Constrained(Plan(req[r].name, req[r].value, req[r].seen), resolves)
             new == CarryOut(req[r], plan)
         IN  /\ RequestOK(new, offered, Project(Tools))
             /\ new.shown = {}
             /\ new.sent # NoCall /\ RowsExposing(req[r].name) = {} =>
                  new.sent.tool \in req[r].during
<1> DEFINE q == req[r]
           raw == Plan(q.name, q.value, q.seen)
           plan == Constrained(raw, resolves)
           new == CarryOut(q, plan)
<1>1. /\ ManifestTyped /\ RequestOK(q, offered, Project(Tools))
      /\ q.stage = "has list"
  BY DEF AdapterInv
<1> HIDE DEF q
<1>2. /\ q.name \in Names /\ q.value \in Values /\ q.seen \in SUBSET Tools
      /\ q.seen \subseteq q.during /\ q.sent = NoCall /\ q.shown = {}
  BY <1>1 DEF RequestOK, ReqStates
<1>3. /\ plan.tool \in Names /\ plan.value \in Values
      /\ plan.decision \in Decisions \cup {"throws", "violation"}
      /\ plan.decision = "allow" =>
           /\ \E e \in Project(Tools) : e.tool = plan.tool
           /\ RowsExposing(q.name) = {} => plan.tool \in q.seen
  <2>1. /\ raw.tool \in Names /\ raw.value \in Values
        /\ raw.decision \in Decisions \cup {"throws"}
        /\ raw.decision = "allow" =>
             /\ \E e \in Project(Tools) : e.tool = raw.tool
             /\ RowsExposing(q.name) = {} => raw.tool \in q.seen
    BY <1>1, <1>2, PlanReaches
  <2>r. \E d, t, v, c : raw = PlanOf(d, t, v, c)
    BY DEF Plan, RowPlan
  <2> HIDE DEF raw
  <2>2. /\ plan.tool = raw.tool /\ plan.value = raw.value
        /\ plan.decision = IF raw.decision = "allow"
                           THEN Evaluated(raw.constraints, raw.value, resolves)
                           ELSE raw.decision
    BY <2>r DEF Constrained, PlanOf
  <2>3. Evaluated(raw.constraints, raw.value, resolves) \in {"allow", "throws", "violation"}
    BY DEF Evaluated
  <2> HIDE DEF plan
  <2> QED BY <2>1, <2>2, <2>3 DEF Decisions
<1> HIDE DEF plan
<1>4. CASE \E a \in Answers \ {"none", "result"} : new = Answered(q, a)
  <2>1. PICK a \in Answers \ {"none", "result"} : new = Answered(q, a)
    BY <1>4
  <2>2. new.shown = {} /\ new.sent = NoCall
    BY <1>1, <1>2, <2>1 DEF Answered, RequestOK, ReqStates
  <2>3. RequestOK(new, offered, Project(Tools))
    BY <1>1, <1>2, <2>1, AnsweredOK
  <2> QED BY <2>2, <2>3 DEF q, plan
<1>5. CASE new = Sent(q, plan) /\ plan.decision = "allow"
  <2> DEFINE call == [tool |-> plan.tool, value |-> plan.value]
  <2>1. call \in Forwarded /\ call.tool = plan.tool
    BY <1>3 DEF Forwarded
  <2>2. call # NoCall
    BY <2>1, ForwardedIsACall
  <2> HIDE DEF call
  <2>3. /\ new \in ReqStates /\ new.stage = "awaits result" /\ new.answer = q.answer
        /\ new.sent = call /\ new.shown = {}
    BY <1>1, <1>2, <1>5, <2>1 DEF Sent, RequestOK, ReqStates, Stages, call
  <2>4. q.answer = "none"
    BY <1>1 DEF RequestOK
  <2>5. \E e \in Project(Tools) : e.tool = call.tool
    BY <1>3, <1>5, <2>1
  <2> HIDE DEF new
  <2>6. RequestOK(new, offered, Project(Tools))
    BY <2>2, <2>3, <2>4, <2>5 DEF RequestOK
  <2>7. RowsExposing(q.name) = {} => new.sent.tool \in q.during
    BY <1>2, <1>3, <1>5, <2>1, <2>3
  <2> QED BY <2>3, <2>6, <2>7 DEF q, plan, new
<1>6. \/ new = Sent(q, plan) /\ plan.decision = "allow"
      \/ new = Answered(q, RefusalFor(plan)) /\ plan.decision # "allow"
      \/ new = Answered(q, "failed")
  BY DEF CarryOut
<1>7. plan.decision # "allow" => RefusalFor(plan) \in Answers \ {"none", "result"}
  BY <1>3 DEF RefusalFor, Decisions, Answers
<1> QED BY <1>4, <1>5, <1>6, <1>7 DEF Answers

-----------------------------------------------------------------------------
LEMMA AdapterStarts == Init => AdapterInv
<1> SUFFICES ASSUME Init PROVE AdapterInv
    OBVIOUS
<1>1. ManifestTyped /\ DOMAIN manifest.rows = {}
  BY DEF Init, ManifestTyped, Decisions
<1>2. \A r \in Requests : req[r] = Unsent /\ RequestOK(req[r], offered, Project(Tools))
  BY UnsentOK DEF Init
<1>3. req \in [Requests -> ReqStates]
  BY UnsentOK DEF Init, RequestOK
<1>4. TypeOK
  BY <1>1, <1>3 DEF Init, TypeOK, ManifestTyped
<1> QED BY <1>1, <1>2, <1>4 DEF AdapterInv

(* What depends on the variables through the manifest only.                *)
LEMMA SameManifest ==
  ASSUME manifest' = manifest
  PROVE  Project(Tools)' = Project(Tools) /\ ManifestTyped' = ManifestTyped
BY DEF Project, RowsOf, MyRows, ListEntry, ManifestTyped

(* A step that changes requests only, and each to one that is fine.        *)
LEMMA RequestStep ==
  ASSUME AdapterInv, phase = "serving", phase' \in {"serving", "exited"},
         manifest' = manifest, offered' \in SUBSET Tools, connected' \in BOOLEAN,
         req' \in [Requests -> ReqStates],
         \A r \in Requests : RequestOK(req'[r], offered', Project(Tools))
  PROVE  AdapterInv'
<1>1. TypeOK'
  BY DEF AdapterInv, TypeOK
<1>2. ManifestTyped' /\ Project(Tools)' = Project(Tools)
  BY SameManifest DEF AdapterInv
<1>3. \A r \in Requests : RequestOK(req[r], offered, Project(Tools))'
  BY <1>2
<1> QED BY <1>1, <1>2, <1>3 DEF AdapterInv

LEMMA OneRequestStep ==
  ASSUME AdapterInv, phase = "serving", UNCHANGED <<phase, manifest, offered, connected>>,
         NEW r \in Requests, NEW new, RequestOK(new, offered, Project(Tools)),
         req' = [req EXCEPT ![r] = new]
  PROVE  AdapterInv'
<1>1. req \in [Requests -> ReqStates] /\ offered \in SUBSET Tools /\ connected \in BOOLEAN
  BY DEF AdapterInv, TypeOK
<1>2. new \in ReqStates
  BY DEF RequestOK
<1>3. req' \in [Requests -> ReqStates]
  BY <1>1, <1>2
<1>4. \A s \in Requests : req'[s] = IF s = r THEN new ELSE req[s]
  BY <1>1
<1>5. \A s \in Requests : RequestOK(req'[s], offered', Project(Tools))
  BY <1>4 DEF AdapterInv
<1> QED BY <1>1, <1>3, <1>5, RequestStep

(* The manifest of a file that passes validateManifest.                    *)
LEMMA StartPreserves ==
  ASSUME AdapterInv, NEW raw \in RawManifests, NEW config \in UpstreamConfigs, Start(raw, config)
  PROVE  AdapterInv'
<1>1. raw.rows \in Seq(RawRows) /\ ValidManifest(raw) /\ manifest' = Validated(raw)
  BY ManifestsAssumption DEF Start
<1>2. DOMAIN raw.rows \subseteq Nat
  BY <1>1
<1>3. manifest'.default = raw.default /\ DOMAIN manifest'.rows = DOMAIN raw.rows
  BY <1>1 DEF Validated
<1>4. ASSUME NEW i \in DOMAIN raw.rows PROVE manifest'.rows[i] \in Rows
  <2> DEFINE row == raw.rows[i]
             new == manifest'.rows[i]
  <2>1. row \in RawRows
    BY <1>1
  <2>2. row.tool # "malformed" /\ row.exposed # "malformed" /\ row.decision \in Decisions
    BY <1>1 DEF ValidManifest
  <2>3. new = [row EXCEPT !.key = IF @ = "missing" THEN "default" ELSE @,
                          !.constraints = IF @ = {"no array"} THEN {} ELSE @]
    BY <1>1 DEF Validated
  <2> HIDE DEF row, new
  <2>4. /\ new.key = (IF row.key = "missing" THEN "default" ELSE row.key)
        /\ new.constraints = (IF row.constraints = {"no array"} THEN {} ELSE row.constraints)
        /\ new.tool = row.tool /\ new.exposed = row.exposed
        /\ new.decision = row.decision /\ new.call = row.call
        /\ new = [key |-> new.key, tool |-> new.tool, exposed |-> new.exposed,
                  decision |-> new.decision, call |-> new.call,
                  constraints |-> new.constraints]
    BY <2>1, <2>3 DEF RawRows
  <2>5. /\ new.key \in RoutingKeys /\ new.constraints \in SUBSET Constraints
        /\ new.tool \in Tools /\ new.exposed \in Names /\ new.decision \in Decisions
        /\ new.call \in Calls
    BY <2>1, <2>2, <2>4, KeysAssumption DEF RawRows
  <2>6. new \in Rows
    BY <2>4, <2>5 DEF Rows
  <2> QED BY <2>6 DEF new
<1>5. ManifestTyped'
  BY <1>1, <1>2, <1>3, <1>4 DEF ManifestTyped, ValidManifest
<1>6. TypeOK'
  BY <1>5 DEF Start, AdapterInv, TypeOK, ManifestTyped
<1>7. \A r \in Requests : req'[r] = Unsent
  BY DEF Start, AdapterInv
<1>8. \A r \in Requests : RequestOK(req'[r], offered', Project(Tools)')
  BY <1>7, UnsentOK
<1> QED BY <1>5, <1>6, <1>8 DEF Start, AdapterInv

LEMMA ArrivePreserves ==
  ASSUME AdapterInv, NEW r \in Requests, NEW kind \in {"list", "call"}, NEW name \in Names,
         NEW value \in Values, Arrive(r, kind, name, value)
  PROVE  AdapterInv'
<1> DEFINE q == req[r]
           arrived == [q EXCEPT !.kind = kind, !.name = name, !.value = value,
                                !.during = offered, !.stage = "awaits list"]
           new == IF connected THEN arrived ELSE Answered(arrived, "failed")
<1>1. /\ phase = "serving" /\ UNCHANGED <<phase, manifest, offered, connected>>
      /\ q.stage = "unsent" /\ req' = [req EXCEPT ![r] = new]
  BY DEF Arrive
<1>2. RequestOK(q, offered, Project(Tools)) /\ offered \in SUBSET Tools
  BY DEF AdapterInv, TypeOK
<1> HIDE DEF q
<1>3. /\ arrived \in ReqStates /\ arrived.stage = "awaits list" /\ arrived.sent = q.sent
      /\ arrived.shown = q.shown /\ arrived.answer = q.answer /\ arrived.during = offered
  BY <1>2 DEF RequestOK, ReqStates, Stages
<1>4. q.sent = NoCall /\ q.shown = {} /\ q.answer = "none"
  BY <1>1, <1>2 DEF RequestOK
<1> HIDE DEF arrived
<1>5. RequestOK(arrived, offered, Project(Tools))
  BY <1>3, <1>4 DEF RequestOK
<1>6. RequestOK(Answered(arrived, "failed"), offered, Project(Tools))
  BY <1>5, AnsweredOK DEF Answers
<1>7. RequestOK(new, offered, Project(Tools))
  BY <1>5, <1>6
<1> HIDE DEF new
<1> QED BY <1>1, <1>7, OneRequestStep

(* The continuations, and the errors a waiting request can get.            *)
LEMMA ListArrivesPreserves ==
  ASSUME AdapterInv, NEW r \in Requests, ListArrives(r)
  PROVE  AdapterInv'
<1> DEFINE q == req[r]
           new == [q EXCEPT !.stage = "has list", !.seen = offered]
<1>1. /\ phase = "serving" /\ UNCHANGED <<phase, manifest, offered, connected>>
      /\ q.stage = "awaits list"
      /\ req' = [req EXCEPT ![r].stage = "has list", ![r].seen = offered]
  BY DEF ListArrives, Await
<1>2. /\ RequestOK(q, offered, Project(Tools)) /\ offered \in SUBSET Tools
      /\ req \in [Requests -> ReqStates]
  BY DEF AdapterInv, TypeOK
<1>3. req' = [req EXCEPT ![r] = new]
  BY <1>1, <1>2
<1> HIDE DEF q
<1>4. /\ new \in ReqStates /\ new.stage = "has list" /\ new.sent = q.sent
      /\ new.shown = q.shown /\ new.answer = q.answer /\ new.during = q.during
      /\ new.seen = offered
  BY <1>2 DEF RequestOK, ReqStates, Stages
<1> HIDE DEF new
<1>5. RequestOK(new, offered, Project(Tools))
  BY <1>1, <1>2, <1>4 DEF RequestOK
<1> QED BY <1>1, <1>3, <1>5, OneRequestStep

LEMMA AnswerListPreserves ==
  ASSUME AdapterInv, NEW r \in Requests, AnswerList(r)
  PROVE  /\ AdapterInv'
         /\ req'[r].shown = Project(req[r].seen) /\ req'[r].sent = NoCall
         /\ \A s \in Requests \ {r} : req'[s] = req[s]
<1> DEFINE q == req[r]
           listing == [q EXCEPT !.shown = Project(q.seen)]
           new == Answered(listing, "tools")
<1>1. /\ phase = "serving" /\ UNCHANGED <<phase, manifest, offered, connected>>
      /\ q.stage = "has list"
      /\ req' = [req EXCEPT ![r] = new]
  BY DEF AnswerList, Await
<1>2. /\ RequestOK(q, offered, Project(Tools)) /\ ManifestTyped
      /\ req \in [Requests -> ReqStates]
  BY DEF AdapterInv, TypeOK
<1> HIDE DEF q
<1>3. q.seen \in SUBSET Tools /\ q.sent = NoCall /\ q.answer = "none" /\ q \in ReqStates
  BY <1>1, <1>2 DEF RequestOK, ReqStates
<1> DEFINE shown == Project(q.seen)
<1>4. shown \in SUBSET [name : Names, tool : Tools, decision : Decisions]
  BY <1>2, <1>3, ProjectTyped DEF Entries
<1> HIDE DEF shown
<1>5. /\ new \in ReqStates /\ new.stage = "answered" /\ new.answer = "tools"
      /\ new.sent = q.sent /\ new.shown = shown
  BY <1>3, <1>4 DEF Answered, ReqStates, Stages, Answers, Values, shown
<1> HIDE DEF new
<1>6. RequestOK(new, offered, Project(Tools))
  BY <1>3, <1>5 DEF RequestOK
<1>7. AdapterInv'
  BY <1>1, <1>6, OneRequestStep
<1>8. req'[r] = new /\ \A s \in Requests \ {r} : req'[s] = req[s]
  BY <1>1, <1>2
<1> QED BY <1>3, <1>5, <1>7, <1>8 DEF shown, q

LEMMA AnswerCallPreserves ==
  ASSUME AdapterInv, NEW r \in Requests, AnswerCall(r)
  PROVE  /\ AdapterInv'
         /\ req'[r].shown = {}
         /\ req'[r].sent # NoCall /\ RowsExposing(req[r].name) = {} =>
              req'[r].sent.tool \in req[r].during
         /\ \A s \in Requests \ {r} : req'[s] = req[s]
<1>0. PICK resolves \in BOOLEAN :
        req' = [req EXCEPT ![r] = CarryOut(req[r],
                  Constrained(Plan(req[r].name, req[r].value, req[r].seen), resolves))]
  BY DEF AnswerCall
<1> DEFINE new == CarryOut(req[r],
                    Constrained(Plan(req[r].name, req[r].value, req[r].seen), resolves))
<1>1. /\ phase = "serving" /\ UNCHANGED <<phase, manifest, offered, connected>>
      /\ req[r].stage = "has list"
      /\ req' = [req EXCEPT ![r] = new]
  BY <1>0 DEF AnswerCall, Await
<1>2. req \in [Requests -> ReqStates]
  BY DEF AdapterInv, TypeOK
<1>3. /\ RequestOK(new, offered, Project(Tools))
      /\ new.shown = {}
      /\ new.sent # NoCall /\ RowsExposing(req[r].name) = {} =>
           new.sent.tool \in req[r].during
  BY <1>1, CarryOutOK
<1> HIDE DEF new
<1>4. AdapterInv'
  BY <1>1, <1>3, OneRequestStep
<1> QED BY <1>1, <1>2, <1>3, <1>4

LEMMA WaitEndsPreserves ==
  ASSUME AdapterInv, NEW r \in Requests, ResultArrives(r) \/ Timeout(r)
  PROVE  AdapterInv'
<1> DEFINE q == req[r]
<1>1. PICK a \in {"result", "failed"} :
        /\ req' = [req EXCEPT ![r] = Answered(q, a)]
        /\ a = "result" => q.stage = "awaits result"
  BY DEF ResultArrives, Timeout, Await
<1>2. phase = "serving" /\ UNCHANGED <<phase, manifest, offered, connected>>
  BY DEF ResultArrives, Timeout, Await
<1>3. RequestOK(q, offered, Project(Tools))
  BY DEF AdapterInv
<1> HIDE DEF q
<1>4. a = "result" => q.sent # NoCall
  BY <1>1, <1>3 DEF RequestOK
<1>5. RequestOK(Answered(q, a), offered, Project(Tools))
  BY <1>1, <1>3, <1>4, AnsweredOK DEF Answers
<1> QED BY <1>1, <1>2, <1>5, OneRequestStep

LEMMA UpstreamPreserves ==
  ASSUME AdapterInv, UpstreamDies \/ UpstreamChanges
  PROVE  AdapterInv'
<1>1. /\ phase = "serving" /\ phase' = phase /\ manifest' = manifest
      /\ offered \in SUBSET Tools /\ connected' \in BOOLEAN
      /\ \A r \in Requests : RequestOK(req[r], offered, Project(Tools))
  BY DEF AdapterInv, TypeOK, UpstreamDies, UpstreamChanges
<1>2. CASE UpstreamDies
  <2>1. /\ offered' = offered
        /\ req' = [r \in Requests |-> IF Waiting(r) THEN Answered(req[r], "failed") ELSE req[r]]
    BY <1>2 DEF UpstreamDies
  <2>2. ASSUME NEW r \in Requests PROVE RequestOK(req'[r], offered', Project(Tools))
    <3>1. RequestOK(Answered(req[r], "failed"), offered, Project(Tools))
      BY <1>1, AnsweredOK DEF Answers
    <3> QED BY <1>1, <2>1, <3>1
  <2>3. req' \in [Requests -> ReqStates]
    BY <2>1, <2>2 DEF RequestOK
  <2> QED BY <1>1, <2>1, <2>2, <2>3, RequestStep
<1>3. CASE UpstreamChanges
  <2>1. /\ offered' \in SUBSET Tools
        /\ req' = [r \in Requests |->
                     IF InFlight(r) THEN [req[r] EXCEPT !.during = @ \cup offered'] ELSE req[r]]
    BY <1>3 DEF UpstreamChanges
  <2>2. ASSUME NEW r \in Requests PROVE RequestOK(req'[r], offered', Project(Tools))
    <3> DEFINE q == req[r]
               new == [q EXCEPT !.during = @ \cup offered']
    <3>1. /\ RequestOK(q, offered, Project(Tools))
          /\ req'[r] = new \/ (req'[r] = q /\ q.stage \notin {"awaits list", "has list"})
      BY <1>1, <2>1 DEF InFlight
    <3> HIDE DEF q
    <3>2. /\ new \in ReqStates /\ new.stage = q.stage /\ new.sent = q.sent
          /\ new.shown = q.shown /\ new.answer = q.answer
          /\ new.during = q.during \cup offered' /\ new.seen = q.seen
      BY <2>1, <3>1 DEF RequestOK, ReqStates
    <3> HIDE DEF new
    <3>3. RequestOK(new, offered', Project(Tools))
      BY <3>1, <3>2 DEF RequestOK
    <3>4. q.stage \notin {"awaits list", "has list"} =>
            RequestOK(q, offered', Project(Tools))
      BY <3>1 DEF RequestOK
    <3> QED BY <3>1, <3>3, <3>4
  <2>3. req' \in [Requests -> ReqStates]
    BY <2>1, <2>2 DEF RequestOK
  <2> QED BY <1>1, <2>1, <2>2, <2>3, RequestStep
<1> QED BY <1>2, <1>3

LEMMA AdapterInductive == AdapterInv /\ [Next]_vars => AdapterInv'
<1> SUFFICES ASSUME AdapterInv, [Next]_vars PROVE AdapterInv'
    OBVIOUS
<1>1. ASSUME NEW raw \in RawManifests, NEW config \in UpstreamConfigs, Start(raw, config)
      PROVE  AdapterInv'
  BY <1>1, StartPreserves
<1>2. CASE StartFails
  BY <1>2, SameManifest DEF StartFails, AdapterInv, TypeOK
<1>3. ASSUME NEW r \in Requests, ListTools(r) \/ CallTool(r) PROVE AdapterInv'
  <2>1. AnyName \in Names /\ "absent" \in Values
    BY NamesAssumption DEF AnyName, Values
  <2>2. CASE ListTools(r)
    BY <2>1, <2>2, ArrivePreserves DEF ListTools
  <2>3. CASE CallTool(r)
    BY <2>3, ArrivePreserves, ValuesAssumption DEF CallTool
  <2> QED BY <1>3, <2>2, <2>3
<1>4. ASSUME NEW r \in Requests,
             \/ ListArrives(r) \/ AnswerList(r) \/ AnswerCall(r)
             \/ ResultArrives(r) \/ Timeout(r)
      PROVE  AdapterInv'
  BY <1>4, ListArrivesPreserves, AnswerListPreserves, AnswerCallPreserves, WaitEndsPreserves
<1>5. CASE UpstreamDies \/ UpstreamChanges
  BY <1>5, UpstreamPreserves
<1>6. CASE Shutdown
  <2>1. req' = req /\ offered' = offered /\ manifest' = manifest /\ phase = "serving"
        /\ phase' = "exited" /\ connected' = FALSE
    BY <1>6 DEF Shutdown
  <2> QED BY <2>1, RequestStep DEF AdapterInv, TypeOK
<1>7. CASE UNCHANGED vars
  BY <1>7, SameManifest DEF vars, AdapterInv, TypeOK
<1> QED BY <1>1, <1>2, <1>3, <1>4, <1>5, <1>6, <1>7 DEF Next

LEMMA AdapterInvariant == Spec => []AdapterInv
BY AdapterStarts, AdapterInductive, PTL DEF Spec

(* Whatever the files, the tools and the order of requests: every manifest *)
(* in use and every request in flight is of the shape the handlers assume. *)
THEOREM AdapterTyped == Spec => []TypeOK
<1>1. AdapterInv => TypeOK
  BY DEF AdapterInv
<1> QED BY <1>1, AdapterInvariant, PTL

(* Whatever the manifest, if it is unambiguous: what a list would show now *)
(* can be called, and means the tool and the decision it was shown with.   *)
THEOREM ListsCanBeCalled == Spec => []ListedIsCallable
<1>1. AdapterInv => ListedIsCallable
  BY ListsAgreeWithPlans DEF AdapterInv, TypeOK
<1> QED BY <1>1, AdapterInvariant, PTL

(* A tool the manifest hides from every list is reached by no request,     *)
(* however requests overlap and the upstream changes its tools.            *)
THEOREM HiddenToolsUnreached == Spec => []UnlistableNeverReached
<1>1. AdapterInv => UnlistableNeverReached
  BY DEF AdapterInv, UnlistableNeverReached, RequestOK
<1> QED BY <1>1, AdapterInvariant, PTL

(* An answer that denies a call, or claims its result, is right about what *)
(* was forwarded, also when the upstream dies or a timer fires.            *)
THEOREM AnswersTellEffects == Spec => []AnswerTellsEffect
<1>1. AdapterInv => AnswerTellsEffect
  BY DEF AdapterInv, AnswerTellsEffect, RequestOK
<1> QED BY <1>1, AdapterInvariant, PTL

(* No request is served from the list of another or from one fetched       *)
(* before it came.                                                         *)
THEOREM EachServedFromItsList == Spec => ServedFromOwnList
<1> DEFINE Served(r) ==
             req[r].stage = "has list" /\ req'[r].stage \in {"awaits result", "answered"} =>
               /\ \A e \in req'[r].shown : e.tool \in req[r].during
               /\ req'[r].sent # NoCall /\ RowsExposing(req[r].name) = {} =>
                    req'[r].sent.tool \in req[r].during
<1>1. ASSUME AdapterInv, [Next]_vars, NEW r \in Requests PROVE Served(r)
  <2> SUFFICES ASSUME req[r].stage = "has list", req'[r].stage \in {"awaits result", "answered"}
               PROVE  /\ \A e \in req'[r].shown : e.tool \in req[r].during
                      /\ req'[r].sent # NoCall /\ RowsExposing(req[r].name) = {} =>
                           req'[r].sent.tool \in req[r].during
      OBVIOUS
  <2>1. /\ RequestOK(req[r], offered, Project(Tools)) /\ ManifestTyped
        /\ req \in [Requests -> ReqStates]
    BY <1>1 DEF AdapterInv, TypeOK
  <2>2. req[r].seen \in SUBSET Tools /\ req[r].seen \subseteq req[r].during
    BY <2>1 DEF RequestOK, ReqStates
  <2>3. CASE AnswerList(r)
    <3>1. req'[r].shown = Project(req[r].seen) /\ req'[r].sent = NoCall
      BY <1>1, <2>3, AnswerListPreserves
    <3>2. \A e \in Project(req[r].seen) : e.tool \in req[r].seen
      BY <2>1, <2>2, ProjectTyped
    <3> QED BY <2>2, <3>1, <3>2
  <2>4. CASE AnswerCall(r)
    BY <1>1, <2>4, AnswerCallPreserves
  <2>5. ASSUME ~AnswerList(r), ~AnswerCall(r) PROVE req'[r].stage = "has list"
    <3>1. ASSUME NEW s \in Requests,
                 \/ ListTools(s) \/ CallTool(s) \/ ListArrives(s) \/ AnswerList(s)
                 \/ AnswerCall(s) \/ ResultArrives(s) \/ Timeout(s)
          PROVE  req'[r] = req[r]
      <4>1. s = r => \/ req[s].stage \in {"unsent", "awaits list", "awaits result"}
                     \/ AnswerList(r) \/ AnswerCall(r)
        BY <3>1 DEF ListTools, CallTool, Arrive, ListArrives, ResultArrives, Timeout, Await
      <4>2. s # r
        BY <2>5, <4>1
      <4>3. \E new : req' = [req EXCEPT ![s] = new]
        <5>1. CASE ListArrives(s)
          <6>1. req' = [req EXCEPT ![s] = [req[s] EXCEPT !.stage = "has list", !.seen = offered]]
            BY <2>1, <5>1 DEF ListArrives
          <6> QED BY <6>1
        <5> QED BY <3>1, <5>1 DEF ListTools, CallTool, Arrive, AnswerList, AnswerCall,
                   ResultArrives, Timeout
      <4> QED BY <2>1, <4>2, <4>3
    <3>2. CASE UpstreamDies
      BY <2>1, <3>2 DEF UpstreamDies, Waiting
    <3>3. CASE UpstreamChanges
      BY <2>1, <3>3 DEF UpstreamChanges, InFlight, ReqStates
    <3>4. CASE StartFails \/ Shutdown \/ UNCHANGED vars
      BY <3>4 DEF StartFails, Shutdown, vars
    <3>5. CASE \E raw \in RawManifests, config \in UpstreamConfigs : Start(raw, config)
      BY <3>5 DEF Start
    <3> QED BY <1>1, <3>1, <3>2, <3>3, <3>4, <3>5 DEF Next
  <2> QED BY <2>3, <2>4, <2>5
<1>2. AdapterInv /\ [Next]_vars => [\A r \in Requests : Served(r)]_vars
  BY <1>1
<1> QED BY <1>2, AdapterInvariant, PTL DEF Spec, ServedFromOwnList
=============================================================================
