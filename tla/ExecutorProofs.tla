----------------------------- MODULE ExecutorProofs -----------------------------
(***************************************************************************)
(* Theorems about the executor and the Gemini route in front of it, for    *)
(* every set of tools and worlds, every manifest and every bound.  The     *)
(* sections, each with the inductive invariant it needs:                   *)
(*                                                                         *)
(* 1. types, and what a handler that is entered was cleared for (IInv);    *)
(* 2. the same with the Gemini route, and the gate against the executor;   *)
(* 3. runs, store and serving: how a token stands (TokenInv), and the      *)
(* simulation flag;                                                        *)
(* 4. the executor is an approval gate (the refinement of ApprovalGate);   *)
(* 5. the log against the store, token by token (LogInv);                  *)
(* 6. the log against the handlers, run by run (CountInv);                 *)
(* 7. the log against the policy: replay (DecidedInv).                     *)
(***************************************************************************)
EXTENDS GeminiGate, PolicyLemmas, FiniteSetTheorems

-----------------------------------------------------------------------------
(* 1. Types, and what a handler that is entered was cleared for.           *)

(* Every step with a world or a tool stays within the declared sets.       *)
LEMMA InitialTypes ==
  /\ InitialWorld \in Worlds
  /\ Exposed \subseteq Tools
  /\ \A t \in Tools : \A x : PolicyAnswer(t, x) \in PolicyResults
BY DecideType, WorldsAssumption DEF Exposed, ExposedIn, PolicyAnswer

LEMMA ResultTypes ==
  /\ PolicyResults \subseteq Results
  /\ AskUnavailable \in Results /\ Approved \in Results /\ Rejected \in Results
  /\ NotAllowlisted \in Results /\ DefaultAllow \in Results /\ ApprovalRequired \in Results
BY DEF Results, PolicyResults

(* Logging a well-formed entry keeps the log well-formed.                  *)
LEMMA AuditTypes ==
  ASSUME TypeOK, NEW tool \in Tools, NEW result \in Results, NEW taint \in BOOLEAN,
         NEW world \in Worlds, NEW token \in Tokens \cup {NoToken},
         Audit(tool, result, taint, world, token)
  PROVE  audit' \in Seq(AuditEntries)
BY DEF TypeOK, Audit, Entry, AuditEntries

(* So does entering a handler, and leaving it, for the list of runs.       *)
LEMMA EnterTypes ==
  ASSUME TypeOK, NEW tool \in Tools, NEW taint \in BOOLEAN,
         NEW token \in Tokens \cup {NoToken}, EnterHandler(tool, taint, token)
  PROVE  runs' \in Seq(Runs)
<1>1. [tool |-> tool, taint |-> taint, token |-> token, world |-> current,
       drifted |-> tool \in drifted, outcome |-> "running"] \in Runs
  BY DEF TypeOK, Runs, Outcomes
<1> QED BY <1>1 DEF TypeOK, EnterHandler

LEMMA LeaveTypes ==
  ASSUME TypeOK, InHandler, NEW outcome \in Outcomes, HandlerEnds(outcome)
  PROVE  /\ runs' \in Seq(Runs)
         /\ Len(runs) \in DOMAIN runs
         /\ runs[Len(runs)] \in Runs
<1>1. runs \in Seq(Runs) /\ Len(runs) \in DOMAIN runs
  BY DEF TypeOK, InHandler
<1>2. runs[Len(runs)] \in Runs
  BY <1>1
<1>3. [runs[Len(runs)] EXCEPT !.outcome = outcome] \in Runs
  BY <1>2 DEF Runs
<1> QED BY <1>1, <1>2, <1>3 DEF HandlerEnds

LEMMA StoreTypes ==
  ASSUME TypeOK, NEW k \in DOMAIN store, NEW status \in Statuses, StoreStatus(k, status)
  PROVE  /\ DOMAIN store' = DOMAIN store
         /\ \A j \in DOMAIN store' : store'[j] \in Approvals
BY DEF TypeOK, StoreStatus, Approvals

-----------------------------------------------------------------------------
LEMMA ExecuteTypes ==
  ASSUME TypeOK, NEW tool \in Tools, NEW taint \in BOOLEAN, NEW mode \in Modes,
         Execute(tool, taint, mode)
  PROVE  TypeOK'
<1> USE InitialTypes, ResultTypes DEF NoToken
<1>w. current \in Worlds
  BY DEF TypeOK
<1>1. CASE ExecuteAllowed(tool, taint)
  <2>1. runs' \in Seq(Runs)
    BY <1>1, EnterTypes DEF ExecuteAllowed
  <2> QED BY <1>1, <2>1 DEF ExecuteAllowed, TypeOK
<1>2. CASE ExecuteSimulated(tool, taint)
  <2>1. audit' \in Seq(AuditEntries)
    BY <1>2, <1>w, AuditTypes DEF ExecuteSimulated
  <2> QED BY <1>2, <2>1 DEF ExecuteSimulated, TypeOK
<1>3. CASE ExecuteRefused(tool, taint)
  <2>1. audit' \in Seq(AuditEntries)
    BY <1>3, <1>w, AuditTypes DEF ExecuteRefused
  <2> QED BY <1>3, <2>1 DEF ExecuteRefused, TypeOK
<1>4. CASE ExecuteAsk(tool, taint)
  <2>1. issued + 1 \in Tokens /\ issued' \in 0..MaxTokens /\ issued \in Nat
    BY <1>4, BoundsAssumption DEF ExecuteAsk, TypeOK, Tokens
  <2>2. audit' \in Seq(AuditEntries)
    BY <1>4, <1>w, <2>1, AuditTypes DEF ExecuteAsk
  <2>3. [tool |-> tool, taint |-> taint, mode |-> "INTERACTIVE", status |-> "pending"]
           \in Approvals
    BY DEF Approvals, Modes, Statuses
  <2>4. \A k \in DOMAIN store' : store'[k] \in Approvals
    BY <1>4, <2>3 DEF ExecuteAsk, TypeOK
  <2>5. DOMAIN store' \subseteq 1..issued'
    BY <1>4, <2>1 DEF ExecuteAsk, TypeOK
  <2> QED BY <1>4, <2>1, <2>2, <2>4, <2>5 DEF ExecuteAsk, TypeOK
<1>5. CASE ExecuteAskInBackground(tool, taint)
  <2>1. audit' \in Seq(AuditEntries)
    BY <1>5, <1>w, AuditTypes DEF ExecuteAskInBackground
  <2> QED BY <1>5, <2>1 DEF ExecuteAskInBackground, TypeOK
<1> QED BY <1>1, <1>2, <1>3, <1>4, <1>5 DEF Execute

LEMMA ApprovalTypes ==
  ASSUME TypeOK, NEW token \in Tokens,
         \/ StoreApprove(token)
         \/ ApiApprove(token)
         \/ ExecuteApprovedWithoutRun(token)
         \/ ExecuteApprovedRun(token)
         \/ RejectApproval(token)
  PROVE  TypeOK'
<1> USE ResultTypes
<1>w. current \in Worlds
  BY DEF TypeOK
<1>e. token \in DOMAIN store => store[token].tool \in Tools /\ store[token].taint \in BOOLEAN
  BY DEF TypeOK, Approvals
<1>s. {"approved", "executed", "rejected"} \subseteq Statuses
  BY DEF Statuses
<1>1. CASE StoreApprove(token)
  BY <1>1, <1>s, StoreTypes DEF StoreApprove, TypeOK
<1>2. CASE ApiApprove(token)
  BY <1>2, <1>s, StoreTypes DEF ApiApprove, TypeOK
<1>3. CASE ExecuteApprovedWithoutRun(token)
  <2>1. token \in DOMAIN store /\ serving' = NoToken
    BY <1>3 DEF ExecuteApprovedWithoutRun, ServiceBegins
  <2>2. audit' \in Seq(AuditEntries)
    BY <1>3, <1>w, <1>e, <2>1, AuditTypes DEF ExecuteApprovedWithoutRun
  <2> QED BY <1>3, <1>s, <2>1, <2>2, StoreTypes DEF ExecuteApprovedWithoutRun, TypeOK
<1>4. CASE ExecuteApprovedRun(token)
  <2>1. token \in DOMAIN store /\ serving' = NoToken
    BY <1>4 DEF ExecuteApprovedRun, ServiceBegins
  <2>2. runs' \in Seq(Runs)
    BY <1>4, <1>e, <2>1, EnterTypes DEF ExecuteApprovedRun
  <2> QED BY <1>4, <2>1, <2>2 DEF ExecuteApprovedRun, TypeOK
<1>5. CASE RejectApproval(token)
  <2>1. audit' \in Seq(AuditEntries)
    BY <1>5, <1>w, <1>e, AuditTypes DEF RejectApproval
  <2> QED BY <1>5, <1>s, <2>1, StoreTypes DEF RejectApproval, TypeOK
<1> QED BY <1>1, <1>2, <1>3, <1>4, <1>5

LEMMA HandlerTypes ==
  ASSUME TypeOK, HandlerReturns \/ HandlerRaises
  PROVE  TypeOK'
<1>o. {"ok", "raised"} \subseteq Outcomes
  BY DEF Outcomes
<1>1. CASE HandlerReturns
  <2> DEFINE r == runs[Len(runs)]
  <2>1. runs' \in Seq(Runs) /\ r \in Runs
    BY <1>1, <1>o, LeaveTypes DEF HandlerReturns
  <2>2. /\ r.tool \in Tools /\ r.taint \in BOOLEAN /\ r.world \in Worlds
        /\ r.token \in Tokens \cup {NoToken}
    BY <2>1 DEF Runs
  <2> HIDE DEF r
  <2>3. audit' \in Seq(AuditEntries)
    BY <1>1, <2>2, AuditTypes, ResultTypes DEF HandlerReturns, r
  <2>4. DOMAIN store' = DOMAIN store /\ \A j \in DOMAIN store' : store'[j] \in Approvals
    <3>1. CASE UNCHANGED store
      BY <3>1 DEF TypeOK
    <3>2. CASE StoreStatus(r.token, "executed")
      BY <3>2 DEF StoreStatus, TypeOK, Approvals, Statuses
    <3> QED BY <1>1, <3>1, <3>2 DEF HandlerReturns, r
  <2> QED BY <1>1, <2>1, <2>3, <2>4 DEF HandlerReturns, TypeOK
<1>2. CASE HandlerRaises
  BY <1>2, <1>o, LeaveTypes DEF HandlerRaises, TypeOK
<1> QED BY <1>1, <1>2

LEMMA EnvironmentTypes ==
  ASSUME TypeOK,
         \/ \E world \in Worlds : SwitchWorld(world)
         \/ \E tool \in Tools : MutateSchema(tool)
         \/ Restart
  PROVE  TypeOK'
<1>1. ASSUME NEW world \in Worlds, SwitchWorld(world) PROVE TypeOK'
  BY <1>1 DEF SwitchWorld, TypeOK
<1>2. ASSUME NEW tool \in Tools, MutateSchema(tool) PROVE TypeOK'
  BY <1>2 DEF MutateSchema, TypeOK
<1>3. CASE Restart
  <2>1. runs' \in Seq(Runs)
    BY <1>3, LeaveTypes DEF Restart, TypeOK, Outcomes
  <2> QED BY <1>3, <2>1, InitialTypes DEF Restart, TypeOK
<1> QED BY <1>1, <1>2, <1>3

(* The executor's state is always well-formed: tokens in the store were    *)
(* issued, runs and entries name real tools, worlds and tokens.            *)
THEOREM TypeCorrect == Spec => []TypeOK
<1>1. Init => TypeOK
  BY InitialTypes, BoundsAssumption DEF Init, TypeOK
<1>2. TypeOK /\ [Next]_vars => TypeOK'
  <2> SUFFICES ASSUME TypeOK, [Next]_vars PROVE TypeOK'
    OBVIOUS
  <2>1. CASE UNCHANGED vars
    BY <2>1 DEF vars, TypeOK
  <2>2. CASE Next
    BY <2>2, ExecuteTypes, ApprovalTypes, HandlerTypes, EnvironmentTypes DEF Next
  <2> QED BY <2>1, <2>2
<1> QED BY <1>1, <1>2, PTL DEF Spec

-----------------------------------------------------------------------------
(* The inductive invariant.  TokensCleared is what the runs need to be     *)
(* cleared and the log alone does not say: execute_approved relies on it   *)
(* without looking.                                                        *)
IInv == TypeOK /\ TokensCleared /\ DirectRunsCleared /\ ApprovedRunsCleared

(* The log only grows, so what was asked stays asked.                      *)
LEMMA AuditGrows ==
  ASSUME Next
  PROVE  \/ audit' = audit
         \/ \E e : audit' = Append(audit, e)
BY DEF Next, Execute, ExecuteAllowed, ExecuteSimulated, ExecuteRefused, ExecuteAsk,
       ExecuteAskInBackground, StoreApprove, ApiApprove, ExecuteApprovedWithoutRun,
       ExecuteApprovedRun, RejectApproval, HandlerReturns, HandlerRaises,
       SwitchWorld, MutateSchema, Restart, Audit

LEMMA AskedStays ==
  ASSUME TypeOK, Next, NEW k, NEW t, NEW x, AskedFor(k, t, x)
  PROVE  AskedFor(k, t, x)'
<1>1. PICK j \in DOMAIN audit : /\ audit[j].token = k
                               /\ audit[j].result = ApprovalRequired
                               /\ audit[j].tool = t
                               /\ audit[j].taint = x
  BY DEF AskedFor
<1>2. audit \in Seq(AuditEntries)
  BY DEF TypeOK
<1>3. j \in DOMAIN audit' /\ audit'[j] = audit[j]
  <2>1. CASE audit' = audit
    BY <2>1
  <2>2. ASSUME NEW e, audit' = Append(audit, e) PROVE j \in DOMAIN audit' /\ audit'[j] = audit[j]
    BY <1>2, <2>2
  <2> QED BY <2>1, <2>2, AuditGrows
<1> QED BY <1>1, <1>3 DEF AskedFor

(* The store after a step: tokens it still holds stand for the same        *)
(* request, and a new token can only come from an ASK.                     *)
LEMMA StoreSteps ==
  ASSUME TypeOK, Next, NEW k \in DOMAIN store'
  PROVE  \/ /\ k \in DOMAIN store
            /\ store'[k].tool = store[k].tool
            /\ store'[k].taint = store[k].taint
         \/ \E tool \in Tools, taint \in BOOLEAN :
              /\ ExecuteAsk(tool, taint)
              /\ k = issued + 1
              /\ store'[k].tool = tool
              /\ store'[k].taint = taint
<1>1. CASE UNCHANGED store
  BY <1>1
<1>2. ASSUME NEW token \in DOMAIN store, NEW status, StoreStatus(token, status)
      PROVE  /\ k \in DOMAIN store
             /\ store'[k].tool = store[k].tool
             /\ store'[k].taint = store[k].taint
  BY <1>2 DEF StoreStatus, TypeOK, Approvals
<1>3. ASSUME NEW tool \in Tools, NEW taint \in BOOLEAN, NEW mode \in Modes,
             Execute(tool, taint, mode)
      PROVE  UNCHANGED store \/ ExecuteAsk(tool, taint)
  BY <1>3 DEF Execute, ExecuteAllowed, ExecuteSimulated, ExecuteRefused,
              ExecuteAskInBackground
<1>4. ASSUME NEW tool \in Tools, NEW taint \in BOOLEAN, ExecuteAsk(tool, taint)
      PROVE  \/ k \in DOMAIN store /\ store'[k] = store[k]
             \/ k = issued + 1 /\ store'[k].tool = tool /\ store'[k].taint = taint
  BY <1>4 DEF ExecuteAsk
<1>5. ASSUME NEW token \in Tokens,
             \/ StoreApprove(token)
             \/ ApiApprove(token)
             \/ ExecuteApprovedWithoutRun(token)
             \/ ExecuteApprovedRun(token)
             \/ RejectApproval(token)
      PROVE  UNCHANGED store \/ \E status : token \in DOMAIN store /\ StoreStatus(token, status)
  BY <1>5 DEF StoreApprove, ApiApprove, ExecuteApprovedWithoutRun, ExecuteApprovedRun,
              RejectApproval, ServiceBegins
<1>6. CASE HandlerReturns
  <2>1. CASE StoreStatus(runs[Len(runs)].token, "executed")
    BY <2>1 DEF StoreStatus, TypeOK, Approvals
  <2> QED BY <1>1, <1>6, <2>1 DEF HandlerReturns
<1>7. CASE Restart
  BY <1>7 DEF Restart
<1>8. CASE HandlerRaises \/ (\E w \in Worlds : SwitchWorld(w)) \/ (\E t \in Tools : MutateSchema(t))
  BY <1>8, <1>1 DEF HandlerRaises, SwitchWorld, MutateSchema
<1>9. CASE \E tool \in Tools, taint \in BOOLEAN, mode \in Modes : Execute(tool, taint, mode)
  BY <1>9, <1>1, <1>3, <1>4
<1>10. CASE \E token \in Tokens : \/ StoreApprove(token)
                                  \/ ApiApprove(token)
                                  \/ ExecuteApprovedWithoutRun(token)
                                  \/ ExecuteApprovedRun(token)
                                  \/ RejectApproval(token)
  BY <1>10, <1>1, <1>2, <1>5
<1> QED BY <1>6, <1>7, <1>8, <1>9, <1>10 DEF Next

LEMMA TokensStayCleared ==
  ASSUME TypeOK, TokensCleared, Next
  PROVE  TokensCleared'
<1> SUFFICES ASSUME NEW k \in DOMAIN store'
             PROVE  /\ store'[k].tool \in Exposed =>
                         ~(store'[k].taint /\ SideEffect[store'[k].tool] = "external")
                    /\ AskedFor(k, store[k].tool, store[k].taint)'
  BY DEF TokensCleared
<1>1. CASE /\ k \in DOMAIN store
           /\ store'[k].tool = store[k].tool
           /\ store'[k].taint = store[k].taint
  <2>1. AskedFor(k, store[k].tool, store[k].taint)
    BY <1>1 DEF TokensCleared
  <2>2. \A t, x : AskedFor(k, t, x) => AskedFor(k, t, x)'
    BY AskedStays
  <2>3. AskedFor(k, store[k].tool, store[k].taint)'
    BY <1>1, <2>1, <2>2 DEF AskedFor
  <2> QED BY <1>1, <2>3 DEF TokensCleared
<1>2. ASSUME NEW tool \in Tools, NEW taint \in BOOLEAN, ExecuteAsk(tool, taint),
             k = issued + 1, store'[k].tool = tool, store'[k].taint = taint
      PROVE  /\ store'[k].tool \in Exposed =>
                  ~(store'[k].taint /\ SideEffect[store'[k].tool] = "external")
             /\ AskedFor(k, store[k].tool, store[k].taint)'
  <2>1. ~(taint /\ SideEffectSeen(tool, Exposed) = "external")
    BY <1>2, DecideAsks DEF ExecuteAsk, PolicyAnswer
  <2>2. audit' = Append(audit, Entry(tool, ApprovalRequired, taint, current, k))
    BY <1>2 DEF ExecuteAsk, Audit
  <2>3. audit \in Seq(AuditEntries)
    BY DEF TypeOK
  <2>4. /\ Len(audit) + 1 \in DOMAIN audit'
        /\ audit'[Len(audit) + 1] = Entry(tool, ApprovalRequired, taint, current, k)
    BY <2>2, <2>3
  <2>5. AskedFor(k, tool, taint)'
    BY <2>4 DEF AskedFor, Entry
  <2>6. AskedFor(k, store[k].tool, store[k].taint)'
    BY <1>2, <2>5 DEF AskedFor
  <2> QED BY <1>2, <2>1, <2>6 DEF SideEffectSeen
<1> QED BY <1>1, <1>2, StoreSteps

-----------------------------------------------------------------------------
(* The list of runs changes in two ways: a handler is entered, for a call  *)
(* of execute or for an approved token, or the one running ends.           *)
LEMMA RunSteps ==
  ASSUME Next
  PROVE  \/ UNCHANGED runs
         \/ \E outcome \in Outcomes : InHandler /\ HandlerEnds(outcome)
         \/ \E tool \in Tools, taint \in BOOLEAN : ExecuteAllowed(tool, taint)
         \/ \E token \in Tokens : ExecuteApprovedRun(token)
BY DEF Next, Execute, ExecuteSimulated, ExecuteRefused, ExecuteAsk,
       ExecuteAskInBackground, StoreApprove, ApiApprove, ExecuteApprovedWithoutRun,
       RejectApproval, HandlerReturns, HandlerRaises, SwitchWorld, MutateSchema,
       Restart, Outcomes

(* The end of a handler changes the outcome of its run and nothing else.   *)
LEMMA EndKeepsRuns ==
  ASSUME TypeOK, InHandler, NEW outcome, HandlerEnds(outcome), NEW i \in DOMAIN runs'
  PROVE  /\ i \in DOMAIN runs
         /\ runs'[i].tool = runs[i].tool
         /\ runs'[i].taint = runs[i].taint
         /\ runs'[i].token = runs[i].token
         /\ runs'[i].world = runs[i].world
         /\ runs'[i].drifted = runs[i].drifted
<1>1. i \in DOMAIN runs /\ runs[i] \in Runs /\ runs \in Seq(Runs)
  BY DEF TypeOK, HandlerEnds
<1> QED BY <1>1 DEF HandlerEnds, Runs

LEMMA EnterAddsRun ==
  ASSUME TypeOK, NEW tool, NEW taint, NEW token, EnterHandler(tool, taint, token),
         NEW i \in DOMAIN runs'
  PROVE  \/ i \in DOMAIN runs /\ runs'[i] = runs[i]
         \/ /\ runs'[i].tool = tool
            /\ runs'[i].taint = taint
            /\ runs'[i].token = token
            /\ runs'[i].world = current
            /\ runs'[i].drifted = (tool \in drifted)
BY DEF TypeOK, EnterHandler

LEMMA DirectRunsStayCleared ==
  ASSUME TypeOK, DirectRunsCleared, Next
  PROVE  DirectRunsCleared'
<1> SUFFICES ASSUME NEW i \in DOMAIN runs' PROVE DirectRunCleared(runs'[i])
  BY DEF DirectRunsCleared, DirectRunCleared, Exposed, ExposedIn
<1>1. ASSUME i \in DOMAIN runs, runs'[i] = runs[i] PROVE DirectRunCleared(runs'[i])
  BY <1>1 DEF DirectRunsCleared
<1>2. CASE UNCHANGED runs
  BY <1>1, <1>2
<1>3. ASSUME NEW outcome \in Outcomes, InHandler, HandlerEnds(outcome)
      PROVE  DirectRunCleared(runs'[i])
  BY <1>3, EndKeepsRuns DEF DirectRunsCleared, DirectRunCleared
<1>4. ASSUME NEW tool \in Tools, NEW taint \in BOOLEAN, ExecuteAllowed(tool, taint)
      PROVE  DirectRunCleared(runs'[i])
  <2>1. CASE i \in DOMAIN runs /\ runs'[i] = runs[i]
    BY <1>1, <2>1
  <2>2. CASE /\ runs'[i].tool = tool
             /\ runs'[i].taint = taint
             /\ runs'[i].token = NoToken
             /\ runs'[i].world = current
             /\ runs'[i].drifted = (tool \in drifted)
    <3>1. /\ tool \in WorldTables[current].allowlist
          /\ tool \in WorldTables[current].capabilities
          /\ tool \notin WorldTables[current].approvalRequired
          /\ HashOk(tool, Exposed, drifted)
          /\ ~(taint /\ SideEffectSeen(tool, Exposed) = "external")
      BY <1>4, DecideAllows DEF ExecuteAllowed, PolicyAnswer
    <3> QED BY <2>2, <3>1 DEF DirectRunCleared, HashOk, SideEffectSeen
  <2> QED BY <1>4, <2>1, <2>2, EnterAddsRun DEF ExecuteAllowed
<1>5. ASSUME NEW token \in Tokens, ExecuteApprovedRun(token)
      PROVE  DirectRunCleared(runs'[i])
  <2>1. token # NoToken
    BY DEF Tokens, NoToken
  <2>2. CASE i \in DOMAIN runs /\ runs'[i] = runs[i]
    BY <1>1, <2>2
  <2>3. CASE runs'[i].token = token
    BY <2>1, <2>3 DEF DirectRunCleared
  <2> QED BY <1>5, <2>2, <2>3, EnterAddsRun DEF ExecuteApprovedRun
<1> QED BY <1>2, <1>3, <1>4, <1>5, RunSteps

LEMMA ApprovedRunsStayCleared ==
  ASSUME TypeOK, TokensCleared, ApprovedRunsCleared, Next
  PROVE  ApprovedRunsCleared'
<1>a. \A k, t, x : AskedFor(k, t, x) => AskedFor(k, t, x)'
  BY AskedStays
<1> SUFFICES ASSUME NEW i \in DOMAIN runs' PROVE ApprovedRunCleared(runs[i])'
  BY DEF ApprovedRunsCleared
<1>1. ASSUME i \in DOMAIN runs,
             runs'[i].tool = runs[i].tool,
             runs'[i].taint = runs[i].taint,
             runs'[i].token = runs[i].token
      PROVE  ApprovedRunCleared(runs[i])'
  <2>1. ApprovedRunCleared(runs[i])
    BY <1>1 DEF ApprovedRunsCleared
  <2> QED BY <1>1, <1>a, <2>1 DEF ApprovedRunCleared, AskedFor
<1>2. CASE UNCHANGED runs
  BY <1>1, <1>2
<1>3. ASSUME NEW outcome \in Outcomes, InHandler, HandlerEnds(outcome)
      PROVE  ApprovedRunCleared(runs[i])'
  BY <1>1, <1>3, EndKeepsRuns
<1>4. ASSUME NEW tool \in Tools, NEW taint \in BOOLEAN, ExecuteAllowed(tool, taint)
      PROVE  ApprovedRunCleared(runs[i])'
  <2>1. CASE i \in DOMAIN runs /\ runs'[i] = runs[i]
    BY <1>1, <2>1
  <2>2. CASE runs'[i].token = NoToken
    BY <2>2 DEF ApprovedRunCleared
  <2> QED BY <1>4, <2>1, <2>2, EnterAddsRun DEF ExecuteAllowed
<1>5. ASSUME NEW token \in Tokens, ExecuteApprovedRun(token)
      PROVE  ApprovedRunCleared(runs[i])'
  <2>1. CASE i \in DOMAIN runs /\ runs'[i] = runs[i]
    BY <1>1, <2>1
  <2>2. CASE /\ runs'[i].tool = store[token].tool
             /\ runs'[i].taint = store[token].taint
             /\ runs'[i].token = token
    <3>1. token \in DOMAIN store /\ store[token].tool \in Exposed
      BY <1>5 DEF ExecuteApprovedRun, ServiceBegins
    <3>2. /\ ~(store[token].taint /\ SideEffect[store[token].tool] = "external")
          /\ AskedFor(token, store[token].tool, store[token].taint)
      BY <3>1 DEF TokensCleared
    <3> QED BY <1>a, <2>2, <3>1, <3>2 DEF ApprovedRunCleared, AskedFor
  <2> QED BY <1>5, <2>1, <2>2, EnterAddsRun DEF ExecuteApprovedRun
<1> QED BY <1>2, <1>3, <1>4, <1>5, RunSteps

(* The invariant of this section, from all the above.                      *)
LEMMA InvariantInductive ==
  /\ Init => IInv
  /\ IInv /\ [Next]_vars => IInv'
<1>1. Init => IInv
  BY InitialTypes, BoundsAssumption DEF Init, IInv, TypeOK, TokensCleared,
     DirectRunsCleared, ApprovedRunsCleared
<1>2. ASSUME IInv, Next PROVE IInv'
  <2>1. TypeOK'
    BY <1>2, ExecuteTypes, ApprovalTypes, HandlerTypes, EnvironmentTypes DEF Next, IInv
  <2> QED BY <1>2, <2>1, TokensStayCleared, DirectRunsStayCleared,
             ApprovedRunsStayCleared DEF IInv
<1>3. ASSUME IInv, UNCHANGED vars PROVE IInv'
  BY <1>3 DEF vars, IInv, TypeOK, TokensCleared, DirectRunsCleared, DirectRunCleared,
             ApprovedRunsCleared, ApprovedRunCleared, AskedFor, Exposed, ExposedIn
<1> QED BY <1>1, <1>2, <1>3

(* Whatever the worlds, the switches between them, the schema changes and  *)
(* the restarts: a handler that execute() enters is offered ungated by the *)
(* world of that moment, and if the stored registry exposes it, neither    *)
(* drifted nor asked for by a tainted request to reach outside.            *)
THEOREM DirectRunsAreCleared == Spec => []DirectRunsCleared
<1>1. IInv => DirectRunsCleared
  BY DEF IInv
<1> QED BY <1>1, InvariantInductive, PTL DEF Spec

(* The approval path, which consults no policy, never runs a tool outside  *)
(* the registry's exposed set, a request that was not asked about under    *)
(* its token, or a tainted request to an external tool.                    *)
THEOREM ApprovedRunsAreCleared == Spec => []ApprovedRunsCleared
<1>1. IInv => ApprovedRunsCleared
  BY DEF IInv
<1> QED BY <1>1, InvariantInductive, PTL DEF Spec

(* Every token in the store, answered or not, stands for a request that    *)
(* was logged as asked and is no tainted external one: what makes it safe  *)
(* that the approval path asks nobody.                                     *)
THEOREM TokensAreCleared == Spec => []TokensCleared
<1>1. IInv => TokensCleared
  BY DEF IInv
<1> QED BY <1>1, InvariantInductive, PTL DEF Spec

-----------------------------------------------------------------------------
(* 2. The Gemini route adds steps that only write to the log, and calls of *)
(* execute(): the invariant of the executor holds with the route as well,  *)
(* and the gate and the executor answer alike until the world is switched. *)

(* What the gate writes is a result the log knows.                         *)
LEMMA GateResults ==
  ASSUME NEW tool, NEW taint,
         GeminiUnknown(tool, taint) \/ GeminiDenied(tool, taint) \/ GeminiSimulated(tool, taint)
  PROVE  \E result \in Results \cup RecordedResults : Record(tool, result, taint)
<1>1. CASE GeminiUnknown(tool, taint)
  BY <1>1 DEF GeminiUnknown, RecordedResults
<1>2. CASE GeminiDenied(tool, taint)
  <2>1. GateAnswer(tool, taint) \in PolicyResults
    BY DEF GateAnswer, Decide, PolicyResults
  <2>2. QED
    BY <1>2, <2>1 DEF GeminiDenied, Results
<1>3. CASE GeminiSimulated(tool, taint)
  BY <1>3 DEF GeminiSimulated, RecordedResults
<1>4. QED
  BY <1>1, <1>2, <1>3

(* A record is one more entry without a token.                             *)
LEMMA RecordKeepsInvariant ==
  ASSUME IInv, NEW tool \in Tools, NEW result \in Results \cup RecordedResults,
         NEW taint \in BOOLEAN, Record(tool, result, taint)
  PROVE  IInv'
<1> DEFINE e == [Entry(tool, result, taint, current, NoToken) EXCEPT !.by = "gate"]
<1>1. e \in AuditEntries
  BY DEF Entry, AuditEntries, IInv, TypeOK
<1>2. /\ audit' = Append(audit, e)
      /\ UNCHANGED <<current, drifted, issued, store, serving, runs>>
  BY DEF Record
<1>3. audit \in Seq(AuditEntries)
  BY DEF IInv, TypeOK
<1> HIDE DEF e
<1>4. /\ audit' \in Seq(AuditEntries)
      /\ \A j \in DOMAIN audit : j \in DOMAIN audit' /\ audit'[j] = audit[j]
  BY <1>1, <1>2, <1>3
<1>5. TypeOK'
  BY <1>2, <1>4 DEF IInv, TypeOK
<1>6. \A k, t, x : AskedFor(k, t, x) => AskedFor(k, t, x)'
  BY <1>4 DEF AskedFor
<1>7. TokensCleared'
  BY <1>2, <1>6 DEF IInv, TokensCleared, AskedFor, Exposed, ExposedIn
<1>8. DirectRunsCleared'
  BY <1>2 DEF IInv, DirectRunsCleared, DirectRunCleared, Exposed, ExposedIn
<1>9. ApprovedRunsCleared'
  BY <1>2, <1>6 DEF IInv, ApprovedRunsCleared, ApprovedRunCleared, AskedFor,
     Exposed, ExposedIn
<1>10. QED
  BY <1>5, <1>7, <1>8, <1>9 DEF IInv

(* The invariant of the first section with the Gemini route.               *)
LEMMA GatePreserves == IInv /\ [GNext]_vars => IInv'
<1> SUFFICES ASSUME IInv, [GNext]_vars PROVE IInv'
    OBVIOUS
<1>1. CASE Next \/ UNCHANGED vars
  BY <1>1, InvariantInductive
<1>2. ASSUME NEW tool \in Tools, NEW taint \in BOOLEAN, GeminiDelegated(tool, taint)
      PROVE  IInv'
  <2>1. Next
    BY <1>2 DEF GeminiDelegated, Next, Modes
  <2>2. QED
    BY <2>1, InvariantInductive
<1>3. ASSUME NEW tool \in Tools, NEW taint \in BOOLEAN,
             GeminiUnknown(tool, taint) \/ GeminiDenied(tool, taint)
               \/ GeminiSimulated(tool, taint)
      PROVE  IInv'
  BY <1>3, GateResults, RecordKeepsInvariant
<1>4. QED
  BY <1>1, <1>2, <1>3 DEF GNext, Gemini

(* With the Gemini route open the variables keep their types ...           *)
THEOREM GeminiTypeCorrect == GSpec => []TypeOK
<1>1. IInv => TypeOK
  BY DEF IInv
<1>2. QED
  BY <1>1, InvariantInductive, GatePreserves, PTL DEF GSpec

(* ... and every handler is still entered for a call that was cleared: the *)
(* route is no detour around the policy or the questions.                  *)
THEOREM GeminiRunsAreCleared == GSpec => [](DirectRunsCleared /\ ApprovedRunsCleared)
<1>1. IInv => DirectRunsCleared /\ ApprovedRunsCleared
  BY DEF IInv
<1>2. QED
  BY <1>1, InvariantInductive, GatePreserves, PTL DEF GSpec

(* For every set of manifests, and whatever has drifted: before a switch   *)
(* the gate answers as the executor does.                                  *)
THEOREM GateAgrees == GSpec => []GateAgreesUnswitched
<1>1. GateAgreesUnswitched
  BY DEF GateAgreesUnswitched, GateAnswer, PolicyAnswer, Decide, SideEffectSeen, HashOk,
     Known, Exposed, ExposedIn
<1>2. QED
  BY <1>1, PTL

-----------------------------------------------------------------------------
(* 3. How a token stands, and the simulation flag.                         *)

(* A step of the executor with the Gemini route, by what it does to the    *)
(* store, the log and the runs.                                            *)
LEMMA GeminiSteps ==
  ASSUME [GNext]_vars
  PROVE  \/ Next
         \/ UNCHANGED vars
         \/ \E tool \in Tools, taint \in BOOLEAN :
              GeminiUnknown(tool, taint) \/ GeminiDenied(tool, taint) \/ GeminiSimulated(tool, taint)
<1>1. ASSUME NEW tool \in Tools, NEW taint \in BOOLEAN, GeminiDelegated(tool, taint)
      PROVE  Next
  BY <1>1 DEF GeminiDelegated, Next, Modes
<1> QED BY <1>1 DEF GNext, Gemini

-----------------------------------------------------------------------------
(* While effects are simulated no run is of an external tool: one of the   *)
(* two tests of the flag stands before each way into a handler.            *)
LEMMA SimulationStaysContained ==
  ASSUME TypeOK, SimulationContains, [GNext]_vars
  PROVE  SimulationContains'
<1> SUFFICES ASSUME SimulateExternal, NEW i \in DOMAIN runs'
             PROVE  SideEffect[runs'[i].tool] # "external"
  BY DEF SimulationContains
<1>1. ASSUME i \in DOMAIN runs, runs'[i].tool = runs[i].tool
      PROVE  SideEffect[runs'[i].tool] # "external"
  BY <1>1 DEF SimulationContains
<1>2. CASE UNCHANGED runs
  BY <1>1, <1>2
<1>3. CASE Next
  <2>1. ASSUME NEW outcome \in Outcomes, InHandler, HandlerEnds(outcome)
        PROVE  SideEffect[runs'[i].tool] # "external"
    BY <1>1, <2>1, EndKeepsRuns
  <2>2. ASSUME NEW tool \in Tools, NEW taint \in BOOLEAN, ExecuteAllowed(tool, taint)
        PROVE  SideEffect[runs'[i].tool] # "external"
    BY <1>1, <2>2, EnterAddsRun DEF ExecuteAllowed, Simulated
  <2>3. ASSUME NEW token \in Tokens, ExecuteApprovedRun(token)
        PROVE  SideEffect[runs'[i].tool] # "external"
    BY <1>1, <2>3, EnterAddsRun DEF ExecuteApprovedRun, Simulated
  <2> QED BY <1>2, <1>3, <2>1, <2>2, <2>3, RunSteps
<1> QED
  BY <1>2, <1>3, GeminiSteps
     DEF vars, Record, GeminiUnknown, GeminiDenied, GeminiSimulated

-----------------------------------------------------------------------------
(* What ties runs, store and serving together, and is inductive: a token   *)
(* inside a handler is in the store as approved; the request that approved *)
(* a token is served before anything else happens; a run that was          *)
(* completed has used its token up; and no run is of a token to come.      *)
RunningApproved ==
  InHandler => /\ serving = NoToken
               /\ LET k == runs[Len(runs)].token
                  IN  k # NoToken => k \in DOMAIN store /\ store[k].status = "approved"

CompletedSettled ==
  \A i \in DOMAIN runs :
    /\ runs[i].token <= issued
    /\ \A k \in DOMAIN store :
         runs[i].token = k /\ runs[i].outcome = "ok" => store[k].status = "executed"

TokenInv == TypeOK /\ RunningApproved /\ CompletedSettled

(* What is so when execute_approved gets past its status check.            *)
LEMMA ServiceFacts ==
  ASSUME TokenInv, NEW token \in Tokens, ServiceBegins(token)
  PROVE  /\ ~InHandler
         /\ token \in DOMAIN store
         /\ store[token].status = "approved"
         /\ token <= issued
         /\ serving' = NoToken
BY DEF ServiceBegins, TokenInv, RunningApproved, Called, Idle, Tokens, NoToken, TypeOK

(* A token's entry after a status was written.                             *)
LEMMA StatusWritten ==
  ASSUME TypeOK, NEW token \in DOMAIN store, NEW status, StoreStatus(token, status)
  PROVE  /\ DOMAIN store' = DOMAIN store
         /\ store'[token].status = status
         /\ \A k \in DOMAIN store : k # token => store'[k] = store[k]
BY DEF StoreStatus, TypeOK, Approvals

(* The run that ends is the last one, and only its outcome changes.        *)
LEMMA RunEnded ==
  ASSUME TypeOK, InHandler, NEW outcome, HandlerEnds(outcome)
  PROVE  /\ Len(runs) \in DOMAIN runs
         /\ Len(runs') = Len(runs)
         /\ DOMAIN runs' = DOMAIN runs
         /\ runs'[Len(runs)].outcome = outcome
         /\ runs'[Len(runs)].token = runs[Len(runs)].token
         /\ \A i \in DOMAIN runs : i # Len(runs) => runs'[i] = runs[i]
         /\ runs[Len(runs)].outcome = "running"
<1>1. runs \in Seq(Runs) /\ Len(runs) \in DOMAIN runs
  BY DEF TypeOK, InHandler
<1>2. runs[Len(runs)] \in Runs
  BY <1>1
<1> QED BY <1>1, <1>2 DEF HandlerEnds, Runs, InHandler

(* The run that is entered is the new last one.                            *)
LEMMA RunEntered ==
  ASSUME TypeOK, NEW tool, NEW taint, NEW token, EnterHandler(tool, taint, token)
  PROVE  /\ Len(runs') = Len(runs) + 1
         /\ DOMAIN runs' = DOMAIN runs \cup {Len(runs) + 1}
         /\ Len(runs) + 1 \notin DOMAIN runs
         /\ runs'[Len(runs) + 1].tool = tool
         /\ runs'[Len(runs) + 1].token = token
         /\ runs'[Len(runs) + 1].outcome = "running"
         /\ \A i \in DOMAIN runs : runs'[i] = runs[i]
BY DEF TypeOK, EnterHandler

(* Every step is one of nine kinds as far as tokens go.                    *)
LEMMA TokenSteps ==
  ASSUME TokenInv, [GNext]_vars
  PROVE  \/ UNCHANGED <<issued, store, serving, runs>>
         \/ \E tool \in Tools, taint \in BOOLEAN : ExecuteAllowed(tool, taint)
         \/ \E tool \in Tools, taint \in BOOLEAN : ExecuteAsk(tool, taint)
         \/ \E token \in Tokens : StoreApprove(token) \/ ApiApprove(token)
         \/ \E token \in Tokens : ExecuteApprovedWithoutRun(token)
         \/ \E token \in Tokens : ExecuteApprovedRun(token)
         \/ \E token \in Tokens : RejectApproval(token)
         \/ HandlerReturns
         \/ HandlerRaises
         \/ Restart
BY GeminiSteps DEF Next, Execute, ExecuteSimulated, ExecuteRefused, ExecuteAskInBackground,
   SwitchWorld, MutateSchema, Record, GeminiUnknown, GeminiDenied, GeminiSimulated, vars

(* Types, whichever route takes the step.                                  *)
LEMMA TypesPreserved ==
  ASSUME TypeOK, [GNext]_vars
  PROVE  TypeOK'
<1>1. CASE Next
  BY <1>1, ExecuteTypes, ApprovalTypes, HandlerTypes, EnvironmentTypes DEF Next
<1>2. CASE UNCHANGED vars
  BY <1>2 DEF vars, TypeOK
<1>3. ASSUME NEW tool \in Tools, NEW taint \in BOOLEAN,
             GeminiUnknown(tool, taint) \/ GeminiDenied(tool, taint)
               \/ GeminiSimulated(tool, taint)
      PROVE  TypeOK'
  <2>1. PICK result \in Results \cup RecordedResults : Record(tool, result, taint)
    BY <1>3, GateResults
  <2>2. [Entry(tool, result, taint, current, NoToken) EXCEPT !.by = "gate"] \in AuditEntries
    BY DEF Entry, AuditEntries, TypeOK
  <2> QED BY <2>1, <2>2 DEF Record, TypeOK
<1> QED BY <1>1, <1>2, <1>3, GeminiSteps

(* With the Gemini route or without, no step breaks TokenInv.              *)
LEMMA TokenInvInductive ==
  ASSUME TokenInv, [GNext]_vars
  PROVE  TokenInv'
<1> USE DEF TokenInv
<1>t. TypeOK /\ TypeOK' /\ issued \in Nat
  BY TypesPreserved DEF TypeOK
<1> SUFFICES RunningApproved' /\ CompletedSettled'
  BY <1>t
<1>1. CASE UNCHANGED <<issued, store, serving, runs>>
  BY <1>1 DEF RunningApproved, CompletedSettled, InHandler
<1>2. ASSUME NEW tool \in Tools, NEW taint \in BOOLEAN, ExecuteAllowed(tool, taint)
      PROVE  RunningApproved' /\ CompletedSettled'
  <2>1. EnterHandler(tool, taint, NoToken) /\ serving = NoToken
        /\ UNCHANGED <<issued, store, serving>>
    BY <1>2 DEF ExecuteAllowed, Called, Idle
  <2> QED
    BY <1>t, <2>1, RunEntered DEF RunningApproved, CompletedSettled, InHandler, NoToken
<1>3. ASSUME NEW tool \in Tools, NEW taint \in BOOLEAN, ExecuteAsk(tool, taint)
      PROVE  RunningApproved' /\ CompletedSettled'
  <2>1. ~InHandler /\ UNCHANGED <<runs, serving>> /\ issued' = issued + 1
    BY <1>3 DEF ExecuteAsk, Called, Idle
  <2>2. DOMAIN store' = DOMAIN store \cup {issued + 1}
        /\ \A k \in DOMAIN store : k # issued + 1 => store'[k] = store[k]
    BY <1>3 DEF ExecuteAsk
  <2>3. \A i \in DOMAIN runs : runs[i].token \in Nat /\ runs[i].token <= issued
    <3>1. \A i \in DOMAIN runs : runs[i] \in Runs
      BY <1>t DEF TypeOK
    <3> QED BY <3>1, BoundsAssumption DEF CompletedSettled, Runs, Tokens, NoToken
  <2> QED BY <1>t, <2>1, <2>2, <2>3 DEF RunningApproved, CompletedSettled, InHandler
<1>4. ASSUME NEW token \in Tokens, StoreApprove(token) \/ ApiApprove(token)
      PROVE  RunningApproved' /\ CompletedSettled'
  <2>1. /\ ~InHandler /\ UNCHANGED <<runs, issued>>
        /\ token \in DOMAIN store
        /\ store[token].status = "pending"
        /\ StoreStatus(token, "approved")
    BY <1>4 DEF StoreApprove, ApiApprove, Called, Idle
  <2> QED BY <1>t, <2>1, StatusWritten DEF RunningApproved, CompletedSettled, InHandler
<1>5. ASSUME NEW token \in Tokens, ExecuteApprovedWithoutRun(token)
      PROVE  RunningApproved' /\ CompletedSettled'
  <2>1. ServiceBegins(token) /\ StoreStatus(token, "executed") /\ UNCHANGED <<runs, issued>>
    BY <1>5 DEF ExecuteApprovedWithoutRun
  <2> QED
    BY <1>t, <2>1, ServiceFacts, StatusWritten DEF RunningApproved, CompletedSettled, InHandler
<1>6. ASSUME NEW token \in Tokens, ExecuteApprovedRun(token)
      PROVE  RunningApproved' /\ CompletedSettled'
  <2>1. /\ ServiceBegins(token)
        /\ EnterHandler(store[token].tool, store[token].taint, token)
        /\ UNCHANGED <<store, issued>>
    BY <1>6 DEF ExecuteApprovedRun
  <2> QED
    BY <1>t, <2>1, ServiceFacts, RunEntered DEF RunningApproved, CompletedSettled, InHandler
<1>7. ASSUME NEW token \in Tokens, RejectApproval(token)
      PROVE  RunningApproved' /\ CompletedSettled'
  <2>1. /\ ~InHandler /\ UNCHANGED <<runs, issued, serving>>
        /\ token \in DOMAIN store
        /\ store[token].status = "pending"
        /\ StoreStatus(token, "rejected")
    BY <1>7 DEF RejectApproval, Called, Idle
  <2> QED BY <1>t, <2>1, StatusWritten DEF RunningApproved, CompletedSettled, InHandler
<1>8. CASE HandlerReturns
  <2> DEFINE k == runs[Len(runs)].token
  <2>1. InHandler /\ HandlerEnds("ok") /\ UNCHANGED <<issued, serving>>
    BY <1>8 DEF HandlerReturns
  <2>2. ~InHandler'
    BY <1>t, <2>1, RunEnded DEF InHandler
  <2>3. CASE k = NoToken /\ UNCHANGED store
    <3>1. 0 \notin DOMAIN store
      BY <1>t DEF TypeOK
    <3> QED BY <1>t, <2>1, <2>2, <2>3, <3>1, RunEnded DEF RunningApproved, CompletedSettled, NoToken
  <2>4. CASE k # NoToken /\ StoreStatus(k, "executed")
    <3>1. k \in DOMAIN store /\ store[k].status = "approved"
      BY <2>1, <2>4 DEF RunningApproved
    <3> HIDE DEF k
    <3>2. runs'[Len(runs)].token = k
      BY <1>t, <2>1, RunEnded DEF k
    <3> QED
      BY <1>t, <2>1, <2>2, <2>4, <3>1, <3>2, RunEnded, StatusWritten
         DEF RunningApproved, CompletedSettled
  <2> QED BY <1>8, <2>3, <2>4 DEF HandlerReturns
<1>9. CASE HandlerRaises
  <2>1. InHandler /\ HandlerEnds("raised") /\ UNCHANGED <<issued, serving, store>>
    BY <1>9 DEF HandlerRaises
  <2>2. ~InHandler'
    BY <1>t, <2>1, RunEnded DEF InHandler
  <2> QED BY <1>t, <2>1, <2>2, RunEnded DEF RunningApproved, CompletedSettled
<1>10. CASE Restart
  <2>1. DOMAIN store' = {} /\ UNCHANGED issued
    BY <1>10 DEF Restart
  <2>2. CASE InHandler /\ HandlerEnds("crashed")
    <3>1. ~InHandler'
      BY <1>t, <2>2, RunEnded DEF InHandler
    <3> QED BY <1>t, <2>1, <2>2, <3>1, RunEnded DEF RunningApproved, CompletedSettled
  <2>3. CASE ~InHandler /\ UNCHANGED runs
    BY <2>1, <2>3 DEF RunningApproved, CompletedSettled, InHandler
  <2> QED BY <1>10, <2>2, <2>3 DEF Restart
<1> QED
  BY <1>1, <1>2, <1>3, <1>4, <1>5, <1>6, <1>7, <1>8, <1>9, <1>10, TokenSteps

-----------------------------------------------------------------------------
(* 4. The executor is an approval gate.                                    *)

(* The values that the refinement mapping gives the gate's variables.      *)
MappedPhase == [k \in Tokens |-> Phase(k)]
MappedPerformed ==
  {k \in Tokens : \E i \in DOMAIN runs : runs[i].token = k /\ runs[i].outcome = "ok"}

(* One question moves and the others stay: a move of the gate.             *)
LEMMA GateMoves ==
  ASSUME NEW k \in Tokens, NEW from, NEW to, Phase(k) = from, Phase(k)' = to,
         \A j \in Tokens \ {k} : Phase(j)' = Phase(j)
  PROVE  Gate!Move(k, from, to)
<1>1. MappedPhase' = [MappedPhase EXCEPT ![k] = to] /\ MappedPhase[k] = from
  BY DEF MappedPhase
<1> QED BY <1>1 DEF Gate!Move, MappedPhase

(* Where a question stands, by what the store holds of it.                 *)
LEMMA PhaseOfStatus ==
  ASSUME TypeOK, NEW k \in DOMAIN store
  PROVE  /\ k \in Tokens /\ k <= issued
         /\ store[k].status = "pending"  => Phase(k) = "open"
         /\ store[k].status = "approved" => Phase(k) = "granted"
         /\ store[k].status = "rejected" => Phase(k) = "refused"
         /\ store[k].status = "executed" => Phase(k) = "closed"
BY BoundsAssumption DEF Phase, TypeOK, Tokens

(* A status that is written moves its own question only.                   *)
LEMMA StatusMoves ==
  ASSUME TypeOK, TypeOK', NEW token \in DOMAIN store, NEW status, StoreStatus(token, status),
         UNCHANGED issued
  PROVE  \A j \in Tokens \ {token} : Phase(j)' = Phase(j)
<1>1. /\ DOMAIN store' = DOMAIN store
      /\ \A j \in DOMAIN store : j # token => store'[j] = store[j]
  BY StatusWritten
<1>2. \A j \in DOMAIN store : store[j].status \in Statuses
  BY DEF TypeOK, Approvals
<1> SUFFICES ASSUME NEW j \in Tokens \ {token} PROVE Phase(j)' = Phase(j)
  OBVIOUS
<1>3. CASE j \notin DOMAIN store
  BY <1>1, <1>3 DEF Phase
<1>4. CASE j \in DOMAIN store
  BY <1>1, <1>2, <1>4 DEF Phase, Statuses
<1> QED BY <1>3, <1>4

(* An empty store: every question is unasked.                              *)
LEMMA GateInit == Init => Gate!Init
<1> SUFFICES ASSUME Init PROVE Gate!Init
  OBVIOUS
<1>1. \A k \in Tokens : Phase(k) = "unasked"
  BY BoundsAssumption DEF Init, Phase, Tokens
<1>2. MappedPerformed = {}
  BY DEF Init, MappedPerformed
<1> QED BY <1>1, <1>2 DEF Gate!Init, MappedPerformed

(* Every step of the executor is one of the gate, or none of its business: *)
(* asking, granting, refusing, performing, voiding and forgetting are      *)
(* found in the steps by what they write to the store.                     *)
LEMMA GateStep ==
  ASSUME TokenInv, [GNext]_vars
  PROVE  [Gate!Next]_(Gate!vars)
<1> USE DEF TokenInv
<1>t. TypeOK /\ TypeOK' /\ issued \in Nat
  BY TypesPreserved DEF TypeOK
<1>p. ASSUME UNCHANGED runs PROVE MappedPerformed' = MappedPerformed
  BY <1>p DEF MappedPerformed
<1>s. ASSUME UNCHANGED <<issued, store>>, MappedPerformed' = MappedPerformed
      PROVE  UNCHANGED Gate!vars
  BY <1>s DEF Gate!vars, Phase, MappedPerformed
<1>n. ASSUME NEW k \in DOMAIN store, store[k].status # "executed"
      PROVE  k \in Tokens /\ k \notin MappedPerformed
  BY <1>n, PhaseOfStatus DEF CompletedSettled, MappedPerformed
<1>1. CASE UNCHANGED <<issued, store, serving, runs>>
  BY <1>1, <1>p, <1>s
<1>2. ASSUME NEW tool \in Tools, NEW taint \in BOOLEAN, ExecuteAllowed(tool, taint)
      PROVE  UNCHANGED Gate!vars
  <2>1. EnterHandler(tool, taint, NoToken) /\ UNCHANGED <<issued, store>>
    BY <1>2 DEF ExecuteAllowed
  <2>2. MappedPerformed' = MappedPerformed
    BY <1>t, <2>1, RunEntered DEF MappedPerformed
  <2> QED BY <2>1, <2>2, <1>s
<1>3. ASSUME NEW tool \in Tools, NEW taint \in BOOLEAN, ExecuteAsk(tool, taint)
      PROVE  Gate!Next
  <2>0. PICK k \in Tokens : k = issued + 1
    BY <1>3, <1>t, BoundsAssumption DEF ExecuteAsk, Tokens
  <2>1. /\ issued' = k /\ UNCHANGED runs
        /\ DOMAIN store' = DOMAIN store \cup {k}
        /\ store'[k].status = "pending"
        /\ \A j \in DOMAIN store : j # k => store'[j] = store[j]
    BY <1>3, <1>t, <2>0 DEF ExecuteAsk
  <2>2. Phase(k) = "unasked" /\ Phase(k)' = "open"
    BY <1>t, <2>0, <2>1 DEF Phase
  <2>3. \A j \in Tokens \ {k} : Phase(j)' = Phase(j)
    <3> SUFFICES ASSUME NEW j \in Tokens \ {k} PROVE Phase(j)' = Phase(j)
      OBVIOUS
    <3>1. j \in Nat /\ (j > issued' <=> j > issued) /\ (j \in DOMAIN store' <=> j \in DOMAIN store)
      BY <1>t, <2>0, <2>1, BoundsAssumption DEF Tokens
    <3>2. CASE j \in DOMAIN store
      <4>1. store[j].status \in Statuses
        BY <3>2, <1>t DEF TypeOK, Approvals
      <4> QED BY <2>1, <3>1, <3>2, <4>1 DEF Phase, Statuses
    <3> QED BY <3>1, <3>2 DEF Phase
  <2>4. Gate!Ask(k)
    BY <2>1, <2>2, <2>3, <1>p, GateMoves DEF Gate!Ask, MappedPerformed
  <2> QED BY <2>4 DEF Gate!Next
<1>4. ASSUME NEW token \in Tokens, StoreApprove(token) \/ ApiApprove(token)
      PROVE  Gate!Next
  <2>1. /\ UNCHANGED <<runs, issued>>
        /\ token \in DOMAIN store
        /\ store[token].status = "pending"
        /\ StoreStatus(token, "approved")
    BY <1>4 DEF StoreApprove, ApiApprove
  <2>2. Phase(token) = "open"
    BY <1>t, <2>1, PhaseOfStatus
  <2>3. Phase(token)' = "granted"
    BY <1>t, <2>1, StatusWritten DEF Phase, TypeOK
  <2>4. Gate!Grant(token)
    BY <1>t, <2>1, <2>2, <2>3, <1>p, GateMoves, StatusMoves DEF Gate!Grant, MappedPerformed
  <2> QED BY <2>4 DEF Gate!Next
<1>5. ASSUME NEW token \in Tokens, ExecuteApprovedWithoutRun(token)
      PROVE  Gate!Next
  <2>1. /\ ServiceBegins(token) /\ StoreStatus(token, "executed")
        /\ UNCHANGED <<runs, issued>>
    BY <1>5 DEF ExecuteApprovedWithoutRun
  <2>2. token \in DOMAIN store /\ store[token].status = "approved"
    BY <2>1, ServiceFacts
  <2>3. Phase(token) = "granted" /\ token \notin MappedPerformed
    BY <1>t, <2>2, PhaseOfStatus, <1>n
  <2>4. Phase(token)' = "closed"
    BY <1>t, <2>1, <2>2, StatusWritten DEF Phase, TypeOK
  <2>5. Gate!Void(token)
    BY <1>t, <2>1, <2>2, <2>3, <2>4, <1>p, GateMoves, StatusMoves DEF Gate!Void, MappedPerformed
  <2> QED BY <2>5 DEF Gate!Next
<1>6. ASSUME NEW token \in Tokens, ExecuteApprovedRun(token)
      PROVE  UNCHANGED Gate!vars
  <2>1. /\ EnterHandler(store[token].tool, store[token].taint, token)
        /\ UNCHANGED <<store, issued>>
    BY <1>6 DEF ExecuteApprovedRun
  <2>2. MappedPerformed' = MappedPerformed
    BY <1>t, <2>1, RunEntered DEF MappedPerformed
  <2> QED BY <2>1, <2>2, <1>s
<1>7. ASSUME NEW token \in Tokens, RejectApproval(token)
      PROVE  Gate!Next
  <2>1. /\ UNCHANGED <<runs, issued>>
        /\ token \in DOMAIN store
        /\ store[token].status = "pending"
        /\ StoreStatus(token, "rejected")
    BY <1>7 DEF RejectApproval
  <2>2. Phase(token) = "open"
    BY <1>t, <2>1, PhaseOfStatus
  <2>3. Phase(token)' = "refused"
    BY <1>t, <2>1, StatusWritten DEF Phase, TypeOK
  <2>4. Gate!Refuse(token)
    BY <1>t, <2>1, <2>2, <2>3, <1>p, GateMoves, StatusMoves DEF Gate!Refuse, MappedPerformed
  <2> QED BY <2>4 DEF Gate!Next
<1>8. CASE HandlerReturns
  <2>0. PICK k : k = runs[Len(runs)].token
    OBVIOUS
  <2>1. InHandler /\ HandlerEnds("ok") /\ UNCHANGED issued
    BY <1>8 DEF HandlerReturns
  <2>2. \A j \in Tokens : j \in MappedPerformed' <=> j \in MappedPerformed \/ j = k
    BY <1>t, <2>0, <2>1, RunEnded DEF MappedPerformed
  <2>3. CASE k = NoToken /\ UNCHANGED store
    <3>1. MappedPerformed' = MappedPerformed
      BY <2>2, <2>3 DEF MappedPerformed, Tokens, NoToken
    <3> QED BY <2>1, <2>3, <3>1, <1>s
  <2>4. CASE k # NoToken /\ StoreStatus(k, "executed")
    <3>1. k \in DOMAIN store /\ store[k].status = "approved"
      BY <2>0, <2>1, <2>4 DEF RunningApproved
    <3>2. k \in Tokens /\ Phase(k) = "granted" /\ k \notin MappedPerformed
      BY <1>t, <3>1, PhaseOfStatus, <1>n
    <3>3. Phase(k)' = "closed"
      BY <1>t, <2>1, <2>4, <3>1, StatusWritten DEF Phase, TypeOK
    <3>4. Gate!Move(k, "granted", "closed")
      BY <1>t, <2>1, <2>4, <3>1, <3>2, <3>3, GateMoves, StatusMoves
    <3>5. MappedPerformed' = MappedPerformed \cup {k}
      BY <2>2, <3>2 DEF MappedPerformed
    <3>6. Gate!Perform(k)
      BY <3>2, <3>4, <3>5 DEF Gate!Perform, MappedPerformed
    <3> QED BY <3>2, <3>6 DEF Gate!Next
  <2> QED BY <1>8, <2>0, <2>3, <2>4 DEF HandlerReturns
<1>9. CASE HandlerRaises
  <2>1. InHandler /\ HandlerEnds("raised") /\ UNCHANGED <<issued, store>>
    BY <1>9 DEF HandlerRaises
  <2>2. MappedPerformed' = MappedPerformed
    BY <1>t, <2>1, RunEnded DEF MappedPerformed
  <2> QED BY <2>1, <2>2, <1>s
<1>10. CASE Restart
  <2>1. DOMAIN store' = {} /\ UNCHANGED issued
    BY <1>10 DEF Restart
  <2>2. \A k \in Tokens : Phase(k)' = IF Phase(k) = "unasked" THEN "unasked" ELSE "lost"
    <3>1. \A k \in Tokens : Phase(k) = "unasked" <=> k > issued
      BY <1>t, PhaseOfStatus DEF Phase, TypeOK, Approvals, Statuses
    <3> QED BY <2>1, <3>1 DEF Phase
  <2>3. MappedPerformed' = MappedPerformed
    <3>1. CASE InHandler /\ HandlerEnds("crashed")
      BY <1>t, <3>1, RunEnded DEF MappedPerformed
    <3> QED BY <1>10, <1>p, <3>1 DEF Restart
  <2>4. MappedPhase' = [k \in Tokens |-> IF MappedPhase[k] = "unasked" THEN "unasked" ELSE "lost"]
    BY <2>2 DEF MappedPhase
  <2>5. Gate!Forget
    BY <2>3, <2>4 DEF Gate!Forget, MappedPhase, MappedPerformed
  <2> QED BY <2>5 DEF Gate!Next
<1> QED
  BY <1>1, <1>2, <1>3, <1>4, <1>5, <1>6, <1>7, <1>8, <1>9, <1>10, TokenSteps

LEMMA TokenInvHolds ==
  /\ Init => TokenInv
  /\ TokenInv /\ [GNext]_vars => TokenInv'
<1>1. Init => TokenInv
  BY InvariantInductive
     DEF Init, IInv, TokenInv, RunningApproved, CompletedSettled, InHandler
<1> QED BY <1>1, TokenInvInductive

(* The executor, with its approval endpoints, its library callers, the     *)
(* Gemini route and restarts at any moment, is an approval gate.           *)
THEOREM RouteImplementsGate == GSpec => ImplementsGate
<1>1. Init => Gate!Init
  BY GateInit
<1>2. TokenInv /\ [GNext]_vars => [Gate!Next]_(Gate!vars)
  BY GateStep
<1> QED BY <1>1, <1>2, TokenInvHolds, PTL DEF GSpec, ImplementsGate, Gate!Spec

(* What was performed is settled for good: its question is closed, or was  *)
(* forgotten with the process.                                             *)
THEOREM PerformedStaysSettled == GSpec => []Gate!PerformedIsSettled
<1>1. TokenInv => Gate!PerformedIsSettled
  <2> SUFFICES ASSUME TokenInv, NEW k \in MappedPerformed PROVE Phase(k) \in {"closed", "lost"}
    BY DEF Gate!PerformedIsSettled, MappedPerformed
  <2>1. PICK i \in DOMAIN runs : runs[i].token = k /\ runs[i].outcome = "ok"
    BY DEF MappedPerformed
  <2>2. k \in Nat /\ k <= issued /\ issued \in Nat
    <3>1. k \in Nat
      BY DEF MappedPerformed, Tokens
    <3>2. k <= issued
      BY <2>1 DEF TokenInv, CompletedSettled
    <3>3. issued \in Nat
      BY DEF TokenInv, TypeOK
    <3> QED BY <3>1, <3>2, <3>3
  <2>3. CASE k \in DOMAIN store
    BY <2>1, <2>3, PhaseOfStatus DEF TokenInv, CompletedSettled
  <2>4. CASE k \notin DOMAIN store
    <3>1. ~(k > issued)
      BY <2>2
    <3> QED BY <2>4, <3>1 DEF Phase
  <2> QED BY <2>3, <2>4
<1> QED BY <1>1, TokenInvHolds, PTL DEF GSpec

(* The executor without the Gemini route, as the runs of MCExecutor check  *)
(* it, is a gate as well.                                                  *)
THEOREM ExecutorImplementsGate == Spec => ImplementsGate
<1>1. [Next]_vars => [GNext]_vars
  BY DEF GNext
<1>2. Spec => GSpec
  BY <1>1, PTL DEF Spec, GSpec
<1> QED BY <1>2, RouteImplementsGate

-----------------------------------------------------------------------------
(* 5. The log against the store, token by token.                           *)

(* Which entries of the log belong to a token, without counting them.      *)
IsAsk(i, k) == i \in DOMAIN audit /\ audit[i].token = k /\ audit[i].result = ApprovalRequired
IsSettling(i, k) ==
  i \in DOMAIN audit /\ audit[i].token = k /\ audit[i].result # ApprovalRequired

EntriesIssued == \A i \in DOMAIN audit : audit[i].token <= issued
AskedOnce ==
  \A k \in 1..issued : \E i \in DOMAIN audit : IsAsk(i, k) /\ \A j : IsAsk(j, k) => j = i
SettledOnce ==
  \A k \in 1..issued : \A i, j : IsSettling(i, k) /\ IsSettling(j, k) => i = j
StoreAgrees ==
  \A k \in DOMAIN store :
    (\E i : IsSettling(i, k)) <=> store[k].status \in {"executed", "rejected"}

LogInv == TokenInv /\ EntriesIssued /\ AskedOnce /\ SettledOnce /\ StoreAgrees

(* What settles a token is no question.                                    *)
LEMMA SettlingResults ==
  ApprovalRequired \notin {NotAllowlisted, Approved, Rejected}
<1> DEFINE Rule(r) == r.rule
<1>1. /\ Rule(ApprovalRequired) = "approval_required" /\ Rule(NotAllowlisted) = "tool_not_allowlisted"
      /\ Rule(Approved) = "approved" /\ Rule(Rejected) = "approval_rejected"
  BY DEF Result, ApprovalRequired, NotAllowlisted, Approved, Rejected
<1> HIDE DEF Rule
<1> QED BY <1>1

(* One more entry, and what belongs to whom afterwards.                    *)
LEMMA OneMoreEntry ==
  ASSUME TypeOK, NEW e, audit' = Append(audit, e)
  PROVE  /\ DOMAIN audit' = DOMAIN audit \cup {Len(audit) + 1}
         /\ Len(audit) + 1 \notin DOMAIN audit
         /\ audit'[Len(audit) + 1] = e
         /\ \A i \in DOMAIN audit : audit'[i] = audit[i]
BY DEF TypeOK

(* The entries of a token after one more line in the log.                  *)
LEMMA EntriesAfter ==
  ASSUME TypeOK, NEW e, audit' = Append(audit, e), NEW k
  PROVE  /\ \A i : IsAsk(i, k)' <=> \/ IsAsk(i, k)
                                    \/ /\ i = Len(audit) + 1
                                       /\ e.token = k /\ e.result = ApprovalRequired
         /\ \A i : IsSettling(i, k)' <=> \/ IsSettling(i, k)
                                         \/ /\ i = Len(audit) + 1
                                            /\ e.token = k /\ e.result # ApprovalRequired
         /\ ~IsAsk(Len(audit) + 1, k) /\ ~IsSettling(Len(audit) + 1, k)
BY OneMoreEntry DEF IsAsk, IsSettling

(* An entry without a token tells nothing of tokens.                       *)
LEMMA PlainEntryKeeps ==
  ASSUME LogInv, TokenInv', NEW e, e.token = NoToken, audit' = Append(audit, e),
         UNCHANGED <<issued, store>>
  PROVE  LogInv'
<1>1. issued \in Nat /\ DOMAIN store \subseteq 1..issued /\ TypeOK
  BY DEF LogInv, TokenInv, TypeOK
<1>2. ASSUME NEW k \in 1..issued
      PROVE  (\A i : IsAsk(i, k)' <=> IsAsk(i, k)) /\ (\A i : IsSettling(i, k)' <=> IsSettling(i, k))
  <2>1. k # NoToken
    BY <1>1 DEF NoToken
  <2> QED BY <1>1, <2>1, EntriesAfter
<1>3. EntriesIssued'
  BY <1>1, OneMoreEntry DEF LogInv, EntriesIssued, NoToken
<1>4. AskedOnce'
  <2> SUFFICES ASSUME NEW k \in 1..issued
               PROVE  (\E i \in DOMAIN audit : IsAsk(i, k) /\ \A j : IsAsk(j, k) => j = i)'
    BY DEF AskedOnce
  <2>1. PICK i \in DOMAIN audit : IsAsk(i, k) /\ \A j : IsAsk(j, k) => j = i
    BY DEF LogInv, AskedOnce
  <2>2. i \in DOMAIN audit'
    BY <1>1, OneMoreEntry
  <2> QED BY <1>2, <2>1, <2>2
<1>5. SettledOnce'
  BY <1>2 DEF LogInv, SettledOnce
<1>6. StoreAgrees'
  BY <1>1, <1>2 DEF LogInv, StoreAgrees
<1> QED BY <1>3, <1>4, <1>5, <1>6 DEF LogInv

(* The entry that settles a token, together with its mark in the store.    *)
LEMMA SettlingEntryKeeps ==
  ASSUME LogInv, TokenInv', NEW k \in DOMAIN store, NEW status \in {"executed", "rejected"},
         store[k].status \in {"pending", "approved"}, StoreStatus(k, status), UNCHANGED issued,
         NEW e, e.token = k, e.result # ApprovalRequired, audit' = Append(audit, e)
  PROVE  LogInv'
<1>1. issued \in Nat /\ DOMAIN store \subseteq 1..issued /\ TypeOK /\ k \in 1..issued
  BY DEF LogInv, TokenInv, TypeOK
<1>2. ASSUME NEW j \in 1..issued
      PROVE  (\A i : IsAsk(i, j)' <=> IsAsk(i, j))
             /\ (j # k => \A i : IsSettling(i, j)' <=> IsSettling(i, j))
  BY <1>1, EntriesAfter
<1>3. \A i : IsSettling(i, k)' <=> i = Len(audit) + 1
  <2>1. ~\E i : IsSettling(i, k)
    BY DEF LogInv, StoreAgrees
  <2> QED BY <1>1, <2>1, EntriesAfter
<1>4. EntriesIssued'
  BY <1>1, OneMoreEntry DEF LogInv, EntriesIssued
<1>5. AskedOnce'
  <2> SUFFICES ASSUME NEW j \in 1..issued
               PROVE  (\E i \in DOMAIN audit : IsAsk(i, j) /\ \A m : IsAsk(m, j) => m = i)'
    BY DEF AskedOnce
  <2>1. PICK i \in DOMAIN audit : IsAsk(i, j) /\ \A m : IsAsk(m, j) => m = i
    BY DEF LogInv, AskedOnce
  <2>2. i \in DOMAIN audit'
    BY <1>1, OneMoreEntry
  <2> QED BY <1>2, <2>1, <2>2
<1>6. SettledOnce'
  BY <1>2, <1>3 DEF LogInv, SettledOnce
<1>7. StoreAgrees'
  <2> SUFFICES ASSUME NEW j \in DOMAIN store'
               PROVE  ((\E i : IsSettling(i, j)) <=> store[j].status \in {"executed", "rejected"})'
    BY DEF StoreAgrees
  <2>1. CASE j = k
    BY <1>1, <1>3, <2>1, StatusWritten
  <2>2. CASE j # k
    BY <1>1, <1>2, <2>2, StatusWritten DEF LogInv, StoreAgrees
  <2> QED BY <2>1, <2>2
<1> QED BY <1>4, <1>5, <1>6, <1>7 DEF LogInv

(* The entry that asks, together with the new token.                       *)
LEMMA AskingEntryKeeps ==
  ASSUME LogInv, TokenInv', NEW tool, NEW taint, ExecuteAsk(tool, taint)
  PROVE  LogInv'
<1>0. PICK k : k = issued + 1
  OBVIOUS
<1>1. issued \in Nat /\ DOMAIN store \subseteq 1..issued /\ TypeOK /\ issued' = k
  BY <1>0 DEF LogInv, TokenInv, TypeOK, ExecuteAsk
<1>2. PICK e : audit' = Append(audit, e) /\ e.token = k /\ e.result = ApprovalRequired
  BY <1>0 DEF ExecuteAsk, Audit, Entry
<1>3. ASSUME NEW j \in 1..issued
      PROVE  (\A i : IsAsk(i, j)' <=> IsAsk(i, j)) /\ (\A i : IsSettling(i, j)' <=> IsSettling(i, j))
  <2>1. j # k
    BY <1>0, <1>1
  <2> QED BY <1>1, <1>2, <2>1, EntriesAfter
<1>4. ~(\E i : IsAsk(i, k)) /\ ~(\E i : IsSettling(i, k))
  BY <1>0, <1>1 DEF LogInv, EntriesIssued, IsAsk, IsSettling
<1>5. (\A i : IsAsk(i, k)' <=> i = Len(audit) + 1) /\ ~(\E i : IsSettling(i, k)')
  BY <1>1, <1>2, <1>4, EntriesAfter
<1>6. EntriesIssued'
  <2>1. \A i \in DOMAIN audit : audit[i].token \in Nat /\ audit[i].token <= issued
    <3>1. \A i \in DOMAIN audit : audit[i] \in AuditEntries
      BY <1>1 DEF TypeOK
    <3> QED BY <3>1, BoundsAssumption DEF LogInv, EntriesIssued, AuditEntries, Tokens, NoToken
  <2> QED BY <1>0, <1>1, <1>2, <2>1, OneMoreEntry DEF EntriesIssued
<1>7. AskedOnce'
  <2> SUFFICES ASSUME NEW j \in 1..issued'
               PROVE  (\E i \in DOMAIN audit : IsAsk(i, j) /\ \A m : IsAsk(m, j) => m = i)'
    BY DEF AskedOnce
  <2>1. CASE j = k
    <3>1. Len(audit) + 1 \in DOMAIN audit'
      BY <1>1, <1>2, OneMoreEntry
    <3> QED BY <1>5, <2>1, <3>1
  <2>2. CASE j \in 1..issued
    <3>1. PICK i \in DOMAIN audit : IsAsk(i, j) /\ \A m : IsAsk(m, j) => m = i
      BY <2>2 DEF LogInv, AskedOnce
    <3>2. i \in DOMAIN audit'
      BY <1>1, <1>2, OneMoreEntry
    <3> QED BY <1>3, <2>2, <3>1, <3>2
  <2> QED BY <1>0, <1>1, <2>1, <2>2
<1>8. SettledOnce'
  <2> SUFFICES ASSUME NEW j \in 1..issued', NEW i, NEW m, IsSettling(i, j)', IsSettling(m, j)'
               PROVE  i = m
    BY DEF SettledOnce
  <2>1. CASE j = k
    BY <1>5, <2>1
  <2>2. CASE j \in 1..issued
    BY <1>3, <2>2 DEF LogInv, SettledOnce
  <2> QED BY <1>0, <1>1, <2>1, <2>2
<1>9. StoreAgrees'
  <2> SUFFICES ASSUME NEW j \in DOMAIN store'
               PROVE  ((\E i : IsSettling(i, j)) <=> store[j].status \in {"executed", "rejected"})'
    BY DEF StoreAgrees
  <2>1. CASE j = k
    <3>1. store'[k].status = "pending"
      BY <1>0, <2>1 DEF ExecuteAsk
    <3> QED BY <1>5, <2>1, <3>1
  <2>2. CASE j # k
    <3>1. j \in DOMAIN store /\ store'[j] = store[j]
      BY <1>0, <2>2 DEF ExecuteAsk
    <3> QED BY <1>1, <1>3, <3>1 DEF LogInv, StoreAgrees
  <2> QED BY <2>1, <2>2
<1> QED BY <1>6, <1>7, <1>8, <1>9 DEF LogInv

(* Steps that write nothing to the log keep what it says of each token.    *)
LEMMA SilentStepKeeps ==
  ASSUME LogInv, TokenInv', UNCHANGED <<issued, audit>>,
         \A k \in DOMAIN store' :
           /\ k \in DOMAIN store
           /\ \/ store'[k].status = store[k].status
              \/ store[k].status = "pending" /\ store'[k].status = "approved"
  PROVE  LogInv'
BY DEF LogInv, EntriesIssued, AskedOnce, SettledOnce, StoreAgrees, IsAsk, IsSettling

(* Steps that log without a token, or do not log, or ask or settle.        *)
LEMMA LogSteps ==
  ASSUME [GNext]_vars
  PROVE  \/ /\ UNCHANGED <<issued, store>>
            /\ \/ UNCHANGED audit
               \/ \E e : e.token = NoToken /\ audit' = Append(audit, e)
         \/ \E tool \in Tools, taint \in BOOLEAN : ExecuteAsk(tool, taint)
         \/ \E token \in Tokens : StoreApprove(token) \/ ApiApprove(token)
         \/ \E token \in Tokens : ExecuteApprovedWithoutRun(token)
         \/ \E token \in Tokens : RejectApproval(token)
         \/ HandlerReturns
         \/ Restart
<1> DEFINE Plain == /\ UNCHANGED <<issued, store>>
                    /\ \/ UNCHANGED audit
                       \/ \E e : e.token = NoToken /\ audit' = Append(audit, e)
<1>1. ASSUME NEW tool, NEW result, NEW taint, NEW world, Audit(tool, result, taint, world, NoToken),
             UNCHANGED <<issued, store>>
      PROVE  Plain
  <2>1. Entry(tool, result, taint, world, NoToken).token = NoToken
    BY DEF Entry
  <2> QED BY <1>1, <2>1 DEF Audit
<1>2. ASSUME NEW tool \in Tools, NEW result, NEW taint \in BOOLEAN, Record(tool, result, taint)
      PROVE  Plain
  <2>1. [Entry(tool, result, taint, current, NoToken) EXCEPT !.by = "gate"].token = NoToken
    BY DEF Entry
  <2> QED BY <1>2, <2>1 DEF Record
<1>3. ASSUME NEW tool \in Tools, NEW taint \in BOOLEAN, NEW mode \in Modes,
             Execute(tool, taint, mode)
      PROVE  Plain \/ ExecuteAsk(tool, taint)
  <2>1. CASE ExecuteAllowed(tool, taint)
    BY <2>1 DEF ExecuteAllowed
  <2>2. CASE ExecuteSimulated(tool, taint)
    BY <2>2, <1>1 DEF ExecuteSimulated
  <2>3. CASE ExecuteRefused(tool, taint)
    BY <2>3, <1>1 DEF ExecuteRefused
  <2>4. CASE ExecuteAskInBackground(tool, taint)
    BY <2>4, <1>1 DEF ExecuteAskInBackground
  <2> QED BY <1>3, <2>1, <2>2, <2>3, <2>4 DEF Execute
<1>4. ASSUME NEW token \in Tokens, ExecuteApprovedRun(token)
      PROVE  Plain
  BY <1>4 DEF ExecuteApprovedRun
<1>5. HandlerRaises \/ (\E w \in Worlds : SwitchWorld(w)) \/ (\E t \in Tools : MutateSchema(t))
        \/ UNCHANGED vars
      => Plain
  BY DEF HandlerRaises, SwitchWorld, MutateSchema, vars
<1>6. CASE \E tool \in Tools, taint \in BOOLEAN :
              GeminiUnknown(tool, taint) \/ GeminiDenied(tool, taint) \/ GeminiSimulated(tool, taint)
  BY <1>2, <1>6, GateResults
<1> HIDE DEF Plain
<1>7. ASSUME Next
      PROVE  \/ Plain
             \/ \E tool \in Tools, taint \in BOOLEAN : ExecuteAsk(tool, taint)
             \/ \E token \in Tokens : StoreApprove(token) \/ ApiApprove(token)
             \/ \E token \in Tokens : ExecuteApprovedWithoutRun(token)
             \/ \E token \in Tokens : RejectApproval(token)
             \/ HandlerReturns
             \/ Restart
  BY <1>3, <1>4, <1>5, <1>7 DEF Next
<1> QED BY <1>5, <1>6, <1>7, GeminiSteps DEF Plain

(* Step by step: a question, a settling entry, or a line without a token.  *)
LEMMA LogInvInductive ==
  ASSUME LogInv, [GNext]_vars
  PROVE  LogInv'
<1>t. TokenInv /\ TokenInv' /\ TypeOK
  BY TokenInvInductive DEF LogInv, TokenInv
<1>1. CASE UNCHANGED <<issued, store, audit>>
  BY <1>1, <1>t, SilentStepKeeps
<1>2. ASSUME NEW e, e.token = NoToken, audit' = Append(audit, e), UNCHANGED <<issued, store>>
      PROVE  LogInv'
  BY <1>2, <1>t, PlainEntryKeeps
<1>3. ASSUME NEW tool \in Tools, NEW taint \in BOOLEAN, ExecuteAsk(tool, taint)
      PROVE  LogInv'
  BY <1>3, <1>t, AskingEntryKeeps
<1>4. ASSUME NEW token \in Tokens, StoreApprove(token) \/ ApiApprove(token)
      PROVE  LogInv'
  <2>1. /\ UNCHANGED <<issued, audit>>
        /\ token \in DOMAIN store /\ store[token].status = "pending"
        /\ StoreStatus(token, "approved")
    BY <1>4 DEF StoreApprove, ApiApprove
  <2> QED BY <1>t, <2>1, StatusWritten, SilentStepKeeps
<1>5. ASSUME NEW token \in Tokens, ExecuteApprovedWithoutRun(token)
      PROVE  LogInv'
  <2>1. /\ token \in DOMAIN store /\ store[token].status = "approved"
        /\ StoreStatus(token, "executed") /\ UNCHANGED issued
    BY <1>5 DEF ExecuteApprovedWithoutRun, ServiceBegins
  <2>2. PICK tool, result, taint, world :
          /\ Audit(tool, result, taint, world, token)
          /\ result \in {NotAllowlisted, Approved}
    BY <1>5 DEF ExecuteApprovedWithoutRun
  <2>3. result # ApprovalRequired
    BY <2>2, SettlingResults
  <2>4. PICK e : e.token = token /\ e.result # ApprovalRequired /\ audit' = Append(audit, e)
    BY <2>2, <2>3 DEF Audit, Entry
  <2> QED BY <1>t, <2>1, <2>4, SettlingEntryKeeps
<1>6. ASSUME NEW token \in Tokens, RejectApproval(token)
      PROVE  LogInv'
  <2>1. /\ token \in DOMAIN store /\ store[token].status = "pending"
        /\ StoreStatus(token, "rejected") /\ UNCHANGED issued
    BY <1>6 DEF RejectApproval
  <2>2. PICK e : e.token = token /\ e.result = Rejected /\ audit' = Append(audit, e)
    BY <1>6 DEF RejectApproval, Audit, Entry
  <2> QED BY <1>t, <2>1, <2>2, SettlingResults, SettlingEntryKeeps
<1>7. CASE HandlerReturns
  <2>0. PICK k : k = runs[Len(runs)].token
    OBVIOUS
  <2>1. CASE k = NoToken
    <3>1. PICK e : e.token = NoToken /\ audit' = Append(audit, e)
      BY <1>7, <2>0, <2>1 DEF HandlerReturns, Audit, Entry
    <3> QED BY <1>2, <1>7, <2>0, <2>1, <3>1 DEF HandlerReturns
  <2>2. CASE k # NoToken
    <3>1. k \in DOMAIN store /\ store[k].status = "approved"
      BY <1>7, <1>t, <2>0, <2>2 DEF HandlerReturns, TokenInv, RunningApproved
    <3>2. StoreStatus(k, "executed") /\ UNCHANGED issued
      BY <1>7, <2>0, <2>2 DEF HandlerReturns
    <3>3. PICK e : e.token = k /\ e.result = Approved /\ audit' = Append(audit, e)
      BY <1>7, <2>0, <2>2 DEF HandlerReturns, Audit, Entry
    <3> QED BY <1>t, <3>1, <3>2, <3>3, SettlingResults, SettlingEntryKeeps
  <2> QED BY <2>1, <2>2
<1>8. CASE Restart
  <2>1. DOMAIN store' = {} /\ UNCHANGED <<issued, audit>>
    BY <1>8 DEF Restart
  <2> QED BY <1>t, <2>1, SilentStepKeeps
<1> QED
  BY <1>1, <1>2, <1>3, <1>4, <1>5, <1>6, <1>7, <1>8, LogSteps

LEMMA LogInvHolds ==
  /\ Init => LogInv
  /\ LogInv /\ [GNext]_vars => LogInv'
<1>1. Init => LogInv
  BY TokenInvHolds
     DEF Init, LogInv, EntriesIssued, AskedOnce, SettledOnce, StoreAgrees, IsSettling
<1> QED BY <1>1, LogInvInductive

(* In numbers.                                                             *)
LEMMA LogInvCounts == LogInv => ApprovalsAccounted
<1> SUFFICES ASSUME LogInv, NEW k \in 1..issued
             PROVE  /\ Cardinality({i \in DOMAIN audit : audit[i].token = k
                                        /\ audit[i].result = ApprovalRequired}) = 1
                    /\ Cardinality(SettlingEntries(k)) <= 1
                    /\ k \in DOMAIN store =>
                         (SettlingEntries(k) # {}) = (store[k].status \in {"executed", "rejected"})
  BY DEF ApprovalsAccounted
<1> DEFINE A == {i \in DOMAIN audit : audit[i].token = k /\ audit[i].result = ApprovalRequired}
<1>1. A = {i \in DOMAIN audit : IsAsk(i, k)}
  BY DEF IsAsk
<1>2. \E x : A = {x}
  BY <1>1 DEF LogInv, AskedOnce
<1>3. Cardinality(A) = 1
  BY <1>2, FS_Singleton
<1>4. SettlingEntries(k) = {} \/ \E x : SettlingEntries(k) = {x}
  BY DEF SettlingEntries, LogInv, SettledOnce, IsSettling
<1>5. Cardinality(SettlingEntries(k)) <= 1
  BY <1>4, FS_Singleton, FS_EmptySet
<1>6. k \in DOMAIN store =>
        (SettlingEntries(k) # {}) = (store[k].status \in {"executed", "rejected"})
  BY DEF SettlingEntries, LogInv, StoreAgrees, IsSettling
<1> QED BY <1>3, <1>5, <1>6

(* However calls, answers, failing handlers and restarts follow each       *)
(* other, by whichever route: every token issued has one question in the   *)
(* log and at most one entry that settles it, and a token the store        *)
(* remembers is settled there exactly when it is in the log.               *)
THEOREM ApprovalsAreAccounted == GSpec => []ApprovalsAccounted
BY LogInvHolds, LogInvCounts, PTL DEF GSpec

-----------------------------------------------------------------------------
(* 6. The log against the handlers, run by run.                            *)

(* No run is of a tool whose effects are simulated.                        *)
NothingSimulatedRuns == \A i \in DOMAIN runs : ~Simulated(runs[i].tool)

(* The property in terms of the test that the code makes.                  *)
LEMMA SimulationMeans ==
  SimulationContains <=> NothingSimulatedRuns
BY FlagsAssumption DEF SimulationContains, NothingSimulatedRuns, Simulated

CompletedRuns == {i \in DOMAIN runs : runs[i].outcome = "ok"}
CountedEntry(e) == e.result.decision = "ALLOW" /\ ~Simulated(e.tool)
CountedEntries == {j \in DOMAIN audit : CountedEntry(audit[j])}

(* What is counted is finite.                                              *)
LEMMA DomainsFinite ==
  ASSUME TypeOK
  PROVE  /\ IsFiniteSet(CompletedRuns) /\ IsFiniteSet(CountedEntries)
<1>1. DOMAIN runs = 1..Len(runs) /\ Len(runs) \in Nat /\ DOMAIN audit = 1..Len(audit)
      /\ Len(audit) \in Nat
  BY DEF TypeOK
<1>2. IsFiniteSet(DOMAIN runs) /\ IsFiniteSet(DOMAIN audit)
  BY <1>1, FS_Interval
<1> QED BY <1>2, FS_Subset DEF CompletedRuns, CountedEntries

(* A step that logs nothing, or what is no ALLOW of an effect.             *)
LEMMA UncountedEntry ==
  ASSUME TypeOK, NEW e, ~CountedEntry(e), audit' = Append(audit, e)
  PROVE  CountedEntries' = CountedEntries
BY OneMoreEntry DEF CountedEntries, CountedEntry, Simulated

LEMMA CountedEntryAdds ==
  ASSUME TypeOK, NEW e, CountedEntry(e), audit' = Append(audit, e)
  PROVE  /\ CountedEntries' = CountedEntries \cup {Len(audit) + 1}
         /\ Len(audit) + 1 \notin CountedEntries
BY OneMoreEntry DEF CountedEntries, CountedEntry, Simulated

LEMMA EnteringCompletesNothing ==
  ASSUME TypeOK, NEW tool, NEW taint, NEW token, EnterHandler(tool, taint, token)
  PROVE  CompletedRuns' = CompletedRuns
BY RunEntered DEF CompletedRuns

LEMMA EndingCompletes ==
  ASSUME TypeOK, InHandler, NEW outcome, HandlerEnds(outcome)
  PROVE  /\ outcome = "ok" => /\ CompletedRuns' = CompletedRuns \cup {Len(runs)}
                              /\ Len(runs) \notin CompletedRuns
         /\ outcome # "ok" => CompletedRuns' = CompletedRuns
BY RunEnded DEF CompletedRuns

(* Which results of a step allow.                                          *)
LEMMA DecisionsAllow ==
  /\ \A r \in {NotAllowlisted, AskUnavailable, Rejected, ApprovalRequired} \cup RecordedResults :
       r.decision # "ALLOW"
  /\ DefaultAllow.decision = "ALLOW" /\ Approved.decision = "ALLOW"
BY DEF Result, NotAllowlisted, AskUnavailable, Rejected, ApprovalRequired, DefaultAllow,
   Approved, RecordedResults, NotInOntology, SimulatedExternal

(* What the gate writes never claims an effect.                            *)
LEMMA GateEntriesUncounted ==
  ASSUME TypeOK, NEW tool \in Tools, NEW taint \in BOOLEAN,
         GeminiUnknown(tool, taint) \/ GeminiDenied(tool, taint) \/ GeminiSimulated(tool, taint)
  PROVE  CountedEntries' = CountedEntries /\ UNCHANGED runs
<1>1. PICK result : Record(tool, result, taint) /\ result.decision # "ALLOW"
  BY DecisionsAllow DEF GeminiUnknown, GeminiDenied, GeminiSimulated, RecordedResults
<1> DEFINE e == [Entry(tool, result, taint, current, NoToken) EXCEPT !.by = "gate"]
<1>2. e.result = result /\ audit' = Append(audit, e) /\ UNCHANGED runs
  BY <1>1 DEF Record, Entry
<1> HIDE DEF e
<1> QED BY <1>1, <1>2, UncountedEntry DEF CountedEntry

CountInv ==
  TokenInv /\ SimulationContains /\ Cardinality(CompletedRuns) = Cardinality(CountedEntries)

(* A handler that returns adds one to both counts, every other step to     *)
(* none.                                                                   *)
LEMMA CountInvInductive ==
  ASSUME CountInv, [GNext]_vars
  PROVE  CountInv'
<1>t. TypeOK /\ TokenInv /\ TokenInv' /\ SimulationContains'
  BY TokenInvInductive, SimulationStaysContained DEF CountInv, TokenInv
<1> SUFFICES \/ CompletedRuns' = CompletedRuns /\ CountedEntries' = CountedEntries
             \/ \E i, j : /\ CompletedRuns' = CompletedRuns \cup {i} /\ i \notin CompletedRuns
                          /\ CountedEntries' = CountedEntries \cup {j} /\ j \notin CountedEntries
  <2>1. ASSUME NEW i, NEW j,
               CompletedRuns' = CompletedRuns \cup {i}, i \notin CompletedRuns,
               CountedEntries' = CountedEntries \cup {j}, j \notin CountedEntries
        PROVE  CountInv'
    <3>1. /\ Cardinality(CompletedRuns') = Cardinality(CompletedRuns) + 1
          /\ Cardinality(CountedEntries') = Cardinality(CountedEntries) + 1
      BY <1>t, <2>1, DomainsFinite, FS_AddElement
    <3> QED BY <1>t, <3>1 DEF CountInv
  <2>2. ASSUME CompletedRuns' = CompletedRuns, CountedEntries' = CountedEntries PROVE CountInv'
    BY <1>t, <2>2 DEF CountInv
  <2> QED BY <2>1, <2>2
<1> DEFINE Same == CompletedRuns' = CompletedRuns /\ CountedEntries' = CountedEntries
<1>r. ASSUME UNCHANGED runs PROVE CompletedRuns' = CompletedRuns
  BY <1>r DEF CompletedRuns
<1>a. ASSUME UNCHANGED audit PROVE CountedEntries' = CountedEntries
  BY <1>a DEF CountedEntries
<1>e. ASSUME NEW tool, NEW result, NEW taint, NEW world, NEW token,
             Audit(tool, result, taint, world, token),
             result.decision # "ALLOW" \/ Simulated(tool)
      PROVE  CountedEntries' = CountedEntries
  <2>1. ~CountedEntry(Entry(tool, result, taint, world, token))
    BY <1>e DEF CountedEntry, Entry
  <2>2. PICK e : e = Entry(tool, result, taint, world, token)
    OBVIOUS
  <2> QED BY <1>t, <1>e, <2>1, <2>2, UncountedEntry DEF Audit
<1>1. CASE UNCHANGED vars
  BY <1>1, <1>r, <1>a DEF vars
<1>2. ASSUME NEW tool \in Tools, NEW taint \in BOOLEAN,
             GeminiUnknown(tool, taint) \/ GeminiDenied(tool, taint) \/ GeminiSimulated(tool, taint)
      PROVE  Same
  BY <1>2, <1>r, <1>t, GateEntriesUncounted
<1>3. ASSUME NEW tool \in Tools, NEW taint \in BOOLEAN, NEW mode \in Modes,
             Execute(tool, taint, mode)
      PROVE  Same
  <2>1. CASE ExecuteAllowed(tool, taint)
    BY <1>t, <2>1, <1>a, EnteringCompletesNothing DEF ExecuteAllowed
  <2>2. CASE ExecuteSimulated(tool, taint)
    BY <2>2, <1>r, <1>e DEF ExecuteSimulated
  <2>3. CASE ExecuteRefused(tool, taint)
    <3>1. PolicyAnswer(tool, taint).decision # "ALLOW"
      BY <2>3 DEF ExecuteRefused
    <3> QED BY <2>3, <3>1, <1>r, <1>e DEF ExecuteRefused
  <2>4. CASE ExecuteAsk(tool, taint)
    BY <2>4, <1>r, <1>e, DecisionsAllow DEF ExecuteAsk
  <2>5. CASE ExecuteAskInBackground(tool, taint)
    BY <2>5, <1>r, <1>e, DecisionsAllow DEF ExecuteAskInBackground
  <2> QED BY <1>3, <2>1, <2>2, <2>3, <2>4, <2>5 DEF Execute
<1>4. ASSUME NEW token \in Tokens, StoreApprove(token) \/ ApiApprove(token)
      PROVE  Same
  BY <1>4, <1>r, <1>a DEF StoreApprove, ApiApprove
<1>5. ASSUME NEW token \in Tokens, ExecuteApprovedWithoutRun(token)
      PROVE  Same
  BY <1>5, <1>r, <1>e, DecisionsAllow DEF ExecuteApprovedWithoutRun
<1>6. ASSUME NEW token \in Tokens, ExecuteApprovedRun(token)
      PROVE  Same
  BY <1>t, <1>6, <1>a, EnteringCompletesNothing DEF ExecuteApprovedRun
<1>7. ASSUME NEW token \in Tokens, RejectApproval(token)
      PROVE  Same
  BY <1>7, <1>r, <1>e, DecisionsAllow DEF RejectApproval
<1>8. CASE HandlerReturns
  <2>1. InHandler /\ HandlerEnds("ok")
    BY <1>8 DEF HandlerReturns
  <2>2. ~Simulated(runs[Len(runs)].tool)
    BY <1>t, <2>1, RunEnded, SimulationMeans DEF CountInv, NothingSimulatedRuns
  <2>3. PICK e : audit' = Append(audit, e) /\ CountedEntry(e)
    BY <1>8, <2>2, DecisionsAllow DEF HandlerReturns, Audit, Entry, CountedEntry
  <2> QED BY <1>t, <2>1, <2>3, EndingCompletes, CountedEntryAdds
<1>9. CASE HandlerRaises
  BY <1>t, <1>9, <1>a, EndingCompletes DEF HandlerRaises
<1>10. CASE Restart
  BY <1>t, <1>10, <1>r, <1>a, EndingCompletes DEF Restart
<1>11. CASE (\E w \in Worlds : SwitchWorld(w)) \/ (\E t \in Tools : MutateSchema(t))
  BY <1>11, <1>r, <1>a DEF SwitchWorld, MutateSchema
<1>12. CASE Next
  BY <1>3, <1>4, <1>5, <1>6, <1>7, <1>8, <1>9, <1>10, <1>11, <1>12 DEF Next
<1> QED BY <1>1, <1>2, <1>12, GeminiSteps

-----------------------------------------------------------------------------
(* Without library callers: where each approved token of the store is.     *)
ApprovedInService ==
  ~LibraryCallers =>
    \A k \in DOMAIN store : store[k].status = "approved" =>
      \/ serving = k
      \/ InHandler /\ runs[Len(runs)].token = k
      \/ \E i \in DOMAIN runs : runs[i].token = k /\ runs[i].outcome = "raised"

(* A token that the API has approved is in service, inside its handler, or *)
(* was left behind by a handler that raised.                               *)
LEMMA ApprovedStaysInService ==
  ASSUME TokenInv, ApprovedInService, [GNext]_vars
  PROVE  ApprovedInService'
<1>t. TypeOK /\ TypeOK' /\ TokenInv
  BY TypesPreserved DEF TokenInv
<1> SUFFICES ASSUME ~LibraryCallers, NEW k \in DOMAIN store', store'[k].status = "approved"
             PROVE  \/ serving' = k
                    \/ InHandler' /\ runs'[Len(runs')].token = k
                    \/ \E i \in DOMAIN runs' : runs'[i].token = k /\ runs'[i].outcome = "raised"
  BY DEF ApprovedInService
<1> DEFINE Raised == \E i \in DOMAIN runs : runs[i].token = k /\ runs[i].outcome = "raised"
<1>i. ASSUME k \in DOMAIN store, store[k].status = "approved"
      PROVE  serving = k \/ (InHandler /\ runs[Len(runs)].token = k) \/ Raised
  BY <1>i DEF ApprovedInService
<1>0. k # NoToken
  BY <1>t DEF TypeOK, NoToken
<1>1. CASE UNCHANGED <<issued, store, serving, runs>>
  BY <1>1, <1>i DEF InHandler
<1>2. ASSUME NEW tool \in Tools, NEW taint \in BOOLEAN, ExecuteAllowed(tool, taint)
      PROVE  Raised'
  <2>1. Raised /\ EnterHandler(tool, taint, NoToken)
    BY <1>0, <1>2, <1>i DEF ExecuteAllowed, Called, Idle
  <2> QED BY <1>t, <2>1, RunEntered
<1>3. ASSUME NEW tool \in Tools, NEW taint \in BOOLEAN, ExecuteAsk(tool, taint)
      PROVE  Raised'
  <2>1. k \in DOMAIN store /\ store'[k] = store[k] /\ UNCHANGED runs
    BY <1>3 DEF ExecuteAsk
  <2> QED BY <1>0, <1>3, <1>i, <2>1 DEF ExecuteAsk, Called, Idle
<1>4. ASSUME NEW token \in Tokens, StoreApprove(token) \/ ApiApprove(token)
      PROVE  serving' = k \/ Raised'
  <2>1. /\ token \in DOMAIN store /\ StoreStatus(token, "approved")
        /\ Idle /\ UNCHANGED runs /\ serving' = token
    BY <1>4 DEF StoreApprove, ApiApprove, Called
  <2>2. CASE k # token
    BY <1>0, <1>t, <1>i, <2>1, <2>2, StatusWritten DEF Idle
  <2> QED BY <2>1, <2>2
<1>5. ASSUME NEW token \in Tokens, ExecuteApprovedWithoutRun(token)
      PROVE  Raised'
  <2>1. /\ ServiceBegins(token) /\ serving = token
        /\ StoreStatus(token, "executed") /\ UNCHANGED runs
    BY <1>5 DEF ExecuteApprovedWithoutRun, ServiceBegins
  <2> QED BY <1>t, <1>i, <2>1, ServiceFacts, StatusWritten
<1>6. ASSUME NEW token \in Tokens, ExecuteApprovedRun(token)
      PROVE  (InHandler' /\ runs'[Len(runs')].token = k) \/ Raised'
  <2>1. /\ ServiceBegins(token) /\ serving = token /\ UNCHANGED store
        /\ EnterHandler(store[token].tool, store[token].taint, token)
    BY <1>6 DEF ExecuteApprovedRun, ServiceBegins
  <2>2. InHandler' /\ runs'[Len(runs')].token = token
    BY <1>t, <2>1, RunEntered DEF InHandler
  <2>3. CASE k # token
    BY <1>t, <1>i, <2>1, <2>3, ServiceFacts, RunEntered
  <2> QED BY <2>2, <2>3
<1>7. ASSUME NEW token \in Tokens, RejectApproval(token)
      PROVE  Raised'
  <2>1. /\ token \in DOMAIN store /\ StoreStatus(token, "rejected") /\ Idle /\ UNCHANGED runs
    BY <1>7 DEF RejectApproval, Called
  <2> QED BY <1>0, <1>t, <1>i, <2>1, StatusWritten DEF Idle
<1>8. CASE HandlerReturns
  <2>1. InHandler /\ HandlerEnds("ok") /\ serving = NoToken
    BY <1>8, <1>t DEF HandlerReturns, TokenInv, RunningApproved
  <2>2. k \in DOMAIN store /\ store[k].status = "approved" /\ k # runs[Len(runs)].token
    <3>1. CASE runs[Len(runs)].token = NoToken /\ UNCHANGED store
      BY <1>0, <3>1
    <3>2. CASE runs[Len(runs)].token # NoToken /\ StoreStatus(runs[Len(runs)].token, "executed")
      <4>1. runs[Len(runs)].token \in DOMAIN store
        BY <1>t, <2>1, <3>2 DEF TokenInv, RunningApproved
      <4> QED BY <1>t, <3>2, <4>1, StatusWritten
    <3> QED BY <1>8, <3>1, <3>2 DEF HandlerReturns
  <2>3. Raised
    BY <1>0, <1>i, <2>1, <2>2
  <2> QED BY <1>t, <2>1, <2>3, RunEnded
<1>9. CASE HandlerRaises
  <2>1. InHandler /\ HandlerEnds("raised") /\ serving = NoToken /\ UNCHANGED store
    BY <1>9, <1>t DEF HandlerRaises, TokenInv, RunningApproved
  <2>2. CASE runs[Len(runs)].token = k
    BY <1>t, <2>1, <2>2, RunEnded
  <2>3. CASE Raised
    BY <1>t, <2>1, <2>3, RunEnded
  <2> QED BY <1>0, <1>i, <2>1, <2>2, <2>3
<1>10. CASE Restart
  BY <1>10 DEF Restart
<1> QED
  BY <1>1, <1>2, <1>3, <1>4, <1>5, <1>6, <1>7, <1>8, <1>9, <1>10, <1>t, TokenSteps

(* The two invariants together, and what follows from them.                *)
LEMMA RunsInvHolds ==
  LET Inv == CountInv /\ ApprovedInService
  IN  /\ Init => Inv
      /\ Inv /\ [GNext]_vars => Inv'
      /\ Inv => RunsAccounted
<1>1. ASSUME Init PROVE CountInv /\ ApprovedInService
  <2>1. CompletedRuns = {} /\ CountedEntries = {}
    BY <1>1 DEF Init, CompletedRuns, CountedEntries
  <2> QED BY <1>1, <2>1, TokenInvHolds DEF Init, CountInv, SimulationContains, ApprovedInService
<1>2. ASSUME CountInv, ApprovedInService, [GNext]_vars
      PROVE  CountInv' /\ ApprovedInService'
  BY <1>2, CountInvInductive, ApprovedStaysInService DEF CountInv
<1>3. ASSUME CountInv, ApprovedInService PROVE RunsAccounted
  <2>1. CompletedRunsAudited
    BY <1>3 DEF CountInv, CompletedRunsAudited, CompletedRuns, CountedEntries, CountedEntry
  <2>2. OnlyFailuresStayApproved
    <3>1. \A k \in DOMAIN store : k # NoToken
      BY <1>3 DEF CountInv, TokenInv, TypeOK, NoToken
    <3> QED BY <1>3, <3>1 DEF OnlyFailuresStayApproved, ApprovedInService, Idle
  <2> QED BY <2>1, <2>2 DEF RunsAccounted
<1> QED BY <1>1, <1>2, <1>3

(* There are as many ALLOW entries for effects that are not simulated as   *)
(* handlers that returned, and without library callers a token that is     *)
(* approved between two calls is so because its handler raised: a crash    *)
(* loses the token, a return uses it up.                                   *)
THEOREM RunsAreAccounted == GSpec => []RunsAccounted
BY RunsInvHolds, PTL DEF GSpec

(* With the simulation flag set no handler of an external tool is ever     *)
(* entered, by execute(), by approval or by the Gemini route, in any       *)
(* world.                                                                  *)
THEOREM SimulationAlwaysContains == GSpec => []SimulationContains
<1>1. CountInv => SimulationContains
  BY DEF CountInv
<1> QED BY <1>1, RunsInvHolds, PTL DEF GSpec

-----------------------------------------------------------------------------
(* 7. The log against the policy: replay.                                  *)

(* What the record of a decision says of the decision, whatever has        *)
(* happened to schemas and worlds since: with the drift that there was out *)
(* of the way, the policy of the entry's world gives the entry's result on *)
(* the tool of the stored registry.                                        *)
DecidedBy(world, tool, taint, sideEffect) ==
  Decide(WorldTables[world], tool, tool, taint, sideEffect, TRUE)

OfThePolicy(e) == e.result \in PolicyResults \ {DescriptorDrift}

ExecutorEntryDecided(e) ==
  OfThePolicy(e) /\ (e.token = NoToken \/ e.result = ApprovalRequired)
    => e.result = DecidedBy(e.world, e.tool, e.taint, SideEffectSeen(e.tool, Exposed))

GateEntryDecided(e) ==
  OfThePolicy(e) =>
    /\ e.tool \in Known
    /\ e.result = DecidedBy(InitialWorld, e.tool, e.taint, SideEffect[e.tool])

EntryDecided(e) == IF e.by = "gate" THEN GateEntryDecided(e) ELSE ExecutorEntryDecided(e)

DirectRunDecided(r) ==
  r.token = NoToken =>
    DefaultAllow = DecidedBy(r.world, r.tool, r.taint, SideEffectSeen(r.tool, Exposed))

DecidedInv ==
  /\ TypeOK
  /\ \A i \in DOMAIN audit : EntryDecided(audit[i])
  /\ \A i \in DOMAIN runs : DirectRunDecided(runs[i])

(* Drift is the only thing the hash decides: any other answer stands       *)
(* whether the hash was right or not.                                      *)
LEMMA HashOnlyDrifts ==
  ASSUME NEW w, NEW tool, NEW taint, NEW se, NEW hashOk,
         Decide(w, tool, tool, taint, se, hashOk) # DescriptorDrift
  PROVE  Decide(w, tool, tool, taint, se, hashOk) = Decide(w, tool, tool, taint, se, TRUE)
BY DEF Decide

(* The side effect decides tainted calls only, and only whether it is      *)
(* "external" matters.                                                     *)
LEMMA EffectMattersIfTainted ==
  ASSUME NEW world, NEW tool, NEW taint, NEW se1, NEW se2,
         taint => (se1 = "external" <=> se2 = "external")
  PROVE  DecidedBy(world, tool, taint, se1) = DecidedBy(world, tool, taint, se2)
BY DEF DecidedBy, Decide

(* A tool outside the allowlist is absent, whatever else there is to know. *)
LEMMA UnlistedIsAbsent ==
  ASSUME NEW w, NEW tool, NEW taint, NEW se, NEW hashOk, tool \notin w.allowlist
  PROVE  Decide(w, tool, tool, taint, se, hashOk) = NotAllowlisted
BY DEF Decide

(* Why replay agrees: a named world decides on its own registry, the root  *)
(* world on the stored one, and the entry says what the policy said.       *)
LEMMA DecidedReplays == DecidedInv => RoutesReplayFaithfully
<1> SUFFICES ASSUME DecidedInv, NEW i \in DOMAIN audit
             PROVE  IF audit[i].by = "gate" THEN GateEntryReplays(audit[i])
                                            ELSE EntryReplays(audit[i])
  BY DEF RoutesReplayFaithfully
<1>0. PICK e : e = audit[i]
  OBVIOUS
<1>1. e \in AuditEntries /\ EntryDecided(e)
  BY <1>0 DEF DecidedInv, TypeOK
<1>2. e.tool \in Tools /\ e.taint \in BOOLEAN /\ e.world \in Worlds /\ SideEffect[e.tool] # "unknown"
  BY <1>1, WorldsAssumption DEF AuditEntries
<1>3. HashOk(e.tool, ExposedIn(e.world), {})
  BY DEF HashOk
<1>4. e.tool \notin drifted => HashOk(e.tool, Exposed, drifted)
  BY DEF HashOk
<1>5. CASE e.by = "gate"
  <2> SUFFICES ASSUME OfThePolicy(e), e.world = InitialWorld,
                      e.world = RootWorld => e.tool \notin drifted
               PROVE  Replay(e) = e.result
    BY <1>0, <1>5 DEF GateEntryReplays, ReplayMatches, OfThePolicy
  <2>1. e.tool \in Known /\ e.result = DecidedBy(InitialWorld, e.tool, e.taint, SideEffect[e.tool])
    BY <1>1, <1>5 DEF EntryDecided, GateEntryDecided
  <2>2. DecidedBy(InitialWorld, e.tool, e.taint, SideEffect[e.tool])
          = DecidedBy(InitialWorld, e.tool, e.taint, SideEffectSeen(e.tool, Exposed))
    <3>1. CASE e.tool \in Exposed
      BY <3>1 DEF SideEffectSeen
    <3>2. CASE e.tool \notin WorldTables[InitialWorld].allowlist
      BY <3>2, UnlistedIsAbsent DEF DecidedBy
    <3> QED BY <2>1, <3>1, <3>2 DEF Exposed, ExposedIn, Known
  <2>3. CASE e.world = RootWorld
    <3>1. Replay(e) = Decide(WorldTables[InitialWorld], e.tool, e.tool, e.taint,
                             SideEffectSeen(e.tool, Exposed), TRUE)
      BY <1>4, <2>3 DEF Replay, ReplayStored, HashOk, Decide
    <3> QED BY <2>1, <2>2, <3>1 DEF DecidedBy
  <2>4. CASE e.world # RootWorld
    <3>1. Replay(e) = Decide(WorldTables[InitialWorld], e.tool, e.tool, e.taint,
                             SideEffectSeen(e.tool, Exposed), TRUE)
      BY <1>3, <2>4 DEF Replay, ReplayInWorld, HashOk, Decide, Exposed
    <3> QED BY <2>1, <2>2, <3>1 DEF DecidedBy
  <2> QED BY <2>3, <2>4
<1>6. CASE e.by # "gate"
  <2> SUFFICES ASSUME OfThePolicy(e), e.token = NoToken \/ e.result = ApprovalRequired,
                      \/ /\ e.world # RootWorld
                         /\ (e.taint /\ SideEffect[e.tool] = "external") =>
                              (e.tool \in ExposedIn(e.world)) = (e.tool \in Exposed)
                      \/ /\ e.world = RootWorld /\ InitialWorld = RootWorld
                         /\ e.tool \notin drifted
               PROVE  Replay(e) = e.result
    BY <1>0, <1>6 DEF EntryReplays, ReplayMatches, OfThePolicy
  <2>1. e.result = DecidedBy(e.world, e.tool, e.taint, SideEffectSeen(e.tool, Exposed))
    BY <1>1, <1>6 DEF EntryDecided, ExecutorEntryDecided
  <2>2. CASE e.world = RootWorld
    <3>1. Replay(e) = Decide(WorldTables[e.world], e.tool, e.tool, e.taint,
                             SideEffectSeen(e.tool, Exposed), TRUE)
      BY <1>4, <2>2 DEF Replay, ReplayStored, HashOk, Decide
    <3> QED BY <2>1, <3>1 DEF DecidedBy
  <2>3. CASE e.world # RootWorld
    <3>1. e.taint => (SideEffectSeen(e.tool, Exposed) = "external"
                        <=> SideEffectSeen(e.tool, ExposedIn(e.world)) = "external")
      BY <2>3 DEF SideEffectSeen
    <3>2. Replay(e) = DecidedBy(e.world, e.tool, e.taint, SideEffectSeen(e.tool, ExposedIn(e.world)))
      <4>1. HashOk(e.tool, ExposedIn(e.world), {}) = TRUE
        BY DEF HashOk
      <4> QED BY <2>3, <4>1 DEF Replay, ReplayInWorld, DecidedBy
    <3> QED BY <2>1, <3>1, <3>2, EffectMattersIfTainted
  <2> QED BY <2>2, <2>3
<1> QED BY <1>0, <1>5, <1>6

-----------------------------------------------------------------------------
(* The policy's answer, drift aside.                                       *)
LEMMA AnswerDecided ==
  ASSUME NEW tool, NEW taint, PolicyAnswer(tool, taint) # DescriptorDrift
  PROVE  PolicyAnswer(tool, taint) = DecidedBy(current, tool, taint, SideEffectSeen(tool, Exposed))
BY HashOnlyDrifts DEF PolicyAnswer, DecidedBy

LEMMA NoPolicyResults ==
  /\ {AskUnavailable, Approved, Rejected, NotInOntology, SimulatedExternal} \cap PolicyResults = {}
  /\ ApprovalRequired # NotAllowlisted
  /\ DefaultAllow # DescriptorDrift /\ ApprovalRequired # DescriptorDrift
<1> DEFINE Rule(r) == r.rule
<1>1. /\ Rule(AskUnavailable) = "ask_unavailable_in_background" /\ Rule(Approved) = "approved"
      /\ Rule(Rejected) = "approval_rejected" /\ Rule(NotInOntology) = "action_not_in_ontology"
      /\ Rule(SimulatedExternal) = "simulate_external_action"
      /\ \A r \in PolicyResults :
           Rule(r) \in {"tool_not_allowlisted", "capability_not_allowed", "descriptor_drift",
                        "tainted_external_side_effect", "approval_required", "default_allow"}
  BY DEF Result, AskUnavailable, Approved, Rejected, NotInOntology, SimulatedExternal,
         PolicyResults, NotAllowlisted, CapabilityNotAllowed, DescriptorDrift,
         TaintedExternal, ApprovalRequired, DefaultAllow
<1> HIDE DEF Rule
<1>2. {AskUnavailable, Approved, Rejected, NotInOntology, SimulatedExternal} \cap PolicyResults = {}
  BY <1>1
<1> QED BY <1>2, ResultsDistinct

(* Entries that were there remain as they were; the new one is looked at.  *)
LEMMA DecidedEntryKeeps ==
  ASSUME DecidedInv, TypeOK', NEW e, EntryDecided(e), audit' = Append(audit, e),
         \A i \in DOMAIN runs' : DirectRunDecided(runs'[i])
  PROVE  DecidedInv'
<1>1. \A i \in DOMAIN audit' : EntryDecided(audit'[i])
  BY OneMoreEntry DEF DecidedInv
<1> QED
  BY <1>1 DEF DecidedInv, EntryDecided, GateEntryDecided, ExecutorEntryDecided, DirectRunDecided

LEMMA ExecutorDecisionKeeps ==
  ASSUME DecidedInv, TypeOK', NEW tool, NEW result, NEW taint, NEW world, NEW token,
         Audit(tool, result, taint, world, token),
         \/ result \notin PolicyResults
         \/ result = DescriptorDrift
         \/ token # NoToken /\ result # ApprovalRequired
         \/ result = DecidedBy(world, tool, taint, SideEffectSeen(tool, Exposed)),
         \A i \in DOMAIN runs' : DirectRunDecided(runs'[i])
  PROVE  DecidedInv'
<1>1. PICK e : e = Entry(tool, result, taint, world, token)
  OBVIOUS
<1>2. EntryDecided(e)
  BY <1>1 DEF EntryDecided, ExecutorEntryDecided, OfThePolicy, Entry
<1> QED BY <1>1, <1>2, DecidedEntryKeeps DEF Audit

LEMMA RunsKeepDecided ==
  ASSUME DecidedInv, Next,
         \A tool \in Tools, taint \in BOOLEAN : ~ExecuteAllowed(tool, taint)
  PROVE  \A i \in DOMAIN runs' : DirectRunDecided(runs'[i])
<1> SUFFICES ASSUME NEW i \in DOMAIN runs' PROVE DirectRunDecided(runs'[i])
  OBVIOUS
<1> USE DEF DecidedInv
<1>1. CASE UNCHANGED runs
  BY <1>1
<1>2. ASSUME NEW outcome \in Outcomes, InHandler, HandlerEnds(outcome)
      PROVE  DirectRunDecided(runs'[i])
  BY <1>2, EndKeepsRuns DEF DirectRunDecided
<1>3. ASSUME NEW token \in Tokens, ExecuteApprovedRun(token)
      PROVE  DirectRunDecided(runs'[i])
  <2>1. token # NoToken
    BY DEF Tokens, NoToken
  <2> QED BY <1>3, <2>1, EnterAddsRun DEF ExecuteApprovedRun, DirectRunDecided
<1> QED BY <1>1, <1>2, <1>3, RunSteps

LEMMA AllowedRunDecided ==
  ASSUME DecidedInv, NEW tool \in Tools, NEW taint \in BOOLEAN, ExecuteAllowed(tool, taint)
  PROVE  \A i \in DOMAIN runs' : DirectRunDecided(runs'[i])
<1> SUFFICES ASSUME NEW i \in DOMAIN runs' PROVE DirectRunDecided(runs'[i])
  OBVIOUS
<1> USE DEF DecidedInv
<1>1. DefaultAllow = DecidedBy(current, tool, taint, SideEffectSeen(tool, Exposed))
  BY AnswerDecided, NoPolicyResults DEF ExecuteAllowed
<1> QED BY <1>1, EnterAddsRun DEF ExecuteAllowed, DirectRunDecided

(* Steps that do not write to the log.                                     *)
LEMMA SilentDecided ==
  ASSUME DecidedInv, TypeOK', UNCHANGED audit,
         \A i \in DOMAIN runs' : DirectRunDecided(runs'[i])
  PROVE  DecidedInv'
BY DEF DecidedInv, EntryDecided, GateEntryDecided, ExecutorEntryDecided, DirectRunDecided

(* Every line that is written with a rule of the policy is the answer of   *)
(* the policy at that moment, the line of a handler that returned the      *)
(* answer at the time it was entered.                                      *)
LEMMA DecidedInvInductive ==
  ASSUME DecidedInv, [GNext]_vars
  PROVE  DecidedInv'
<1>t. TypeOK /\ TypeOK'
  BY TypesPreserved DEF DecidedInv
<1>1. CASE UNCHANGED vars
  BY <1>t, <1>1, SilentDecided DEF DecidedInv, vars
<1>2. ASSUME NEW tool \in Tools, NEW taint \in BOOLEAN,
             GeminiUnknown(tool, taint) \/ GeminiDenied(tool, taint) \/ GeminiSimulated(tool, taint)
      PROVE  DecidedInv'
  <2>1. PICK result : /\ Record(tool, result, taint)
                      /\ \/ result \in {NotInOntology, SimulatedExternal}
                         \/ tool \in Known /\ result = GateAnswer(tool, taint)
    BY <1>2 DEF GeminiUnknown, GeminiDenied, GeminiSimulated
  <2>2. PICK e : e = [Entry(tool, result, taint, current, NoToken) EXCEPT !.by = "gate"]
    OBVIOUS
  <2>3. /\ e.result = result /\ e.by = "gate" /\ e.tool = tool /\ e.taint = taint
        /\ audit' = Append(audit, e) /\ UNCHANGED runs
    BY <2>1, <2>2 DEF Record, Entry
  <2>4. GateAnswer(tool, taint) # DescriptorDrift =>
          GateAnswer(tool, taint) = DecidedBy(InitialWorld, tool, taint, SideEffect[tool])
    BY HashOnlyDrifts DEF GateAnswer, DecidedBy
  <2>5. EntryDecided(e)
    BY <2>1, <2>3, <2>4, NoPolicyResults DEF EntryDecided, GateEntryDecided, OfThePolicy
  <2>6. \A i \in DOMAIN runs' : DirectRunDecided(runs'[i])
    BY <2>3 DEF DecidedInv
  <2> QED BY <1>t, <2>3, <2>5, <2>6, DecidedEntryKeeps
<1>3. CASE Next
  <2>1. ASSUME NEW tool \in Tools, NEW taint \in BOOLEAN, ExecuteAllowed(tool, taint)
        PROVE  DecidedInv'
    BY <1>t, <2>1, AllowedRunDecided, SilentDecided DEF ExecuteAllowed
  <2> SUFFICES ASSUME \A tool \in Tools, taint \in BOOLEAN : ~ExecuteAllowed(tool, taint)
               PROVE  DecidedInv'
    BY <2>1
  <2>r. \A i \in DOMAIN runs' : DirectRunDecided(runs'[i])
    BY <1>3, RunsKeepDecided
  <2>s. UNCHANGED audit => DecidedInv'
    BY <1>t, <2>r, SilentDecided
  <2>2. ASSUME NEW tool \in Tools, NEW taint \in BOOLEAN, NEW mode \in Modes,
               Execute(tool, taint, mode)
        PROVE  DecidedInv'
    <3>0. PICK answer, world : answer = PolicyAnswer(tool, taint) /\ world = current
      OBVIOUS
    <3>1. answer = DescriptorDrift \/ answer = DecidedBy(world, tool, taint, SideEffectSeen(tool, Exposed))
      BY <3>0, AnswerDecided
    <3>2. CASE ExecuteSimulated(tool, taint)
      BY <1>t, <2>r, <3>0, <3>1, <3>2, ExecutorDecisionKeeps DEF ExecuteSimulated
    <3>3. CASE ExecuteRefused(tool, taint)
      BY <1>t, <2>r, <3>0, <3>1, <3>3, ExecutorDecisionKeeps DEF ExecuteRefused
    <3>4. CASE ExecuteAsk(tool, taint)
      <4>1. PICK token : Audit(tool, answer, taint, world, token)
        BY <3>0, <3>4 DEF ExecuteAsk
      <4> QED BY <1>t, <2>r, <3>1, <4>1, ExecutorDecisionKeeps
    <3>5. CASE ExecuteAskInBackground(tool, taint)
      BY <1>t, <2>r, <3>0, <3>5, NoPolicyResults, ExecutorDecisionKeeps DEF ExecuteAskInBackground
    <3> QED BY <2>2, <3>2, <3>3, <3>4, <3>5 DEF Execute
  <2>3. ASSUME NEW token \in Tokens, ExecuteApprovedWithoutRun(token)
        PROVE  DecidedInv'
    <3>1. token # NoToken
      BY DEF Tokens, NoToken
    <3>2. PICK tool, result, taint, world :
            Audit(tool, result, taint, world, token) /\ result \in {NotAllowlisted, Approved}
      BY <2>3 DEF ExecuteApprovedWithoutRun
    <3> QED BY <1>t, <2>r, <3>1, <3>2, NoPolicyResults, ExecutorDecisionKeeps
  <2>4. ASSUME NEW token \in Tokens, RejectApproval(token)
        PROVE  DecidedInv'
    <3>1. PICK tool, taint, world : Audit(tool, Rejected, taint, world, token)
      BY <2>4 DEF RejectApproval
    <3> QED BY <1>t, <2>r, <3>1, NoPolicyResults, ExecutorDecisionKeeps
  <2>5. CASE HandlerReturns
    <3>1. PICK r : r = runs[Len(runs)]
      OBVIOUS
    <3>2. DirectRunDecided(r)
      BY <1>t, <2>5, <3>1, RunEnded DEF HandlerReturns, DecidedInv
    <3>3. CASE r.token = NoToken /\ Audit(r.tool, DefaultAllow, r.taint, r.world, NoToken)
      <4>1. DefaultAllow = DecidedBy(r.world, r.tool, r.taint, SideEffectSeen(r.tool, Exposed))
        BY <3>2, <3>3 DEF DirectRunDecided
      <4> QED BY <1>t, <2>r, <3>3, <4>1, ExecutorDecisionKeeps
    <3>4. CASE Audit(r.tool, Approved, r.taint, r.world, r.token)
      BY <1>t, <2>r, <3>4, NoPolicyResults, ExecutorDecisionKeeps
    <3> QED BY <2>5, <3>1, <3>3, <3>4 DEF HandlerReturns
  <2>6. CASE \E token \in Tokens : StoreApprove(token) \/ ApiApprove(token) \/ ExecuteApprovedRun(token)
    BY <2>6, <2>s DEF StoreApprove, ApiApprove, ExecuteApprovedRun
  <2>7. CASE \/ HandlerRaises \/ Restart
             \/ \E w \in Worlds : SwitchWorld(w)
             \/ \E t \in Tools : MutateSchema(t)
    BY <2>7, <2>s DEF HandlerRaises, SwitchWorld, MutateSchema, Restart
  <2> QED BY <1>3, <2>2, <2>3, <2>4, <2>5, <2>6, <2>7 DEF Next
<1> QED BY <1>1, <1>2, <1>3, GeminiSteps

(* Every entry that replay promises to reproduce, written by execute() or  *)
(* by the Gemini gate, is reproduced at every later moment: after          *)
(* switches, schema changes and restarts.                                  *)
THEOREM RoutesAlwaysReplay == GSpec => []RoutesReplayFaithfully
<1>1. Init => DecidedInv
  BY InvariantInductive DEF Init, IInv, DecidedInv
<1>2. DecidedInv /\ [GNext]_vars => DecidedInv'
  BY DecidedInvInductive
<1> QED BY <1>1, <1>2, DecidedReplays, PTL DEF GSpec

=============================================================================
