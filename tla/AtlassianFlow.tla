----------------------------- MODULE AtlassianFlow -----------------------------
(***************************************************************************)
(* MCPPassthrough.forward (safe_mcp_proxy/atlassian/passthrough.py) over a *)
(* sequence of JSON-RPC requests: the manifest's gate, the upstream MCP    *)
(* server, and the flow labels that later calls of the same session are    *)
(* judged by.                                                              *)
(*                                                                         *)
(* forward() is synchronous: one request at a time.  Within one, the log   *)
(* is written before the gate, after it and at the end, and the upstream   *)
(* may answer, refuse, time out after having done the work, or answer with *)
(* something forward() cannot read, which leaves it by an exception.  The  *)
(* upstream server is external: it is modelled by what forward() sees.     *)
(* The timeout given to urlopen is one of each socket operation, so that   *)
(* an answer that arrives a few bytes at a time may take any time.  What   *)
(* an answer says is left out, with the cutting of page text.              *)
(***************************************************************************)
EXTENDS Naturals, Sequences

CONSTANTS
  Tools,           \* tool names a client may use
  AllowedTools,    \* manifest: allowed_tools; empty means no allowlist
  ExternalWrite,   \* manifest: external_write_tools
  ArgRuled,        \* manifest: tools with an argument rule
  Rules,           \* manifest: data_flow_rules
  SafeAlias,       \* adapters: tools whose answer is abstracted
  Labelled,        \* flow.py: tools whose answer labels the session
  MaxRequests,     \* bound: requests
  MaxSessions      \* bound: sessions

Labels == {"confluence_raw", "confluence_summary"}

ASSUME ManifestAssumption ==
  /\ AllowedTools \subseteq Tools /\ ExternalWrite \subseteq Tools
  /\ ArgRuled \subseteq Tools
  /\ Rules \subseteq [label : Labels, denyFor : SUBSET Tools]
ASSUME AdapterAssumption ==
  SafeAlias \subseteq Tools /\ Labelled \subseteq Tools
ASSUME RequestBounds == MaxRequests \in Nat /\ MaxSessions \in Nat

VARIABLES
  config,    \* how the passthrough was built
  labels,    \* FlowContext._labels
  call,      \* the request inside forward()
  requests,  \* number of requests so far; also the trace id of the last one
  log,       \* atlassian_requests.jsonl
  events,    \* history: what the upstream did and what the client received
  session,   \* history: number of the session
  unread     \* history: traces that ended in an exception or a crash

vars == <<config, labels, call, requests, log, events, session, unread>>

(* policy: a manifest is configured; taintRule: its flow rule for tainted  *)
(* sources is on; tainted: the source channel is a tainted one; upstream:  *)
(* proxy mode with a URL; tracked: there is a FlowContext.                 *)
Configs == [policy : BOOLEAN, taintRule : BOOLEAN, tainted : BOOLEAN,
            upstream : BOOLEAN, tracked : BOOLEAN]

Methods == {"tools/call", "other"}
Phases == {"idle", "gate", "blocked", "forward", "answered"}
Answers == {"none", "result", "error"}

(* heard: bytes of the answer have arrived since the present socket        *)
(* operation was begun.                                                    *)
Calls == [phase : Phases, method : Methods, tool : Tools, argsOk : BOOLEAN,
          answer : Answers, heard : BOOLEAN]

Decisions == {"ALLOW", "DENY", "ABSENT", "none"}
LogEntries == [trace : Nat, direction : {"request", "decision", "response"}, decision : Decisions]
Events == [kind : {"effect", "delivery"}, trace : Nat, session : Nat, tool : Tools]

TypeOK ==
  /\ config \in Configs
  /\ labels \subseteq Labels
  /\ call \in Calls
  /\ requests \in Nat
  /\ log \in Seq(LogEntries)
  /\ events \in Seq(Events)
  /\ session \in Nat
  /\ unread \subseteq 0..requests

-----------------------------------------------------------------------------
(* ManifestPolicyEngine.evaluate: absent, taint rule, flow rules, argument *)
(* rules, allow.                                                           *)

DeniedByFlow(tool) == \E r \in Rules : r.label \in labels /\ tool \in r.denyFor

\* Deliberate error, for the mutation runs: the taint rule settles the flow rules.
EvaluateTaintInstead(tool, argsOk) ==
  IF AllowedTools # {} /\ tool \notin AllowedTools THEN "ABSENT"
  ELSE IF config.taintRule /\ tool \in ExternalWrite
       THEN (IF config.tainted THEN "DENY" ELSE "ALLOW")
  ELSE IF config.tracked /\ DeniedByFlow(tool) THEN "DENY"
  ELSE IF tool \in ArgRuled /\ ~argsOk THEN "DENY"
  ELSE "ALLOW"

Evaluate(tool, argsOk) ==
  IF AllowedTools # {} /\ tool \notin AllowedTools THEN "ABSENT"
  ELSE IF config.taintRule /\ config.tainted /\ tool \in ExternalWrite THEN "DENY"
  ELSE IF config.tracked /\ DeniedByFlow(tool) THEN "DENY"
  ELSE IF tool \in ArgRuled /\ ~argsOk THEN "DENY"
  ELSE "ALLOW"

(* FlowContext.tag_output, was_abstracted being a property of the tool.    *)
OutputLabels(tool) ==
  IF tool \notin Labelled THEN {}
  ELSE IF tool \in SafeAlias THEN {"confluence_summary"} ELSE {"confluence_raw"}

-----------------------------------------------------------------------------
NoCall(tool) == [phase |-> "idle", method |-> "other", tool |-> tool,
                 argsOk |-> TRUE, answer |-> "none", heard |-> FALSE]

Init ==
  /\ config \in Configs
  /\ labels = {}
  /\ \E tool \in Tools : call = NoCall(tool)
  /\ requests = 0
  /\ log = << >>
  /\ events = << >>
  /\ session = 1
  /\ unread = {}

Logged(direction, decision) ==
  Append(log, [trace |-> requests, direction |-> direction, decision |-> decision])

Happened(kind) ==
  Append(events, [kind |-> kind, trace |-> requests, session |-> session, tool |-> call.tool])

\* The history of events is about tool calls.
Worked == IF call.method = "tools/call" THEN Happened("effect") ELSE events

AtPhase(phase) == call.phase = phase
Goto(phase) == call' = [call EXCEPT !.phase = phase, !.heard = FALSE]
Answer(kind) ==
  call' = [call EXCEPT !.phase = "answered", !.answer = kind, !.heard = FALSE]

(* A request arrives and is logged.  Only tools/call meets the gate.       *)
Request(method, tool, argsOk) ==
  /\ AtPhase("idle")
  /\ requests < MaxRequests
  /\ requests' = requests + 1
  /\ log' = Append(log, [trace |-> requests + 1, direction |-> "request", decision |-> "none"])
  /\ call' = [phase |-> IF method = "tools/call" /\ config.policy THEN "gate" ELSE "forward",
              method |-> method, tool |-> tool, argsOk |-> argsOk, answer |-> "none",
              heard |-> FALSE]
  /\ UNCHANGED <<config, labels, events, session, unread>>

\* Deliberate error, for the mutation runs: only refusals are logged.
GateLoggingRefusals ==
  /\ AtPhase("gate")
  /\ LET d == Evaluate(call.tool, call.argsOk)
     IN  /\ log' = IF d = "ALLOW" THEN log ELSE Logged("decision", d)
         /\ Goto(IF d = "ALLOW" THEN "forward" ELSE "blocked")
  /\ UNCHANGED <<config, labels, requests, events, session, unread>>

Gate ==
  /\ AtPhase("gate")
  /\ LET d == Evaluate(call.tool, call.argsOk)
     IN  /\ log' = Logged("decision", d)
         /\ Goto(IF d = "ALLOW" THEN "forward" ELSE "blocked")
  /\ UNCHANGED <<config, labels, requests, events, session, unread>>

Block ==
  /\ AtPhase("blocked")
  /\ log' = Logged("response", "none")
  /\ Goto("idle")
  /\ UNCHANGED <<config, labels, requests, events, session, unread>>

-----------------------------------------------------------------------------
(* The upstream.                                                           *)

(* No upstream configured: a canned result.                                *)
Stub ==
  /\ AtPhase("forward") /\ ~config.upstream
  /\ Answer("result")
  /\ UNCHANGED <<config, labels, requests, log, events, session, unread>>

(* The upstream does the work and answers, with a result or a JSON-RPC     *)
(* error of its own.                                                       *)
UpstreamAnswers(kind) ==
  /\ AtPhase("forward") /\ config.upstream
  /\ Answer(kind)
  /\ events' = Worked
  /\ UNCHANGED <<config, labels, requests, log, session, unread>>

(* Some bytes of the answer arrive, and not yet the last.                  *)
UpstreamTrickles ==
  /\ AtPhase("forward") /\ config.upstream /\ ~call.heard
  /\ call' = [call EXCEPT !.heard = TRUE]
  /\ UNCHANGED <<config, labels, requests, log, events, session, unread>>

(* The socket operation returns what has arrived and resp.read() begins    *)
(* the next, with a timeout of its own.                                    *)
ReadOn ==
  /\ AtPhase("forward") /\ call.heard
  /\ call' = [call EXCEPT !.heard = FALSE]
  /\ UNCHANGED <<config, labels, requests, log, events, session, unread>>

\* Deliberate error, for the mutation runs: a connection that is accepted and a
\* call without a timeout.
UpstreamHangs(done) == FALSE

(* The connection is refused or reset, or a socket operation runs into the *)
(* timeout; the work may have been done.                                   *)
UpstreamFails(done) ==
  /\ AtPhase("forward") /\ config.upstream
  /\ Answer("error")
  /\ events' = IF done THEN Worked ELSE events
  /\ UNCHANGED <<config, labels, requests, log, session, unread>>

(* The answer is no JSON-RPC response, or ends before its announced length:*)
(* the exception is not one forward() catches.  The work may have been done*)
(* or not.                                                                 *)
UpstreamGarbles ==
  /\ AtPhase("forward") /\ config.upstream
  /\ events' = Worked \/ UNCHANGED events
  /\ Goto("idle")
  /\ unread' = unread \cup {requests}
  /\ UNCHANGED <<config, labels, requests, log, session>>

-----------------------------------------------------------------------------
(* Post-processing: labels, response.                                      *)

Delivers == call.method = "tools/call" /\ call.answer = "result"

RespondWith(tags) ==
  /\ AtPhase("answered")
  /\ labels' = IF Delivers /\ config.tracked THEN labels \cup tags ELSE labels
  /\ events' = IF Delivers THEN Happened("delivery") ELSE events
  /\ log' = Logged("response", "none")
  /\ Goto("idle")
  /\ UNCHANGED <<config, requests, session, unread>>

Respond == RespondWith(OutputLabels(call.tool))

(* The process dies at any point, or the client starts a new session: a    *)
(* new passthrough with an empty FlowContext.  A request that was with the *)
(* upstream may still be worked on.                                        *)
NewSession ==
  /\ session < MaxSessions
  /\ session' = session + 1
  /\ labels' = {}
  /\ Goto("idle")
  /\ unread' = IF AtPhase("idle") THEN unread ELSE unread \cup {requests}
  /\ \/ UNCHANGED events
     \/ AtPhase("forward") /\ config.upstream /\ events' = Worked
  /\ UNCHANGED <<config, requests, log>>

-----------------------------------------------------------------------------
(* What forward() does by itself.  The failure of the upstream is among    *)
(* it, since a socket operation in which nothing arrives runs into the     *)
(* timeout; while bytes keep arriving forward() only reads on.             *)
ProxyStep ==
  \/ Gate
  \/ Block
  \/ Stub
  \/ ReadOn
  \/ \E done \in BOOLEAN : UpstreamFails(done)
  \/ Respond

Next ==
  \/ \E method \in Methods, tool \in Tools, argsOk \in BOOLEAN :
       /\ method = "other" => tool = call.tool /\ argsOk  \* it has none
       /\ tool \notin ArgRuled => argsOk
       /\ Request(method, tool, argsOk)
  \/ ProxyStep
  \/ UpstreamTrickles
  \/ \E kind \in {"result", "error"} : UpstreamAnswers(kind)
  \/ UpstreamGarbles
  \/ NewSession

Spec == Init /\ [][Next]_vars /\ WF_vars(ProxyStep)

-----------------------------------------------------------------------------
(* The flow rules hold over a whole session: once an answer of a labelled  *)
(* tool has reached the client, the upstream never does the work of a tool *)
(* that a rule denies for that label and that was asked for later.  The    *)
(* label is set in one request and tested in a later one, with failing,    *)
(* unreadable and late answers around it.                                  *)
FlowRulesHold ==
  config.policy /\ config.tracked =>
    \A i, j \in DOMAIN events :
      /\ events[i].trace < events[j].trace
      /\ events[i].kind = "delivery" /\ events[j].kind = "effect"
      /\ events[i].session = events[j].session
      => \A r \in Rules :
           r.label \in OutputLabels(events[i].tool) => events[j].tool \notin r.denyFor

DecisionsOf(k) ==
  {log[i].decision : i \in {j \in DOMAIN log : /\ log[j].trace = k
                                              /\ log[j].direction = "decision"}}

(* The log is written ahead of the work: whatever a crash or an exception  *)
(* cuts off, a tools/call that the upstream has worked on under a manifest *)
(* has its decision in the log, it is ALLOW and the only one of its trace, *)
(* and the work is no external write for a tainted source.                 *)
WorkFollowsDecision ==
  config.policy =>
    \A i \in DOMAIN events :
      /\ DecisionsOf(events[i].trace) = {"ALLOW"}
      /\ ~(config.taintRule /\ config.tainted /\ events[i].tool \in ExternalWrite)

ResponsesOf(k) == {i \in DOMAIN log : log[i].trace = k /\ log[i].direction = "response"}

(* Every request has exactly one response in the log, a blocked one too,   *)
(* unless forward() is still inside it, left by an exception or died in    *)
(* it; those have none.                                                    *)
ResponsesAccounted ==
  \A k \in 1..requests :
    IF k \in unread \/ (k = requests /\ ~AtPhase("idle"))
    THEN ResponsesOf(k) = {}
    ELSE \E i \in ResponsesOf(k) : ResponsesOf(k) = {i}

(* Whatever is cut off where, the log accounts for the work that was done  *)
(* and for every answer.                                                   *)
LogAccountsForWork == WorkFollowsDecision /\ ResponsesAccounted

(* A silent upstream, one that stalls in the middle of its answer or one   *)
(* that is gone cannot hold forward(): every request comes to an end,      *)
(* unless its upstream keeps sending, since the timeout is one of each     *)
(* socket operation and none of the answer as a whole.                     *)
CallEnds == []<>AtPhase("idle") \/ []<>call.heard

(* manifests/atlassian_mvp.yaml:51: "After a confluence_get_page call the   *)
(* session carries label=confluence_raw", and the write that follows is    *)
(* denied.  But was_abstracted says only that the tool has an alias, so    *)
(* every page read is labelled confluence_summary, of which the manifest   *)
(* has no rule.                                                            *)
PageReadBlocksWrites ==
  config.policy /\ config.tracked =>
    \A i, j \in DOMAIN events :
      /\ events[i].trace < events[j].trace
      /\ events[i].kind = "delivery" /\ events[j].kind = "effect"
      /\ events[i].session = events[j].session
      /\ events[i].tool \in Labelled
      => ~\E r \in Rules : r.label = "confluence_raw" /\ events[j].tool \in r.denyFor

=============================================================================
