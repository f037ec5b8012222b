------------------------------- MODULE JiraProxy -------------------------------
(***************************************************************************)
(* The Jira MCP server (server.py, proxy.py, policy.py) in front of one    *)
(* upstream MCP session (mcp_upstream.py).  The SDK serves requests        *)
(* concurrently: a handler runs without interruption up to the upstream    *)
(* call it awaits, and the answers come in any order.  No call has a       *)
(* timeout.  The SDK turns an exception of a handler into an error answer. *)
(*                                                                         *)
(* The upstream server, its process and the SDK are external.              *)
(***************************************************************************)
EXTENDS FiniteSets

CONSTANTS
  JiraTools,     \* tools of the upstream and of the policy file
  ReadIssue,     \* the name "read_issue"
  JiraRequests   \* bound: requests the client sends

VARIABLES
  policy,        \* JiraPolicy: allowed and denied actions, simulate
  upstream,      \* the session: "up", "gone", or "closed" by disconnect
  requests,      \* request -> where it is and what came of it
  decisionLog,   \* what _log printed, as a set of lines
  received       \* history: the calls that reached the upstream

jiraVars == <<policy, upstream, requests, decisionLog, received>>

Policies == [allowed : SUBSET JiraTools, denied : SUBSET JiraTools, simulate : BOOLEAN]

(* An argument is absent, empty once stripped, a text of the caller's, or  *)
(* no string; the policy makes it the allowed JQL or the conjunction.      *)
ClientForms == {"absent", "blank", "text", "nonstring"}
ClientArgs == [jql : ClientForms, query : ClientForms]
ArgForms == ClientForms \cup {"allowed", "conjunction"}
CallArgs == [jql : ArgForms, query : ArgForms]

Stages == {"unsent", "listing", "listed", "calling", "answered", "cut"}
NoAnswerYet == "none"
Answers == {NoAnswerYet, "denied", "simulated", "result", "error"}

JiraTypeOK ==
  /\ policy \in Policies
  /\ upstream \in {"up", "gone", "closed"}
  /\ requests \in [JiraRequests ->
                     [stage : Stages, answer : Answers, shown : SUBSET JiraTools]]
  /\ \A line \in decisionLog :
       line.request \in JiraRequests /\ line.tool \in JiraTools /\ line.args \in CallArgs
  /\ \A call \in received :
       call.request \in JiraRequests /\ call.tool \in JiraTools /\ call.args \in CallArgs

-----------------------------------------------------------------------------
CanExpose(tool) ==
  /\ tool \notin policy.denied
  /\ policy.allowed # {} => tool \in policy.allowed

Constrained(form) == IF form \in {"absent", "blank"} THEN "allowed" ELSE "conjunction"

\* Deliberate error: without a jql the query is looked at only for the tools that read.
JiraDecideQueryUnread(tool, args) ==
  IF tool \in policy.denied
  THEN [decision |-> IF policy.simulate THEN "SIMULATE" ELSE "DENY", args |-> args]
  ELSE IF policy.allowed # {} /\ tool \notin policy.allowed
  THEN [decision |-> "DENY", args |-> args]
  ELSE IF args.jql # "absent" \/ tool = ReadIssue
  THEN [decision |-> "MODIFY", args |-> [args EXCEPT !.jql = Constrained(@)]]
  ELSE [decision |-> "ALLOW", args |-> args]

(* JiraPolicy.decide.                                                      *)
JiraDecide(tool, args) ==
  IF tool \in policy.denied
  THEN [decision |-> IF policy.simulate THEN "SIMULATE" ELSE "DENY", args |-> args]
  ELSE IF policy.allowed # {} /\ tool \notin policy.allowed
  THEN [decision |-> "DENY", args |-> args]
  ELSE IF args.jql # "absent" \/ tool = ReadIssue
  THEN [decision |-> "MODIFY", args |-> [args EXCEPT !.jql = Constrained(@)]]
  ELSE IF args.query # "absent"
  THEN [decision |-> "MODIFY", args |-> [args EXCEPT !.query = Constrained(@)]]
  ELSE [decision |-> "ALLOW", args |-> args]

(* strip() of what is no string raises, in a branch that is reached only   *)
(* when no action list refuses the call.                                   *)
DecideRaises(tool, args) ==
  /\ CanExpose(tool)
  /\ \/ args.jql = "nonstring"
     \/ args.jql = "absent" /\ tool # ReadIssue /\ args.query = "nonstring"

-----------------------------------------------------------------------------
JiraInit ==
  /\ policy \in Policies
  /\ upstream = "up"
  /\ requests = [r \in JiraRequests |->
                   [stage |-> "unsent", answer |-> NoAnswerYet, shown |-> {}]]
  /\ decisionLog = {}
  /\ received = {}

ServerRuns == upstream # "closed"
LogLine(r, tool, d) ==
  [request |-> r, tool |-> tool, args |-> d.args, decision |-> d.decision]

Answered(r, answer) == [requests EXCEPT ![r].stage = "answered", ![r].answer = answer]

(* tools/list: the upstream's tools as of its answer, filtered.            *)
AskList(r) ==
  /\ ServerRuns
  /\ requests[r].stage = "unsent"
  /\ requests' = [requests EXCEPT ![r].stage = "listing"]
  /\ UNCHANGED <<policy, upstream, decisionLog, received>>

ListAnswered(r, offered) ==
  /\ upstream = "up"
  /\ requests[r].stage = "listing"
  /\ requests' = [requests EXCEPT ![r].stage = "listed",
                                  ![r].shown = {t \in offered : CanExpose(t)}]
  /\ UNCHANGED <<policy, upstream, decisionLog, received>>

(* call_tool: the decision raises before anything is logged.               *)
CallRaises(r, tool, args) ==
  /\ ServerRuns
  /\ requests[r].stage = "unsent"
  /\ DecideRaises(tool, args)
  /\ requests' = Answered(r, "error")
  /\ UNCHANGED <<policy, upstream, decisionLog, received>>

CallRefused(r, tool, args) ==
  /\ ServerRuns
  /\ requests[r].stage = "unsent"
  /\ ~DecideRaises(tool, args)
  /\ LET d == JiraDecide(tool, args)
     IN  /\ d.decision \in {"DENY", "SIMULATE"}
         /\ decisionLog' = decisionLog \cup {LogLine(r, tool, d)}
         /\ requests' = Answered(r, IF d.decision = "DENY" THEN "denied" ELSE "simulated")
  /\ UNCHANGED <<policy, upstream, received>>

(* Logged, then sent, or failing at once when the session is gone.         *)
CallForwarded(r, tool, args) ==
  /\ ServerRuns
  /\ requests[r].stage = "unsent"
  /\ ~DecideRaises(tool, args)
  /\ LET d == JiraDecide(tool, args)
     IN  /\ d.decision \in {"ALLOW", "MODIFY"}
         /\ decisionLog' = decisionLog \cup {LogLine(r, tool, d)}
         /\ IF upstream = "up"
            THEN /\ received' = received \cup {[request |-> r, tool |-> tool, args |-> d.args]}
                 /\ requests' = [requests EXCEPT ![r].stage = "calling"]
            ELSE requests' = Answered(r, "error") /\ UNCHANGED received
  /\ UNCHANGED <<policy, upstream>>

(* The answer: the first text block, or {} without one.  That the upstream *)
(* called it an error is dropped, so a failure is a "result" too.          *)
CallAnswered(r) ==
  /\ upstream = "up"
  /\ requests[r].stage = "calling"
  /\ requests' = Answered(r, "result")
  /\ UNCHANGED <<policy, upstream, decisionLog, received>>

(* The upstream process ends: what waits for it fails, or stays waiting,   *)
(* as the SDK's version has it.                                            *)
UpstreamEnds ==
  /\ upstream = "up"
  /\ upstream' = "gone"
  /\ UNCHANGED <<policy, requests, decisionLog, received>>

WaitFails(r) ==
  /\ upstream = "gone"
  /\ requests[r].stage \in {"listing", "calling"}
  /\ requests' = Answered(r, "error")
  /\ UNCHANGED <<policy, upstream, decisionLog, received>>

(* The client closes stdin: run() returns, the session is closed and the   *)
(* handlers still waiting are cancelled.                                   *)
ClientLeaves ==
  /\ ServerRuns
  /\ upstream' = "closed"
  /\ requests' = [r \in JiraRequests |->
                    IF requests[r].stage \in {"listing", "calling"}
                    THEN [requests[r] EXCEPT !.stage = "cut"] ELSE requests[r]]
  /\ UNCHANGED <<policy, decisionLog, received>>

JiraNext ==
  \/ \E r \in JiraRequests : AskList(r)
  \/ \E r \in JiraRequests, offered \in SUBSET JiraTools : ListAnswered(r, offered)
  \/ \E r \in JiraRequests, tool \in JiraTools, args \in ClientArgs : CallRaises(r, tool, args)
  \/ \E r \in JiraRequests, tool \in JiraTools, args \in ClientArgs : CallRefused(r, tool, args)
  \/ \E r \in JiraRequests, tool \in JiraTools, args \in ClientArgs : CallForwarded(r, tool, args)
  \/ \E r \in JiraRequests : CallAnswered(r)
  \/ UpstreamEnds
  \/ \E r \in JiraRequests : WaitFails(r)
  \/ ClientLeaves

JiraSpec == JiraInit /\ [][JiraNext]_jiraVars

-----------------------------------------------------------------------------
Forwarded == {line \in decisionLog : line.decision \in {"ALLOW", "MODIFY"}}

(* What the client is shown is what it may call: can_expose and decide are *)
(* two readings of the same two lists.                                     *)
ShownIsCallable ==
  \A r \in JiraRequests, t \in JiraTools, args \in ClientArgs :
    requests[r].stage = "listed" /\ t \in requests[r].shown =>
      DecideRaises(t, args) \/ JiraDecide(t, args).decision \in {"ALLOW", "MODIFY"}

(* The upstream never receives a call, or arguments, that the log does not *)
(* show as let through, for the same request; and a let-through line whose *)
(* call did not arrive belongs to a request that was answered an error.    *)
LogTellsForwarded ==
  /\ \A call \in received :
       \E line \in Forwarded :
         <<line.request, line.tool, line.args>> = <<call.request, call.tool, call.args>>
  /\ \A line \in Forwarded :
       \/ \E call \in received : call.request = line.request
       \/ requests[line.request].answer = "error"

(* No call reaches the upstream with a JQL of the client's alone; a query  *)
(* of the client's alone arrives only beside a JQL that was constrained.   *)
(* Constrained says that the policy wrote a conjunction around the client's*)
(* text, not how a reader groups text with parentheses of its own.         *)
QueriesConstrained ==
  \A call \in received :
    /\ call.args.jql \in {"absent", "allowed", "conjunction"}
    /\ call.args.jql = "absent" =>
         /\ call.args.query \in {"absent", "allowed", "conjunction"}
         /\ call.tool # ReadIssue

(* An answer that the policy gave means that the upstream did nothing, and *)
(* an answer of the upstream's that it did receive the call.               *)
JiraAnswersTellEffect ==
  \A r \in JiraRequests :
    LET arrived == \E call \in received : call.request = r
    IN  /\ requests[r].answer \in {"denied", "simulated"} => ~arrived
        /\ requests[r].answer = "result" => arrived

(* What the client sees, what the log says and what the upstream receives  *)
(* agree with one another and with the policy, whatever overlaps or fails. *)
JiraAccounted ==
  ShownIsCallable /\ QueriesConstrained /\ LogTellsForwarded /\ JiraAnswersTellEffect
=============================================================================
