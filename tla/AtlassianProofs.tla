---------------------------- MODULE AtlassianProofs ----------------------------
(***************************************************************************)
(* The flow rules of the Atlassian passthrough hold over a session of any  *)
(* length, for every manifest, whatever the upstream answers.              *)
(***************************************************************************)
EXTENDS AtlassianFlow, TLAPS

(* Nothing in the history is newer than the present.                       *)
EventsArePast ==
  \A i \in DOMAIN events : events[i].trace <= requests /\ events[i].session <= session

(* The labels remember every answer that this session was given.           *)
LabelsRemember ==
  config.tracked =>
    \A i \in DOMAIN events :
      events[i].kind = "delivery" /\ events[i].session = session
        => OutputLabels(events[i].tool) \subseteq labels

(* A tool call with the upstream was let through by the labels as they     *)
(* still are.                                                              *)
ForwardedIsCleared ==
  config.policy /\ config.tracked /\ call.phase = "forward" /\ call.method = "tools/call"
    => ~DeniedByFlow(call.tool)

IInv == TypeOK /\ EventsArePast /\ LabelsRemember /\ ForwardedIsCleared /\ FlowRulesHold

-----------------------------------------------------------------------------
(* Types.                                                                  *)
LEMMA EvaluateTyped ==
  ASSUME NEW tool, NEW argsOk PROVE Evaluate(tool, argsOk) \in Decisions
  BY DEF Evaluate, Decisions

LEMMA EventsTyped ==
  ASSUME TypeOK
  PROVE  /\ requests \in Nat /\ session \in Nat
         /\ \A i \in DOMAIN events : events[i].trace \in Nat /\ events[i].session \in Nat
<1>1. requests \in Nat /\ session \in Nat /\ events \in Seq(Events)
  BY DEF TypeOK
<1>2. \A i \in DOMAIN events : events[i] \in Events
  BY <1>1
<1>3. \A e \in Events : e.trace \in Nat /\ e.session \in Nat
  BY DEF Events
<1>4. QED
  BY <1>1, <1>2, <1>3

LEMMA HappenedTyped ==
  ASSUME TypeOK, NEW kind \in {"effect", "delivery"}
  PROVE  Happened(kind) \in Seq(Events)
<1>1. call.tool \in Tools
  BY DEF TypeOK, Calls
<1>2. [kind |-> kind, trace |-> requests, session |-> session, tool |-> call.tool] \in Events
  BY <1>1 DEF Events, TypeOK
<1>3. QED
  BY <1>2 DEF Happened, TypeOK

LEMMA LoggedTyped ==
  ASSUME TypeOK, NEW direction \in {"request", "decision", "response"},
         NEW decision \in Decisions
  PROVE  Logged(direction, decision) \in Seq(LogEntries)
<1>1. [trace |-> requests, direction |-> direction, decision |-> decision] \in LogEntries
  BY DEF LogEntries, TypeOK
<1>2. QED
  BY <1>1 DEF Logged, TypeOK

LEMMA WorkedTyped == TypeOK => Worked \in Seq(Events)
  BY HappenedTyped DEF Worked, TypeOK

LEMMA GotoTyped ==
  ASSUME TypeOK, NEW phase \in Phases, Goto(phase)
  PROVE  call' \in Calls /\ call'.phase = phase /\ call'.tool = call.tool
         /\ call'.method = call.method
  BY DEF Goto, TypeOK, Calls

LEMMA AnswerTyped ==
  ASSUME TypeOK, NEW kind \in {"result", "error"}, Answer(kind)
  PROVE  call' \in Calls /\ call'.phase = "answered"
  BY DEF Answer, TypeOK, Calls, Phases, Answers

(* A call that only waits stays the call it is.                            *)
LEMMA WaitingTyped ==
  ASSUME TypeOK, UpstreamTrickles \/ ReadOn
  PROVE  /\ call' \in Calls
         /\ call.phase = "forward" /\ call'.phase = "forward"
         /\ call'.tool = call.tool /\ call'.method = call.method
         /\ UNCHANGED <<config, labels, requests, log, events, session, unread>>
  BY DEF UpstreamTrickles, ReadOn, AtPhase, TypeOK, Calls

LEMMA RequestTypes ==
  ASSUME TypeOK, NEW method \in Methods, NEW tool \in Tools, NEW argsOk \in BOOLEAN,
         Request(method, tool, argsOk)
  PROVE  TypeOK'
<1>1. [trace |-> requests + 1, direction |-> "request", decision |-> "none"] \in LogEntries
  BY DEF LogEntries, Decisions, TypeOK
<1>2. log' \in Seq(LogEntries)
  BY <1>1 DEF Request, TypeOK
<1>4. call' \in Calls
  BY DEF Request, Calls, Phases, Answers
<1>5. unread' \subseteq 0..requests'
  BY DEF Request, TypeOK
<1>6. QED
  BY <1>2, <1>4, <1>5 DEF Request, TypeOK

LEMMA DecisionTypes ==
  ASSUME TypeOK, Gate \/ Block
  PROVE  TypeOK'
<1>1. CASE Gate
  <2>1. Evaluate(call.tool, call.argsOk) \in Decisions
    BY EvaluateTyped
  <2>2. log' \in Seq(LogEntries)
    BY <1>1, <2>1, LoggedTyped DEF Gate
  <2>3. call' \in Calls
    BY <1>1, GotoTyped DEF Gate, Phases
  <2>4. QED
    BY <1>1, <2>2, <2>3 DEF Gate, TypeOK
<1>2. CASE Block
  <2>1. log' \in Seq(LogEntries) /\ call' \in Calls
    BY <1>2, LoggedTyped, GotoTyped DEF Block, Phases, Decisions
  <2>2. QED
    BY <1>2, <2>1 DEF Block, TypeOK
<1>3. QED
  BY <1>1, <1>2

LEMMA UpstreamTypes ==
  ASSUME TypeOK,
         \/ Stub
         \/ \E done \in BOOLEAN : UpstreamFails(done)
         \/ \E kind \in {"result", "error"} : UpstreamAnswers(kind)
         \/ UpstreamGarbles
         \/ UpstreamTrickles \/ ReadOn
  PROVE  TypeOK'
<1>1. CASE Stub
  <2>1. call' \in Calls
    BY <1>1, AnswerTyped DEF Stub
  <2>2. QED
    BY <1>1, <2>1 DEF Stub, TypeOK
<1>2. ASSUME NEW done \in BOOLEAN, UpstreamFails(done) PROVE TypeOK'
  <2>1. call' \in Calls
    BY <1>2, AnswerTyped DEF UpstreamFails
  <2>2. events' \in Seq(Events)
    BY <1>2, WorkedTyped DEF UpstreamFails, TypeOK
  <2>3. QED
    BY <1>2, <2>1, <2>2 DEF UpstreamFails, TypeOK
<1>3. ASSUME NEW kind \in {"result", "error"}, UpstreamAnswers(kind)
      PROVE  TypeOK'
  <2>1. call' \in Calls
    BY <1>3, AnswerTyped DEF UpstreamAnswers
  <2>2. events' \in Seq(Events)
    BY <1>3, WorkedTyped DEF UpstreamAnswers
  <2>3. QED
    BY <1>3, <2>1, <2>2 DEF UpstreamAnswers, TypeOK
<1>4. CASE UpstreamGarbles
  <2>1. call' \in Calls
    BY <1>4, GotoTyped DEF UpstreamGarbles, Phases
  <2>2. events' = Worked \/ events' = events
    BY <1>4 DEF UpstreamGarbles
  <2>3. events' \in Seq(Events)
    BY <2>2, WorkedTyped DEF TypeOK
  <2>4. QED
    BY <1>4, <2>1, <2>3 DEF UpstreamGarbles, TypeOK
<1>5. CASE UpstreamTrickles \/ ReadOn
  BY <1>5, WaitingTyped DEF TypeOK
<1>6. QED
  BY <1>1, <1>2, <1>3, <1>4, <1>5

LEMMA RespondTypes ==
  ASSUME TypeOK, Respond
  PROVE  TypeOK'
<1>1. log' \in Seq(LogEntries) /\ call' \in Calls
  BY LoggedTyped, GotoTyped DEF Respond, RespondWith, Phases, Decisions
<1>3. Happened("delivery") \in Seq(Events)
  BY HappenedTyped
<1>4. events' \in Seq(Events)
  BY <1>3 DEF Respond, RespondWith, TypeOK
<1>5. OutputLabels(call.tool) \subseteq Labels
  BY DEF OutputLabels, Labels
<1>6. labels' \subseteq Labels
  BY <1>5 DEF Respond, RespondWith, TypeOK
<1>7. QED
  BY <1>1, <1>4, <1>6 DEF Respond, RespondWith, TypeOK

LEMMA SessionTypes ==
  ASSUME TypeOK, NewSession
  PROVE  TypeOK'
<1>1. call' \in Calls
  BY GotoTyped DEF NewSession, Phases
<1>2. events' \in Seq(Events)
  BY WorkedTyped DEF NewSession, TypeOK
<1>3. session' \in Nat /\ labels' \subseteq Labels /\ unread' \subseteq 0..requests'
  BY DEF NewSession, TypeOK
<1>4. QED
  BY <1>1, <1>2, <1>3 DEF NewSession, TypeOK

LEMMA TypePreserved == TypeOK /\ [Next]_vars => TypeOK'
<1> SUFFICES ASSUME TypeOK, [Next]_vars PROVE TypeOK'
    OBVIOUS
<1>1. CASE UNCHANGED vars
  BY <1>1 DEF vars, TypeOK
<1>2. QED
  BY <1>1, RequestTypes, DecisionTypes, UpstreamTypes, RespondTypes, SessionTypes
     DEF Next, ProxyStep

-----------------------------------------------------------------------------
(* What a step does to the history.                                        *)

EventOf(kind, e) ==
  /\ e.kind = kind /\ e.trace = requests /\ e.session = session /\ e.tool = call.tool

(* A step of the upstream adds at most the work of the present call.       *)
LEMMA EffectAdded ==
  ASSUME TypeOK, events' = Worked
  PROVE  \/ events' = events
         \/ /\ call.method = "tools/call"
            /\ \E e : EventOf("effect", e) /\ events' = Append(events, e)
<1>1. CASE call.method = "tools/call"
  BY <1>1 DEF Worked, Happened, EventOf
<1>2. QED
  BY <1>1 DEF Worked

LEMMA AppendedEvents ==
  ASSUME TypeOK, NEW e, events' = Append(events, e)
  PROVE  /\ DOMAIN events' = DOMAIN events \cup {Len(events) + 1}
         /\ \A i \in DOMAIN events : events'[i] = events[i]
         /\ events'[Len(events) + 1] = e
  BY DEF TypeOK

(* Steps that add nothing to the history.                                  *)
LEMMA QuietStep ==
  ASSUME IInv, UNCHANGED <<config, labels, events, session>>,
         requests' \in {requests, requests + 1}
  PROVE  EventsArePast' /\ LabelsRemember' /\ FlowRulesHold'
<1>1. \A i \in DOMAIN events : events[i].trace \in Nat
  BY EventsTyped DEF IInv
<1>2. EventsArePast'
  BY <1>1 DEF IInv, EventsArePast, TypeOK
<1>3. QED
  BY <1>2 DEF IInv, LabelsRemember, FlowRulesHold, OutputLabels

(* The work of the call that is with the upstream, in this session or cut  *)
(* off by the next.                                                        *)
LEMMA EffectStep ==
  ASSUME IInv, call.phase = "forward", events' = Worked, UNCHANGED <<config, requests>>,
         \/ session' = session /\ labels' = labels
         \/ session' = session + 1
  PROVE  EventsArePast' /\ LabelsRemember' /\ FlowRulesHold'
<1>0. TypeOK /\ EventsArePast /\ LabelsRemember /\ ForwardedIsCleared /\ FlowRulesHold
  BY DEF IInv
<1>t. /\ requests \in Nat /\ session \in Nat
      /\ \A i \in DOMAIN events : events[i].trace \in Nat /\ events[i].session \in Nat
  BY <1>0, EventsTyped
<1>1. CASE events' = events
  <2>1. EventsArePast'
    BY <1>0, <1>t, <1>1 DEF EventsArePast
  <2>2. LabelsRemember'
    BY <1>0, <1>t, <1>1 DEF LabelsRemember, EventsArePast, OutputLabels
  <2>3. FlowRulesHold'
    BY <1>0, <1>1 DEF FlowRulesHold, OutputLabels
  <2>4. QED
    BY <2>1, <2>2, <2>3
<1>2. ASSUME NEW e, EventOf("effect", e), events' = Append(events, e),
             call.method = "tools/call"
      PROVE  EventsArePast' /\ LabelsRemember' /\ FlowRulesHold'
  <2>1. /\ DOMAIN events' = DOMAIN events \cup {Len(events) + 1}
        /\ \A i \in DOMAIN events : events'[i] = events[i]
        /\ events'[Len(events) + 1] = e
    BY <1>0, <1>2, AppendedEvents
  <2>2. EventsArePast'
    BY <1>0, <1>t, <1>2, <2>1 DEF EventsArePast, EventOf
  <2>3. LabelsRemember'
    BY <1>0, <1>t, <1>2, <2>1 DEF LabelsRemember, EventsArePast, EventOf, OutputLabels
  <2>4. ASSUME config.policy, config.tracked, NEW i \in DOMAIN events,
               events[i].kind = "delivery", events[i].session = session,
               NEW r \in Rules, r.label \in OutputLabels(events[i].tool)
        PROVE  call.tool \notin r.denyFor
    <3>1. r.label \in labels
      BY <1>0, <2>4 DEF LabelsRemember
    <3>2. ~DeniedByFlow(call.tool)
      BY <1>0, <1>2, <2>4 DEF ForwardedIsCleared
    <3>3. QED
      BY <3>1, <3>2 DEF DeniedByFlow
  <2>5. FlowRulesHold'
    <3> SUFFICES ASSUME config.policy, config.tracked,
                        NEW i \in DOMAIN events', NEW j \in DOMAIN events',
                        events'[i].trace < events'[j].trace,
                        events'[i].kind = "delivery", events'[j].kind = "effect",
                        events'[i].session = events'[j].session,
                        NEW r \in Rules, r.label \in OutputLabels(events'[i].tool)
                 PROVE  events'[j].tool \notin r.denyFor
      BY DEF FlowRulesHold, OutputLabels
    <3>1. i \in DOMAIN events /\ events'[i] = events[i]
      BY <1>2, <2>1 DEF EventOf
    <3>2. CASE j \in DOMAIN events
      BY <1>0, <2>1, <3>1, <3>2 DEF FlowRulesHold
    <3>3. CASE events'[j] = e
      BY <1>2, <2>4, <3>1, <3>3 DEF EventOf
    <3>4. QED
      BY <2>1, <3>2, <3>3
  <2>6. QED
    BY <2>2, <2>3, <2>5
<1>3. QED
  BY <1>0, <1>1, <1>2, EffectAdded

(* An answer that reaches the client leaves its label.                     *)
LEMMA RespondStep ==
  ASSUME IInv, Respond
  PROVE  EventsArePast' /\ LabelsRemember' /\ FlowRulesHold'
<1>0. TypeOK /\ EventsArePast /\ LabelsRemember /\ FlowRulesHold
  BY DEF IInv
<1>t. /\ requests \in Nat /\ session \in Nat
      /\ \A i \in DOMAIN events : events[i].trace \in Nat /\ events[i].session \in Nat
  BY <1>0, EventsTyped
<1>u. UNCHANGED <<config, requests, session>>
  BY DEF Respond, RespondWith
<1>1. CASE ~Delivers
  BY <1>1, <1>u, QuietStep DEF Respond, RespondWith
<1>2. CASE Delivers
  <2> DEFINE e == [kind |-> "delivery", trace |-> requests, session |-> session,
                   tool |-> call.tool]
  <2>1. events' = Append(events, e)
    BY <1>2 DEF Respond, RespondWith, Happened
  <2>2. config.tracked => labels' = labels \cup OutputLabels(call.tool)
    BY <1>2 DEF Respond, RespondWith
  <2>3. EventOf("delivery", e)
    BY DEF EventOf
  <2> HIDE DEF e
  <2>4. /\ DOMAIN events' = DOMAIN events \cup {Len(events) + 1}
        /\ \A i \in DOMAIN events : events'[i] = events[i]
        /\ events'[Len(events) + 1] = e
    BY <1>0, <2>1, AppendedEvents
  <2>5. EventsArePast'
    BY <1>0, <1>t, <1>u, <2>3, <2>4 DEF EventsArePast, EventOf
  <2>6. LabelsRemember'
    <3> SUFFICES ASSUME config.tracked, NEW i \in DOMAIN events',
                        events'[i].kind = "delivery", events'[i].session = session
                 PROVE  OutputLabels(events'[i].tool) \subseteq labels'
      BY <1>u DEF LabelsRemember, OutputLabels
    <3>1. CASE i \in DOMAIN events
      BY <1>0, <2>2, <2>4, <3>1 DEF LabelsRemember
    <3>2. CASE events'[i] = e
      BY <2>2, <2>3, <3>2 DEF EventOf
    <3>3. QED
      BY <2>4, <3>1, <3>2
  <2>7. FlowRulesHold'
    <3> SUFFICES ASSUME config.policy, config.tracked,
                        NEW i \in DOMAIN events', NEW j \in DOMAIN events',
                        events'[i].trace < events'[j].trace,
                        events'[i].kind = "delivery", events'[j].kind = "effect",
                        events'[i].session = events'[j].session,
                        NEW r \in Rules, r.label \in OutputLabels(events'[i].tool)
                 PROVE  events'[j].tool \notin r.denyFor
      BY <1>u DEF FlowRulesHold, OutputLabels
    <3>1. j \in DOMAIN events /\ events'[j] = events[j]
      BY <2>3, <2>4 DEF EventOf
    <3>2. CASE i \in DOMAIN events
      BY <1>0, <2>4, <3>1, <3>2 DEF FlowRulesHold
    <3>3. CASE events'[i] = e
      BY <1>0, <1>t, <2>3, <3>1, <3>3 DEF EventsArePast, EventOf
    <3>4. QED
      BY <2>4, <3>2, <3>3
  <2>8. QED
    BY <2>5, <2>6, <2>7
<1>3. QED
  BY <1>1, <1>2

(* A new session has no labels and nothing to remember.                    *)
LEMMA SessionStep ==
  ASSUME IInv, NewSession
  PROVE  EventsArePast' /\ LabelsRemember' /\ FlowRulesHold'
<1>0. TypeOK /\ EventsArePast /\ FlowRulesHold
  BY DEF IInv
<1>t. /\ requests \in Nat /\ session \in Nat
      /\ \A i \in DOMAIN events : events[i].trace \in Nat /\ events[i].session \in Nat
  BY <1>0, EventsTyped
<1>1. UNCHANGED <<config, requests>> /\ session' = session + 1
  BY DEF NewSession
<1>2. CASE UNCHANGED events
  <2>1. EventsArePast'
    BY <1>0, <1>t, <1>1, <1>2 DEF EventsArePast
  <2>2. LabelsRemember'
    BY <1>0, <1>t, <1>1, <1>2 DEF EventsArePast, LabelsRemember
  <2>3. FlowRulesHold'
    BY <1>0, <1>1, <1>2 DEF FlowRulesHold, OutputLabels
  <2>4. QED
    BY <2>1, <2>2, <2>3
<1>3. CASE AtPhase("forward") /\ events' = Worked
  BY <1>1, <1>3, EffectStep DEF AtPhase
<1>4. QED
  BY <1>2, <1>3 DEF NewSession

-----------------------------------------------------------------------------
(* What the gate let through stays cleared while it is with the upstream:  *)
(* the labels change only when a call ends.                                *)
LEMMA ClearedStays ==
  ASSUME IInv, Next
  PROVE  ForwardedIsCleared'
<1>0. TypeOK
  BY DEF IInv
<1>1. ASSUME NEW method \in Methods, NEW tool \in Tools, NEW argsOk \in BOOLEAN,
             Request(method, tool, argsOk)
      PROVE  ForwardedIsCleared'
  BY <1>1 DEF Request, ForwardedIsCleared
<1>2. CASE Gate
  <2>1. CASE Evaluate(call.tool, call.argsOk) = "ALLOW"
    <3>1. config.tracked => ~DeniedByFlow(call.tool)
      BY <2>1 DEF Evaluate
    <3>2. UNCHANGED <<config, labels>> /\ call'.tool = call.tool
      BY <1>0, <1>2 DEF Gate, Goto, TypeOK, Calls
    <3>3. QED
      BY <3>1, <3>2 DEF ForwardedIsCleared, DeniedByFlow
  <2>2. CASE Evaluate(call.tool, call.argsOk) # "ALLOW"
    <3>1. Goto("blocked")
      BY <1>2, <2>2 DEF Gate
    <3>2. QED
      BY <1>0, <3>1, GotoTyped DEF ForwardedIsCleared, Phases
  <2>3. QED
    BY <2>1, <2>2
<1>3. CASE call'.phase # "forward"
  BY <1>3 DEF ForwardedIsCleared
<1>4. ASSUME \/ Block \/ Respond \/ UpstreamGarbles \/ NewSession
      PROVE  call'.phase # "forward"
  <2>1. Goto("idle")
    BY <1>4 DEF Block, Respond, RespondWith, UpstreamGarbles, NewSession
  <2>2. QED
    BY <1>0, <2>1, GotoTyped DEF Phases
<1>5. ASSUME \/ Stub
             \/ \E done \in BOOLEAN : UpstreamFails(done)
             \/ \E kind \in {"result", "error"} : UpstreamAnswers(kind)
      PROVE  call'.phase # "forward"
  <2>1. \E kind \in {"result", "error"} : Answer(kind)
    BY <1>5 DEF Stub, UpstreamFails, UpstreamAnswers
  <2>2. QED
    BY <1>0, <2>1, AnswerTyped
<1>6. CASE UpstreamTrickles \/ ReadOn
  BY <1>0, <1>6, WaitingTyped DEF IInv, ForwardedIsCleared, DeniedByFlow
<1>7. QED
  BY <1>1, <1>2, <1>3, <1>4, <1>5, <1>6 DEF Next, ProxyStep

LEMMA InvariantPreserved == IInv /\ [Next]_vars => IInv'
<1>1. ASSUME IInv, Next PROVE IInv'
  <2>1. TypeOK'
    BY <1>1, TypePreserved DEF IInv
  <2>2. ForwardedIsCleared'
    BY <1>1, ClearedStays
  <2>3. EventsArePast' /\ LabelsRemember' /\ FlowRulesHold'
    <3>1. ASSUME \/ \E method \in Methods, tool \in Tools, argsOk \in BOOLEAN :
                      Request(method, tool, argsOk)
                 \/ Gate \/ Block \/ Stub \/ UpstreamTrickles \/ ReadOn
                 \/ \E done \in BOOLEAN : UpstreamFails(done) /\ UNCHANGED events
                 \/ UpstreamGarbles /\ UNCHANGED events
          PROVE  /\ UNCHANGED <<config, labels, events, session>>
                 /\ requests' \in {requests, requests + 1}
      BY <3>1 DEF Request, Gate, Block, Stub, UpstreamFails, UpstreamGarbles,
                  UpstreamTrickles, ReadOn
    <3>2. ASSUME \/ \E done \in BOOLEAN : UpstreamFails(done) /\ events' = Worked
                 \/ \E kind \in {"result", "error"} : UpstreamAnswers(kind)
                 \/ UpstreamGarbles /\ events' = Worked
          PROVE  /\ call.phase = "forward" /\ events' = Worked
                 /\ UNCHANGED <<config, requests, session, labels>>
      BY <3>2 DEF UpstreamFails, UpstreamAnswers, UpstreamGarbles, AtPhase
    <3>3. ASSUME UpstreamGarbles \/ \E done \in BOOLEAN : UpstreamFails(done)
          PROVE  UNCHANGED events \/ events' = Worked
      BY <3>3 DEF UpstreamFails, UpstreamGarbles
    <3>4. QED
      BY <1>1, <3>1, <3>2, <3>3, QuietStep, EffectStep, RespondStep, SessionStep
         DEF Next, ProxyStep
  <2>4. QED
    BY <2>1, <2>2, <2>3 DEF IInv
<1>2. ASSUME IInv, UNCHANGED vars PROVE IInv'
  BY <1>2 DEF vars, IInv, TypeOK, EventsArePast, LabelsRemember, ForwardedIsCleared,
     DeniedByFlow, FlowRulesHold, OutputLabels
<1>3. QED
  BY <1>1, <1>2

LEMMA InvariantInitially == Init => IInv
<1> SUFFICES ASSUME Init PROVE IInv
    OBVIOUS
<1>2. call \in Calls /\ call.phase = "idle"
  BY DEF Init, NoCall, Calls, Phases, Methods, Answers
<1>3. QED
  BY <1>2 DEF Init, IInv, TypeOK, EventsArePast, LabelsRemember, ForwardedIsCleared,
     FlowRulesHold

(* The variables keep their types, for every manifest and every upstream.  *)
THEOREM FlowTypeCorrect == Spec => []TypeOK
<1>1. IInv => TypeOK
  BY DEF IInv
<1>2. QED
  BY <1>1, InvariantInitially, InvariantPreserved, PTL DEF Spec

(* However long the session and whatever fails in it: after an answer that *)
(* carries a label the upstream never works on a later call that a rule    *)
(* denies for the label.                                                   *)
THEOREM FlowRulesAlwaysHold == Spec => []FlowRulesHold
<1>1. IInv => FlowRulesHold
  BY DEF IInv
<1>2. QED
  BY <1>1, InvariantInitially, InvariantPreserved, PTL DEF Spec

-----------------------------------------------------------------------------
(* The log against the work.  No line is of a request to come; the call    *)
(* inside forward() has no response yet and was not left behind; before    *)
(* the gate there is no decision, and past it, for a tool call under a     *)
(* manifest, there is exactly ALLOW.                                       *)
LogIsPast == \A i \in DOMAIN log : log[i].trace <= requests

OpenIsUnanswered == ~AtPhase("idle") => requests \notin unread /\ ResponsesOf(requests) = {}

Cleared(tool) == ~(config.taintRule /\ config.tainted /\ tool \in ExternalWrite)

GateIsLogged ==
  config.policy =>
    /\ call.phase = "gate" => DecisionsOf(requests) = {}
    /\ call.phase \in {"forward", "answered"} /\ call.method = "tools/call" =>
         DecisionsOf(requests) = {"ALLOW"} /\ Cleared(call.tool)

LogInv ==
  /\ TypeOK /\ LogIsPast
  /\ OpenIsUnanswered /\ GateIsLogged
  /\ LogAccountsForWork

LEMMA LogTyped ==
  ASSUME TypeOK
  PROVE  requests \in Nat /\ \A i \in DOMAIN log : log[i].trace \in Nat
<1>1. requests \in Nat /\ log \in Seq(LogEntries)
  BY DEF TypeOK
<1>2. \A i \in DOMAIN log : log[i] \in LogEntries
  BY <1>1
<1>3. \A e \in LogEntries : e.trace \in Nat
  BY DEF LogEntries
<1> QED BY <1>1, <1>2, <1>3

(* One more line in the log, and what the log says of a request then.      *)
LEMMA OneMoreLine ==
  ASSUME TypeOK, NEW e, log' = Append(log, e)
  PROVE  /\ DOMAIN log' = DOMAIN log \cup {Len(log) + 1}
         /\ Len(log) + 1 \notin DOMAIN log
         /\ \A i \in DOMAIN log : log'[i] = log[i]
         /\ log'[Len(log) + 1] = e
BY DEF TypeOK

LEMMA LineAdds ==
  ASSUME TypeOK, NEW e, log' = Append(log, e), NEW k
  PROVE  /\ ~(e.trace = k /\ e.direction = "decision") => DecisionsOf(k)' = DecisionsOf(k)
         /\ e.trace = k /\ e.direction = "decision" =>
              DecisionsOf(k)' = DecisionsOf(k) \cup {e.decision}
         /\ ~(e.trace = k /\ e.direction = "response") => ResponsesOf(k)' = ResponsesOf(k)
         /\ e.trace = k /\ e.direction = "response" =>
              ResponsesOf(k)' = ResponsesOf(k) \cup {Len(log) + 1}
<1> DEFINE n == Len(log) + 1
<1>1. /\ DOMAIN log' = DOMAIN log \cup {n} /\ n \notin DOMAIN log
      /\ \A i \in DOMAIN log : log'[i] = log[i]
      /\ log'[n] = e
  BY OneMoreLine
<1> HIDE DEF n
<1>2. \A d : d \in DecisionsOf(k) <=>
               \E i \in DOMAIN log : /\ log[i].trace = k /\ log[i].direction = "decision"
                                     /\ log[i].decision = d
  BY DEF DecisionsOf
<1>3. \A d : d \in DecisionsOf(k)' <=>
               \E i \in DOMAIN log' : /\ log'[i].trace = k /\ log'[i].direction = "decision"
                                      /\ log'[i].decision = d
  BY DEF DecisionsOf
<1>4. \A d : d \in DecisionsOf(k)' <=>
               d \in DecisionsOf(k) \/ (e.trace = k /\ e.direction = "decision" /\ e.decision = d)
  BY <1>1, <1>2, <1>3
<1>5. DecisionsOf(k)' = DecisionsOf(k)
                          \cup {d \in {e.decision} : e.trace = k /\ e.direction = "decision"}
  BY <1>4
<1>8. /\ ~(e.trace = k /\ e.direction = "response") => ResponsesOf(k)' = ResponsesOf(k)
      /\ e.trace = k /\ e.direction = "response" =>
           ResponsesOf(k)' = ResponsesOf(k) \cup {n}
  BY <1>1 DEF ResponsesOf
<1> QED BY <1>5, <1>8 DEF n

(* A request to come is in no line.                                        *)
LEMMA NothingAhead ==
  ASSUME TypeOK, LogIsPast, NEW k, k \in Nat, k > requests
  PROVE  DecisionsOf(k) = {} /\ ResponsesOf(k) = {}
<1>1. \A i \in DOMAIN log : log[i].trace # k
  BY LogTyped DEF LogIsPast
<1> QED BY <1>1 DEF DecisionsOf, ResponsesOf

LEMMA AnswerKeeps ==
  ASSUME TypeOK, NEW kind, Answer(kind)
  PROVE  /\ call'.phase = "answered"
         /\ call'.tool = call.tool /\ call'.method = call.method
BY DEF Answer, TypeOK, Calls

(* Work and answers are of the call that is past the gate, so what the log *)
(* has decided of it covers them.                                          *)
DecisionsIn(lines, k) ==
  {lines[i].decision : i \in {j \in DOMAIN lines : /\ lines[j].trace = k
                                                  /\ lines[j].direction = "decision"}}

LEMMA WorkIsCovered ==
  ASSUME LogInv, UNCHANGED config,
         \A k : DecisionsOf(k)' = DecisionsOf(k),
         \/ events' = events
         \/ /\ call.phase \in {"forward", "answered"} /\ call.method = "tools/call"
            /\ \E kind, e : EventOf(kind, e) /\ events' = Append(events, e)
  PROVE  WorkFollowsDecision'
<1>a. \A k : DecisionsIn(log', k) = DecisionsOf(k)
  <2>1. \A k : DecisionsOf(k)' = DecisionsIn(log', k)
    BY DEF DecisionsOf, DecisionsIn
  <2> QED BY <2>1
<1>b. WorkFollowsDecision' <=>
        (config'.policy =>
           \A i \in DOMAIN events' :
             /\ DecisionsIn(log', events'[i].trace) = {"ALLOW"}
             /\ ~(config'.taintRule /\ config'.tainted /\ events'[i].tool \in ExternalWrite))
  BY DEF WorkFollowsDecision, DecisionsOf, DecisionsIn
<1> SUFFICES ASSUME config.policy, NEW i \in DOMAIN events'
             PROVE  /\ DecisionsOf(events'[i].trace) = {"ALLOW"}
                    /\ Cleared(events'[i].tool)
  BY <1>a, <1>b DEF Cleared
<1>1. CASE i \in DOMAIN events /\ events'[i] = events[i]
  BY <1>1 DEF LogInv, LogAccountsForWork, WorkFollowsDecision, Cleared
<1>2. CASE events' = events
  BY <1>1, <1>2
<1>3. ASSUME NEW kind, NEW e, EventOf(kind, e), events' = Append(events, e),
             call.phase \in {"forward", "answered"}, call.method = "tools/call"
      PROVE  /\ DecisionsOf(events'[i].trace) = {"ALLOW"}
             /\ Cleared(events'[i].tool)
  <2>1. CASE i \in DOMAIN events
    BY <1>1, <1>3, <2>1, AppendedEvents DEF LogInv
  <2>2. CASE i = Len(events) + 1
    <3>1. events'[i].trace = requests /\ events'[i].tool = call.tool
      BY <1>3, <2>2, AppendedEvents DEF LogInv, EventOf
    <3>2. DecisionsOf(requests) = {"ALLOW"} /\ Cleared(call.tool)
      BY <1>3 DEF LogInv, GateIsLogged
    <3> QED BY <3>1, <3>2
  <2> QED BY <1>3, <2>1, <2>2, AppendedEvents DEF LogInv
<1> QED BY <1>2, <1>3

(* The call that is answered, or is not: the responses of the others stay. *)
LEMMA AnswersAccounted ==
  ASSUME LogInv, UNCHANGED requests, call.phase # "idle",
         \/ /\ UNCHANGED <<log, unread>> /\ call'.phase # "idle"
         \/ /\ UNCHANGED unread /\ call'.phase # "idle"
            /\ \E d : log' = Logged("decision", d)
         \/ /\ UNCHANGED unread /\ call'.phase = "idle"
            /\ log' = Logged("response", "none")
         \/ /\ UNCHANGED log /\ call'.phase = "idle" /\ unread' = unread \cup {requests}
  PROVE  ResponsesAccounted' /\ OpenIsUnanswered'
<1>0. TypeOK /\ ResponsesAccounted /\ requests \notin unread /\ ResponsesOf(requests) = {}
  BY DEF LogInv, LogAccountsForWork, OpenIsUnanswered, AtPhase
<1>1. ASSUME \A k : ResponsesOf(k)' = ResponsesOf(k)
      PROVE  /\ unread' = unread /\ call'.phase # "idle" => ResponsesAccounted' /\ OpenIsUnanswered'
             /\ unread' = unread \cup {requests} /\ call'.phase = "idle"
                  => ResponsesAccounted' /\ OpenIsUnanswered'
  BY <1>0, <1>1 DEF ResponsesAccounted, OpenIsUnanswered, AtPhase
<1>2. CASE UNCHANGED log
  <2>1. \A k : ResponsesOf(k)' = ResponsesOf(k)
    BY <1>2 DEF ResponsesOf
  <2>2. \/ unread' = unread /\ call'.phase # "idle"
        \/ unread' = unread \cup {requests} /\ call'.phase = "idle"
        \/ log' = Logged("response", "none")
        \/ \E d : log' = Logged("decision", d)
    BY <1>2
  <2>3. \A e : log' # Append(log, e)
    BY <1>0, <1>2, OneMoreLine
  <2> QED BY <1>1, <2>1, <2>2, <2>3 DEF Logged
<1>3. ASSUME NEW d, log' = Logged("decision", d), UNCHANGED unread, call'.phase # "idle"
      PROVE  ResponsesAccounted' /\ OpenIsUnanswered'
  <2>1. PICK e : e.direction = "decision" /\ log' = Append(log, e)
    BY <1>3 DEF Logged
  <2>2. \A k : ResponsesOf(k)' = ResponsesOf(k)
    BY <1>0, <2>1, LineAdds
  <2> QED BY <1>1, <1>3, <2>2
<1>4. CASE UNCHANGED unread /\ call'.phase = "idle" /\ log' = Logged("response", "none")
  <2>1. PICK e, r : e.direction = "response" /\ e.trace = r /\ r = requests /\ log' = Append(log, e)
    BY <1>4 DEF Logged
  <2>2. \A k : k # r => ResponsesOf(k)' = ResponsesOf(k)
    BY <1>0, <2>1, LineAdds
  <2>3. ResponsesOf(r)' = {Len(log) + 1}
    BY <1>0, <2>1, LineAdds
  <2>4. PICK n : ResponsesOf(r)' = {n}
    BY <2>3
  <2> QED BY <1>0, <1>4, <2>1, <2>2, <2>4 DEF ResponsesAccounted, OpenIsUnanswered, AtPhase
<1> QED BY <1>2, <1>3, <1>4

(* The gate's own line: the first decision of its request, so that no work *)
(* of another request changes its record.                                  *)
LEMMA GateKeepsLog ==
  ASSUME LogInv, Gate
  PROVE  LogInv'
<1>0. /\ TypeOK /\ LogIsPast /\ TypeOK'
      /\ UNCHANGED <<config, requests, events, unread>> /\ call.phase = "gate"
  BY TypePreserved DEF LogInv, Gate, AtPhase, Next, ProxyStep
<1>1. PICK d, r, e : /\ d = Evaluate(call.tool, call.argsOk) /\ r = requests
                     /\ e = [trace |-> r, direction |-> "decision", decision |-> d]
  OBVIOUS
<1>2. log' = Append(log, e)
  BY <1>1 DEF Gate, Logged
<1>3. /\ call'.phase = IF d = "ALLOW" THEN "forward" ELSE "blocked"
      /\ call'.tool = call.tool /\ call'.method = call.method
  BY <1>0, <1>1 DEF Gate, Goto, TypeOK, Calls
<1>4. LogIsPast'
  BY <1>0, <1>1, <1>2, OneMoreLine, LogTyped DEF LogIsPast
<1>5. ResponsesAccounted' /\ OpenIsUnanswered'
  <2>1. log' = Logged("decision", d)
    BY <1>1, <1>2 DEF Logged
  <2> QED BY <1>0, <1>3, <2>1, AnswersAccounted
<1>6. ASSUME config.policy
      PROVE  DecisionsOf(r) = {} /\ DecisionsOf(r)' = {d}
  <2>1. DecisionsOf(r) = {}
    BY <1>0, <1>1, <1>6 DEF LogInv, GateIsLogged
  <2>2. DecisionsOf(r)' = DecisionsOf(r) \cup {d}
    BY <1>0, <1>1, <1>2, LineAdds
  <2> QED BY <2>1, <2>2
<1>7. GateIsLogged'
  <2>1. d = "ALLOW" => Cleared(call.tool)
    BY <1>1 DEF Evaluate, Cleared
  <2> QED BY <1>0, <1>1, <1>3, <1>6, <2>1 DEF GateIsLogged, Cleared
<1>8. WorkFollowsDecision'
  <2>1. \A k : DecisionsIn(log', k) = DecisionsOf(k)'
    BY DEF DecisionsOf, DecisionsIn
  <2>2. \A k : k # r => DecisionsOf(k)' = DecisionsOf(k)
    BY <1>0, <1>1, <1>2, LineAdds
  <2>3. config.policy =>
          \A i \in DOMAIN events : /\ DecisionsOf(events[i].trace) = {"ALLOW"}
                                   /\ events[i].trace # r
                                   /\ Cleared(events[i].tool)
    BY <1>6 DEF LogInv, LogAccountsForWork, WorkFollowsDecision, Cleared
  <2>4. WorkFollowsDecision' <=>
          (config.policy =>
             \A i \in DOMAIN events : /\ DecisionsIn(log', events[i].trace) = {"ALLOW"}
                                      /\ Cleared(events[i].tool))
    BY <1>0 DEF WorkFollowsDecision, DecisionsOf, DecisionsIn, Cleared
  <2> QED BY <2>1, <2>2, <2>3, <2>4
<1> QED BY <1>0, <1>4, <1>5, <1>7, <1>8 DEF LogInv, LogAccountsForWork

LEMMA RequestKeepsLog ==
  ASSUME LogInv, NEW method \in Methods, NEW tool \in Tools, NEW argsOk \in BOOLEAN,
         Request(method, tool, argsOk)
  PROVE  LogInv'
<1>0. /\ TypeOK /\ LogIsPast /\ TypeOK' /\ requests \in Nat /\ unread \subseteq 0..requests
      /\ UNCHANGED <<config, events, unread>> /\ call.phase = "idle" /\ requests' = requests + 1
  BY RequestTypes DEF LogInv, Request, AtPhase, TypeOK
<1>1. PICK e, r : /\ r = requests + 1 /\ e.trace = r /\ e.direction = "request"
                  /\ log' = Append(log, e)
  BY DEF Request
<1>2. \A k : DecisionsOf(k)' = DecisionsOf(k) /\ ResponsesOf(k)' = ResponsesOf(k)
  BY <1>0, <1>1, LineAdds
<1>3. DecisionsOf(r) = {} /\ ResponsesOf(r) = {}
  BY <1>0, <1>1, NothingAhead
<1>4. /\ call'.phase \in {"gate", "forward"}
      /\ call'.phase = "forward" => ~(config.policy /\ call'.method = "tools/call")
  BY DEF Request
<1>5. LogIsPast'
  BY <1>0, <1>1, OneMoreLine, LogTyped DEF LogIsPast
<1>6. OpenIsUnanswered'
  BY <1>0, <1>1, <1>2, <1>3 DEF OpenIsUnanswered
<1>7. GateIsLogged'
  BY <1>0, <1>1, <1>2, <1>3, <1>4 DEF GateIsLogged
<1>8. ResponsesAccounted'
  <2>1. \A k \in 1..r : k = r \/ k \in 1..requests
    BY <1>0, <1>1
  <2>2. \A k \in 1..requests :
          IF k \in unread THEN ResponsesOf(k) = {} ELSE \E i \in ResponsesOf(k) : ResponsesOf(k) = {i}
    BY <1>0 DEF LogInv, LogAccountsForWork, ResponsesAccounted, AtPhase
  <2>3. \A k \in 1..requests : k # r
    BY <1>0, <1>1
  <2>4. call'.phase # "idle"
    BY <1>4
  <2> QED BY <1>0, <1>1, <1>2, <1>3, <2>1, <2>2, <2>3, <2>4 DEF ResponsesAccounted, AtPhase
<1>9. WorkFollowsDecision'
  BY <1>0, <1>2, WorkIsCovered
<1> QED BY <1>0, <1>5, <1>6, <1>7, <1>8, <1>9 DEF LogInv, LogAccountsForWork

(* The response of a call that was blocked or answered.                    *)
LEMMA ResponseKeepsLog ==
  ASSUME LogInv, Block \/ Respond
  PROVE  LogInv'
<1>0. /\ TypeOK /\ LogIsPast /\ TypeOK'
      /\ UNCHANGED <<config, requests, unread>> /\ call.phase \in {"blocked", "answered"}
      /\ log' = Logged("response", "none") /\ Goto("idle")
  BY DecisionTypes, RespondTypes DEF LogInv, Block, Respond, RespondWith, AtPhase
<1>1. PICK e : e.trace = requests /\ e.direction = "response" /\ log' = Append(log, e)
  BY <1>0 DEF Logged
<1>2. \A k : DecisionsOf(k)' = DecisionsOf(k)
  BY <1>0, <1>1, LineAdds
<1>3. call'.phase = "idle"
  BY <1>0, GotoTyped DEF Phases
<1>4. LogIsPast'
  BY <1>0, <1>1, OneMoreLine, LogTyped DEF LogIsPast
<1>5. ResponsesAccounted' /\ OpenIsUnanswered'
  BY <1>0, <1>3, AnswersAccounted
<1>6. GateIsLogged'
  BY <1>3 DEF GateIsLogged
<1>7. WorkFollowsDecision'
  <2>1. \/ events' = events
        \/ /\ call.phase \in {"forward", "answered"} /\ call.method = "tools/call"
           /\ \E kind, x : EventOf(kind, x) /\ events' = Append(events, x)
    BY <1>0 DEF Block, Respond, RespondWith, Delivers, Happened, EventOf, AtPhase
  <2> QED BY <1>0, <1>2, <2>1, WorkIsCovered
<1> QED BY <1>0, <1>4, <1>5, <1>6, <1>7 DEF LogInv, LogAccountsForWork

(* Nothing is logged while the call is with the upstream, whatever it does.*)
LEMMA UnloggedStepKeepsLog ==
  ASSUME LogInv, TypeOK', UNCHANGED <<config, requests, log>>,
         \/ /\ UNCHANGED unread /\ call.phase = "forward"
            /\ call'.phase \in {"forward", "answered"}
            /\ call'.tool = call.tool /\ call'.method = call.method
         \/ /\ call.phase # "idle" /\ call'.phase = "idle" /\ unread' = unread \cup {requests}
         \/ /\ call.phase = "idle" /\ call'.phase = "idle" /\ unread' = unread,
         \/ events' = events
         \/ call.phase = "forward" /\ events' = Worked
  PROVE  LogInv'
<1>0. TypeOK /\ LogIsPast
  BY DEF LogInv
<1>1. \A k : DecisionsOf(k)' = DecisionsOf(k)
  BY DEF DecisionsOf
<1>2. LogIsPast'
  BY <1>0 DEF LogIsPast
<1>3. ResponsesAccounted' /\ OpenIsUnanswered'
  <2>1. CASE call.phase # "idle"
    BY <2>1, AnswersAccounted
  <2>2. CASE call.phase = "idle"
    BY <2>2 DEF LogInv, LogAccountsForWork, ResponsesAccounted, OpenIsUnanswered, AtPhase,
       ResponsesOf
  <2> QED BY <2>1, <2>2
<1>4. GateIsLogged'
  <2>1. DecisionsOf(requests)' = DecisionsOf(requests)
    BY DEF DecisionsOf
  <2> QED BY <2>1 DEF LogInv, GateIsLogged, Cleared
<1>5. WorkFollowsDecision'
  <2>1. \/ events' = events
        \/ /\ call.phase \in {"forward", "answered"} /\ call.method = "tools/call"
           /\ \E kind, e : EventOf(kind, e) /\ events' = Append(events, e)
    BY <1>0, EffectAdded
  <2> QED BY <1>1, <2>1, WorkIsCovered
<1> QED BY <1>2, <1>3, <1>4, <1>5 DEF LogInv, LogAccountsForWork

LEMMA LogInvPreserved == LogInv /\ [Next]_vars => LogInv'
<1> SUFFICES ASSUME LogInv, [Next]_vars PROVE LogInv'
  OBVIOUS
<1>0. TypeOK /\ TypeOK'
  BY TypePreserved DEF LogInv
<1>1. CASE UNCHANGED vars
  <2>1. UNCHANGED <<config, call, requests, log, events, unread>>
    BY <1>1 DEF vars
  <2>2. LogIsPast' /\ OpenIsUnanswered'
    BY <2>1 DEF LogInv, LogIsPast, OpenIsUnanswered, AtPhase, ResponsesOf
  <2>3. GateIsLogged'
    BY <2>1 DEF LogInv, GateIsLogged, Cleared, DecisionsOf
  <2>4. ResponsesAccounted'
    BY <2>1 DEF LogInv, LogAccountsForWork, ResponsesAccounted, AtPhase, ResponsesOf
  <2>5. WorkFollowsDecision'
    <3>1. \A k : DecisionsOf(k)' = DecisionsOf(k)
      BY <2>1 DEF DecisionsOf
    <3> QED BY <2>1, <3>1, WorkIsCovered
  <2> QED BY <1>0, <2>2, <2>3, <2>4, <2>5 DEF LogInv, LogAccountsForWork
<1>2. ASSUME \/ Stub
             \/ \E done \in BOOLEAN : UpstreamFails(done)
             \/ \E kind \in {"result", "error"} : UpstreamAnswers(kind)
      PROVE  LogInv'
  <2>1. /\ UNCHANGED <<config, requests, log, unread>> /\ call.phase = "forward"
        /\ \E kind : Answer(kind)
        /\ events' = events \/ events' = Worked
    BY <1>2 DEF Stub, UpstreamFails, UpstreamAnswers, AtPhase
  <2> QED BY <1>0, <2>1, AnswerKeeps, UnloggedStepKeepsLog
<1>3. CASE UpstreamGarbles
  <2>1. call'.phase = "idle"
    BY <1>0, <1>3, GotoTyped DEF UpstreamGarbles, Phases
  <2> QED BY <1>0, <1>3, <2>1, UnloggedStepKeepsLog DEF UpstreamGarbles, AtPhase
<1>4. CASE NewSession
  <2>1. call'.phase = "idle"
    BY <1>0, <1>4, GotoTyped DEF NewSession, Phases
  <2> QED BY <1>0, <1>4, <2>1, UnloggedStepKeepsLog DEF NewSession, AtPhase
<1>5. CASE UpstreamTrickles \/ ReadOn
  BY <1>0, <1>5, WaitingTyped, UnloggedStepKeepsLog
<1> QED
  BY <1>1, <1>2, <1>3, <1>4, <1>5, RequestKeepsLog, GateKeepsLog, ResponseKeepsLog
     DEF Next, ProxyStep

(* For every manifest, every upstream and however requests, failures and   *)
(* crashes follow each other: the upstream has worked on a tools/call only *)
(* with a single ALLOW in the log before it, never on an external write    *)
(* for a tainted source, and every request has exactly one response in the *)
(* log unless forward() is still inside it or was left by an exception.    *)
THEOREM LogAlwaysAccounts == Spec => []LogAccountsForWork
<1>1. Init => LogInv
  <2> SUFFICES ASSUME Init PROVE LogInv
    OBVIOUS
  <2>0. TypeOK
    BY InvariantInitially DEF IInv
  <2>1. call.phase = "idle"
    BY DEF Init, NoCall
  <2> QED
    BY <2>0, <2>1 DEF Init, LogInv, LogIsPast, OpenIsUnanswered, GateIsLogged, LogAccountsForWork,
       WorkFollowsDecision, ResponsesAccounted, AtPhase
<1>2. LogInv => LogAccountsForWork
  BY DEF LogInv
<1> QED BY <1>1, <1>2, LogInvPreserved, PTL DEF Spec

=============================================================================
