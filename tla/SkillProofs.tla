------------------------------ MODULE SkillProofs ------------------------------
(***************************************************************************)
(* The projection and the execution guard agree, for every manifest, every *)
(* context and every number of calls.                                      *)
(***************************************************************************)
EXTENDS SkillExecution, TLAPS

(* What the last reply and the last listing were computed from: neither    *)
(* the manifest nor the engine changes while the process runs.             *)
ReplyIsGuard ==
  reply.known =>
    LET d == Guard(reply.name, reply.context, reply.taint, reply.payload)
    IN  /\ reply.decision = d.decision /\ reply.rule = d.rule
        /\ reply.name \in Names
        /\ reply.result = ResultOf(d.decision, SideEffectOf(reply.name))

ListingIsVisible ==
  listing.known => listing.visible = Visible(listing.context)

IInv == TypeOK /\ ReplyIsGuard /\ ListingIsVisible

-----------------------------------------------------------------------------
(* An ALLOW has passed every rule of the guard.                            *)
LEMMA GuardAllows ==
  ASSUME NEW name, NEW ctx, NEW taint, NEW payload,
         Guard(name, ctx, taint, payload).decision = "ALLOW"
  PROVE  /\ name \in Keys /\ Capability(name).allowed
         /\ ~(projecting /\ SideEffectDenied(Capability(name), ctx))
         /\ ~(Capability(name).provenanceRequired /\ taint)
         /\ ~(Capability(name).requiresApproval /\ name \notin ctx.approved)
         /\ payload \cap Capability(name).constraints = {}
  BY DEF Guard, Denied, Outcome

(* An ASK has passed the rules before the approval rule.                   *)
LEMMA GuardAsks ==
  ASSUME NEW name, NEW ctx, NEW taint, NEW payload,
         Guard(name, ctx, taint, payload).decision = "ASK"
  PROVE  /\ name \in Keys /\ Capability(name).allowed
         /\ ~(projecting /\ SideEffectDenied(Capability(name), ctx))
         /\ ~(Capability(name).provenanceRequired /\ taint)
  BY DEF Guard, Denied, Outcome

(* What is projected meets only the rules the projection is not told of.   *)
LEMMA ProjectedPasses ==
  ASSUME NEW name, NEW ctx, NEW taint, NEW payload,
         name \in Projected(ctx)
  PROVE  Guard(name, ctx, taint, payload).rule
           \in {"provenance_violation", "constraint_violation", "default_allow"}
  BY DEF Guard, Denied, Outcome, Projected, Hidden, SideEffectDenied

-----------------------------------------------------------------------------
LEMMA InitEstablishes == Init => IInv
<1> SUFFICES ASSUME Init PROVE IInv
    OBVIOUS
<1>1. TypeOK
  BY DEF Init, TypeOK
<1>2. ReplyIsGuard /\ ListingIsVisible
  BY DEF Init, ReplyIsGuard, ListingIsVisible, NoReply, NoListing
<1>3. QED
  BY <1>1, <1>2 DEF IInv

-----------------------------------------------------------------------------
(* Types: a compiled capability has an effect of the manifest's, and a     *)
(* decision comes with one of the rules.                                   *)
LEMMA SideEffectTyped ==
  ASSUME TypeOK, NEW name \in Names
  PROVE  SideEffectOf(name) \in Effects \cup {"undefined"}
<1>1. manifest[name] \in RawEntries
  BY ManifestsAssumption DEF TypeOK
<1>2. manifest[name].sideEffect \in Effects \cup {"absent"}
  BY <1>1 DEF RawEntries
<1>3. Capability(name).sideEffect \in Effects
  BY <1>2, EffectsAssumption DEF Capability, Compiled
<1>4. QED
  BY <1>3 DEF SideEffectOf

LEMMA ReplyTyped ==
  ASSUME TypeOK, reply.known PROVE reply \in Replies
<1>1. CASE reply = NoReply
  BY <1>1 DEF NoReply
<1>2. QED
  BY <1>1 DEF TypeOK

LEMMA GuardTyped ==
  ASSUME NEW name, NEW ctx, NEW taint, NEW payload
  PROVE  /\ Guard(name, ctx, taint, payload).decision \in Decisions
         /\ Guard(name, ctx, taint, payload).rule \in Rules
  BY DEF Guard, Denied, Outcome, Decisions, Rules

LEMMA VisibleTyped ==
  ASSUME NEW ctx PROVE Visible(ctx) \in SUBSET Names
  BY DEF Visible, Projected, Keys, Defined

LEMMA TypePreserved == TypeOK /\ [Next]_vars => TypeOK'
<1> SUFFICES ASSUME TypeOK, [Next]_vars PROVE TypeOK'
    OBVIOUS
<1>1. CASE UNCHANGED vars
  BY <1>1 DEF TypeOK, vars
<1>2. ASSUME NEW ctx \in Contexts, ListTools(ctx) PROVE TypeOK'
  <2>1. listing' \in Listings
    BY <1>2, VisibleTyped DEF ListTools, Listings
  <2>2. [tool |-> "list_tools", decision |-> "ALLOW", rule |-> "projection",
         taint |-> FALSE, background |-> ctx.background, readonly |-> ctx.readonly,
         sideEffect |-> "undefined"] \in Entries
    BY DEF Entries, Decisions, Rules, Contexts
  <2>3. audit' \in Seq(Entries)
    BY <1>2, <2>2 DEF ListTools, TypeOK
  <2>4. QED
    BY <1>2, <2>1, <2>3 DEF ListTools, TypeOK, Count
<1>3. ASSUME NEW ctx \in Contexts, NEW name \in Names, NEW taint \in BOOLEAN,
             NEW payload \in Payloads, ExecuteSkill(name, ctx, taint, payload)
      PROVE  TypeOK'
  <2> DEFINE d == Guard(name, ctx, taint, payload)
  <2>1. d.decision \in Decisions /\ d.rule \in Rules
    BY GuardTyped
  <2>2. SideEffectOf(name) \in Effects \cup {"undefined"}
    BY SideEffectTyped
  <2>3. ResultOf(d.decision, SideEffectOf(name)) \in {"real", "simulated", "none"}
    BY DEF ResultOf
  <2> HIDE DEF d
  <2>4. reply' \in Replies
    BY <1>3, <2>1, <2>3 DEF ExecuteSkill, Replies, d
  <2>5. [tool |-> name, decision |-> d.decision, rule |-> d.rule, taint |-> taint,
         background |-> ctx.background, readonly |-> ctx.readonly,
         sideEffect |-> SideEffectOf(name)] \in Entries
    BY <2>1, <2>2 DEF Entries, Contexts
  <2>6. audit' \in Seq(Entries)
    BY <1>3, <2>5 DEF ExecuteSkill, TypeOK, d
  <2>7. QED
    BY <1>3, <2>4, <2>6 DEF ExecuteSkill, TypeOK, Count
<1>4. ASSUME NEW ctx \in Contexts, NEW name \in Names, NEW taint \in BOOLEAN,
             NEW payload \in Payloads, ExecuteSkillRaises(name, ctx, taint, payload)
      PROVE  TypeOK'
  BY <1>4 DEF ExecuteSkillRaises, TypeOK, Count
<1>5. QED
  BY <1>1, <1>2, <1>3, <1>4 DEF Next


LEMMA NextKeepsConfiguration ==
  [Next]_vars => UNCHANGED <<manifest, projecting, simulating>>
<1> SUFFICES ASSUME [Next]_vars PROVE UNCHANGED <<manifest, projecting, simulating>>
    OBVIOUS
<1>1. CASE UNCHANGED vars
  BY <1>1 DEF vars
<1>2. ASSUME NEW ctx \in Contexts, ListTools(ctx)
      PROVE  UNCHANGED <<manifest, projecting, simulating>>
  BY <1>2 DEF ListTools
<1>3. ASSUME NEW ctx \in Contexts, NEW name \in Names, NEW taint \in BOOLEAN,
             NEW payload \in Payloads,
             \/ ExecuteSkill(name, ctx, taint, payload)
             \/ ExecuteSkillRaises(name, ctx, taint, payload)
      PROVE  UNCHANGED <<manifest, projecting, simulating>>
  BY <1>3 DEF ExecuteSkill, ExecuteSkillRaises
<1>4. QED
  BY <1>1, <1>2, <1>3 DEF Next

(* Operators that read only the configuration keep their value.            *)
LEMMA NextPreserves == IInv /\ [Next]_vars => IInv'
<1> SUFFICES ASSUME IInv, [Next]_vars PROVE IInv'
    OBVIOUS
<1>1. UNCHANGED <<manifest, projecting, simulating>>
  BY NextKeepsConfiguration
<1> USE DEF IInv, ReplyIsGuard, ListingIsVisible
<1>2. ReplyIsGuard'
  <2>1. CASE UNCHANGED reply
    BY <1>1, <2>1 DEF Guard, Denied, Outcome, Keys, Capability, Compiled, Defined,
       SideEffectDenied, ResultOf, SideEffectOf, Simulated
  <2>2. ASSUME NEW ctx \in Contexts, NEW name \in Names, NEW taint \in BOOLEAN,
               NEW payload \in Payloads, ExecuteSkill(name, ctx, taint, payload)
        PROVE  ReplyIsGuard'
    <3>1. /\ reply'.name = name /\ reply'.context = ctx
          /\ reply'.taint = taint /\ reply'.payload = payload
          /\ reply'.decision = Guard(name, ctx, taint, payload).decision
          /\ reply'.rule = Guard(name, ctx, taint, payload).rule
          /\ reply'.result = ResultOf(Guard(name, ctx, taint, payload).decision,
                                      SideEffectOf(name))
      BY <2>2 DEF ExecuteSkill
    <3>2. Guard(name, ctx, taint, payload)' = Guard(name, ctx, taint, payload)
      BY <1>1 DEF Guard, Denied, Outcome, Keys, Capability, Compiled, Defined,
         SideEffectDenied
    <3>3. ASSUME NEW d
          PROVE  ResultOf(d, SideEffectOf(name))' = ResultOf(d, SideEffectOf(name))
      BY <1>1 DEF ResultOf, SideEffectOf, Simulated, Keys, Capability, Compiled, Defined
    <3>4. QED
      BY <3>1, <3>2, <3>3
  <2>3. QED
    BY <2>1, <2>2 DEF Next, vars, ListTools, ExecuteSkillRaises
<1>3. ListingIsVisible'
  <2>1. CASE UNCHANGED listing
    BY <1>1, <2>1 DEF Visible, Projected, Hidden, Keys, Capability, Compiled, Defined
  <2>2. ASSUME NEW ctx \in Contexts, ListTools(ctx) PROVE ListingIsVisible'
    <3>1. listing'.context = ctx /\ listing'.visible = Visible(ctx)
      BY <2>2 DEF ListTools
    <3>2. QED
      BY <1>1, <3>1 DEF Visible, Projected, Hidden, Keys, Capability, Compiled, Defined
  <2>3. ASSUME NEW ctx \in Contexts, NEW name \in Names, NEW taint \in BOOLEAN,
               NEW payload \in Payloads,
               \/ ExecuteSkill(name, ctx, taint, payload)
               \/ ExecuteSkillRaises(name, ctx, taint, payload)
        PROVE  UNCHANGED listing
    BY <2>3 DEF ExecuteSkill, ExecuteSkillRaises
  <2>4. CASE UNCHANGED vars
    BY <2>1, <2>4 DEF vars
  <2>5. QED
    BY <2>1, <2>2, <2>3, <2>4 DEF Next
<1>4. QED
  BY <1>2, <1>3, TypePreserved

(* At every moment the last reply and the last listing are those of the    *)
(* configuration that is still in force.                                   *)
THEOREM GuardAndListingKnown == Spec => []IInv
  BY InitEstablishes, NextPreserves, PTL DEF Spec

(* Every variable keeps its type.                                          *)
THEOREM SkillTypeCorrect == Spec => []TypeOK
<1>1. IInv => TypeOK
  BY DEF IInv
<1>2. QED
  BY <1>1, GuardAndListingKnown, PTL

-----------------------------------------------------------------------------
(* What the guard lets through, a listing in the same context would show.  *)
THEOREM AllowedIsVisible == Spec => []AllowedWasVisible
<1>1. IInv => AllowedWasVisible
  <2> SUFFICES ASSUME IInv, reply.known, projecting, reply.decision = "ALLOW"
               PROVE  reply.name \in Projected(reply.context)
    BY DEF AllowedWasVisible
  <2>1. Guard(reply.name, reply.context, reply.taint, reply.payload).decision = "ALLOW"
    BY DEF IInv, ReplyIsGuard
  <2>2. QED
    BY <2>1, GuardAllows DEF Projected, Hidden, SideEffectDenied, Keys, Defined
<1>2. QED
  BY <1>1, GuardAndListingKnown, PTL

(* What a listing showed is refused, in the same context, only for the     *)
(* provenance or the payload.                                              *)
THEOREM ListedStaysCallable == Spec => []ListedIsCallable
<1>1. IInv => ListedIsCallable
  <2> SUFFICES ASSUME IInv, listing.known, reply.known, reply.context = listing.context,
                      reply.name \in listing.visible
               PROVE  reply.rule
                        \in {"provenance_violation", "constraint_violation", "default_allow"}
    BY DEF ListedIsCallable
  <2>1. reply.name \in Projected(reply.context)
    BY DEF IInv, ListingIsVisible, Visible
  <2>2. QED
    BY <2>1, ProjectedPasses DEF IInv, ReplyIsGuard
<1>2. QED
  BY <1>1, GuardAndListingKnown, PTL

(* Guard and projection, written apart, open the same doors.               *)
THEOREM GuardIsProjection == Spec => []GuardMatchesProjection
<1>1. AllowedWasVisible /\ ListedIsCallable => GuardMatchesProjection
  BY DEF GuardMatchesProjection
<1>2. QED
  BY <1>1, AllowedIsVisible, ListedStaysCallable, PTL

(* A question stands last but for the constraints.                         *)
THEOREM AsksAreAnswerable == Spec => []AskIsAnswerable
<1>1. IInv => AskIsAnswerable
  <2> SUFFICES ASSUME IInv, reply.known, reply.decision = "ASK",
                      NEW approved,
                      approved = [reply.context EXCEPT !.approved = @ \cup {reply.name}]
               PROVE  Guard(reply.name, approved, reply.taint, reply.payload).rule
                        \in {"constraint_violation", "default_allow"}
    BY DEF AskIsAnswerable
  <2>1. Guard(reply.name, reply.context, reply.taint, reply.payload).decision = "ASK"
    BY DEF IInv, ReplyIsGuard
  <2>2. reply.context \in Contexts
    BY ReplyTyped DEF IInv, Replies
  <2>3. QED
    BY <2>1, <2>2, GuardAsks DEF Guard, Denied, Outcome, SideEffectDenied, Contexts
<1>2. QED
  BY <1>1, GuardAndListingKnown, PTL

(* A real result under the simulation flag is one of a capability that     *)
(* writes nothing, whatever words the manifest has for the other effects.  *)
THEOREM SimulationAlwaysCovers == Spec => []SimulationCoversEffects
<1>1. IInv => SimulationCoversEffects
  <2> SUFFICES ASSUME IInv, reply.known, simulating, reply.result = "real"
               PROVE  manifest[reply.name].sideEffect \in Harmless \cup {"absent"}
    BY DEF SimulationCoversEffects
  <2> DEFINE d == Guard(reply.name, reply.context, reply.taint, reply.payload)
  <2>1. ResultOf(d.decision, SideEffectOf(reply.name)) = "real"
    BY DEF IInv, ReplyIsGuard
  <2>2. d.decision = "ALLOW" /\ ~Simulated(SideEffectOf(reply.name))
    BY <2>1 DEF ResultOf
  <2>3. reply.name \in Keys
    BY <2>2, GuardAllows
  <2>4. Capability(reply.name).sideEffect \in Harmless
    BY <2>2, <2>3 DEF Simulated, SideEffectOf
  <2> QED BY <2>4 DEF Capability, Compiled
<1> QED BY <1>1, GuardAndListingKnown, PTL

=============================================================================
