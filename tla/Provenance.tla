------------------------------ MODULE Provenance ------------------------------
(***************************************************************************)
(* Provenance of a request (safe_mcp_proxy/provenance.py): the channel it  *)
(* came from, the channels it was derived through, and whether any of them *)
(* taints it.  A chain is started by from_source, which computes the taint *)
(* from the whole list of channels, and extended by derive, which keeps    *)
(* only a running flag.  The objects are frozen: a step of this module     *)
(* replaces the provenance a caller holds by another one.                  *)
(***************************************************************************)
EXTENDS Sequences, Naturals

CONSTANTS Channels,         \* source channels a caller may name
          TaintedChannels,  \* TAINTED_CHANNELS: email, web, tool_output
          MaxParents        \* bound on the length of a chain

ASSUME TaintedAssumption == TaintedChannels \subseteq Channels
ASSUME MaxParentsAssumption == MaxParents \in Nat

Modes == {"INTERACTIVE", "BACKGROUND"}

Provenances ==
  [channel : Channels, tainted : BOOLEAN, parents : Seq(Channels), mode : Modes]

VARIABLE prov               \* the provenance the caller holds

provVars == <<prov>>

-----------------------------------------------------------------------------
SomeTainted(parents) == \E i \in DOMAIN parents : parents[i] \in TaintedChannels

FromSource(channel, parents, mode) ==
  [channel |-> channel,
   tainted |-> channel \in TaintedChannels \/ SomeTainted(parents),
   parents |-> parents,
   mode    |-> mode]

\* Deliberate error, for the mutation runs: derive looks at the new channel only.
DeriveForgettingTaint(p, channel) ==
  [channel |-> channel, tainted |-> channel \in TaintedChannels,
   parents |-> Append(p.parents, p.channel), mode |-> p.mode]

Derive(p, channel) ==
  [channel |-> channel,
   tainted |-> p.tainted \/ channel \in TaintedChannels,
   parents |-> Append(p.parents, p.channel),
   mode    |-> p.mode]

-----------------------------------------------------------------------------
(* A caller starts a chain with the parents it declares, at most MaxParents.*)
ParentLists == UNION {[1..n -> Channels] : n \in 0..MaxParents}

ProvInit == \E c \in Channels, ps \in ParentLists, m \in Modes : prov = FromSource(c, ps, m)

(* A tool's output, or any later message, is derived from what is held.    *)
DeriveStep ==
  \E c \in Channels :
    /\ Len(prov.parents) < MaxParents
    /\ prov' = Derive(prov, c)

ProvNext == DeriveStep

ProvSpec == ProvInit /\ [][ProvNext]_provVars

-----------------------------------------------------------------------------
ProvTypeOK == prov \in Provenances

(* The flag that derive carries along is the flag from_source would        *)
(* compute from the recorded chain: an auditor who has only the channel    *)
(* and its parents reaches the taint the policy was given, however long    *)
(* the chain and wherever in it the tainted channel stood.                 *)
FlagIsRecomputable == prov = FromSource(prov.channel, prov.parents, prov.mode)

(* derive never launders a request: taint, once there, stays, and a        *)
(* background chain (for which ASK collapses to DENY) never becomes an     *)
(* interactive one.                                                        *)
DeriveNeverLaunders ==
  [][DeriveStep => /\ prov.tainted => prov'.tainted
                   /\ prov'.mode = prov.mode]_provVars

=============================================================================
