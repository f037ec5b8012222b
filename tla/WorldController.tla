---------------------------- MODULE WorldController ----------------------------
(***************************************************************************)
(* The mutable pointer to the active world                                 *)
(* (safe_mcp_proxy/world_controller.py) under threads.  Switchers call     *)
(* switch(); callers do what _resolve_components and GET /worlds/current   *)
(* do, which is to read the world and the id of the world one after the    *)
(* other, each under the lock.  A thread may be preempted between any two  *)
(* steps.  A compiled manifest is identified with the world it came from;  *)
(* manifests on disk do not change.                                        *)
(***************************************************************************)
EXTENDS Naturals, Sequences, FiniteSets

CONSTANTS Tools,
          Worlds,        \* ids with a manifest
          Allowlist,     \* world -> its allowlist
          InitialWorld,
          Switchers, Callers,
          MaxHistory     \* bound: length of the history

Free == "free"

ASSUME ControllerAssumption ==
  /\ InitialWorld \in Worlds
  /\ Allowlist \in [Worlds -> SUBSET Tools]
  /\ Switchers \cap Callers = {} /\ Free \notin Switchers
  /\ MaxHistory \in Nat

VARIABLES lock,          \* the thread in a critical section, or Free
          world, worldId, history,
          pc,            \* where each thread is
          switch,        \* a switcher's locals: target, old id, old allowlist
          seen,          \* a caller's locals: the world and the id it read
          diffs          \* what switch() has returned, with the position in
                         \* the history each one was installed at

controllerVars == <<lock, world, worldId, history, pc, switch, seen, diffs>>

Threads == Switchers \cup Callers
None == "none"

(* A read remembers, as history, how many worlds had been installed.       *)
NothingSeen == [world |-> None, worldAt |-> 0, id |-> None, idAt |-> 0]
NoSwitch == [target |-> None, from |-> None, oldAllowlist |-> {}]

ControllerTypeOK ==
  /\ lock \in Threads \cup {Free}
  /\ world \in Worlds /\ worldId \in Worlds
  /\ history \in Seq(Worlds)
  /\ pc \in [Threads -> {"idle", "compiled", "locked", "installed", "named", "read", "resolved"}]
  /\ \A t \in Switchers : switch[t].target \in Worlds \cup {None}
  /\ \A c \in Callers : seen[c].world \in Worlds \cup {None}
  /\ \A d \in diffs : d.at \in 2..Len(history)

ControllerInit ==
  /\ lock = Free
  /\ world = InitialWorld
  /\ worldId = InitialWorld
  /\ history = <<InitialWorld>>
  /\ pc = [t \in Threads |-> "idle"]
  /\ switch = [t \in Switchers |-> NoSwitch]
  /\ seen = [c \in Callers |-> NothingSeen]
  /\ diffs = {}

Goto(t, from, to) == pc[t] = from /\ pc' = [pc EXCEPT ![t] = to]

-----------------------------------------------------------------------------
(* switch(): the manifest is compiled before the lock is taken; an id      *)
(* without one raises WorldNotFoundError there, and changes nothing.       *)
InFlight == Cardinality({t \in Switchers : pc[t] # "idle"})

Compile(t, w) ==
  /\ Goto(t, "idle", "compiled")
  /\ Len(history) + InFlight < MaxHistory
  /\ switch' = [switch EXCEPT ![t].target = w]
  /\ UNCHANGED <<lock, world, worldId, history, seen, diffs>>

\* Deliberate error, for the mutation runs: the critical section without a lock.
AcquireWithoutLock(t) ==
  /\ Goto(t, "compiled", "locked")
  /\ switch' = [switch EXCEPT ![t].from = worldId, ![t].oldAllowlist = Allowlist[world]]
  /\ UNCHANGED <<lock, world, worldId, history, seen, diffs>>

Acquire(t) ==
  /\ lock = Free
  /\ Goto(t, "compiled", "locked")
  /\ lock' = t
  /\ switch' = [switch EXCEPT ![t].from = worldId, ![t].oldAllowlist = Allowlist[world]]
  /\ UNCHANGED <<world, worldId, history, seen, diffs>>

InstallWorld(t) ==
  /\ Goto(t, "locked", "installed")
  /\ world' = switch[t].target
  /\ UNCHANGED <<lock, worldId, history, switch, seen, diffs>>

InstallId(t) ==
  /\ Goto(t, "installed", "named")
  /\ worldId' = switch[t].target
  /\ UNCHANGED <<lock, world, history, switch, seen, diffs>>

ReturnWith(t, release) ==
  /\ Goto(t, "named", "idle")
  /\ history' = Append(history, switch[t].target)
  /\ lock' = IF release THEN Free ELSE lock
  /\ LET old == switch[t].oldAllowlist
         new == Allowlist[switch[t].target]
     IN  diffs' = diffs \cup {[at |-> Len(history) + 1, from |-> switch[t].from,
                               to |-> switch[t].target,
                               appeared |-> new \ old, vanished |-> old \ new]}
  /\ switch' = [switch EXCEPT ![t] = NoSwitch]
  /\ UNCHANGED <<world, worldId, seen>>

\* Deliberate error, for the mutation runs: a return that keeps the lock.
ReturnKeepingLock(t) == ReturnWith(t, FALSE)

(* The history is extended, the lock released and the diff returned.       *)
Return(t) == ReturnWith(t, TRUE)

-----------------------------------------------------------------------------
(* The property .world, then current_id(): two critical sections.          *)

ReadWorld(c) ==
  /\ lock = Free
  /\ Goto(c, "idle", "read")
  /\ seen' = [seen EXCEPT ![c] = [NothingSeen EXCEPT !.world = world, !.worldAt = Len(history)]]
  /\ UNCHANGED <<lock, world, worldId, history, switch, diffs>>

ReadId(c) ==
  /\ lock = Free
  /\ Goto(c, "read", "resolved")
  /\ seen' = [seen EXCEPT ![c].id = worldId, ![c].idAt = Len(history)]
  /\ UNCHANGED <<lock, world, worldId, history, switch, diffs>>

(* The call that needed the pair is over.                                  *)
CallEnds(c) ==
  /\ Goto(c, "resolved", "idle")
  /\ seen' = [seen EXCEPT ![c] = NothingSeen]
  /\ UNCHANGED <<lock, world, worldId, history, switch, diffs>>

SwitchStep(t) == Acquire(t) \/ InstallWorld(t) \/ InstallId(t) \/ Return(t)
CallStep(c) == ReadId(c) \/ CallEnds(c)

ControllerNext ==
  \/ \E t \in Switchers : SwitchStep(t) \/ \E w \in Worlds : Compile(t, w)
  \/ \E c \in Callers : ReadWorld(c) \/ CallStep(c)

(* Every thread that can run is eventually run; whether a new switch or a  *)
(* new call is ever made is up to the environment.                         *)
ControllerFairness ==
  /\ \A t \in Switchers : WF_controllerVars(SwitchStep(t))
  /\ \A c \in Callers : WF_controllerVars(CallStep(c))

ControllerSpec == ControllerInit /\ [][ControllerNext]_controllerVars /\ ControllerFairness

-----------------------------------------------------------------------------
(* What any thread sees through the lock is one installed world: the       *)
(* manifest, its id and the end of the history belong together.            *)
ConsistentWhenFree ==
  lock = Free => world = worldId /\ world = history[Len(history)]

(* Each diff that switch() returns, to whichever thread and in whatever    *)
(* order the calls return, is the difference of two consecutive worlds of  *)
(* the history, so that a client replaying the diffs keeps the right tools.*)
DiffsFollowHistory ==
  \A d \in diffs :
    /\ d.from = history[d.at - 1] /\ d.to = history[d.at]
    /\ d.appeared = Allowlist[d.to] \ Allowlist[d.from]
    /\ d.vanished = Allowlist[d.from] \ Allowlist[d.to]

(* No switch is left without its diff, and no two share a position.        *)
OneDiffPerSwitch ==
  lock = Free => \A i \in 2..Len(history) :
    \E d \in diffs : d.at = i /\ \A e \in diffs : e.at = i => e = d

(* The pair a call works with may be torn, but only forward: both halves   *)
(* were installed while the call ran, and the id is never older than the   *)
(* policy, so a call is never logged under a world that was already gone.  *)
TornOnlyForward ==
  \A c \in Callers : pc[c] = "resolved" =>
    /\ seen[c].worldAt <= seen[c].idAt
    /\ seen[c].world = history[seen[c].worldAt]
    /\ seen[c].id = history[seen[c].idAt]

(* Whatever the threads do, a lock around the whole of switch() and around *)
(* each read makes installed worlds, diffs and reads fit together.         *)
SwitchesChainUp ==
  ConsistentWhenFree /\ DiffsFollowHistory /\ OneDiffPerSwitch /\ TornOnlyForward

(* Every switch that was compiled comes into effect and returns, and every *)
(* call resolves: no thread leaves with the lock.                          *)
SwitchReturns == \A t \in Switchers : pc[t] = "compiled" ~> pc[t] = "idle"
CallResolves == \A c \in Callers : pc[c] = "read" ~> pc[c] = "resolved"

=============================================================================
