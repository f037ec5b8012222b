----------------------------- MODULE ApprovalGate -----------------------------
(***************************************************************************)
(* What the approval mechanism promises, apart from how the executor, the  *)
(* store and the API keep it: an action that was asked about is performed  *)
(* only after it was granted, is never performed once refused, is never    *)
(* performed to completion twice, and is forgotten, whatever its phase,    *)
(* when the process restarts.  Executor implements this specification.     *)
(***************************************************************************)
CONSTANT Tokens

VARIABLES phase,        \* token -> where its question stands
          performed     \* tokens whose action ran to completion

vars == <<phase, performed>>

Phases == {"unasked", "open", "granted", "closed", "refused", "lost"}

TypeOK == phase \in [Tokens -> Phases] /\ performed \subseteq Tokens

Init == phase = [k \in Tokens |-> "unasked"] /\ performed = {}

Move(k, from, to) == phase[k] = from /\ phase' = [phase EXCEPT ![k] = to]

Ask(k)    == Move(k, "unasked", "open") /\ UNCHANGED performed
Grant(k)  == Move(k, "open", "granted") /\ UNCHANGED performed
Refuse(k) == Move(k, "open", "refused") /\ UNCHANGED performed

(* The granted action runs to completion.                                  *)
Perform(k) ==
  /\ k \notin performed
  /\ Move(k, "granted", "closed")
  /\ performed' = performed \cup {k}

(* The grant is used up without the action: it no longer exists, or its    *)
(* effect is only simulated.                                               *)
Void(k) ==
  /\ k \notin performed
  /\ Move(k, "granted", "closed")
  /\ UNCHANGED performed

Forget ==
  /\ phase' = [k \in Tokens |-> IF phase[k] = "unasked" THEN "unasked" ELSE "lost"]
  /\ UNCHANGED performed

Next == Forget \/ \E k \in Tokens : Ask(k) \/ Grant(k) \/ Refuse(k) \/ Perform(k) \/ Void(k)

Spec == Init /\ [][Next]_vars

-----------------------------------------------------------------------------
(* What was performed was granted and is settled for good: its question is *)
(* closed, or was forgotten with the process, and nothing else.            *)
PerformedIsSettled == \A k \in performed : phase[k] \in {"closed", "lost"}

=============================================================================
