--------------------------- MODULE MCDecisionInputs ---------------------------
(* One tool and two capabilities: the tool is listed or not, and the call's *)
(* capability has any of the entries while the other has any other.  A      *)
(* clean and a tainted channel, chains of up to two parents: the tainted    *)
(* channel stands first, in the middle, last or nowhere.                    *)
EXTENDS DecisionInputs, TLC

MCChannels == {"cli", "email"}
MCTaintedChannels == {"email"}
MCSymmetry == Permutations(Capabilities)
=============================================================================
