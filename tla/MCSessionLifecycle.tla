------------------------- MODULE MCSessionLifecycle -------------------------
(* Instances of SessionLifecycle for TLC. Two callers need four addresses at *)
(* most: each can own an old session and a new or taken one.                 *)
EXTENDS SessionLifecycle, TLC

(* One failure that is reported as an error and one that is not.             *)
MCOutcomes == {RC_NETWORK_FAILURE, RC_NOT_CONNECTED}
OneOutcome == {RC_NETWORK_FAILURE}
MCSymmetry == Permutations(Callers) \cup Permutations(Sessions) \cup Permutations(Targets)

(* The addresses never run out, so the bound hides no behaviour.             *)
AddressesSuffice ==
    (\E c \in Callers : pc[c] = "create") => \E s \in Sessions : ~Live(s)
=============================================================================
