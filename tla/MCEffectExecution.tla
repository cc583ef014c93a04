---- MODULE MCEffectExecution ----
(* Two workers, one effect. *)
EXTENDS EffectExecution, TLC

CONSTANTS w1, w2, e1

MCWorkers == {w1, w2}
MCIds == {e1}
MCVerifiers == {}
Unproved == {"native"}
LookedUp == {"reconcilable"}
LookedUpOrNot == {"native", "reconcilable"}
Symmetry == Permutations(MCWorkers)
====
