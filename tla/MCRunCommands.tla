---- MODULE MCRunCommands ----
(* Two clients, two command ids, two input values. *)
EXTENDS RunCommands, TLC

CONSTANTS k1, k2, c1, c2, v1, v2, r1, d1

MCClients == {k1, k2}
MCCommandIds == {c1, c2}
MCValues == {v1, v2}
MCIds == {r1, d1}
MCVerifiers == {}
BothBackends == {"memory", "postgres"}
Symmetry == Permutations(MCClients) \cup Permutations(MCCommandIds) \cup Permutations(MCValues)
====
