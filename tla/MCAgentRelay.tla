---------------------------- MODULE MCAgentRelay ----------------------------
(* An instance of AgentRelay for TLC: two sessions of two principals that    *)
(* follow each other on one slot.                                            *)
EXTENDS AgentRelay, TLC

CONSTANTS a, b, s1, c1, c2

MCOwner == [i \in {a, b, Boot} |-> i]

RelaySymmetry == Permutations(Calls) \cup Permutations({a, b})

=============================================================================
