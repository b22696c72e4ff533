---------------------------- MODULE MCTokenReader ----------------------------
(* Values for the model checker: two accounts, their multisig, two lots. *)
EXTENDS TokenReader, TLC

CONSTANTS alice, bob, pair

MCSigners == [p \in {pair} |-> {alice, bob}]
AccountSymmetry == Permutations({alice, bob})
MCFee == [n \in Lots |-> n]
=============================================================================
