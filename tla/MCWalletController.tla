------------------------ MODULE MCWalletController ------------------------
(* Values for the model checker: requests and messages are interchangeable. *)
EXTENDS WalletController, TLC

CONSTANTS a1, a2, n1, n2

MCFirst == [account |-> a1, network |-> n1]
Symmetry == Permutations(Requests) \cup Permutations(Calls)
=============================================================================
