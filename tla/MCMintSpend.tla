----------------------------- MODULE MCMintSpend -----------------------------
(* Values for the model checker: three lots, each dearer than the last. *)
EXTENDS MintSpend

MCFee == [n \in 1..Lots |-> n]
=============================================================================
