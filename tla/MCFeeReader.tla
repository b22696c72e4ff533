----------------------------- MODULE MCFeeReader -----------------------------
(* Values for the model checker: three roles, one spare account, three rates one step apart. *)
EXTENDS FeeReader

CONSTANTS op, gd, st, spare, zero

MCRoles == [operator |-> op, guardian |-> gd, sentinel |-> st]
MCFeeAt == [r \in Rates |-> r]
\* A reset that makes the spare account the operator.
MCResets == <<[at |-> 3, roles |-> [operator |-> spare, guardian |-> gd, sentinel |-> st]]>>
=============================================================================
