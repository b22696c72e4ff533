---------------------------- MODULE MCAttestation ----------------------------
(* Values for the model checker: two witnesses, the second faulty, and a window left open over an
   update of the wallet, whose policy ends first. *)
EXTENDS Attestation

CONSTANTS w1, w2, old, new

MCBuild == [t \in {old, new} |-> IF t = old THEN 1 ELSE 2]
MCUntil == <<3, 5>>
MCLive == {Block(h, f) : h \in 1..3, f \in {0}}
=============================================================================
