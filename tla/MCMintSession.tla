--------------------------- MODULE MCMintSession ---------------------------
(* Values for the model checker: the forks a session's payments can land on. *)
EXTENDS MintSession

CONSTANTS raceA, lotB, lotC, failD

\* Two forks offer the first payment a lost race at `raceA` or a lot at `lotB`; `lotC` is a lot above
\* either, `failD` a failure above either.
MCHeight == [p \in Places |-> IF p \in {raceA, lotB} THEN 1 ELSE 2]
MCEffect == [p \in Places |-> CASE p = raceA -> "lost-race"
                                [] p = failD -> "failed"
                                [] OTHER -> "minted"]
=============================================================================
