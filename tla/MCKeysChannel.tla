---------------------------- MODULE MCKeysChannel ----------------------------
(* Values for the model checker: a mint session and a payment. *)
EXTENDS KeysChannel

CONSTANTS ask, pay

MCKind == [r \in {ask, pay} |-> IF r = ask THEN "session" ELSE "write"]
=============================================================================
