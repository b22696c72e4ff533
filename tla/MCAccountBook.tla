---------------------------- MODULE MCAccountBook ----------------------------
(* Values for the model checker: two roots, two passwords, and what an earlier wallet left. *)
EXTENDS AccountBook

CONSTANTS A, B, p, q

\* Two roots nobody linked, with one password or two, and a root with an account and an old vault.
MCInstalled ==
  {[records |-> {Record(Vault(A, 1, p), 0, 1, TRUE, k), Record(Vault(B, 1, pw), 0, 2, TRUE, NoRoot)},
    active |-> 2, access |-> NoAccess] : pw \in {p, q}, k \in {NoRoot, A}}
  \cup {[records |-> {Record(Vault(A, 1, p), 0, 1, TRUE, NoRoot), Record(Vault(A, 1, p), 1, 2, TRUE, NoRoot)},
    active |-> 1, access |-> NoAccess]}
=============================================================================
