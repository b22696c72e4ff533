----------------------------- MODULE MintLedger -----------------------------
(***************************************************************************)
(* The mint session ledger and its history lines: the data of a session    *)
(* record (mint-session.ts, MintSessionRecord and MintAttempt) and the     *)
(* pure rules over it: doubt, the admission counts, the load check, the    *)
(* restart rule and the resolution of an ended record from history.        *)
(*                                                                         *)
(* Abstractions.  A place is one position on one fork of the chain: the    *)
(* block and index a payment can be in, with the block's height and what   *)
(* the payment does there.  Amounts are left to the spend accounting;      *)
(* a history line keeps its status and the place its report names.         *)
(***************************************************************************)
EXTENDS Integers, FiniteSets

CONSTANTS
  MaxAttempts,  \* terms.maxAttempts: signatures the session may produce
  MaxLots,      \* terms.maxLots: lots the session may mint
  Places,       \* positions the chain's forks offer to the session's payments
  NoPlace,      \* null: no recorded inclusion, no reported height
  Height,       \* Height[p]: the height of p's block
  Effect        \* Effect[p]: what a payment at p does there

Attempts == 1..MaxAttempts
Outcomes == {"minted", "lost-race", "failed", "anomaly"}

ASSUME LedgerAssumption ==
  /\ MaxLots \in Nat \ {0}
  /\ MaxAttempts \in Nat
  /\ MaxAttempts >= MaxLots
  /\ NoPlace \notin Places
  /\ Height \in [Places -> Nat]
  /\ Effect \in [Places -> Outcomes]

-----------------------------------------------------------------------------
(* Statuses.  "none" is an attempt the record does not hold yet.           *)
Unresolved    == {"reserved", "signed", "uncertain", "sent", "included"}
WithInclusion == {"included"} \cup Outcomes
NeverRan      == {"cancelled", "dead", "expired", "replaced"}
Status        == {"none", "settled"} \cup Unresolved \cup Outcomes \cup NeverRan
\* The verdicts after which a session may reserve again.
Admitting     == {"minted", "lost-race"}

\* A history line: "pending" also stands for unknown, "included" for indexer-unavailable.
FinalLine  == {"finalized", "expired", "cancelled-before-broadcast"}
LineStatus == {"none", "signed-not-submitted", "broadcast-uncertain", "submitted",
               "pending", "included"} \cup FinalLine

Attempt == [status : Status, hash : BOOLEAN, parent : Places \cup {NoPlace},
            at : Places \cup {NoPlace}, finalized : BOOLEAN, doubt : BOOLEAN]
Record  == [state : {"none", "running", "ended"}, used : 0..MaxAttempts,
            reorganized : BOOLEAN, attempts : [Attempts -> Attempt]]
Line    == [status : LineStatus, at : Places \cup {NoPlace}]
Journal == [Attempts -> Line]

Blank   == [status |-> "none", hash |-> FALSE, parent |-> NoPlace, at |-> NoPlace,
            finalized |-> FALSE, doubt |-> FALSE]
NoLine  == [status |-> "none", at |-> NoPlace]
NoRecord == [state |-> "none", used |-> 0, reorganized |-> FALSE,
             attempts |-> [n \in Attempts |-> Blank]]
NewRecord == [NoRecord EXCEPT !.state = "running"]

\* The attempt P10 reserves, born on a block that descends from `parent`.
Reserved(parent) == [Blank EXCEPT !.status = "reserved", !.parent = parent]

Counted(r, s)     == Cardinality({n \in Attempts : r.attempts[n].status = s})
RacesExhausted(r) == Counted(r, "lost-race") > MaxAttempts - MaxLots
\* Bytes that may have left the wallet.
MayHaveRun(a)     == a.hash /\ a.status \notin {"none", "reserved", "signed", "cancelled"}
Recorded(r)       == {n \in Attempts : r.attempts[n].at # NoPlace}

-----------------------------------------------------------------------------
(* Doubt.                                                                  *)
PutInDoubt(r, S) ==
  [r EXCEPT !.reorganized = @ \/ S # {},
            !.attempts = [n \in Attempts |-> IF n \in S THEN [@[n] EXCEPT !.doubt = TRUE]
                                                       ELSE @[n]]]
\* Mutant: every later payment, released or not.
After_Unreleased(r, k) == {n \in Attempts : n = k \/ (n > k /\ r.attempts[n].status # "none")}
\* `k` and every later payment that may have run.
After(r, k)    == {n \in Attempts : n = k \/ (n > k /\ MayHaveRun(r.attempts[n]))}
DoubtFrom(r, k) == PutInDoubt(r, After(r, k))
\* Every inclusion that is not final yet.
DoubtOpen(r)   == PutInDoubt(r, {n \in Recorded(r) : ~r.attempts[n].finalized})

-----------------------------------------------------------------------------
(* What history says of a payment the ledger resolved.                     *)
Success(outcome) == outcome \in {"minted", "anomaly"}

\* Mutant: a final success or failure never contradicts a verdict in the same block.
Contradicts_Lenient(a, line) ==
  /\ line.status \in FinalLine
  /\ \/ a.status \in NeverRan /\ line.status = "finalized"
     \/ /\ a.status \notin NeverRan \cup {"settled"}
        /\ a.at # NoPlace
        /\ line.status # "finalized" \/ Height[line.at] # Height[a.at]

Contradicts(a, line) ==
  /\ line.status \in FinalLine
  /\ \/ a.status \in NeverRan /\ line.status = "finalized"
     \/ /\ a.status \notin NeverRan \cup {"settled"}
        /\ a.at # NoPlace
        /\ \/ line.status # "finalized"
           \/ Height[line.at] # Height[a.at]
           \/ Success(Effect[line.at]) # Success(a.status)
           \/ (Effect[line.at] = "minted") # (a.status = "minted")

\* The attempts whose line makes resolveFromJournal call doubtFrom.
Contradicted(r, j) ==
  {n \in Attempts :
     LET a == r.attempts[n] IN
       /\ a.hash
       /\ j[n].status # "none"
       /\ IF a.status \in Unresolved
          THEN j[n].status \in FinalLine \ {"finalized"} /\ a.at # NoPlace
          ELSE ~a.doubt /\ Contradicts(a, j[n])}

\* Mutant: history overwrites the verdicts too.
Resolved_Overwrites(a, line) ==
  IF a.hash /\ line.status = "finalized" THEN [a EXCEPT !.status = "settled"] ELSE a

\* An unresolved attempt takes the final status of its line.
Resolved(a, line) ==
  IF a.hash /\ a.status \in Unresolved /\ line.status \in FinalLine
  THEN IF line.status = "finalized"
       THEN [a EXCEPT !.status = "settled"]
       ELSE [a EXCEPT !.status = IF line.status = "expired" THEN "expired" ELSE "cancelled",
                      !.at = NoPlace, !.finalized = FALSE]
  ELSE a

\* Only an ended record is resolved; a running one belongs to its controller.
ResolveFromJournal(r, j) ==
  IF r.state # "ended" THEN r
  ELSE LET doubted == PutInDoubt(r, UNION {After(r, k) : k \in Contradicted(r, j)})
       IN [doubted EXCEPT !.attempts =
             [n \in Attempts |-> Resolved(doubted.attempts[n], j[n])]]

-----------------------------------------------------------------------------
(* Load: the check of a stored record, and what a restart makes of it.     *)
ValidAttempt(a) ==
  /\ ~a.hash => a.status \in {"reserved", "cancelled"}
  /\ a.status \in WithInclusion => a.at # NoPlace
  /\ a.status \notin WithInclusion \cup {"settled"} => a.at = NoPlace
  /\ a.finalized => a.at # NoPlace
  /\ a.at # NoPlace /\ a.parent # NoPlace => Height[a.parent] < Height[a.at]
  /\ a.doubt => a.hash /\ a.status \notin {"reserved", "signed"}

\* parseMintSessionSnapshot's relations between the counters of sessionSnapshot.
ValidCounters(r, attempts) ==
  LET verified(s) == {n \in Attempts : attempts[n].status = s /\ ~attempts[n].doubt}
      unresolved  == {n \in Attempts : attempts[n].doubt /\ attempts[n].hash}
  IN /\ Cardinality(verified("minted")) <= MaxLots
     /\ Cardinality(verified("minted")) + Cardinality(verified("lost-race"))
          + Cardinality(unresolved) <= r.used

ValidRecord(r, j) ==
  LET held   == {n \in Attempts : r.attempts[n].status # "none"}
      before == {n \in held : n + 1 \in held}
      lost   == {n \in before : r.attempts[n].status = "lost-race"}
  IN /\ \E len \in 0..r.used : held = 1..len
     /\ \A n \in held : ValidAttempt(r.attempts[n])
     /\ r.reorganized <=> \E n \in held : r.attempts[n].doubt
     /\ \A n \in before : r.attempts[n].status \in Admitting
     /\ r.state = "running" => Cardinality(lost) <= MaxAttempts - MaxLots
     /\ \A n \in held : r.attempts[n].status = "settled" => r.state = "ended"
     /\ \A n \in held : r.attempts[n].hash => j[n].status # "none"
     /\ ValidCounters(r, r.attempts)
     /\ ValidCounters(r, [n \in Attempts |-> [r.attempts[n] EXCEPT !.doubt = FALSE]])

\* A running record that no controller owns ends; attempts never released are cancelled.
EndUnowned(r) ==
  IF r.state # "running" THEN r
  ELSE [r EXCEPT !.state = "ended",
                 !.attempts = [n \in Attempts |->
                    IF @[n].status \in {"reserved", "signed"}
                    THEN [@[n] EXCEPT !.status = "cancelled"] ELSE @[n]]]

\* History's own restart rule.
LoadJournal(j) ==
  [n \in Attempts |-> IF j[n].status = "signed-not-submitted"
                      THEN [j[n] EXCEPT !.status = "cancelled-before-broadcast"] ELSE j[n]]

\* A ledger that breaks its rules is archived and replaced by an empty one.
LoadRecord(r, j) ==
  IF ValidRecord(r, j) THEN ResolveFromJournal(EndUnowned(r), LoadJournal(j)) ELSE NoRecord

\* The settle task has nothing left to follow.
SettledNow(r) ==
  \A n \in Attempts : LET a == r.attempts[n] IN
    a.doubt \/ (a.status \notin Unresolved /\ (a.at = NoPlace \/ a.finalized))
=============================================================================
