------------------------- MODULE MintSession_proofs -------------------------
(***************************************************************************)
(* Theorems about one mint session (MintSession), for every bound, every   *)
(* set of forks and every number of attempts.  First what the ledger       *)
(* operators of MintLedger do to a record, and the types.  Then what a     *)
(* session remembers of its payments.  What left: no payment that left is  *)
(* ever said not to have, in memory or in storage, its signature is        *)
(* counted, and a stopped session counts, signs and sends nothing.  The    *)
(* ledger: it passes the load check, its verdicts stand, and only verified *)
(* payments admit a signature.  The history: final lines stay, are true,   *)
(* open the account only over settled payments, and correct the ledger's   *)
(* verdicts.                                                               *)
(***************************************************************************)
EXTENDS MintSession, FiniteSetTheorems, TLAPS

-----------------------------------------------------------------------------
(* The ledger operators: each returns a record, and none but a reservation *)
(* or a reset changes which attempts the record holds or how many          *)
(* signatures it counts.                                                   *)

\* b is held if a is, and an included b has a place, or the one a had.
SameAttempt(a, b) ==
  /\ b.status = "none" <=> a.status = "none"
  /\ b.status = "included" => b.at # NoPlace \/ (a.status = "included" /\ b.at = a.at)

\* s holds the attempts r holds, with the same signature count.
SameAttempts(r, s) ==
  /\ s \in Record
  /\ s.used = r.used
  /\ \A n \in Attempts : SameAttempt(r.attempts[n], s.attempts[n])

\* The attempts r holds are its first ones, each was counted, and the included have a place.
Shaped(r) ==
  /\ \E len \in 0..r.used : {n \in Attempts : r.attempts[n].status # "none"} = 1..len
  /\ \A n \in Attempts : r.attempts[n].status = "included" => r.attempts[n].at # NoPlace

-----------------------------------------------------------------------------
\* The constants are what the assumption says.
LEMMA ConstantTypes ==
  /\ MaxLots \in Nat \ {0} /\ MaxAttempts \in Nat /\ MaxLots <= MaxAttempts
  /\ Effect \in [Places -> Outcomes] /\ Height \in [Places -> Nat] /\ NoPlace \notin Places
BY LedgerAssumption DEF LedgerAssumption

\* Each status the code writes by name is one.
LEMMA StatusNames ==
  /\ {"none", "reserved", "signed", "uncertain", "sent", "included", "minted", "lost-race",
      "failed", "anomaly", "cancelled", "dead", "expired", "replaced", "settled"} = Status
  /\ Outcomes \subseteq Status \ {"none"}
BY DEF Status, Unresolved, Outcomes, NeverRan

\* Each status a history line takes by name is one.
LEMMA LineNames ==
  {"none", "signed-not-submitted", "broadcast-uncertain", "submitted", "pending", "included",
   "finalized", "expired", "cancelled-before-broadcast"} = LineStatus
BY DEF LineStatus, FinalLine

\* A payment in doubt keeps its status and its place.
LEMMA PutInDoubtKeeps ==
  ASSUME NEW r \in Record, NEW S
  PROVE  SameAttempts(r, PutInDoubt(r, S)) /\ PutInDoubt(r, S).state = r.state
<1>1. \A n \in Attempts : r.attempts[n] \in Attempt  BY DEF Record
<1>2. \A n \in Attempts : [r.attempts[n] EXCEPT !.doubt = TRUE] \in Attempt
  BY <1>1 DEF Attempt
<1>3. r.reorganized \in BOOLEAN  BY DEF Record
<1>4. (r.reorganized \/ S # {}) \in BOOLEAN  BY <1>3
<1> DEFINE new == [n \in Attempts |-> IF n \in S THEN [r.attempts[n] EXCEPT !.doubt = TRUE]
                                                 ELSE r.attempts[n]]
<1>5. new \in [Attempts -> Attempt]  BY <1>1, <1>2
<1>6. PutInDoubt(r, S) = [r EXCEPT !.reorganized = r.reorganized \/ S # {}, !.attempts = new]
  BY DEF PutInDoubt, Record
<1>7. \A n \in Attempts : new[n].status = r.attempts[n].status /\ new[n].at = r.attempts[n].at
  BY <1>1 DEF Attempt
<1> HIDE DEF new
<1>8. PutInDoubt(r, S) \in Record  BY <1>4, <1>5, <1>6 DEF Record
<1>9. /\ PutInDoubt(r, S).used = r.used /\ PutInDoubt(r, S).state = r.state
      /\ PutInDoubt(r, S).attempts = new
  BY <1>6 DEF Record
<1> QED  BY <1>7, <1>8, <1>9 DEF SameAttempts, SameAttempt

\* Two records that hold the same attempts have the same shape.
LEMMA ShapeKept ==
  ASSUME NEW r \in Record, NEW s, SameAttempts(r, s)
  PROVE  /\ {n \in Attempts : s.attempts[n].status # "none"}
              = {n \in Attempts : r.attempts[n].status # "none"}
         /\ Shaped(r) => Shaped(s)
BY DEF SameAttempts, SameAttempt, Shaped

\* So do a record and one that holds what a third holds.
LEMMA SameAttemptsTransitive ==
  ASSUME NEW r, NEW s, NEW t, SameAttempts(r, s), SameAttempts(s, t)
  PROVE  SameAttempts(r, t)
BY DEF SameAttempts, SameAttempt

LEMMA SameAttemptsReflexive == \A r \in Record : SameAttempts(r, r)
BY DEF SameAttempts, SameAttempt

\* Attempts in place: any function that keeps "none" apart.
LEMMA NewAttempts ==
  ASSUME NEW r \in Record, NEW f \in [Attempts -> Attempt],
         \A n \in Attempts : SameAttempt(r.attempts[n], f[n])
  PROVE  /\ SameAttempts(r, [r EXCEPT !.attempts = f])
         /\ [r EXCEPT !.attempts = f].state = r.state
         /\ SameAttempts(r, [r EXCEPT !.state = "ended", !.attempts = f])
         /\ [r EXCEPT !.state = "ended", !.attempts = f].state = "ended"
<1>1. /\ [r EXCEPT !.attempts = f] \in Record
      /\ [r EXCEPT !.state = "ended", !.attempts = f] \in Record
  BY DEF Record
<1>2. /\ [r EXCEPT !.attempts = f].attempts = f
      /\ [r EXCEPT !.attempts = f].used = r.used
      /\ [r EXCEPT !.attempts = f].state = r.state
      /\ [r EXCEPT !.state = "ended", !.attempts = f].attempts = f
      /\ [r EXCEPT !.state = "ended", !.attempts = f].used = r.used
      /\ [r EXCEPT !.state = "ended", !.attempts = f].state = "ended"
  BY DEF Record
<1> QED  BY <1>1, <1>2 DEF SameAttempts

\* One attempt of a record, replaced.
LEMMA SetAttempt ==
  ASSUME NEW r \in Record, NEW n \in Attempts, NEW a \in Attempt,
         SameAttempt(r.attempts[n], a)
  PROVE  /\ SameAttempts(r, [r EXCEPT !.attempts[n] = a])
         /\ [r EXCEPT !.attempts[n] = a].state = r.state
<1> DEFINE f == [r.attempts EXCEPT ![n] = a]
<1>1. r.attempts \in [Attempts -> Attempt]  BY DEF Record
<1>2. f \in [Attempts -> Attempt]  BY <1>1
<1>3. \A m \in Attempts : SameAttempt(r.attempts[m], f[m])  BY <1>1 DEF SameAttempt
<1>4. [r EXCEPT !.attempts[n] = a] = [r EXCEPT !.attempts = f]  BY <1>1 DEF Record
<1> HIDE DEF f
<1>5. /\ SameAttempts(r, [r EXCEPT !.attempts = f])
      /\ [r EXCEPT !.attempts = f].state = r.state
  BY <1>2, <1>3, NewAttempts
<1> QED  BY <1>4, <1>5

\* What history resolves is an attempt still, and held if it was.
LEMMA ResolvedKeeps ==
  ASSUME NEW a \in Attempt, NEW line
  PROVE  Resolved(a, line) \in Attempt /\ SameAttempt(a, Resolved(a, line))
<1>1. {"settled", "expired", "cancelled"} \subseteq Status  BY StatusNames
<1>2. CASE a.hash /\ a.status \in Unresolved /\ line.status \in FinalLine
  <2>1. a.status # "none"  BY <1>2 DEF Unresolved
  <2>2. CASE line.status = "finalized"
    <3>1. Resolved(a, line) = [a EXCEPT !.status = "settled"]  BY <1>2, <2>2 DEF Resolved
    <3> QED  BY <3>1, <2>1, <1>1 DEF Attempt, SameAttempt
  <2>3. CASE line.status = "expired"
    <3>1. Resolved(a, line) = [a EXCEPT !.status = "expired", !.at = NoPlace, !.finalized = FALSE]
      BY <1>2, <2>3 DEF Resolved
    <3> QED  BY <3>1, <2>1, <1>1 DEF Attempt, SameAttempt
  <2>4. CASE line.status \notin {"finalized", "expired"}
    <3>1. Resolved(a, line) = [a EXCEPT !.status = "cancelled", !.at = NoPlace, !.finalized = FALSE]
      BY <1>2, <2>4 DEF Resolved
    <3> QED  BY <3>1, <2>1, <1>1 DEF Attempt, SameAttempt
  <2> QED  BY <2>2, <2>3, <2>4
<1>3. CASE ~(a.hash /\ a.status \in Unresolved /\ line.status \in FinalLine)
  BY <1>3 DEF Resolved, SameAttempt
<1> QED  BY <1>2, <1>3

\* History's word neither adds nor drops an attempt, and the record stays ended or running.
LEMMA ResolveKeeps ==
  ASSUME NEW r \in Record, NEW j
  PROVE  SameAttempts(r, ResolveFromJournal(r, j)) /\ ResolveFromJournal(r, j).state = r.state
<1>1. CASE r.state # "ended"
  BY <1>1, SameAttemptsReflexive DEF ResolveFromJournal
<1>2. CASE r.state = "ended"
  <2> DEFINE d == PutInDoubt(r, UNION {After(r, k) : k \in Contradicted(r, j)})
             f == [n \in Attempts |-> Resolved(d.attempts[n], j[n])]
  <2>1. SameAttempts(r, d) /\ d.state = r.state  BY PutInDoubtKeeps
  <2>2. d \in Record  BY <2>1 DEF SameAttempts
  <2>3. \A n \in Attempts : d.attempts[n] \in Attempt  BY <2>2 DEF Record
  <2>4. f \in [Attempts -> Attempt]  BY <2>3, ResolvedKeeps
  <2>5. \A n \in Attempts : SameAttempt(d.attempts[n], f[n])
    BY <2>3, ResolvedKeeps
  <2>6. ResolveFromJournal(r, j) = [d EXCEPT !.attempts = f]  BY <1>2 DEF ResolveFromJournal
  <2> HIDE DEF d, f
  <2>7. SameAttempts(d, [d EXCEPT !.attempts = f]) /\ [d EXCEPT !.attempts = f].state = d.state
    BY <2>2, <2>4, <2>5, NewAttempts
  <2> QED  BY <2>1, <2>6, <2>7, SameAttemptsTransitive
<1> QED  BY <1>1, <1>2

\* The restart rule ends a record and keeps its attempts.
LEMMA EndUnownedKeeps ==
  ASSUME NEW r \in Record
  PROVE  SameAttempts(r, EndUnowned(r)) /\ EndUnowned(r).state # "running"
<1>1. CASE r.state # "running"
  BY <1>1, SameAttemptsReflexive DEF EndUnowned
<1>2. CASE r.state = "running"
  <2> DEFINE f == [n \in Attempts |-> IF r.attempts[n].status \in {"reserved", "signed"}
                                      THEN [r.attempts[n] EXCEPT !.status = "cancelled"]
                                      ELSE r.attempts[n]]
  <2>1. \A n \in Attempts : r.attempts[n] \in Attempt  BY DEF Record
  <2>2. "cancelled" \in Status  BY StatusNames
  <2>3. \A a \in Attempt : /\ [a EXCEPT !.status = "cancelled"] \in Attempt
                            /\ [a EXCEPT !.status = "cancelled"].status = "cancelled"
    BY <2>2 DEF Attempt
  <2>4. f \in [Attempts -> Attempt]  BY <2>1, <2>3
  <2>5. \A n \in Attempts : SameAttempt(r.attempts[n], f[n])
    BY <2>1, <2>3 DEF SameAttempt
  <2>6. EndUnowned(r) = [r EXCEPT !.state = "ended", !.attempts = f]
    BY <1>2 DEF EndUnowned, Record
  <2> HIDE DEF f
  <2>7. /\ SameAttempts(r, [r EXCEPT !.state = "ended", !.attempts = f])
        /\ [r EXCEPT !.state = "ended", !.attempts = f].state = "ended"
    BY <2>4, <2>5, NewAttempts
  <2> QED  BY <2>6, <2>7
<1> QED  BY <1>1, <1>2

\* Empty and new records.
LEMMA EmptyRecords ==
  /\ NoRecord \in Record /\ NoRecord.used = 0 /\ NoRecord.state = "none"
  /\ NewRecord \in Record /\ NewRecord.used = 0 /\ NewRecord.state = "running"
  /\ \A n \in Attempts : /\ NoRecord.attempts[n].status = "none"
                         /\ NewRecord.attempts[n].status = "none"
  /\ Shaped(NoRecord) /\ Shaped(NewRecord)
<1>1. Blank \in Attempt /\ Blank.status = "none"  BY StatusNames DEF Blank, Attempt
<1>2. NoRecord \in Record
  <2>1. 0 \in 0..MaxAttempts  BY ConstantTypes
  <2>2. [n \in Attempts |-> Blank] \in [Attempts -> Attempt]  BY <1>1
  <2> QED  BY <2>1, <2>2 DEF NoRecord, Record
<1>3. /\ NoRecord.used = 0 /\ NewRecord.used = 0
      /\ NoRecord.state = "none" /\ NewRecord.state = "running"
      /\ \A n \in Attempts : NoRecord.attempts[n] = Blank /\ NewRecord.attempts[n] = Blank
  BY DEF NoRecord, NewRecord
<1>4. NewRecord \in Record  BY <1>2 DEF NewRecord, Record
<1>5. 0 \in 0..0 /\ 1..0 = {}  OBVIOUS
<1> QED  BY <1>1, <1>2, <1>3, <1>4, <1>5 DEF Shaped

\* A restart yields a shaped record that counts the signatures storage did, or an empty one.
LEMMA LoadKeeps ==
  ASSUME NEW r \in Record, NEW j
  PROVE  /\ LoadRecord(r, j) \in Record
         /\ LoadRecord(r, j).used = IF ValidRecord(r, j) THEN r.used ELSE 0
         /\ LoadRecord(r, j).state # "running"
         /\ Shaped(LoadRecord(r, j))
<1>1. CASE ValidRecord(r, j)
  <2> DEFINE e == EndUnowned(r)
             t == ResolveFromJournal(e, LoadJournal(j))
  <2>1. SameAttempts(r, e) /\ e.state # "running"  BY EndUnownedKeeps
  <2>2. e \in Record  BY <2>1 DEF SameAttempts
  <2>3. SameAttempts(e, t) /\ t.state = e.state  BY <2>2, ResolveKeeps
  <2>4. SameAttempts(r, t)  BY <2>1, <2>3, SameAttemptsTransitive
  <2>5. Shaped(r)  BY <1>1 DEF ValidRecord, ValidAttempt, WithInclusion, Shaped
  <2>6. LoadRecord(r, j) = t  BY <1>1 DEF LoadRecord
  <2> HIDE DEF e, t
  <2>7. Shaped(t)  BY <2>4, <2>5, ShapeKept
  <2>8. t \in Record /\ t.used = r.used  BY <2>4 DEF SameAttempts
  <2> QED  BY <1>1, <2>1, <2>3, <2>6, <2>7, <2>8
<1>2. CASE ~ValidRecord(r, j)
  BY <1>2, EmptyRecords DEF LoadRecord
<1> QED  BY <1>1, <1>2

\* A restart's history lines are lines.
LEMMA LoadJournalType == \A j \in Journal : LoadJournal(j) \in Journal
<1> SUFFICES ASSUME NEW j \in Journal PROVE LoadJournal(j) \in Journal  OBVIOUS
<1>1. \A n \in Attempts : j[n] \in Line  BY DEF Journal
<1>2. \A l \in Line : [l EXCEPT !.status = "cancelled-before-broadcast"] \in Line
  BY LineNames DEF Line
<1> QED  BY <1>1, <1>2 DEF LoadJournal, Journal

\* A shaped record holds the attempts 1 to their number, each of them counted.
LEMMA ShapeCounts ==
  ASSUME NEW r \in Record, Shaped(r)
  PROVE  LET held == {n \in Attempts : r.attempts[n].status # "none"}
         IN /\ Cardinality(held) \in 0..r.used
            /\ held = 1..Cardinality(held)
            /\ r.used \in 0..MaxAttempts
<1> DEFINE held == {n \in Attempts : r.attempts[n].status # "none"}
<1>1. PICK len \in 0..r.used : held = 1..len  BY DEF Shaped
<1>2. r.used \in 0..MaxAttempts  BY DEF Record
<1>3. len \in Nat  BY <1>1, <1>2
<1>4. Cardinality(1..len) = len  BY <1>3, FS_Interval
<1> QED  BY <1>1, <1>2, <1>4
-----------------------------------------------------------------------------
(* The rules the load check enforces, attempt by attempt.                  *)
\* An attempt the record holds is a valid one; one it does not hold yet is blank.
Fit(a) ==
  IF a.status = "none" THEN ~a.hash /\ a.at = NoPlace /\ ~a.doubt ELSE ValidAttempt(a)

\* Attempts with a later one, by verdict.
Before(r, s) == {n \in Attempts : /\ n + 1 \in Attempts /\ r.attempts[n + 1].status # "none"
                                  /\ r.attempts[n].status = s}

\* ValidRecord, and what makes it inductive: the attempts not held yet are blank, an attempt after
\* the first is born below a recorded inclusion, and what admitted the last one left it a lot.
Rules(r, j) ==
  /\ Shaped(r)
  /\ \A n \in Attempts : Fit(r.attempts[n])
  /\ r.reorganized <=> \E n \in Attempts : r.attempts[n].doubt
  /\ \A n \in Attempts : n + 1 \in Attempts /\ r.attempts[n + 1].status # "none"
                           => r.attempts[n].status \in Admitting
  /\ \A n \in Attempts : n > 1 /\ r.attempts[n].status # "none" => r.attempts[n].parent # NoPlace
  /\ \A n \in Attempts : r.attempts[n].status = "settled" => r.state = "ended"
  /\ \A n \in Attempts : r.attempts[n].hash => j[n].status # "none"
  /\ r.state = "running" => Cardinality(Before(r, "lost-race")) <= MaxAttempts - MaxLots
  /\ Cardinality(Before(r, "minted")) < MaxLots

\* The verdicts of r stand in s, its doubts stay, and s runs only if r did.
Follows(r, s) ==
  /\ \A n \in Attempts :
       LET old == r.attempts[n]
           new == s.attempts[n]
       IN /\ old.status \in Outcomes => new.status = old.status /\ new.at = old.at
          /\ old.doubt => new.doubt
          /\ new.parent = old.parent
  /\ s.state = "running" => r.state = "running"

\* What admits a next payment is an outcome; no outcome is unresolved.
LEMMA AdmittingOutcomes ==
  /\ Admitting \subseteq Outcomes
  /\ Outcomes \cap (Unresolved \cup {"none", "reserved", "signed", "settled"} \cup NeverRan) = {}
BY DEF Admitting, Outcomes, Unresolved, NeverRan

\* Following is transitive.
LEMMA FollowsTransitive ==
  ASSUME NEW r, NEW s, NEW t, Follows(r, s), Follows(s, t)
  PROVE  Follows(r, t)
BY DEF Follows

LEMMA FollowsReflexive == \A r : Follows(r, r)
BY DEF Follows

\* The rules hold on if each attempt still fits and the verdicts that admitted a later one stand.
LEMMA RulesKept ==
  ASSUME NEW r \in Record, NEW s, NEW j, NEW k, Rules(r, j), SameAttempts(r, s), Follows(r, s),
         \A n \in Attempts : Fit(s.attempts[n]),
         s.reorganized <=> \E n \in Attempts : s.attempts[n].doubt,
         \A n \in Attempts : s.attempts[n].status = "settled" => s.state = "ended",
         \A n \in Attempts : s.attempts[n].hash => k[n].status # "none"
  PROVE  Rules(s, k)
<1>1. Shaped(s)  BY ShapeKept DEF Rules
<1>2. \A n \in Attempts : s.attempts[n].status = "none" <=> r.attempts[n].status = "none"
  BY DEF SameAttempts, SameAttempt
<1>3. \A n \in Attempts : n + 1 \in Attempts /\ s.attempts[n + 1].status # "none"
        => r.attempts[n].status \in Admitting /\ s.attempts[n].status = r.attempts[n].status
  BY <1>2, AdmittingOutcomes DEF Rules, Follows
<1>4. \A x : Before(s, x) = Before(r, x)
  BY <1>2, <1>3 DEF Before
<1>5. \A n \in Attempts : n > 1 /\ s.attempts[n].status # "none" => s.attempts[n].parent # NoPlace
  BY <1>2 DEF Rules, Follows
<1> QED  BY <1>1, <1>3, <1>4, <1>5 DEF Rules, Follows

\* More lines break no rule.
LEMMA RulesOfLines ==
  ASSUME NEW r, NEW j, NEW k, Rules(r, j),
         \A n \in Attempts : j[n].status # "none" => k[n].status # "none"
  PROVE  Rules(r, k)
BY DEF Rules

\* A payment doubt can reach.
Doubtful(a) == a.hash /\ a.status \notin {"none", "reserved", "signed"}

\* Doubt over payments that may have run.
LEMMA RulesDoubt ==
  ASSUME NEW r \in Record, NEW j, NEW S, Rules(r, j),
         \A n \in S : n \in Attempts /\ Doubtful(r.attempts[n])
  PROVE  /\ Rules(PutInDoubt(r, S), j) /\ Follows(r, PutInDoubt(r, S))
         /\ \A n \in Attempts : PutInDoubt(r, S).attempts[n] =
              IF n \in S THEN [r.attempts[n] EXCEPT !.doubt = TRUE] ELSE r.attempts[n]
         /\ PutInDoubt(r, S).reorganized = (r.reorganized \/ S # {})
<1> DEFINE new == [n \in Attempts |-> IF n \in S THEN [r.attempts[n] EXCEPT !.doubt = TRUE]
                                                 ELSE r.attempts[n]]
           s == PutInDoubt(r, S)
<1>1. \A n \in Attempts : r.attempts[n] \in Attempt  BY DEF Record
<1>2. s = [r EXCEPT !.reorganized = r.reorganized \/ S # {}, !.attempts = new]
  BY DEF PutInDoubt, Record
<1>3. /\ s.attempts = new /\ s.reorganized = (r.reorganized \/ S # {}) /\ s.state = r.state
  BY <1>2 DEF Record
<1>4. SameAttempts(r, s)  BY PutInDoubtKeeps
<1> HIDE DEF s
<1>5. \A n \in Attempts : /\ new[n].status = r.attempts[n].status /\ new[n].at = r.attempts[n].at
                          /\ new[n].hash = r.attempts[n].hash
                          /\ new[n].finalized = r.attempts[n].finalized
                          /\ new[n].parent = r.attempts[n].parent
                          /\ new[n].doubt <=> r.attempts[n].doubt \/ n \in S
  BY <1>1 DEF Attempt
<1>6. \A n \in Attempts : Fit(new[n])
  <2> SUFFICES ASSUME NEW n \in Attempts PROVE Fit(new[n])  OBVIOUS
  <2>1. Fit(r.attempts[n]) /\ (n \in S => Doubtful(r.attempts[n]))  BY DEF Rules
  <2> HIDE DEF new
  <2> QED  BY <1>5, <2>1 DEF Fit, ValidAttempt, Doubtful
<1>7. s.reorganized <=> \E n \in Attempts : s.attempts[n].doubt
  BY <1>3, <1>5 DEF Rules
<1>8. Follows(r, s)  BY <1>3, <1>5 DEF Follows
<1>9. \A n \in Attempts : /\ s.attempts[n].status = "settled" => s.state = "ended"
                          /\ s.attempts[n].hash => j[n].status # "none"
  BY <1>3, <1>5 DEF Rules
<1>10. Rules(s, j)
  <2>1. \A n \in Attempts : Fit(s.attempts[n])  BY <1>3, <1>6
  <2> HIDE DEF new
  <2> QED  BY <1>4, <1>7, <1>8, <1>9, <2>1, RulesKept
<1> QED  BY <1>3, <1>8, <1>10 DEF s

\* A recorded inclusion is of a payment doubt can reach.
LEMMA RecordedIsDoubtful ==
  ASSUME NEW r \in Record, NEW j, Rules(r, j), NEW n \in Recorded(r)
  PROVE  n \in Attempts /\ Doubtful(r.attempts[n])
<1>1. n \in Attempts /\ r.attempts[n].at # NoPlace  BY DEF Recorded
<1>2. Fit(r.attempts[n])  BY <1>1 DEF Rules
<1> QED  BY <1>1, <1>2 DEF Fit, ValidAttempt, Doubtful, WithInclusion, Outcomes

\* So is every payment after one of them that may have run.
LEMMA AfterIsDoubtful ==
  ASSUME NEW r \in Record, NEW k, k \in Attempts => Doubtful(r.attempts[k])
  PROVE  \A n \in After(r, k) : n \in Attempts /\ Doubtful(r.attempts[n])
BY DEF After, MayHaveRun, Doubtful

\* Doubt from one of them on.
LEMMA RulesDoubtFrom ==
  ASSUME NEW r \in Record, NEW j, NEW k, Rules(r, j), k \in Attempts => Doubtful(r.attempts[k])
  PROVE  Rules(DoubtFrom(r, k), j) /\ Follows(r, DoubtFrom(r, k))
BY AfterIsDoubtful, RulesDoubt DEF DoubtFrom

\* Doubt over every inclusion that is not final.
LEMMA RulesDoubtOpen ==
  ASSUME NEW r \in Record, NEW j, Rules(r, j)
  PROVE  /\ Rules(DoubtOpen(r), j) /\ Follows(r, DoubtOpen(r))
         /\ \A n \in Attempts : DoubtOpen(r).attempts[n].status = r.attempts[n].status
<1> DEFINE S == {n \in Recorded(r) : ~r.attempts[n].finalized}
           d == DoubtOpen(r)
<1>1. \A n \in S : n \in Attempts /\ Doubtful(r.attempts[n])  BY RecordedIsDoubtful
<1>2. d = PutInDoubt(r, S)  BY DEF DoubtOpen
<1> HIDE DEF d, S
<1>3. /\ Rules(d, j) /\ Follows(r, d)
      /\ \A n \in Attempts : d.attempts[n] =
            IF n \in S THEN [r.attempts[n] EXCEPT !.doubt = TRUE] ELSE r.attempts[n]
  BY <1>1, <1>2, RulesDoubt
<1>4. \A n \in Attempts : r.attempts[n] \in Attempt  BY DEF Record
<1>5. \A a \in Attempt : [a EXCEPT !.doubt = TRUE].status = a.status  BY DEF Attempt
<1> QED  BY <1>3, <1>4, <1>5 DEF d

\* History contradicts payments doubt can reach only.
LEMMA ContradictedIsDoubtful ==
  ASSUME NEW r \in Record, NEW j, Rules(r, j), NEW n \in Contradicted(r, j)
  PROVE  n \in Attempts /\ Doubtful(r.attempts[n])
<1>1. n \in Attempts /\ r.attempts[n].hash  BY DEF Contradicted
<1>2. Fit(r.attempts[n])  BY <1>1 DEF Rules
<1>3. r.attempts[n].status # "none"  BY <1>1, <1>2 DEF Fit
<1>4. CASE r.attempts[n].status \in Unresolved
  <2>1. r.attempts[n].at # NoPlace  BY <1>4 DEF Contradicted
  <2> QED  BY <1>1, <1>2, <1>3, <2>1 DEF Fit, ValidAttempt, Doubtful, WithInclusion, Outcomes
<1>5. CASE r.attempts[n].status \notin Unresolved
  BY <1>1, <1>3, <1>5 DEF Doubtful, Unresolved
<1> QED  BY <1>4, <1>5

\* What history resolves fits still; what was verified or cancelled it leaves alone.
LEMMA ResolvedFits ==
  ASSUME NEW a \in Attempt, NEW line, Fit(a)
  PROVE  LET b == Resolved(a, line)
         IN /\ Fit(b)
            /\ b.doubt = a.doubt /\ b.hash = a.hash /\ b.parent = a.parent
            /\ a.status \notin Unresolved => b = a
            /\ a.hash /\ a.status \in Unresolved /\ line.status \in FinalLine =>
                 b.status \in {"settled", "expired", "cancelled"}
            /\ b.status = "cancelled" => a.status = "cancelled" \/ line.status = "cancelled-before-broadcast"
            /\ b.status \in {"none", "reserved", "signed"} => b.status = a.status
<1>1. {"settled", "expired", "cancelled"} \subseteq Status  BY StatusNames
<1>2. CASE a.hash /\ a.status \in Unresolved /\ line.status \in FinalLine
  <2>1. a.status # "none"  BY <1>2 DEF Unresolved
  <2>2. CASE line.status = "finalized"
    <3>1. Resolved(a, line) = [a EXCEPT !.status = "settled"]  BY <1>2, <2>2 DEF Resolved
    <3>2. /\ Resolved(a, line).status = "settled" /\ Resolved(a, line).at = a.at
          /\ Resolved(a, line).doubt = a.doubt /\ Resolved(a, line).hash = a.hash
          /\ Resolved(a, line).parent = a.parent /\ Resolved(a, line).finalized = a.finalized
      BY <3>1, <1>1 DEF Attempt
    <3> QED
      BY <1>2, <2>1, <3>2 DEF Fit, ValidAttempt, WithInclusion, Outcomes, Unresolved
  <2>3. CASE line.status # "finalized"
    <3> DEFINE st == IF line.status = "expired" THEN "expired" ELSE "cancelled"
    <3>1. Resolved(a, line) = [a EXCEPT !.status = st, !.at = NoPlace, !.finalized = FALSE]
      BY <1>2, <2>3 DEF Resolved
    <3>2. /\ Resolved(a, line).status = st /\ Resolved(a, line).at = NoPlace
          /\ Resolved(a, line).doubt = a.doubt /\ Resolved(a, line).hash = a.hash
          /\ Resolved(a, line).parent = a.parent /\ Resolved(a, line).finalized = FALSE
      BY <3>1, <1>1 DEF Attempt
    <3>3. line.status \in {"expired", "cancelled-before-broadcast"}
      BY <1>2, <2>3 DEF FinalLine
    <3> QED
      BY <1>2, <2>1, <3>2, <3>3 DEF Fit, ValidAttempt, WithInclusion, Outcomes, Unresolved
  <2> QED  BY <2>2, <2>3
<1>3. CASE ~(a.hash /\ a.status \in Unresolved /\ line.status \in FinalLine)
  BY <1>3 DEF Resolved
<1> QED  BY <1>2, <1>3

\* An ended record resolved from history: the contradicted and what may have run after them in doubt,
\* then each unresolved attempt as its line says.
LEMMA ResolveSteps ==
  ASSUME NEW r \in Record, NEW j, Rules(r, j), r.state = "ended"
  PROVE  LET S == UNION {After(r, k) : k \in Contradicted(r, j)}
             d == PutInDoubt(r, S)
             s == ResolveFromJournal(r, j)
         IN /\ \A n \in S : n \in Attempts /\ Doubtful(r.attempts[n])
            /\ d \in Record /\ Rules(d, j) /\ Follows(r, d) /\ d.state = "ended"
            /\ s.reorganized = d.reorganized /\ s.state = "ended" /\ s.used = d.used
            /\ \A n \in Attempts : s.attempts[n] = Resolved(d.attempts[n], j[n])
<1> DEFINE S == UNION {After(r, k) : k \in Contradicted(r, j)}
           d == PutInDoubt(r, S)
           f == [n \in Attempts |-> Resolved(d.attempts[n], j[n])]
<1>1. \A n \in S : n \in Attempts /\ Doubtful(r.attempts[n])
  <2> SUFFICES ASSUME NEW k \in Contradicted(r, j), NEW n \in After(r, k)
               PROVE  n \in Attempts /\ Doubtful(r.attempts[n])
    OBVIOUS
  <2>1. Doubtful(r.attempts[k])  BY ContradictedIsDoubtful
  <2> QED  BY <2>1, AfterIsDoubtful
<1>2. ResolveFromJournal(r, j) = [d EXCEPT !.attempts = f]  BY DEF ResolveFromJournal
<1> HIDE DEF S
<1>3. Rules(d, j) /\ Follows(r, d)  BY <1>1, RulesDoubt
<1>4. d \in Record /\ d.state = "ended"  BY PutInDoubtKeeps DEF SameAttempts
<1> HIDE DEF d
<1>5. /\ [d EXCEPT !.attempts = f].reorganized = d.reorganized
      /\ [d EXCEPT !.attempts = f].state = d.state
      /\ [d EXCEPT !.attempts = f].used = d.used
      /\ [d EXCEPT !.attempts = f].attempts = f
  BY <1>4 DEF Record
<1> QED  BY <1>1, <1>2, <1>3, <1>4, <1>5 DEF d, S

\* History's word breaks no rule.
LEMMA RulesResolved ==
  ASSUME NEW r \in Record, NEW j, Rules(r, j)
  PROVE  Rules(ResolveFromJournal(r, j), j) /\ Follows(r, ResolveFromJournal(r, j))
<1>1. CASE r.state # "ended"
  BY <1>1 DEF ResolveFromJournal, Follows
<1>2. CASE r.state = "ended"
  <2> DEFINE S == UNION {After(r, k) : k \in Contradicted(r, j)}
             d == PutInDoubt(r, S)
             s == ResolveFromJournal(r, j)
  <2>1. /\ d \in Record /\ Rules(d, j) /\ Follows(r, d) /\ d.state = "ended"
        /\ s.reorganized = d.reorganized /\ s.state = "ended"
        /\ \A n \in Attempts : s.attempts[n] = Resolved(d.attempts[n], j[n])
    BY <1>2, ResolveSteps
  <2>2. SameAttempts(r, s)  BY ResolveKeeps
  <2> HIDE DEF d, s, S
  <2>3. \A n \in Attempts : d.attempts[n] \in Attempt /\ Fit(d.attempts[n])
    BY <2>1 DEF Rules, Record
  <2>4. \A n \in Attempts : /\ Fit(s.attempts[n])
                            /\ s.attempts[n].doubt = d.attempts[n].doubt
                            /\ s.attempts[n].hash = d.attempts[n].hash
                            /\ s.attempts[n].parent = d.attempts[n].parent
                            /\ d.attempts[n].status \notin Unresolved => s.attempts[n] = d.attempts[n]
    BY <2>1, <2>3, ResolvedFits
  <2>5. Follows(r, s)
    <3>1. \A n \in Attempts : d.attempts[n].status \in Outcomes => s.attempts[n] = d.attempts[n]
      BY <2>4, AdmittingOutcomes
    <3>2. Follows(d, s)  BY <2>1, <2>4, <3>1 DEF Follows
    <3>3. Follows(r, s)  BY <2>1, <3>2, FollowsTransitive
    <3> QED  BY <3>3
  <2>6. s.reorganized <=> \E n \in Attempts : s.attempts[n].doubt
    BY <2>1, <2>4 DEF Rules
  <2>7. \A n \in Attempts : s.attempts[n].hash => j[n].status # "none"
    BY <2>1, <2>4 DEF Rules
  <2>8. Rules(s, j)  BY <2>1, <2>2, <2>4, <2>5, <2>6, <2>7, RulesKept
  <2> QED  BY <2>5, <2>8 DEF s
<1> QED  BY <1>1, <1>2

\* Nor does the restart rule.
LEMMA RulesEndUnowned ==
  ASSUME NEW r \in Record, NEW j, Rules(r, j)
  PROVE  /\ Rules(EndUnowned(r), j) /\ Follows(r, EndUnowned(r))
         /\ \A n \in Attempts : LET b == EndUnowned(r).attempts[n] IN
              b.status = "cancelled" => r.attempts[n].status \in {"reserved", "signed", "cancelled"}
<1>1. CASE r.state # "running"
  BY <1>1 DEF EndUnowned, Follows
<1>2. CASE r.state = "running"
  <2> DEFINE f == [n \in Attempts |-> IF r.attempts[n].status \in {"reserved", "signed"}
                                      THEN [r.attempts[n] EXCEPT !.status = "cancelled"]
                                      ELSE r.attempts[n]]
             s == EndUnowned(r)
  <2>1. \A n \in Attempts : r.attempts[n] \in Attempt  BY DEF Record
  <2>2. s = [r EXCEPT !.state = "ended", !.attempts = f]
    BY <1>2 DEF EndUnowned, Record
  <2>3. s.state = "ended" /\ s.attempts = f /\ s.reorganized = r.reorganized
    BY <2>2 DEF Record
  <2>4. SameAttempts(r, s)  BY EndUnownedKeeps
  <2> HIDE DEF s
  <2>5. \A n \in Attempts :
          /\ f[n].at = r.attempts[n].at /\ f[n].hash = r.attempts[n].hash
          /\ f[n].finalized = r.attempts[n].finalized
          /\ f[n].parent = r.attempts[n].parent /\ f[n].doubt = r.attempts[n].doubt
          /\ \/ f[n].status = r.attempts[n].status /\ r.attempts[n].status \notin {"reserved", "signed"}
             \/ f[n].status = "cancelled" /\ r.attempts[n].status \in {"reserved", "signed"}
    BY <2>1, StatusNames DEF Attempt
  <2> HIDE DEF f
  <2>6. \A n \in Attempts : Fit(s.attempts[n])
    <3> SUFFICES ASSUME NEW n \in Attempts PROVE Fit(f[n])  BY <2>3
    <3>1. Fit(r.attempts[n])  BY DEF Rules
    <3> QED  BY <2>5, <3>1 DEF Fit, ValidAttempt, WithInclusion, Outcomes
  <2>7. Follows(r, s)
    <3>1. Outcomes \cap {"reserved", "signed"} = {}  BY AdmittingOutcomes
    <3> QED  BY <2>3, <2>5, <3>1 DEF Follows
  <2>8. s.reorganized <=> \E n \in Attempts : s.attempts[n].doubt
    BY <2>3, <2>5 DEF Rules
  <2>9. \A n \in Attempts : s.attempts[n].hash => j[n].status # "none"
    BY <2>3, <2>5 DEF Rules
  <2>10. Rules(s, j)  BY <2>3, <2>4, <2>6, <2>7, <2>8, <2>9, RulesKept
  <2> QED  BY <2>3, <2>5, <2>7, <2>10 DEF s
<1> QED  BY <1>1, <1>2

\* The load check accepts a record that keeps the rules.
LEMMA RulesValid ==
  ASSUME NEW r \in Record, NEW j, Rules(r, j)
  PROVE  ValidRecord(r, j)
<1> DEFINE held   == {n \in Attempts : r.attempts[n].status # "none"}
           before == {n \in held : n + 1 \in held}
           minted == {n \in Attempts : r.attempts[n].status = "minted"}
           lost   == {n \in Attempts : r.attempts[n].status = "lost-race"}
<1>1. PICK len \in 0..r.used : held = 1..len  BY DEF Rules, Shaped
<1>2. r.used \in 0..MaxAttempts /\ MaxAttempts \in Nat /\ MaxLots \in Nat /\ len \in Nat
  BY <1>1, ConstantTypes DEF Record
<1>3. IsFiniteSet(held) /\ Cardinality(held) = len
  <2>1. IsFiniteSet(1..len) /\ Cardinality(1..len) = len  BY <1>2, FS_Interval
  <2> HIDE DEF held
  <2> QED  BY <1>1, <2>1
<1>5. {n \in before : r.attempts[n].status = "lost-race"} = Before(r, "lost-race")
  BY DEF Before
<1>6. \A n \in held : ValidAttempt(r.attempts[n])  BY DEF Rules, Fit
<1>7. \A n \in Attempts : r.attempts[n].doubt => n \in held  BY DEF Rules, Fit
<1>8. r.reorganized <=> \E n \in held : r.attempts[n].doubt  BY <1>7 DEF Rules
\* At most one lot more than what admitted the last attempt.
<1>9. IsFiniteSet(minted) /\ Cardinality(minted) <= MaxLots
  <2>1. minted \subseteq Before(r, "minted") \cup {len}
    <3> SUFFICES ASSUME NEW n \in minted, n # len PROVE n \in Before(r, "minted")  OBVIOUS
    <3>1. n \in 1..len  BY <1>1
    <3>2. n + 1 \in 1..len  BY <1>2, <3>1
    <3>3. n + 1 \in held  BY <1>1, <3>2
    <3> QED  BY <3>3 DEF Before
  <2>2. IsFiniteSet(Before(r, "minted"))
    <3>1. Before(r, "minted") \subseteq held  BY DEF Before
    <3> QED  BY <1>3, <3>1, FS_Subset
  <2>3. /\ IsFiniteSet(Before(r, "minted") \cup {len})
        /\ Cardinality(Before(r, "minted") \cup {len}) <= Cardinality(Before(r, "minted")) + 1
    <3> DEFINE B == Before(r, "minted")
    <3>1. IsFiniteSet(B) /\ Cardinality(B) \in Nat  BY <2>2, FS_CardinalityType
    <3> HIDE DEF B
    <3>2. /\ IsFiniteSet(B \cup {len})
          /\ Cardinality(B \cup {len}) = IF len \in B THEN Cardinality(B) ELSE Cardinality(B) + 1
      BY <3>1, FS_AddElement
    <3>3. Cardinality(B \cup {len}) <= Cardinality(B) + 1  BY <3>1, <3>2
    <3> QED  BY <3>2, <3>3 DEF B
  <2>4. Cardinality(Before(r, "minted")) \in Nat /\ Cardinality(Before(r, "minted")) < MaxLots
    BY <2>2, FS_CardinalityType DEF Rules
  <2>5. /\ IsFiniteSet(minted)
        /\ Cardinality(minted) <= Cardinality(Before(r, "minted") \cup {len})
    BY <2>1, <2>3, FS_Subset
  <2>6. Cardinality(Before(r, "minted") \cup {len}) \in Nat /\ Cardinality(minted) \in Nat
    BY <2>3, <2>5, FS_CardinalityType
  <2> QED  BY <1>2, <2>3, <2>4, <2>5, <2>6
<1>10. ASSUME NEW f, \A n \in Attempts : f[n].status = r.attempts[n].status /\ f[n].hash = r.attempts[n].hash,
              \A n \in Attempts : f[n].doubt => r.attempts[n].doubt
       PROVE  ValidCounters(r, f)
  <2> DEFINE m == {n \in Attempts : f[n].status = "minted" /\ ~f[n].doubt}
             l == {n \in Attempts : f[n].status = "lost-race" /\ ~f[n].doubt}
             u == {n \in Attempts : f[n].doubt /\ f[n].hash}
  <2>1. m \subseteq minted /\ m \subseteq held /\ l \subseteq held /\ u \subseteq held
    BY <1>7, <1>10
  <2>2. m \cap l = {} /\ (m \cup l) \cap u = {} /\ (m \cup l) \cup u \subseteq held
    BY <2>1
  <2> HIDE DEF m, l, u
  <2>3. IsFiniteSet(m) /\ IsFiniteSet(l) /\ IsFiniteSet(u) /\ IsFiniteSet(m \cup l)
    <3>1. m \cup l \subseteq held  BY <2>1
    <3> HIDE DEF held
    <3> QED  BY <1>3, <2>1, <3>1, FS_Subset
  <2>4. /\ Cardinality(m \cup l) = Cardinality(m) + Cardinality(l)
    <3>1. Cardinality(m \cap l) = 0  BY <2>2, FS_EmptySet
    <3>2. Cardinality(m \cup l) = Cardinality(m) + Cardinality(l) - Cardinality(m \cap l)
      BY <2>3, FS_Union
    <3> QED  BY <2>3, <3>1, <3>2, FS_CardinalityType
  <2>5. Cardinality((m \cup l) \cup u) = Cardinality(m \cup l) + Cardinality(u)
    <3> DEFINE ml == m \cup l
    <3>1. Cardinality(ml \cap u) = 0  BY <2>2, FS_EmptySet
    <3>2. IsFiniteSet(ml)  BY <2>3
    <3> HIDE DEF ml
    <3>3. Cardinality(ml \cup u) = Cardinality(ml) + Cardinality(u) - Cardinality(ml \cap u)
      BY <2>3, <3>2, FS_Union
    <3>4. Cardinality(ml \cup u) = Cardinality(ml) + Cardinality(u)
      BY <2>3, <3>1, <3>2, <3>3, FS_CardinalityType
    <3> QED  BY <3>4 DEF ml
  <2>6. Cardinality((m \cup l) \cup u) <= len
    <3> HIDE DEF held
    <3>1. Cardinality((m \cup l) \cup u) <= Cardinality(held)  BY <1>3, <2>2, FS_Subset
    <3> QED  BY <1>3, <3>1
  <2>7. Cardinality(m) <= MaxLots
    <3> HIDE DEF minted
    <3>1. Cardinality(m) <= Cardinality(minted)  BY <1>9, <2>1, FS_Subset
    <3>2. Cardinality(m) \in Nat /\ Cardinality(minted) \in Nat
      BY <1>9, <2>3, FS_CardinalityType
    <3> QED  BY <1>2, <1>9, <3>1, <3>2
  <2>8. Cardinality(m) \in Nat /\ Cardinality(l) \in Nat /\ Cardinality(u) \in Nat
    BY <2>3, FS_CardinalityType
  <2>9. Cardinality(m) + Cardinality(l) + Cardinality(u) <= r.used
    BY <1>1, <1>2, <2>4, <2>5, <2>6, <2>8
  <2> QED  BY <2>7, <2>9 DEF ValidCounters, m, l, u
<1>11. ValidCounters(r, r.attempts)  BY <1>10
<1>12. ValidCounters(r, [n \in Attempts |-> [r.attempts[n] EXCEPT !.doubt = FALSE]])
  <2> DEFINE f == [n \in Attempts |-> [r.attempts[n] EXCEPT !.doubt = FALSE]]
  <2>1. \A n \in Attempts : r.attempts[n] \in Attempt  BY DEF Record
  <2>2. \A n \in Attempts : /\ f[n].status = r.attempts[n].status /\ f[n].hash = r.attempts[n].hash
                            /\ f[n].doubt = FALSE
    BY <2>1 DEF Attempt
  <2> HIDE DEF f
  <2>3. ValidCounters(r, f)  BY <1>10, <2>2
  <2> QED  BY <2>3 DEF f
<1>13. \A n \in before : r.attempts[n].status \in Admitting  BY DEF Rules
<1>14. r.state = "running" =>
         Cardinality({n \in before : r.attempts[n].status = "lost-race"}) <= MaxAttempts - MaxLots
  BY <1>5 DEF Rules
<1>15. \A n \in held : r.attempts[n].status = "settled" => r.state = "ended"  BY DEF Rules
<1>16. \A n \in held : r.attempts[n].hash => j[n].status # "none"  BY DEF Rules
<1>17. \E k \in 0..r.used : held = 1..k  BY <1>1
<1> QED  BY <1>6, <1>8, <1>11, <1>12, <1>13, <1>14, <1>15, <1>16, <1>17 DEF ValidRecord

\* A restart keeps such a record, ended and resolved, and the rules with it.
LEMMA RulesLoad ==
  ASSUME NEW r \in Record, NEW j \in Journal, Rules(r, j)
  PROVE  LET e == EndUnowned(r)
             s == LoadRecord(r, j)
         IN /\ ValidRecord(r, j)
            /\ s = ResolveFromJournal(e, LoadJournal(j))
            /\ e \in Record /\ Rules(e, LoadJournal(j))
            /\ s \in Record /\ Rules(s, LoadJournal(j)) /\ s.used = r.used
            /\ SameAttempts(r, s)
            /\ Follows(r, s)
<1>1. ValidRecord(r, j)  BY RulesValid
<1> DEFINE e == EndUnowned(r)
           s == LoadRecord(r, j)
<1>2. s = ResolveFromJournal(e, LoadJournal(j))  BY <1>1 DEF LoadRecord
<1>3. SameAttempts(r, e)  BY EndUnownedKeeps
<1>4. e \in Record  BY <1>3 DEF SameAttempts
<1>5. Rules(e, j) /\ Follows(r, e)  BY RulesEndUnowned
<1> HIDE DEF e
<1>6. Rules(e, LoadJournal(j))
  <2>1. \A n \in Attempts : j[n] \in Line  BY DEF Journal
  <2>2. \A n \in Attempts : j[n].status # "none" => LoadJournal(j)[n].status # "none"
    BY <2>1 DEF LoadJournal, Line
  <2> QED  BY <1>5, <2>2, RulesOfLines
<1>7. /\ SameAttempts(e, s) /\ Rules(s, LoadJournal(j)) /\ Follows(e, s)
  BY <1>2, <1>4, <1>6, ResolveKeeps, RulesResolved
<1>8. SameAttempts(r, s)  BY <1>3, <1>7, SameAttemptsTransitive
<1>9. Follows(r, s)  BY <1>5, <1>7, FollowsTransitive
<1>10. s \in Record /\ s.used = r.used  BY <1>8 DEF SameAttempts
<1> QED  BY <1>1, <1>2, <1>4, <1>6, <1>7, <1>8, <1>9, <1>10 DEF e

\* Records without attempts keep them.
LEMMA RulesEmpty == \A j : Rules(NoRecord, j) /\ Rules(NewRecord, j)
<1> SUFFICES ASSUME NEW j PROVE Rules(NoRecord, j) /\ Rules(NewRecord, j)  OBVIOUS
<1>1. /\ \A n \in Attempts : NoRecord.attempts[n] = Blank /\ NewRecord.attempts[n] = Blank
      /\ NoRecord.reorganized = FALSE /\ NewRecord.reorganized = FALSE
  BY DEF NoRecord, NewRecord
<1>2. Blank.status = "none" /\ Blank.hash = FALSE /\ Blank.at = NoPlace /\ Blank.doubt = FALSE
  BY DEF Blank
<1>3. Shaped(NoRecord) /\ Shaped(NewRecord)  BY EmptyRecords
<1>4. \A x \in {"lost-race", "minted"} : Before(NoRecord, x) = {} /\ Before(NewRecord, x) = {}
  BY <1>1, <1>2 DEF Before
<1>5. Cardinality({}) = 0 /\ 0 <= MaxAttempts - MaxLots /\ 0 < MaxLots
  BY FS_EmptySet, ConstantTypes
<1>6. Fit(Blank)  BY <1>2 DEF Fit
<1> QED  BY <1>1, <1>2, <1>3, <1>4, <1>5, <1>6 DEF Rules

\* One attempt, replaced by one that fits: not a verdict, with the doubt and the birth it had.
LEMMA RulesAttempt ==
  ASSUME NEW r \in Record, NEW j, NEW n \in Attempts, NEW a \in Attempt, Rules(r, j),
         SameAttempt(r.attempts[n], a), Fit(a),
         a.doubt = r.attempts[n].doubt, a.parent = r.attempts[n].parent,
         r.attempts[n].status \notin Outcomes, a.status # "settled", j[n].status # "none"
  PROVE  LET s == [r EXCEPT !.attempts[n] = a]
         IN /\ s \in Record /\ SameAttempts(r, s) /\ Rules(s, j) /\ Follows(r, s)
            /\ s.attempts[n] = a /\ \A m \in Attempts : m # n => s.attempts[m] = r.attempts[m]
            /\ s.state = r.state /\ s.reorganized = r.reorganized /\ s.used = r.used
<1> DEFINE s == [r EXCEPT !.attempts[n] = a]
<1>1. SameAttempts(r, s) /\ s.state = r.state  BY SetAttempt
<1>2. /\ s \in Record /\ s.used = r.used  BY <1>1 DEF SameAttempts
<1>3. /\ s.attempts[n] = a /\ \A m \in Attempts : m # n => s.attempts[m] = r.attempts[m]
      /\ s.reorganized = r.reorganized
  BY DEF Record
<1> HIDE DEF s
<1>4. Follows(r, s)  BY <1>1, <1>3 DEF Follows
<1>5. \A m \in Attempts : Fit(s.attempts[m])  BY <1>3 DEF Rules
<1>6. s.reorganized <=> \E m \in Attempts : s.attempts[m].doubt
  <2>1. \A m \in Attempts : s.attempts[m].doubt = r.attempts[m].doubt  BY <1>3
  <2> QED  BY <1>3, <2>1 DEF Rules
<1>7. \A m \in Attempts : s.attempts[m].status = "settled" => s.state = "ended"
  BY <1>1, <1>3 DEF Rules
<1>8. \A m \in Attempts : s.attempts[m].hash => j[m].status # "none"
  BY <1>3 DEF Rules
<1>9. Rules(s, j)  BY <1>1, <1>4, <1>5, <1>6, <1>7, <1>8, RulesKept
<1> QED  BY <1>1, <1>2, <1>3, <1>4, <1>9 DEF s

\* The attempts a record holds.
Held(r) == {n \in Attempts : r.attempts[n].status # "none"}

\* s reserves one more attempt than r, born below `parent`.
Reserves(r, s, n, parent) ==
  s = [r EXCEPT !.used = r.used + 1, !.attempts[n] = Reserved(parent)]

\* One more reservation, by a record without doubt whose last verdict admits it.
LEMMA RulesReserved ==
  ASSUME NEW r \in Record, NEW j, Rules(r, j), NEW last \in Nat, last + 1 \in Attempts,
         Held(r) = 1..last,
         last > 0 => r.attempts[last].status \in Admitting, ~r.reorganized,
         Counted(r, "minted") < MaxLots, ~RacesExhausted(r),
         NEW parent, parent = IF last = 0 THEN NoPlace ELSE r.attempts[last].at,
         NEW s \in Record, Shaped(s),
         Reserves(r, s, last + 1, parent)
  PROVE  /\ Rules(s, j) /\ ~s.reorganized
         /\ s.attempts[last + 1].status = "reserved"
         /\ last > 0 => s.attempts[last + 1].parent = r.attempts[last].at
         /\ \A n \in Attempts : n # last + 1 => s.attempts[n] = r.attempts[n]
         /\ Held(s) = 1..(last + 1)
<1> DEFINE a == Reserved(parent)
<1>1. /\ a.status = "reserved" /\ ~a.hash /\ a.at = NoPlace /\ ~a.doubt /\ ~a.finalized
      /\ a.parent = parent
  BY DEF Reserved, Blank
<1>2. /\ s.attempts[last + 1] = a /\ s.reorganized = r.reorganized /\ s.state = r.state
      /\ \A n \in Attempts : n # last + 1 => s.attempts[n] = r.attempts[n]
  <2>1. r.attempts \in [Attempts -> Attempt]  BY DEF Record
  <2> HIDE DEF a
  <2>2. s = [r EXCEPT !.used = @ + 1, !.attempts[last + 1] = a]  BY DEF a, Reserves
  <2>3. s = [r EXCEPT !.used = @ + 1, !.attempts = [r.attempts EXCEPT ![last + 1] = a]]
    BY <2>2 DEF Record
  <2>4. s.attempts = [r.attempts EXCEPT ![last + 1] = a] /\ s.reorganized = r.reorganized
        /\ s.state = r.state
    BY <2>3 DEF Record
  <2> QED  BY <2>1, <2>4
<1> HIDE DEF a
<1>3. /\ 1..(last + 1) = (1..last) \cup {last + 1} /\ last + 1 \notin 1..last
      /\ 1..last \subseteq Attempts
  <2>1. 1..last \subseteq Attempts  BY DEF Held
  <2> QED  BY <2>1
<1>4. \A n \in Attempts : s.attempts[n].status # "none" <=> n \in 1..last \/ n = last + 1
  BY <1>1, <1>2 DEF Held
<1>5. Held(s) = 1..(last + 1)
  BY <1>3, <1>4 DEF Held
<1>6. \A n \in Attempts : Fit(s.attempts[n])
  <2>1. Fit(a)  BY <1>1 DEF Fit, ValidAttempt, WithInclusion, Outcomes
  <2> QED  BY <1>2, <2>1 DEF Rules
<1>7. \A n \in Attempts : ~s.attempts[n].doubt  BY <1>1, <1>2 DEF Rules
<1>8. \A n \in Attempts : n + 1 \in Attempts /\ s.attempts[n + 1].status # "none"
        => n \in 1..last /\ s.attempts[n] = r.attempts[n] /\ r.attempts[n].status \in Admitting
  <2> SUFFICES ASSUME NEW n \in Attempts, n + 1 \in Attempts, s.attempts[n + 1].status # "none"
               PROVE  n \in 1..last /\ s.attempts[n] = r.attempts[n] /\ r.attempts[n].status \in Admitting
    OBVIOUS
  <2>1. n \in Nat /\ n > 0  BY ConstantTypes DEF Attempts
  <2>2. n + 1 \in 1..last \/ n + 1 = last + 1  BY <1>4
  <2>3. n \in 1..last /\ n # last + 1  BY <2>1, <2>2
  <2>4. CASE n + 1 \in 1..last
    <3>1. r.attempts[n + 1].status # "none"  BY <2>4 DEF Held
    <3> QED  BY <1>2, <2>3, <3>1 DEF Rules
  <2>5. CASE n + 1 = last + 1
    <3>1. n = last  BY <2>1, <2>5
    <3> QED  BY <1>2, <2>1, <2>3, <3>1
  <2> QED  BY <2>2, <2>4, <2>5
<1>9. \A x \in {"minted", "lost-race"} : Before(s, x) \subseteq {n \in Attempts : r.attempts[n].status = x}
  BY <1>8 DEF Before
<1>10. ASSUME NEW x
       PROVE  /\ IsFiniteSet({n \in Attempts : r.attempts[n].status = x})
              /\ Counted(r, x) \in Nat
  <2>1. IsFiniteSet(Attempts)
    <3>1. 1 \in Int /\ MaxAttempts \in Int  BY ConstantTypes
    <3>2. IsFiniteSet(1..MaxAttempts)  BY <3>1, FS_Interval
    <3> QED  BY <3>2 DEF Attempts
  <2>2. {n \in Attempts : r.attempts[n].status = x} \subseteq Attempts  OBVIOUS
  <2> DEFINE A == {n \in Attempts : r.attempts[n].status = x}
  <2> HIDE DEF A
  <2>3. A \subseteq Attempts => IsFiniteSet(A)  BY <2>1, FS_Subset
  <2>4. IsFiniteSet(A) => Cardinality(A) \in Nat  BY FS_CardinalityType
  <2> QED  BY <2>2, <2>3, <2>4 DEF A, Counted
<1>11. \A x \in {"minted", "lost-race"} : Cardinality(Before(s, x)) \in Nat /\ Cardinality(Before(s, x)) <= Counted(r, x)
  <2> SUFFICES ASSUME NEW x \in {"minted", "lost-race"}
               PROVE Cardinality(Before(s, x)) \in Nat /\ Cardinality(Before(s, x)) <= Counted(r, x)
    OBVIOUS
  <2> DEFINE A == {n \in Attempts : r.attempts[n].status = x}
             B == Before(s, x)
  <2>1. B \subseteq A /\ IsFiniteSet(A) /\ Counted(r, x) = Cardinality(A)  BY <1>9, <1>10 DEF Counted
  <2> HIDE DEF A, B
  <2>2. IsFiniteSet(B) /\ Cardinality(B) <= Cardinality(A)  BY <2>1, FS_Subset
  <2>3. Cardinality(B) \in Nat  BY <2>2, FS_CardinalityType
  <2> QED  BY <2>1, <2>2, <2>3 DEF B
<1>12. /\ Cardinality(Before(s, "lost-race")) <= MaxAttempts - MaxLots
       /\ Cardinality(Before(s, "minted")) < MaxLots
  <2>1. Counted(r, "lost-race") \in Nat /\ Counted(r, "minted") \in Nat  BY <1>10
  <2>2. Counted(r, "lost-race") <= MaxAttempts - MaxLots
    <3>1. ~(Counted(r, "lost-race") > MaxAttempts - MaxLots)  BY DEF RacesExhausted
    <3> QED  BY <2>1, <3>1, ConstantTypes
  <2>3. /\ Cardinality(Before(s, "lost-race")) \in Nat /\ Cardinality(Before(s, "minted")) \in Nat
        /\ Cardinality(Before(s, "lost-race")) <= Counted(r, "lost-race")
        /\ Cardinality(Before(s, "minted")) <= Counted(r, "minted")
    BY <1>11
  <2> QED  BY <2>1, <2>2, <2>3, ConstantTypes
<1>13. \A n \in Attempts : n > 1 /\ s.attempts[n].status # "none" => s.attempts[n].parent # NoPlace
  <2>1. CASE last = 0
    <3>1. \A n \in Attempts : n > 1 => n # last + 1 /\ n \notin 1..last  BY <2>1
    <3> QED  BY <1>4, <3>1
  <2>2. CASE last > 0
    <3>1. last \in Attempts /\ r.attempts[last].status \in Admitting /\ parent = r.attempts[last].at
      BY <1>3, <2>2
    <3>2. Fit(r.attempts[last]) /\ r.attempts[last].status # "none"
      BY <3>1 DEF Rules, Admitting
    <3>3. r.attempts[last].at # NoPlace
      BY <3>1, <3>2 DEF Fit, ValidAttempt, WithInclusion, Outcomes, Admitting
    <3> QED  BY <1>1, <1>2, <3>1, <3>3 DEF Rules
  <2> QED  BY <2>1, <2>2
<1>14. \A n \in Attempts : /\ s.attempts[n].status = "settled" => s.state = "ended"
                           /\ s.attempts[n].hash => j[n].status # "none"
  BY <1>1, <1>2 DEF Rules
<1>15. Rules(s, j)
  BY <1>2, <1>6, <1>7, <1>8, <1>12, <1>13, <1>14 DEF Rules
<1>16. last > 0 => a.parent = r.attempts[last].at  BY <1>1
<1> QED  BY <1>1, <1>2, <1>5, <1>15, <1>16

-----------------------------------------------------------------------------
(* The operators.                                                          *)
\* A save queues one more write.
LEMMA SaveQueues ==
  ASSUME NEW r \in Record, NEW j \in Journal, NEW by \in {"session", "other"},
         writes \in Seq(Write), Save(r, j, by)
  PROVE  writes' \in Seq(Write)
BY DEF Save, Write, Image

\* An awaited write saves what it makes the memory.
LEMMA PersistSaves ==
  ASSUME NEW r \in Record, NEW j \in Journal, writes \in Seq(Write), Persist(r, j)
  PROVE  /\ rec' = r /\ journal' = j /\ io' = "wait" /\ writes' \in Seq(Write)
         /\ Save(r, j, "session")
BY SaveQueues DEF Persist

\* A history line with another status.
LEMMA SetLineType ==
  ASSUME NEW j \in Journal, NEW n, NEW s \in LineStatus
  PROVE  SetLine(j, n, s) \in Journal
BY DEF SetLine, Journal, Line

\* An attempt the record holds, with another status.
LEMMA SetStatusKeeps ==
  ASSUME NEW r \in Record, NEW n \in Attempts, NEW s \in Status \ {"none", "included"},
         r.attempts[n].status # "none"
  PROVE  SameAttempts(r, SetStatus(r, n, s)) /\ SetStatus(r, n, s).state = r.state
<1> DEFINE a == [r.attempts[n] EXCEPT !.status = s]
<1>1. r.attempts[n] \in Attempt  BY DEF Record
<1>2. a \in Attempt /\ SameAttempt(r.attempts[n], a)  BY <1>1 DEF Attempt, SameAttempt
<1>3. SetStatus(r, n, s) = [r EXCEPT !.attempts[n] = a]  BY DEF SetStatus, Record
<1> HIDE DEF a
<1>4. /\ SameAttempts(r, [r EXCEPT !.attempts[n] = a])
      /\ [r EXCEPT !.attempts[n] = a].state = r.state
  BY <1>2, SetAttempt
<1> QED  BY <1>3, <1>4

\* An attempt the record holds, found in a block.
LEMMA IncludedKeeps ==
  ASSUME NEW r \in Record, NEW n \in Attempts, NEW p \in Places, r.attempts[n].status # "none"
  PROVE  LET new == [r EXCEPT !.attempts[n].status = "included", !.attempts[n].at = p]
         IN SameAttempts(r, new) /\ new.state = r.state
<1> DEFINE a == [r.attempts[n] EXCEPT !.status = "included", !.at = p]
<1>1. r.attempts[n] \in Attempt /\ "included" \in Status  BY StatusNames DEF Record
<1>2. a \in Attempt /\ SameAttempt(r.attempts[n], a)
  BY <1>1, ConstantTypes DEF Attempt, SameAttempt
<1>3. [r EXCEPT !.attempts[n].status = "included", !.attempts[n].at = p]
        = [r EXCEPT !.attempts[n] = a]
  BY DEF Record
<1> HIDE DEF a
<1>4. /\ SameAttempts(r, [r EXCEPT !.attempts[n] = a])
      /\ [r EXCEPT !.attempts[n] = a].state = r.state
  BY <1>2, SetAttempt
<1> QED  BY <1>3, <1>4

\* The attempt just signed, which has its hash.
LEMMA SignedKeeps ==
  ASSUME NEW r \in Record, NEW n \in Attempts, r.attempts[n].status # "none"
  PROVE  LET new == [r EXCEPT !.attempts[n].status = "signed", !.attempts[n].hash = TRUE]
         IN SameAttempts(r, new) /\ new.state = r.state
<1> DEFINE a == [r.attempts[n] EXCEPT !.status = "signed", !.hash = TRUE]
<1>1. r.attempts[n] \in Attempt /\ "signed" \in Status  BY StatusNames DEF Record
<1>2. a \in Attempt /\ SameAttempt(r.attempts[n], a)  BY <1>1 DEF Attempt, SameAttempt
<1>3. [r EXCEPT !.attempts[n].status = "signed", !.attempts[n].hash = TRUE]
        = [r EXCEPT !.attempts[n] = a]
  BY DEF Record
<1> HIDE DEF a
<1>4. /\ SameAttempts(r, [r EXCEPT !.attempts[n] = a])
      /\ [r EXCEPT !.attempts[n] = a].state = r.state
  BY <1>2, SetAttempt
<1> QED  BY <1>3, <1>4

\* Finality marks inclusions or puts payments in doubt.
LEMMA MarkedKeeps ==
  ASSUME NEW r \in Record, NEW S
  PROVE  SameAttempts(r, Marked(r, S)) /\ Marked(r, S).state = r.state
<1> DEFINE gone == {n \in S : chain[n] # r.attempts[n].at}
           ok   == {n \in S : \A m \in gone : n < m}
           f    == [n \in Attempts |-> IF n \in ok THEN [r.attempts[n] EXCEPT !.finalized = TRUE]
                                                   ELSE r.attempts[n]]
           kept == [r EXCEPT !.attempts = f]
<1>1. \A n \in Attempts : r.attempts[n] \in Attempt  BY DEF Record
<1>2. \A a \in Attempt : /\ [a EXCEPT !.finalized = TRUE] \in Attempt
                         /\ SameAttempt(a, [a EXCEPT !.finalized = TRUE])
  BY DEF Attempt, SameAttempt
<1>3. f \in [Attempts -> Attempt]  BY <1>1, <1>2
<1>4. \A n \in Attempts : SameAttempt(r.attempts[n], f[n])  BY <1>1, <1>2 DEF SameAttempt
<1>5. Marked(r, S) = IF gone = {} THEN kept ELSE DoubtFrom(kept, Min(gone))
  BY DEF Marked, Record
<1> HIDE DEF f, gone, ok
<1>6. SameAttempts(r, kept) /\ kept.state = r.state  BY <1>3, <1>4, NewAttempts
<1> HIDE DEF kept
<1>7. kept \in Record  BY <1>6 DEF SameAttempts
<1>8. \A k : SameAttempts(kept, DoubtFrom(kept, k)) /\ DoubtFrom(kept, k).state = kept.state
  BY <1>7, PutInDoubtKeeps DEF DoubtFrom
<1>9. \A k : SameAttempts(r, DoubtFrom(kept, k)) /\ DoubtFrom(kept, k).state = r.state
  BY <1>6, <1>8, SameAttemptsTransitive
<1> QED  BY <1>5, <1>6, <1>9

\* Doubt over every inclusion that is not final.
LEMMA DoubtOpenKeeps ==
  ASSUME NEW r \in Record
  PROVE  SameAttempts(r, DoubtOpen(r)) /\ DoubtOpen(r).state = r.state
BY PutInDoubtKeeps DEF DoubtOpen

\* The end of a session keeps its attempts, and the lines of those released.
LEMMA EndKeeps ==
  ASSUME NEW r \in Record, NEW why, journal \in Journal, writes \in Seq(Write), End(r, why)
  PROVE  /\ SameAttempts(r, rec') /\ rec'.state = "ended"
         /\ journal' \in Journal
         /\ \A n \in Attempts \cap released : journal'[n] = journal[n]
         /\ Save(rec', journal', "session") /\ writes' \in Seq(Write)
         /\ io' = "wait" /\ pc' = "end" /\ reason' = why
         /\ stopWith' = IF stopWith = "none" THEN "own" ELSE stopWith
         /\ UNCHANGED <<released, seen>>
<1> DEFINE f == [n \in Attempts |-> IF n \in Unreleased(r)
                                    THEN [r.attempts[n] EXCEPT !.status = "cancelled"]
                                    ELSE r.attempts[n]]
           j == [n \in Attempts |->
                   IF n \in Unreleased(r) /\ r.attempts[n].hash
                   THEN [journal[n] EXCEPT !.status = "cancelled-before-broadcast"]
                   ELSE journal[n]]
           new == [r EXCEPT !.state = "ended", !.attempts = f]
<1>1. \A n \in Attempts : r.attempts[n] \in Attempt  BY DEF Record
<1>2. \A n \in Unreleased(r) : r.attempts[n].status # "none" /\ n \notin released
  BY DEF Unreleased
<1>3. \A a \in Attempt : /\ [a EXCEPT !.status = "cancelled"] \in Attempt
                         /\ [a EXCEPT !.status = "cancelled"].status = "cancelled"
  BY StatusNames DEF Attempt
<1>4. f \in [Attempts -> Attempt]  BY <1>1, <1>3
<1>5. \A n \in Attempts : SameAttempt(r.attempts[n], f[n])
  BY <1>1, <1>2, <1>3 DEF SameAttempt
<1>6. \A n \in Attempts : journal[n] \in Line  BY DEF Journal
<1>7. \A l \in Line : [l EXCEPT !.status = "cancelled-before-broadcast"] \in Line
  BY LineNames DEF Line
<1>8. j \in Journal  BY <1>6, <1>7 DEF Journal
<1>9. \A n \in Attempts \cap released : j[n] = journal[n]  BY <1>2
<1>10. Persist(new, j)  BY DEF End, Record
<1> HIDE DEF f, j
<1>11. SameAttempts(r, new) /\ new.state = "ended"  BY <1>4, <1>5, NewAttempts
<1>12. new \in Record  BY <1>11 DEF SameAttempts
<1> HIDE DEF new
<1>13. /\ rec' = new /\ journal' = j /\ io' = "wait" /\ writes' \in Seq(Write)
       /\ Save(new, j, "session")
  BY <1>8, <1>10, <1>12, PersistSaves
<1> QED  BY <1>8, <1>9, <1>11, <1>13 DEF End

-----------------------------------------------------------------------------
(* Who owns the record and the bytes.                                      *)
\* The history task asks about an attempt; the answer it awaits never says unsent.
Asking(s) == s.phase \in {"asked", "again"} =>
               s.on \in Attempts /\ s.report.status \in {"pending", "included", "expired", "finalized"}

\* Where the controller stands while its record runs.
Running == Reading \cup Signing \cup {"approve", "judged", "submit"}

\* The record's attempts are its first ones; the controller's record runs until its end; its last
\* attempt is unreleased from its reservation to its release; only its own payments are released,
\* and until the worker dies it remembers each of them.
Owned ==
  /\ Shaped(rec)
  /\ pc \in {"idle", "approve"} => rec.used = 0 /\ released = {} /\ wire = {}
  /\ pc \in Signing \cup {"submit"} => Last > 0
  /\ pc \in Running => rec.state = "running"
  /\ pc \in {"idle", "submit", "found", "classify"} => io # "wait"
  /\ pc = "found" => seen \in Places
  /\ pc # "off" => wire \subseteq released
  /\ released \subseteq 1..Last
  /\ pc \in Signing => Last \notin released
  /\ Asking(sync)

\* A write a step queues holds the memory it leaves, and at most one is awaited.
Wrote == \/ io # "wait" /\ Save(rec', journal', "session") /\ io' = "wait"
         \/ Save(rec', journal', "other") /\ io' = io
         \/ writes' = writes /\ (io' = io \/ (io # "wait" /\ io' = "none"))

\* A line that says a payment left, or is about to, never says again that it did not.
Lasting == \A n \in Attempts : Told(journal, n) /\ (n \in wire \/ pc' = "uncertain") => Told(journal', n)

\* What every step does but a write that lands and the worker's death.
Step == /\ rec'.used = rec.used \/ Reserve
        /\ wire' = wire \/ Release
        /\ signatures' = signatures \/ (pc = "reserve" /\ stopWith = "none")
        /\ pc' = "uncertain" => Last' = Last /\ (pc = "uncertain" \/ MarkUncertain)
        /\ disk' = disk
        /\ Wrote /\ Lasting

\* Such is a step that leaves the memory, the storage and the awaited write alone.
LEMMA Untouched == UNCHANGED <<rec, journal, disk, writes, io, pc, wire, signatures>> => Step
BY DEF Step, Wrote, Lasting, Told, Last, HeldAttempts

\* A line that takes another status stays told if that status tells, or nothing left.
LEMMA SetLineLasts ==
  ASSUME journal \in Journal, wire \subseteq Attempts, NEW n, NEW st \in LineStatus,
         journal' = SetLine(journal, n, st),
         (n \notin wire /\ pc' # "uncertain")
           \/ st \notin {"none", "signed-not-submitted", "cancelled-before-broadcast"}
  PROVE  Lasting
BY DEF Lasting, Told, SetLine, Journal, Line

\* The number of attempts held.
LEMMA LastIsHeld ==
  ASSUME rec \in Record, Shaped(rec)
  PROVE  /\ Last \in 0..rec.used /\ Last \in Nat /\ Last <= MaxAttempts
         /\ HeldAttempts = 1..Last
         /\ rec.used \in 0..MaxAttempts
         /\ \A n \in 1..Last : n \in Attempts /\ rec.attempts[n].status # "none"
<1>1. /\ Last \in 0..rec.used /\ HeldAttempts = 1..Last /\ rec.used \in 0..MaxAttempts
  BY ShapeCounts DEF Last, HeldAttempts
<1>2. Last \in Nat /\ Last <= MaxAttempts  BY <1>1, ConstantTypes
<1> QED  BY <1>1, <1>2 DEF HeldAttempts

\* A step that keeps the attempts keeps their number.
LEMMA LastKept ==
  ASSUME rec \in Record, Shaped(rec), SameAttempts(rec, rec')
  PROVE  /\ Last' = Last /\ HeldAttempts' = HeldAttempts /\ Shaped(rec)'
         /\ rec' \in Record /\ rec'.used = rec.used
<1>1. /\ {n \in Attempts : rec'.attempts[n].status # "none"}
           = {n \in Attempts : rec.attempts[n].status # "none"}
      /\ Shaped(rec')
  BY ShapeKept
<1> QED  BY <1>1 DEF Last, HeldAttempts, SameAttempts, Shaped

\* Each event counted stays within its bound.
LEMMA FaultCounted ==
  ASSUME faults \in Faults
  PROVE  /\ faults.saves < MaxSaves => [faults EXCEPT !.saves = faults.saves + 1] \in Faults
         /\ faults.histories < MaxHistories
              => [faults EXCEPT !.histories = faults.histories + 1] \in Faults
         /\ faults.crashes < MaxCrashes
              => [faults EXCEPT !.crashes = faults.crashes + 1] \in Faults
         /\ faults.writes < MaxWriteFailures
              => [faults EXCEPT !.writes = faults.writes + 1] \in Faults
         /\ faults.reorgs < MaxReorgs => [faults EXCEPT !.reorgs = faults.reorgs + 1] \in Faults
         /\ faults.rivals < MaxRivals => [faults EXCEPT !.rivals = faults.rivals + 1] \in Faults
BY SessionAssumption DEF SessionAssumption, Faults

\* The initial states have the types, and nothing is owned yet.
LEMMA OwnedInit == Init => TypeOK /\ Owned
<1> SUFFICES ASSUME Init PROVE TypeOK /\ Owned  OBVIOUS
<1>1. NoLine \in Line  BY LineNames DEF NoLine, Line
<1>2. journal \in Journal  BY <1>1 DEF Init, Journal
<1>3. rec \in Record /\ rec.used = 0 /\ rec.state = "none" /\ Shaped(rec)
  BY EmptyRecords DEF Init
<1>4. disk \in Image  BY <1>2, <1>3 DEF Init, Image
<1>5. sync \in [on : 0..MaxAttempts, phase : {"idle", "asked", "again", "save"}, report : Line]
  BY <1>1, ConstantTypes DEF Init, Idle
<1>6. 0 \in 0..MaxHeight /\ 0 \in 0..MaxSaves /\ 0 \in 0..MaxHistories /\ 0 \in 0..MaxCrashes
      /\ 0 \in 0..MaxWriteFailures /\ 0 \in 0..MaxReorgs /\ 0 \in 0..MaxRivals
  BY SessionAssumption DEF SessionAssumption
<1>7. /\ final \in 0..MaxHeight
      /\ faults \in Faults
  BY <1>6 DEF Init, Faults
<1>8. chain \in [Attempts -> Here \cup {Rival}]  BY DEF Init, Here
<1>9. TypeOK
  BY <1>2, <1>3, <1>4, <1>5, <1>7, <1>8 DEF Init, TypeOK, Stages, Here
<1>10. Owned
  BY <1>3, EmptyRecords DEF Init, Owned, Asking, Idle, Running, Reading, Signing
<1> QED  BY <1>9, <1>10

\* The chain's steps leave the wallet alone.
LEMMA OwnedEnvironment == TypeOK /\ Owned /\ Environment => (TypeOK /\ Owned)' /\ Step
<1> SUFFICES ASSUME TypeOK, Owned, Environment PROVE (TypeOK /\ Owned)' /\ Step  OBVIOUS
<1> USE DEF memory, storage, control, past
<1>1. ASSUME NEW n \in Attempts, NEW p \in Places, Include(n, p) PROVE (TypeOK /\ Owned)' /\ Step
  <2>1. TypeOK'  BY <1>1 DEF Include, TypeOK, Here
  <2>2. Owned'  BY <1>1 DEF Include, Owned, Last, HeldAttempts
  <2> QED  BY <1>1, <2>1, <2>2, Untouched DEF Include
<1>2. ASSUME NEW n \in Attempts, Replace(n) PROVE (TypeOK /\ Owned)' /\ Step
  <2>1. faults' \in Faults  BY <1>2, FaultCounted DEF Replace, TypeOK
  <2>2. TypeOK'  BY <1>2, <2>1 DEF Replace, TypeOK, Here
  <2>3. Owned'  BY <1>2 DEF Replace, Owned, Last, HeldAttempts
  <2> QED  BY <1>2, <2>2, <2>3, Untouched DEF Replace
<1>3. ASSUME NEW n \in Attempts, Reorganize(n) PROVE (TypeOK /\ Owned)' /\ Step
  <2>1. faults' \in Faults  BY <1>3, FaultCounted DEF Reorganize, TypeOK
  <2>2. TypeOK'  BY <1>3, <2>1 DEF Reorganize, TypeOK, Here
  <2>3. Owned'  BY <1>3 DEF Reorganize, Owned, Last, HeldAttempts
  <2> QED  BY <1>3, <2>2, <2>3, Untouched DEF Reorganize
<1>4. ASSUME NEW n \in Attempts, Close(n) PROVE (TypeOK /\ Owned)' /\ Step
  <2>1. TypeOK'  BY <1>4 DEF Close, TypeOK
  <2>2. Owned'  BY <1>4 DEF Close, Owned, Last, HeldAttempts
  <2> QED  BY <1>4, <2>1, <2>2, Untouched DEF Close
<1>5. ASSUME Finalize PROVE (TypeOK /\ Owned)' /\ Step
  <2>1. final' \in 0..MaxHeight
    BY <1>5, SessionAssumption DEF Finalize, TypeOK, SessionAssumption
  <2>2. TypeOK'  BY <1>5, <2>1 DEF Finalize, TypeOK
  <2>3. Owned'  BY <1>5 DEF Finalize, Owned, Last, HeldAttempts
  <2> QED  BY <1>5, <2>2, <2>3, Untouched DEF Finalize
<1> QED  BY <1>1, <1>2, <1>3, <1>4, <1>5 DEF Environment

\* What most steps of the controller and its settle task leave: the attempts held and the bytes
\* released, with a stage that needs no more of them than before.
LEMMA OwnedFrame ==
  ASSUME TypeOK, Owned, SameAttempts(rec, rec'), rec'.state = rec.state \/ pc' \notin Running,
         journal' \in Journal, writes' \in Seq(Write), Others, Wrote, Lasting,
         io' \in {"none", "wait", "ok", "failed"}, pc' \in Stages,
         reason' \in {"none", "own"} \cup StopReasons,
         stopWith' \in {"none", "own"} \cup StopReasons,
         unverifiedAt' \in Here, seen' \in Here, released' = released,
         signatures' \subseteq Attempts,
         signatures' = signatures \/ (pc = "reserve" /\ stopWith = "none"),
         pc' = "uncertain" => pc = "uncertain" \/ MarkUncertain,
         pc' \in {"idle", "submit", "found", "classify"} => io' # "wait",
         pc # "off" \/ pc' = "off",
         pc' \notin {"idle", "approve"}, pc' = "found" => seen' \in Places,
         pc' \in Running => pc \in Running,
         pc' \in Signing => pc \in Signing,
         pc' \in {"submit"} => pc \in Signing \cup {"submit"}
  PROVE  (TypeOK /\ Owned)' /\ Step
<1>1. Last' = Last /\ Shaped(rec)' /\ rec' \in Record /\ rec'.used = rec.used
  BY LastKept DEF TypeOK, Owned
<1>2. TypeOK'  BY <1>1 DEF TypeOK, Others, world
<1>3. Owned'  BY <1>1 DEF Owned, Others
<1>4. Step  BY <1>1 DEF Step, Others
<1> QED  BY <1>2, <1>3, <1>4

\* A step that ends the session.
LEMMA OwnedEnd ==
  ASSUME TypeOK, Owned, NEW r \in Record, SameAttempts(rec, r),
         NEW why \in {"own"} \cup StopReasons, End(r, why), Others, pc # "off", io # "wait",
         unverifiedAt' \in Here, signatures' \subseteq Attempts,
         signatures' = signatures \/ (pc = "reserve" /\ stopWith = "none")
  PROVE  (TypeOK /\ Owned)' /\ Step
<1>1. /\ SameAttempts(r, rec') /\ journal' \in Journal /\ writes' \in Seq(Write)
      /\ io' = "wait" /\ pc' = "end" /\ reason' = why
      /\ stopWith' = IF stopWith = "none" THEN "own" ELSE stopWith
      /\ released' = released /\ seen' = seen /\ Save(rec', journal', "session")
      /\ \A n \in Attempts \cap released : journal'[n] = journal[n]
  BY EndKeeps DEF TypeOK
<1>2. SameAttempts(rec, rec')  BY <1>1, SameAttemptsTransitive
<1>3. pc' \in Stages /\ pc' \notin Running \cup Signing
  BY <1>1 DEF Stages, Running, Reading, Signing
<1>4. seen' \in Here /\ stopWith' \in {"none", "own"} \cup StopReasons
  BY <1>1 DEF TypeOK
<1>5. Wrote  BY <1>1 DEF Wrote
<1>6. Lasting  BY <1>1 DEF Lasting, Owned, TypeOK, Told
<1> QED  BY <1>1, <1>2, <1>3, <1>4, <1>5, <1>6, OwnedFrame

\* RefreshFinality in either task.
LEMMA RefreshKeeps ==
  ASSUME TypeOK, NEW next, RefreshFinality(next)
  PROVE  /\ SameAttempts(rec, rec') /\ rec'.state = rec.state
         /\ journal' \in Journal /\ writes' \in Seq(Write)
         /\ io' \in {"none", "wait"} /\ pc' = next
         /\ Wrote /\ Lasting
<1>1. CASE UNCHANGED <<memory, writes>> /\ io' = "none"
  BY <1>1, SameAttemptsReflexive DEF memory, RefreshFinality, TypeOK, Wrote, Lasting, Told
<1>2. CASE Persist(Marked(rec, Reached(rec)), journal)
  <2> DEFINE m == Marked(rec, Reached(rec))
  <2>1. SameAttempts(rec, m) /\ m.state = rec.state  BY MarkedKeeps DEF TypeOK
  <2>2. m \in Record  BY <2>1 DEF SameAttempts
  <2>3. /\ rec' = m /\ journal' = journal /\ io' = "wait" /\ writes' \in Seq(Write)
        /\ Save(m, journal, "session")
    BY <1>2, <2>2, PersistSaves DEF TypeOK
  <2> HIDE DEF m
  <2> QED  BY <2>1, <2>3 DEF RefreshFinality, TypeOK, Wrote, Lasting, Told
<1> QED  BY <1>1, <1>2 DEF RefreshFinality

\* The approval, and a pass up to the reservation.
LEMMA OwnedPass ==
  TypeOK /\ Owned /\ (\/ Approve \/ Approved \/ Refused \/ Pass \/ ReadFails \/ Quit \/ Reorganized
                      \/ Follow \/ Ready \/ Tip \/ Judged)
    => (TypeOK /\ Owned)' /\ Step
<1> SUFFICES ASSUME TypeOK, Owned,
                    \/ Approve \/ Approved \/ Refused \/ Pass \/ ReadFails \/ Quit \/ Reorganized
                    \/ Follow \/ Ready \/ Tip \/ Judged
             PROVE  (TypeOK /\ Owned)' /\ Step
  OBVIOUS
<1> USE DEF Running, Reading, Signing
<1>0. /\ rec \in Record /\ journal \in Journal /\ writes \in Seq(Write) /\ SameAttempts(rec, rec)
      /\ released \subseteq Attempts /\ signatures \subseteq Attempts
      /\ seen \in Here /\ unverifiedAt \in Here
      /\ reason \in {"none", "own"} \cup StopReasons
      /\ stopWith \in {"none", "own"} \cup StopReasons
      /\ Last \in Nat /\ \A n \in 1..Last : n \in Attempts /\ rec.attempts[n].status # "none"
  BY SameAttemptsReflexive, LastIsHeld DEF TypeOK, Owned
<1>1. CASE Approve
  <2>1. /\ rec' = NewRecord /\ journal' = journal /\ io' = "wait" /\ writes' \in Seq(Write)
        /\ Save(NewRecord, journal, "session")
    BY <1>0, <1>1, PersistSaves, EmptyRecords DEF Approve
  <2>2. rec' \in Record /\ rec'.used = 0 /\ rec'.state = "running" /\ Shaped(rec')
    BY <2>1, EmptyRecords
  <2>3. TypeOK'  BY <1>1, <2>1, <2>2 DEF Approve, TypeOK, Quiet, Others, world, Stages
  <2>4. Owned'  BY <1>1, <2>1, <2>2 DEF Approve, Owned, Quiet, Others
  <2>5. Step
    BY <1>1, <2>1, <2>2 DEF Approve, Owned, Others, Quiet, Step, Wrote, Lasting, Told
  <2> QED  BY <2>3, <2>4, <2>5
<1>2. CASE Approved
  <2>1. CASE io = "failed"
    <3>1. rec' \in Record /\ rec'.used = 0 /\ Shaped(rec')
      BY <1>2, <2>1, EmptyRecords DEF Approved
    <3>2. TypeOK'  BY <1>2, <2>1, <3>1 DEF Approved, TypeOK, Quiet, Others, world, Stages
    <3>3. Owned'  BY <1>2, <2>1, <3>1 DEF Approved, Owned, Quiet, Others
    <3>4. Step
      BY <1>2, <2>1, <3>1 DEF Approved, Owned, Others, Quiet, Step, Wrote, Lasting, Told
    <3> QED  BY <3>2, <3>3, <3>4
  <2>2. CASE io # "failed" /\ pc' = "pass"
    <3>1. /\ rec' = rec /\ journal' = journal /\ writes' = writes /\ io' = "none" /\ Quiet /\ Others
          /\ pc = "approve" /\ io # "wait"
      BY <1>2, <2>2 DEF Approved, memory
    <3> QED  BY <1>0, <2>2, <3>1, OwnedFrame DEF Quiet, Stages, Wrote, Lasting, Told
  <2>3. CASE io # "failed" /\ pc' # "pass"
    <3> DEFINE r == [rec EXCEPT !.state = "ended"]
    <3>1. r \in Record /\ SameAttempts(rec, r)  BY <1>0 DEF Record, SameAttempts, SameAttempt
    <3>2. Persist(r, journal) /\ pc' = "refused" /\ Quiet /\ Others /\ pc = "approve" /\ io # "wait"
      BY <1>2, <2>3 DEF Approved
    <3> HIDE DEF r
    <3>3. /\ rec' = r /\ journal' = journal /\ io' = "wait" /\ writes' \in Seq(Write)
          /\ Save(r, journal, "session")
      BY <1>0, <3>1, <3>2, PersistSaves
    <3> QED  BY <1>0, <3>1, <3>2, <3>3, OwnedFrame DEF Quiet, Stages, Wrote, Lasting, Told
  <2> QED  BY <2>1, <2>2, <2>3
<1>3. CASE Refused
  <2>1. /\ rec' = rec /\ journal' = journal /\ writes' = writes /\ io' = "none" /\ pc' = "off"
        /\ Quiet /\ Others /\ pc = "refused" /\ io # "wait"
    BY <1>3 DEF Refused, Answered, memory
  <2> QED  BY <1>0, <2>1, OwnedFrame DEF Quiet, Stages, Wrote, Lasting, Told
<1>4. CASE Pass
  <2>1. RefreshFinality("prev") /\ Quiet /\ Others /\ pc = "pass"  BY <1>4 DEF Pass
  <2>2. /\ SameAttempts(rec, rec') /\ rec'.state = rec.state
        /\ journal' \in Journal /\ writes' \in Seq(Write) /\ Wrote /\ Lasting
        /\ io' \in {"none", "wait"} /\ pc' = "prev"
    BY <2>1, RefreshKeeps
  <2> QED  BY <1>0, <2>1, <2>2, OwnedFrame DEF Quiet, Stages, Wrote, Lasting, Told
<1>5. CASE ReadFails
  <2>1. /\ journal' = journal /\ writes' = writes /\ io' = "none" /\ pc' = "pass"
        /\ Quiet /\ Others /\ pc \in Reading /\ io # "wait"
    BY <1>5 DEF ReadFails, Answered
  <2>2. SameAttempts(rec, rec') /\ rec'.state = rec.state
    BY <1>0, <1>5, MarkedKeeps DEF ReadFails, RefreshInterrupted
  <2> QED  BY <1>0, <2>1, <2>2, OwnedFrame DEF Quiet, Stages, Wrote, Lasting, Told
<1>6. CASE Quit
  <2>1. PICK why \in {"own"} \cup StopReasons : End(rec, why)
    BY <1>0, <1>6 DEF Quit
  <2>2. /\ Others /\ pc # "off" /\ io # "wait"
        /\ unverifiedAt' = unverifiedAt /\ signatures' = signatures
    BY <1>6 DEF Quit
  <2> QED  BY <1>0, <2>1, <2>2, OwnedEnd
<1>7. CASE Reorganized
  <2>1. /\ End(rec, "own") /\ Others /\ pc # "off" /\ io # "wait" /\ unverifiedAt' = unverifiedAt
        /\ signatures' = signatures
    BY <1>7 DEF Reorganized
  <2> QED  BY <1>0, <2>1, OwnedEnd
<1>8. CASE Follow
  <2>1. /\ Others /\ pc = "prev" /\ io # "wait" /\ signatures' = signatures
        /\ Last > 0 /\ Last \in Attempts
        /\ rec.attempts[Last].status # "none"
    BY <1>0, <1>8 DEF Follow, LastIs
  <2>2. {"replaced", "expired", "dead"} \subseteq Status \ {"none"}  BY StatusNames
  <2>3. \A st \in {"replaced", "expired", "dead"} :
          SetStatus(rec, Last, st) \in Record /\ SameAttempts(rec, SetStatus(rec, Last, st))
    BY <1>0, <2>1, <2>2, SetStatusKeeps DEF SameAttempts
  <2>4. CASE Reorg
    <3>1. DoubtOpen(rec) \in Record /\ SameAttempts(rec, DoubtOpen(rec))
      BY <1>0, DoubtOpenKeeps DEF SameAttempts
    <3> QED  BY <1>0, <2>1, <2>4, <3>1, OwnedEnd DEF Reorg
  <2>5. CASE \E st \in {"replaced", "expired"} :
               End(SetStatus(rec, Last, st), "own") /\ UNCHANGED unverifiedAt
    BY <1>0, <2>1, <2>3, <2>5, OwnedEnd
  <2>6. CASE End(DoubtOpen(SetStatus(rec, Last, "dead")), "own") /\ UNCHANGED unverifiedAt
    <3> DEFINE r == SetStatus(rec, Last, "dead")
    <3>1. r \in Record /\ SameAttempts(rec, r)  BY <2>3
    <3> HIDE DEF r
    <3>2. DoubtOpen(r) \in Record /\ SameAttempts(rec, DoubtOpen(r))
      BY <3>1, DoubtOpenKeeps, SameAttemptsTransitive DEF SameAttempts
    <3>3. End(DoubtOpen(r), "own") /\ UNCHANGED unverifiedAt  BY <2>6 DEF r
    <3> QED  BY <1>0, <2>1, <3>2, <3>3, OwnedEnd
  <2>7. CASE /\ pc' = "pass" /\ io' = "none" /\ UNCHANGED <<memory, writes>>
             /\ UNCHANGED <<reason, stopWith, released, unverifiedAt, seen>>
    BY <1>0, <2>1, <2>7, OwnedFrame DEF memory, Stages, Wrote, Lasting, Told
  <2>8. CASE /\ Persist([rec EXCEPT !.attempts[Last].status = "included",
                                    !.attempts[Last].at = chain[Last]], journal)
             /\ pc' = "tip" /\ Placed(Last)
             /\ UNCHANGED <<reason, stopWith, released, unverifiedAt, seen>>
    <3> DEFINE r == [rec EXCEPT !.attempts[Last].status = "included",
                                !.attempts[Last].at = chain[Last]]
    <3>1. chain[Last] \in Places  BY <2>8 DEF Placed
    <3>2. SameAttempts(rec, r) /\ r.state = rec.state  BY <1>0, <2>1, <3>1, IncludedKeeps
    <3>3. r \in Record  BY <3>2 DEF SameAttempts
    <3> HIDE DEF r
    <3>4. /\ rec' = r /\ journal' = journal /\ io' = "wait" /\ writes' \in Seq(Write)
          /\ Save(r, journal, "session")
      BY <1>0, <2>8, <3>3, PersistSaves DEF r
    <3> QED  BY <1>0, <2>1, <2>8, <3>2, <3>4, OwnedFrame DEF Stages, Wrote, Lasting, Told
  <2> QED  BY <1>8, <2>4, <2>5, <2>6, <2>7, <2>8 DEF Follow
<1>9. CASE Ready
  <2>1. /\ rec' = rec /\ journal' = journal /\ writes' = writes /\ io' = "none" /\ pc' = "tip"
        /\ Quiet /\ Others /\ pc = "prev" /\ io # "wait"
    BY <1>9 DEF Ready, Answered, memory
  <2> QED  BY <1>0, <2>1, OwnedFrame DEF Quiet, Stages, Wrote, Lasting, Told
<1>10. CASE Tip
  <2>1. Others /\ pc = "tip" /\ io # "wait" /\ signatures' = signatures  BY <1>10 DEF Tip
  <2>2. CASE Reorg
    <3>1. DoubtOpen(rec) \in Record /\ SameAttempts(rec, DoubtOpen(rec))
      BY <1>0, DoubtOpenKeeps DEF SameAttempts
    <3> QED  BY <1>0, <2>1, <2>2, <3>1, OwnedEnd DEF Reorg
  <2>3. CASE LastIs({"included"}) /\ ~Reorg /\ pc' = "end"
    <3>1. unverifiedAt' = rec.attempts[Last].at /\ End(rec, "own")
      BY <1>10, <2>3 DEF Tip, LastIs
    <3>2. Last \in Attempts  BY <1>0, <2>3 DEF LastIs
    <3>3. unverifiedAt' \in Here  BY <1>0, <3>1, <3>2 DEF Record, Attempt, Here
    <3> QED  BY <1>0, <2>1, <3>1, <3>3, OwnedEnd
  <2>4. CASE LastIs({"included"}) /\ ~Reorg /\ pc' # "end"
    <3> DEFINE st == Effect[rec.attempts[Last].at]
               r  == SetStatus(rec, Last, st)
    <3>0. Last \in Attempts /\ rec.attempts[Last].status = "included"  BY <1>0, <2>4 DEF LastIs
    <3>2. rec.attempts[Last].at \in Places
      BY <1>0, <3>0 DEF Owned, Shaped, Record, Attempt
    <3>3. st \in Status \ {"none", "included"}
      BY <3>2, ConstantTypes, StatusNames DEF Outcomes
    <3>1. /\ Persist(r, journal) /\ pc' = "judged"
          /\ UNCHANGED <<reason, stopWith, released, unverifiedAt, seen>>
      BY <1>10, <2>4 DEF Tip, End
    <3> HIDE DEF st
    <3>4. SameAttempts(rec, r) /\ r.state = rec.state  BY <1>0, <3>0, <3>3, SetStatusKeeps
    <3>5. r \in Record  BY <3>4 DEF SameAttempts
    <3> HIDE DEF r
    <3>6. /\ rec' = r /\ journal' = journal /\ io' = "wait" /\ writes' \in Seq(Write)
          /\ Save(r, journal, "session")
      BY <1>0, <3>1, <3>5, PersistSaves
    <3> QED  BY <1>0, <2>1, <3>1, <3>4, <3>6, OwnedFrame DEF Stages, Wrote, Lasting, Told
  <2>5. CASE ~LastIs({"included"}) /\ ~Reorg
    <3>1. /\ pc' = "admit" /\ io' = "none"
          /\ UNCHANGED <<memory, writes, reason, stopWith, released, unverifiedAt, seen>>
      BY <1>10, <2>5 DEF Tip
    <3> QED  BY <1>0, <2>1, <3>1, OwnedFrame DEF memory, Stages, Wrote, Lasting, Told
  <2> QED  BY <2>2, <2>3, <2>4, <2>5
<1>11. CASE Judged
  <2>1. /\ Others /\ pc = "judged" /\ io # "wait"
        /\ signatures' = signatures /\ unverifiedAt' = unverifiedAt
    BY <1>11 DEF Judged
  <2>2. CASE End(rec, "own")
    BY <1>0, <2>1, <2>2, OwnedEnd
  <2>3. CASE ~End(rec, "own")
    <3>1. /\ pc' \in {"tip", "admit"} /\ io' = "none"
          /\ UNCHANGED <<memory, writes, reason, stopWith, released, seen>>
      BY <1>11, <2>3 DEF Judged
    <3> QED  BY <1>0, <2>1, <3>1, OwnedFrame DEF memory, Stages, Wrote, Lasting, Told
  <2> QED  BY <2>2, <2>3
<1> QED  BY <1>1, <1>2, <1>3, <1>4, <1>5, <1>6, <1>7, <1>8, <1>9, <1>10, <1>11

\* P7-P15 and the end.
LEMMA OwnedPayment ==
  TypeOK /\ Owned /\ (\/ Reserve \/ Withhold \/ Sign \/ MarkUncertain \/ Release \/ EndWritten
                      \/ \E b \in BOOLEAN : SignRefused(b) \/ Submitted(b))
    => (TypeOK /\ Owned)' /\ Step
<1> SUFFICES ASSUME TypeOK, Owned,
                    \/ Reserve \/ Withhold \/ Sign \/ MarkUncertain \/ Release \/ EndWritten
                    \/ \E b \in BOOLEAN : SignRefused(b) \/ Submitted(b)
             PROVE  (TypeOK /\ Owned)' /\ Step
  OBVIOUS
<1> USE DEF Running, Reading, Signing
<1>0. /\ rec \in Record /\ journal \in Journal /\ writes \in Seq(Write) /\ SameAttempts(rec, rec)
      /\ released \subseteq Attempts /\ signatures \subseteq Attempts
      /\ seen \in Here /\ unverifiedAt \in Here
      /\ reason \in {"none", "own"} \cup StopReasons /\ wire \subseteq Attempts
      /\ stopWith \in {"none", "own"} \cup StopReasons
      /\ Last \in 0..rec.used /\ rec.used \in 0..MaxAttempts /\ HeldAttempts = 1..Last
      /\ Last \in Nat /\ \A n \in 1..Last : n \in Attempts /\ rec.attempts[n].status # "none"
      /\ MaxAttempts \in Nat
  BY SameAttemptsReflexive, LastIsHeld, ConstantTypes DEF TypeOK, Owned
<1>1. CASE Reserve
  <2> DEFINE parent == IF Last = 0 THEN NoPlace ELSE rec.attempts[Last].at
             f == [rec.attempts EXCEPT ![Last + 1] = Reserved(parent)]
             r == [rec EXCEPT !.used = @ + 1, !.attempts[Last + 1] = Reserved(parent)]
  <2>1. /\ Persist(r, journal) /\ pc' = "reserve" /\ Quiet /\ Others
        /\ pc = "admit" /\ io # "wait" /\ rec.used < MaxAttempts
    BY <1>1 DEF Reserve, Admits
  <2>2. Last + 1 \in Attempts /\ Last \in 0..MaxAttempts /\ rec.used + 1 \in 0..MaxAttempts
    BY <1>0, <2>1 DEF Attempts
  <2>3. parent \in Places \cup {NoPlace}  BY <1>0 DEF Record, Attempt
  <2> HIDE DEF parent
  <2>4. Reserved(parent) \in Attempt /\ Reserved(parent).status = "reserved"
    BY <2>3, StatusNames DEF Reserved, Blank, Attempt
  <2>5. f \in [Attempts -> Attempt]  BY <1>0, <2>2, <2>4 DEF Record
  <2>6. /\ r \in Record /\ r.used = rec.used + 1 /\ r.attempts = f /\ r.state = rec.state
    BY <1>0, <2>2, <2>5 DEF Record
  <2>7. {n \in Attempts : f[n].status # "none"} = 1..(Last + 1)
    <3>1. {n \in Attempts : rec.attempts[n].status # "none"} = 1..Last  BY <1>0 DEF HeldAttempts
    <3>2. rec.attempts \in [Attempts -> Attempt]  BY <1>0 DEF Record
    <3>3. \A n \in Attempts : f[n].status # "none" <=> n = Last + 1 \/ rec.attempts[n].status # "none"
      BY <2>2, <2>4, <3>2
    <3>4. \A n \in Int : n \in 1..(Last + 1) <=> n = Last + 1 \/ n \in 1..Last  BY <1>0
    <3>5. 1..(Last + 1) \subseteq Attempts /\ Attempts \subseteq Int  BY <1>0, <2>2 DEF Attempts
    <3> QED  BY <3>1, <3>3, <3>4, <3>5
  <2>8. Shaped(r)
    <3>1. Last + 1 \in 0..r.used  BY <1>0, <2>6
    <3>2. \A n \in Attempts : f[n].status = "included" => f[n].at # NoPlace
      BY <1>0, <2>2, <2>4 DEF Owned, Shaped, Record
    <3> QED  BY <2>6, <2>7, <3>1, <3>2 DEF Shaped
  <2> HIDE DEF r, f
  <2>9. /\ rec' = r /\ journal' = journal /\ io' = "wait" /\ writes' \in Seq(Write)
        /\ Save(r, journal, "session")
    BY <1>0, <2>1, <2>6, PersistSaves
  <2>10. Last' = Last + 1
    <3>1. Last' = Cardinality(1..(Last + 1))
      BY <2>6, <2>7, <2>9 DEF Last, HeldAttempts
    <3> QED  BY <1>0, <3>1, FS_Interval
  <2>11. released' = released /\ released \subseteq 1..Last
    BY <2>1 DEF Quiet, Owned
  <2>12. TypeOK'  BY <2>1, <2>6, <2>9 DEF TypeOK, Quiet, Others, world, Stages
  <2>13. Last' > 0 /\ released' \subseteq 1..Last' /\ Last' \notin released'
    BY <1>0, <2>10, <2>11
  <2>14. Owned'
    BY <2>1, <2>6, <2>8, <2>9, <2>13 DEF Owned, Quiet, Others
  <2>15. Step  BY <1>1, <2>1, <2>9 DEF Quiet, Others, Step, Wrote, Lasting, Told
  <2> QED  BY <2>12, <2>14, <2>15
<1>2. CASE Withhold
  <2>1. PICK why \in {"own"} \cup StopReasons : End(rec, why)
    BY <1>0, <1>2 DEF Withhold
  <2>2. /\ Others /\ pc # "off" /\ io # "wait"
        /\ unverifiedAt' = unverifiedAt /\ signatures' = signatures
    BY <1>2 DEF Withhold
  <2> QED  BY <1>0, <2>1, <2>2, OwnedEnd
<1>3. ASSUME NEW b \in BOOLEAN, SignRefused(b) PROVE (TypeOK /\ Owned)' /\ Step
  <2>1. /\ End(rec, "own") /\ Others /\ pc = "reserve" /\ io # "wait"
        /\ unverifiedAt' = unverifiedAt /\ stopWith = "none"
    BY <1>3 DEF SignRefused
  <2>2. Last \in Attempts  BY <1>0, <2>1 DEF Owned
  <2>3. signatures' \subseteq Attempts  BY <1>0, <1>3, <2>2 DEF SignRefused
  <2> QED  BY <1>0, <2>1, <2>3, OwnedEnd
<1>4. CASE Sign
  <2> DEFINE r == [rec EXCEPT !.attempts[Last].status = "signed", !.attempts[Last].hash = TRUE]
             j == SetLine(journal, Last, "signed-not-submitted")
  <2>1. /\ Persist(r, j) /\ pc' = "signed" /\ Others /\ pc = "reserve" /\ io # "wait" /\ stopWith = "none"
        /\ signatures' = signatures \cup {Last}
        /\ UNCHANGED <<reason, stopWith, released, unverifiedAt, seen>>
    BY <1>4 DEF Sign
  <2>2. Last \in Attempts /\ rec.attempts[Last].status # "none"  BY <1>0, <2>1 DEF Owned
  <2>3. SameAttempts(rec, r) /\ r.state = rec.state  BY <1>0, <2>2, SignedKeeps
  <2>4. r \in Record /\ j \in Journal
    BY <1>0, <2>3, LineNames, SetLineType DEF SameAttempts
  <2> HIDE DEF r, j
  <2>5. /\ rec' = r /\ journal' = j /\ io' = "wait" /\ writes' \in Seq(Write)
        /\ Save(r, j, "session")
    BY <1>0, <2>1, <2>4, PersistSaves
  <2>6. signatures' \subseteq Attempts  BY <1>0, <2>1, <2>2
  <2>7. Lasting
    <3>1. Last \notin wire  BY <2>1 DEF Owned
    <3> QED  BY <1>0, <2>1, <2>5, <3>1, LineNames, SetLineLasts DEF j
  <2> QED  BY <1>0, <2>1, <2>3, <2>4, <2>5, <2>6, <2>7, OwnedFrame DEF Stages, Wrote
<1>5. CASE MarkUncertain
  <2> DEFINE r == SetStatus(rec, Last, "uncertain")
             j == SetLine(journal, Last, "broadcast-uncertain")
  <2>1. Persist(r, j) /\ pc' = "uncertain" /\ Quiet /\ Others /\ pc = "signed" /\ io # "wait"
    BY <1>5 DEF MarkUncertain
  <2>2. Last \in Attempts /\ rec.attempts[Last].status # "none"  BY <1>0, <2>1 DEF Owned
  <2>3. SameAttempts(rec, r) /\ r.state = rec.state
    BY <1>0, <2>2, StatusNames, SetStatusKeeps
  <2>4. r \in Record /\ j \in Journal
    BY <1>0, <2>3, LineNames, SetLineType DEF SameAttempts
  <2> HIDE DEF r, j
  <2>5. /\ rec' = r /\ journal' = j /\ io' = "wait" /\ writes' \in Seq(Write)
        /\ Save(r, j, "session")
    BY <1>0, <2>1, <2>4, PersistSaves
  <2>6. Lasting  BY <1>0, <2>5, LineNames, SetLineLasts DEF j
  <2> QED  BY <1>0, <1>5, <2>1, <2>3, <2>4, <2>5, <2>6, OwnedFrame DEF Quiet, Stages, Wrote
<1>6. CASE Release
  <2>1. /\ pc = "uncertain" /\ pc' = "submit" /\ io = "ok" /\ io' = "none"
        /\ released' = released \cup {Last} /\ wire' = wire \cup {Last}
        /\ rec' = rec /\ journal' = journal
        /\ UNCHANGED <<storage, reason, stopWith, unverifiedAt, seen, sync, world, signatures,
                       faults>>
    BY <1>6 DEF Release, memory
  <2>2. Last \in Attempts /\ Last > 0 /\ Last \in 1..Last  BY <1>0, <2>1 DEF Owned
  <2>3. Last' = Last  BY <2>1 DEF Last, HeldAttempts
  <2>4. TypeOK'  BY <2>1, <2>2 DEF TypeOK, storage, world, Stages
  <2>5. Owned'  BY <2>1, <2>2, <2>3 DEF Owned
  <2>6. Step  BY <1>6, <2>1 DEF storage, Step, Wrote, Lasting, Told
  <2> QED  BY <2>4, <2>5, <2>6
<1>7. ASSUME NEW b \in BOOLEAN, Submitted(b) PROVE (TypeOK /\ Owned)' /\ Step
  <2> DEFINE st == IF b THEN "sent" ELSE "uncertain"
             ln == IF b THEN "submitted" ELSE "broadcast-uncertain"
             r == SetStatus(rec, Last, st)
             j == SetLine(journal, Last, ln)
  <2>1. Persist(r, j) /\ pc' = "pass" /\ Quiet /\ Others /\ pc = "submit" /\ io # "wait"
    BY <1>7 DEF Submitted, Owned
  <2>2. Last \in Attempts /\ rec.attempts[Last].status # "none"  BY <1>0, <2>1 DEF Owned
  <2>3. /\ st \in Status \ {"none", "included"} /\ ln \in LineStatus
        /\ ln \notin {"none", "signed-not-submitted", "cancelled-before-broadcast"}
    BY StatusNames, LineNames
  <2> HIDE DEF st, ln
  <2>4. SameAttempts(rec, r) /\ r.state = rec.state
    BY <1>0, <2>2, <2>3, SetStatusKeeps
  <2>5. r \in Record /\ j \in Journal
    BY <1>0, <2>3, <2>4, SetLineType DEF SameAttempts
  <2> HIDE DEF r, j
  <2>6. /\ rec' = r /\ journal' = j /\ io' = "wait" /\ writes' \in Seq(Write)
        /\ Save(r, j, "session")
    BY <1>0, <2>1, <2>5, PersistSaves
  <2>7. Lasting  BY <1>0, <2>3, <2>6, SetLineLasts DEF j
  <2> QED  BY <1>0, <2>1, <2>4, <2>5, <2>6, <2>7, OwnedFrame DEF Quiet, Stages, Wrote
<1>8. CASE EndWritten
  <2>1. Quiet /\ Others /\ pc \in {"end", "retry"} /\ io # "wait"  BY <1>8 DEF EndWritten
  <2>2. CASE pc' = "retry" /\ Persist(rec, journal)
    <3>1. /\ rec' = rec /\ journal' = journal /\ io' = "wait" /\ writes' \in Seq(Write)
          /\ Save(rec, journal, "session")
      BY <1>0, <2>2, PersistSaves
    <3> QED  BY <1>0, <2>1, <2>2, <3>1, OwnedFrame DEF Quiet, Stages, Wrote, Lasting, Told
  <2>3. CASE pc' \in {"off", "settle"} /\ io' = "none" /\ UNCHANGED <<memory, writes>>
    BY <1>0, <2>1, <2>3, OwnedFrame DEF Quiet, Stages, Settling, memory, Wrote, Lasting, Told
  <2> QED  BY <1>8, <2>2, <2>3 DEF EndWritten
<1> QED  BY <1>1, <1>2, <1>3, <1>4, <1>5, <1>6, <1>7, <1>8

\* The settle task.
LEMMA OwnedSettle == TypeOK /\ Owned /\ Settle => (TypeOK /\ Owned)' /\ Step
<1> SUFFICES ASSUME TypeOK, Owned, Settle PROVE (TypeOK /\ Owned)' /\ Step  OBVIOUS
<1> USE DEF Running, Reading, Signing, Settling
<1>0. /\ rec \in Record /\ journal \in Journal /\ writes \in Seq(Write) /\ SameAttempts(rec, rec)
      /\ released \subseteq Attempts /\ signatures \subseteq Attempts
      /\ seen \in Here /\ unverifiedAt \in Here /\ NoPlace \in Here
      /\ io \in {"none", "wait", "ok", "failed"}
      /\ reason \in {"none", "own"} \cup StopReasons
      /\ stopWith \in {"none", "own"} \cup StopReasons
      /\ Last \in Nat /\ \A n \in 1..Last : n \in Attempts /\ rec.attempts[n].status # "none"
  BY SameAttemptsReflexive, LastIsHeld DEF TypeOK, Owned, Here
<1>1. CASE SettleStops
  <2>1. /\ pc \in Settling /\ pc' = "off" /\ seen' = NoPlace /\ rec' = rec /\ journal' = journal
        /\ writes' = writes /\ unverifiedAt' = unverifiedAt
        /\ io' = IF io = "wait" THEN "wait" ELSE "none"
        /\ Others
        /\ UNCHANGED <<reason, stopWith, released, signatures>>
    BY <1>1 DEF SettleStops, Still, Aside, memory
  <2> QED  BY <1>0, <2>1, OwnedFrame DEF Stages, Wrote, Lasting, Told
<1>2. CASE RoundFails
  <2>1. /\ pc \in Settling /\ pc' = "settle" /\ seen' = NoPlace /\ journal' = journal
        /\ writes' = writes /\ unverifiedAt' = unverifiedAt /\ io # "wait" /\ io' = "none" /\ Others
        /\ UNCHANGED <<reason, stopWith, released, signatures>>
    BY <1>2 DEF RoundFails, Answered, Aside
  <2>2. SameAttempts(rec, rec')
    BY <1>0, <1>2, MarkedKeeps DEF RoundFails, RefreshInterrupted
  <2> QED  BY <1>0, <2>1, <2>2, OwnedFrame DEF Stages, Wrote, Lasting, Told
<1>3. CASE RoundStarts
  <2>1. /\ pc = "settle" /\ io # "wait" /\ io' = "none" /\ rec' = rec /\ journal' = journal /\ writes' = writes
        /\ unverifiedAt' = unverifiedAt /\ Others
        /\ UNCHANGED <<reason, stopWith, released, signatures>>
    BY <1>3 DEF RoundStarts, Answered, Aside, Still, memory
  <2>2. pc' \in {"finality", "round", "found"} /\ seen' \in Here /\ (pc' = "found" => seen' \in Places)
    BY <1>0, <1>3 DEF RoundStarts, Placed, Here
  <2> QED  BY <1>0, <2>1, <2>2, OwnedFrame DEF Stages, Wrote, Lasting, Told
<1>4. CASE Found
  <2>1. /\ pc = "found" /\ io # "wait" /\ pc' = "round" /\ seen' = NoPlace /\ unverifiedAt' = unverifiedAt /\ Others
        /\ UNCHANGED <<reason, stopWith, released, signatures>>
    BY <1>4 DEF Found, Aside, Owned
  <2>2. CASE UNCHANGED <<rec, journal, writes, io>>
    BY <1>0, <2>1, <2>2, OwnedFrame DEF Stages, Wrote, Lasting, Told
  <2>3. CASE ~UNCHANGED <<rec, journal, writes, io>>
    <3> DEFINE r == [rec EXCEPT !.attempts[Last].status = "included", !.attempts[Last].at = seen]
    <3>1. Persist(r, journal) /\ LastIs({"sent", "uncertain"})
      BY <1>4, <2>3 DEF Found, Still, memory
    <3>2. Last \in Attempts /\ rec.attempts[Last].status # "none"  BY <1>0, <3>1 DEF LastIs
    <3>3. seen \in Places  BY <2>1 DEF Owned
    <3>4. SameAttempts(rec, r)  BY <1>0, <3>2, <3>3, IncludedKeeps
    <3>5. r \in Record  BY <3>4 DEF SameAttempts
    <3> HIDE DEF r
    <3>6. /\ rec' = r /\ journal' = journal /\ io' = "wait" /\ writes' \in Seq(Write)
          /\ Save(r, journal, "session")
      BY <1>0, <3>1, <3>5, PersistSaves
    <3> QED  BY <1>0, <2>1, <3>4, <3>6, OwnedFrame DEF Stages, Wrote, Lasting, Told
  <2> QED  BY <2>2, <2>3
<1>5. CASE Classify
  <2>1. /\ pc = "round" /\ io # "wait" /\ io' = "none" /\ rec' = rec /\ journal' = journal /\ writes' = writes
        /\ unverifiedAt' = unverifiedAt /\ Others
        /\ UNCHANGED <<reason, stopWith, released, signatures>>
    BY <1>5 DEF Classify, Answered, Aside, Still, memory
  <2>2. pc' \in {"finality", "classify"} /\ seen' \in Here
    BY <1>0, <1>5 DEF Classify, LastIs, Record, Attempt, Here
  <2> QED  BY <1>0, <2>1, <2>2, OwnedFrame DEF Stages, Wrote, Lasting, Told
<1>6. CASE Verdict
  <2>1. /\ pc = "classify" /\ io # "wait" /\ pc' = "finality" /\ seen' = NoPlace /\ Others
        /\ UNCHANGED <<reason, stopWith, released, signatures>>
    BY <1>6 DEF Verdict, Aside, Owned
  <2>2. CASE UNCHANGED <<rec, journal, writes, io>> /\ unverifiedAt' \in {seen, unverifiedAt}
    BY <1>0, <2>1, <2>2, OwnedFrame DEF Stages, Wrote, Lasting, Told
  <2>3. CASE ~(UNCHANGED <<rec, journal, writes, io>> /\ unverifiedAt' \in {seen, unverifiedAt})
    <3> DEFINE st == Effect[seen]
               r  == SetStatus(rec, Last, st)
    <3>1. /\ Persist(r, journal) /\ unverifiedAt' = unverifiedAt
          /\ LastIs({"included"}) /\ rec.attempts[Last].at = seen
      BY <1>6, <2>3 DEF Verdict, Still, memory
    <3>2. Last \in Attempts /\ rec.attempts[Last].status = "included"  BY <1>0, <3>1 DEF LastIs
    <3>3. seen \in Places  BY <1>0, <3>1, <3>2 DEF Owned, Shaped, Here
    <3>4. st \in Status \ {"none", "included"}
      BY <3>3, ConstantTypes, StatusNames DEF Outcomes
    <3> HIDE DEF st
    <3>5. SameAttempts(rec, r)  BY <1>0, <3>2, <3>4, SetStatusKeeps
    <3>6. r \in Record  BY <3>5 DEF SameAttempts
    <3> HIDE DEF r
    <3>7. /\ rec' = r /\ journal' = journal /\ io' = "wait" /\ writes' \in Seq(Write)
          /\ Save(r, journal, "session")
      BY <1>0, <3>1, <3>6, PersistSaves
    <3> QED  BY <1>0, <2>1, <3>1, <3>5, <3>7, OwnedFrame DEF Stages, Wrote, Lasting, Told
  <2> QED  BY <2>2, <2>3
<1>7. CASE RoundEnds
  <2>1. RefreshFinality("settle") /\ pc = "finality" /\ seen' = seen /\ unverifiedAt' = unverifiedAt
        /\ Others /\ UNCHANGED <<reason, stopWith, released, signatures>>
    BY <1>7 DEF RoundEnds, Aside
  <2>2. /\ SameAttempts(rec, rec') /\ journal' \in Journal /\ writes' \in Seq(Write)
        /\ Wrote /\ Lasting
        /\ io' \in {"none", "wait"} /\ pc' = "settle"
    BY <2>1, RefreshKeeps
  <2> QED  BY <1>0, <2>1, <2>2, OwnedFrame DEF Stages, Wrote, Lasting, Told
<1> QED  BY <1>1, <1>2, <1>3, <1>4, <1>5, <1>6, <1>7 DEF Settle

\* What the indexer answers is a line, and says the payment was seen or can no longer run.
LEMMA ReportTypes ==
  ASSUME TypeOK, NEW n \in Attempts
  PROVE  /\ Fixed(n) => /\ FinalReport(n) \in Line
                        /\ FinalReport(n).status \in {"expired", "finalized"}
         /\ \A report \in Reports(n) :
              report \in Line /\ report.status \in {"pending", "included", "expired", "finalized"}
<1>1. {"pending", "included", "expired", "finalized"} \subseteq LineStatus  BY LineNames
<1>2. Fixed(n) => n \in closed \/ chain[n] \in Places  BY DEF Fixed, Placed
<1>3. ASSUME Fixed(n)
      PROVE  FinalReport(n) \in Line /\ FinalReport(n).status \in {"expired", "finalized"}
  BY <1>1, <1>2, <1>3 DEF FinalReport, Line
<1>4. ASSUME NEW report \in Reports(n)
      PROVE  report \in Line /\ report.status \in {"pending", "included", "expired", "finalized"}
  <2>1. CASE report = [status |-> "pending", at |-> NoPlace]
    BY <1>1, <2>1 DEF Line
  <2>2. CASE Placed(n) /\ report = [status |-> "included", at |-> chain[n]]
    BY <1>1, <2>2 DEF Line, Placed
  <2>3. CASE Fixed(n) /\ report = FinalReport(n)
    BY <1>3, <2>3
  <2> QED  BY <1>4, <2>1, <2>2, <2>3 DEF Reports
<1> QED  BY <1>3, <1>4

\* After a line, the history task asks about the next or resolves the ended records.
LEMMA NextLineKeeps ==
  ASSUME TypeOK, NEW below, NextLine(below), journal' \in Journal, UNCHANGED <<chain, closed, final>>
  PROVE  /\ SameAttempts(rec, rec') /\ rec'.state = rec.state
         /\ sync' \in [on : 0..MaxAttempts, phase : {"idle", "asked", "again", "save"}, report : Line]
         /\ Asking(sync')
<1> DEFINE left == {n \in OpenLines(journal') : n < below}
<1>1. CASE left = {}
  <2>1. rec' = ResolveFromJournal(rec, journal') /\ sync' = [Idle EXCEPT !.phase = "save"]
    BY <1>1 DEF NextLine
  <2>2. SameAttempts(rec, rec') /\ rec'.state = rec.state
    BY <2>1, ResolveKeeps DEF TypeOK
  <2>3. NoLine \in Line  BY LineNames DEF NoLine, Line
  <2> QED  BY <2>1, <2>2, <2>3, ConstantTypes DEF Idle, Asking
<1>2. CASE left # {}
  <2>1. PICK n \in left : \E report \in Reports(n) :
               rec' = rec /\ sync' = [on |-> n, phase |-> "asked", report |-> report]
    BY <1>2 DEF NextLine
  <2>2. n \in Attempts /\ n \in 0..MaxAttempts  BY <2>1, ConstantTypes DEF OpenLines, Attempts
  <2>3. PICK report \in Reports(n) :
               rec' = rec /\ sync' = [on |-> n, phase |-> "asked", report |-> report]
    BY <2>1
  <2>4. report \in Line /\ report.status \in {"pending", "included", "expired", "finalized"}
    BY <2>2, <2>3, ReportTypes
  <2>5. SameAttempts(rec, rec') /\ rec'.state = rec.state
    BY <2>3, SameAttemptsReflexive DEF TypeOK
  <2> QED  BY <2>2, <2>3, <2>4, <2>5 DEF Asking
<1> QED  BY <1>1, <1>2

\* A step of the history task.
LEMMA OwnedHistory ==
  ASSUME TypeOK, Owned, SameAttempts(rec, rec'), rec'.state = rec.state, journal' \in Journal,
         sync' \in [on : 0..MaxAttempts, phase : {"idle", "asked", "again", "save"}, report : Line],
         Asking(sync'), Lasting, History, faults' \in Faults
  PROVE  (TypeOK /\ Owned)' /\ Step
<1>1. /\ Last' = Last /\ Shaped(rec)' /\ rec' \in Record /\ rec'.used = rec.used
  BY LastKept DEF TypeOK, Owned
<1>2. TypeOK'  BY <1>1 DEF TypeOK, History, storage, control, world, past
<1>3. Owned'  BY <1>1 DEF Owned, History, control, past
<1>4. Step  BY <1>1 DEF Step, Wrote, History, storage, control, past
<1> QED  BY <1>2, <1>3, <1>4

\* The steps of the history task: a report becomes a line, resolved records keep their attempts.
LEMMA OwnedSync == TypeOK /\ Owned /\ Sync => (TypeOK /\ Owned)' /\ Step
<1> SUFFICES ASSUME TypeOK, Owned, Sync PROVE (TypeOK /\ Owned)' /\ Step  OBVIOUS
<1>0. /\ rec \in Record /\ journal \in Journal /\ SameAttempts(rec, rec) /\ faults \in Faults
      /\ \A n \in Attempts : journal[n] \in Line
  BY SameAttemptsReflexive DEF TypeOK, Journal
<1>1. CASE SyncStart
  <2>1. journal' = journal /\ NextLine(MaxAttempts + 1) /\ History  BY <1>1 DEF SyncStart
  <2>2. faults' \in Faults  BY <1>0, <1>1, FaultCounted DEF SyncStart
  <2>3. Lasting  BY <2>1 DEF Lasting, Told
  <2> QED  BY <1>0, <2>1, <2>2, <2>3, NextLineKeeps, OwnedHistory DEF History, world
<1>2. CASE SyncReport
  <2> DEFINE n == sync.on
             l == [status |-> sync.report.status,
                   at |-> IF sync.report.at = NoPlace THEN journal[n].at ELSE sync.report.at]
  <2>1. /\ journal' = IF Final(n) THEN journal ELSE [journal EXCEPT ![n] = l]
        /\ History /\ faults' = faults /\ n \in Attempts
    BY <1>2 DEF SyncReport, Owned, Asking
  <2>2. sync.report \in Line /\ n \in 0..MaxAttempts  BY DEF TypeOK
  <2>3. l \in Line  BY <1>0, <2>1, <2>2 DEF Line
  <2> HIDE DEF l
  <2>4. journal' \in Journal  BY <1>0, <2>1, <2>3 DEF Journal
  <2>5. Lasting
    <3>1. l.status \in {"pending", "included", "expired", "finalized"}
      BY <1>2 DEF l, SyncReport, Owned, Asking
    <3> QED  BY <1>0, <2>1, <3>1 DEF Lasting, Told, Journal, TypeOK
  <2>6. CASE NextLine(n)
    BY <1>0, <2>1, <2>4, <2>5, <2>6, NextLineKeeps, OwnedHistory DEF History, world
  <2>7. CASE ~NextLine(n)
    <3>1. /\ Fixed(n) /\ rec' = rec
          /\ sync' = [on |-> n, phase |-> "again", report |-> FinalReport(n)]
      BY <1>2, <2>7 DEF SyncReport
    <3>2. FinalReport(n) \in Line /\ FinalReport(n).status \in {"expired", "finalized"}
      BY <2>1, <3>1, ReportTypes
    <3>3. /\ sync' \in [on : 0..MaxAttempts, phase : {"idle", "asked", "again", "save"}, report : Line]
          /\ Asking(sync')
      BY <2>1, <2>2, <3>1, <3>2 DEF Asking
    <3> QED  BY <1>0, <2>1, <2>4, <2>5, <3>1, <3>3, OwnedHistory
  <2> QED  BY <2>6, <2>7
<1>3. CASE SyncFinal
  <2> DEFINE n == sync.on
  <2>1. /\ journal' = IF Final(n) THEN journal ELSE [journal EXCEPT ![n] = sync.report]
        /\ NextLine(n) /\ History /\ faults' = faults
    BY <1>3 DEF SyncFinal
  <2>2. sync.report \in Line  BY DEF TypeOK
  <2>3. journal' \in Journal  BY <1>0, <2>1, <2>2 DEF Journal
  <2>4. Lasting
    <3>1. sync.report.status \in {"pending", "included", "expired", "finalized"}
      BY <1>3 DEF SyncFinal, Owned, Asking
    <3> QED  BY <1>0, <2>1, <3>1 DEF Lasting, Told, Journal, TypeOK
  <2> QED  BY <1>0, <2>1, <2>3, <2>4, NextLineKeeps, OwnedHistory DEF History, world
<1>4. CASE SyncSave
  <2>1. /\ Save(rec, journal, "other") /\ sync' = Idle
        /\ UNCHANGED <<memory, disk, control, world, past, faults>>
    BY <1>4 DEF SyncSave
  <2>2. writes' \in Seq(Write)  BY <1>0, <2>1, SaveQueues DEF TypeOK
  <2>3. sync' \in [on : 0..MaxAttempts, phase : {"idle", "asked", "again", "save"}, report : Line]
    BY <2>1, LineNames, ConstantTypes DEF Idle, NoLine, Line
  <2>4. TypeOK'  BY <2>1, <2>2, <2>3 DEF TypeOK, memory, control, world, past
  <2>5. Owned'
    BY <2>1 DEF Owned, memory, control, past, Last, HeldAttempts, Asking, Idle
  <2>6. Step
    BY <2>1 DEF Step, Wrote, Lasting, Told, memory, control, past, Last, HeldAttempts
  <2> QED  BY <2>4, <2>5, <2>6
<1> QED  BY <1>1, <1>2, <1>3, <1>4 DEF Sync

\* A stop, the writes and the worker's death.
LEMMA OwnedOthers ==
  TypeOK /\ Owned /\ ((\E r \in StopReasons : Stop(r)) \/ Land \/ OtherSave \/ Crash)
    => (TypeOK /\ Owned)' /\ (Step \/ Land \/ Crash)
<1> SUFFICES ASSUME TypeOK, Owned, (\E r \in StopReasons : Stop(r)) \/ Land \/ OtherSave \/ Crash
             PROVE  (TypeOK /\ Owned)' /\ (Step \/ Land \/ Crash)
  OBVIOUS
<1>1. ASSUME NEW r \in StopReasons, Stop(r) PROVE (TypeOK /\ Owned)' /\ Step
  <2>1. TypeOK'  BY <1>1 DEF Stop, TypeOK, memory, storage, world, past
  <2>2. Owned'  BY <1>1 DEF Stop, Owned, memory, storage, world, past, Last, HeldAttempts
  <2> QED  BY <1>1, <2>1, <2>2, Untouched DEF Stop, memory, storage, past
<1>2. CASE Land
  <2>1. writes \in Seq(Write) /\ writes # <<>>  BY <1>2 DEF Land, TypeOK
  <2>2. Head(writes) \in Write /\ Tail(writes) \in Seq(Write)  BY <2>1
  <2>3. /\ writes' = Tail(writes) /\ disk' \in {disk, Head(writes).image}
        /\ io' \in {io, "ok", "failed"}
        /\ UNCHANGED <<memory, pc, stopWith, reason, released, unverifiedAt, seen, sync, world, past>>
    BY <1>2 DEF Land
  <2>4. Head(writes).image \in Image  BY <2>2 DEF Write
  <2>5. faults' \in Faults  BY <1>2, FaultCounted DEF Land, TypeOK
  <2>6. TypeOK'  BY <2>2, <2>3, <2>4, <2>5 DEF TypeOK, memory, world, past
  <2>7. Owned'  BY <2>3 DEF Owned, memory, past, Last, HeldAttempts
  <2> QED  BY <1>2, <2>6, <2>7
<1>3. CASE OtherSave
  <2>1. writes' \in Seq(Write)  BY <1>3, SaveQueues DEF OtherSave, TypeOK
  <2>2. faults' \in Faults  BY <1>3, FaultCounted DEF OtherSave, TypeOK
  <2>3. TypeOK'  BY <1>3, <2>1, <2>2 DEF OtherSave, TypeOK, memory, control, world, past
  <2>4. Owned'  BY <1>3 DEF OtherSave, Owned, memory, control, past, Last, HeldAttempts
  <2>5. Step
    BY <1>3 DEF OtherSave, Step, Wrote, Lasting, Told, memory, control, past, Last, HeldAttempts
  <2> QED  BY <2>3, <2>4, <2>5
<1>4. CASE Crash
  <2>1. disk.rec \in Record /\ disk.journal \in Journal  BY DEF TypeOK, Image
  <2>2. rec' \in Record /\ Shaped(rec')  BY <1>4, <2>1, LoadKeeps DEF Crash
  <2>3. journal' \in Journal  BY <1>4, <2>1, LoadJournalType DEF Crash
  <2>4. disk' \in Image  BY <1>4, <2>1, EmptyRecords DEF Crash, Image, TypeOK
  <2>5. faults' \in Faults  BY <1>4, FaultCounted DEF Crash, TypeOK
  <2>6. /\ sync' \in [on : 0..MaxAttempts, phase : {"idle", "asked", "again", "save"}, report : Line]
        /\ Asking(sync')
    BY <1>4, LineNames, ConstantTypes DEF Crash, Idle, NoLine, Line, Asking
  <2>7. TypeOK'
    BY <1>4, <2>2, <2>3, <2>4, <2>5, <2>6 DEF Crash, TypeOK, world, past, Stages, Here
  <2>8. Owned'
    BY <1>4, <2>2, <2>6 DEF Crash, Owned, Running, Reading, Signing
  <2> QED  BY <1>4, <2>7, <2>8
<1> QED  BY <1>1, <1>2, <1>3, <1>4

\* TypeOK /\ Owned is inductive, and each step is a Step, a landing write or a death.
LEMMA OwnedStep ==
  TypeOK /\ Owned /\ [Next]_vars => (TypeOK /\ Owned)' /\ (Step \/ Land \/ Crash)
<1> SUFFICES ASSUME TypeOK, Owned, [Next]_vars
             PROVE  (TypeOK /\ Owned)' /\ (Step \/ Land \/ Crash)
  OBVIOUS
<1>1. CASE Next
  BY <1>1, OwnedPass, OwnedPayment, OwnedSettle, OwnedSync, OwnedEnvironment, OwnedOthers
  DEF Next, Controller
<1>2. CASE UNCHANGED vars
  <2>1. TypeOK'  BY <1>2 DEF vars, memory, storage, control, world, past, TypeOK
  <2>2. Owned'  BY <1>2 DEF vars, memory, control, past, Owned, Last, HeldAttempts
  <2> QED  BY <1>2, <2>1, <2>2, Untouched DEF vars, memory, storage, control, past
<1> QED  BY <1>1, <1>2

\* Type correctness: whatever the bounds and the forks, every variable keeps its type; the record
\* names no attempt twice, skips none, and none it did not count.
THEOREM TypeCorrect == Spec => []TypeOK
<1>1. Spec => [](TypeOK /\ Owned)  BY OwnedInit, OwnedStep, PTL DEF Spec
<1> QED  BY <1>1, PTL

-----------------------------------------------------------------------------
(* The history task and the final lines.                                   *)
\* Only the history task and the worker's death move it.
LEMMA SyncAlone == ASSUME Next, ~Sync, ~Crash PROVE sync' = sync
<1>1. CASE Controller
  BY <1>1 DEF Controller, Approve, Approved, Refused, Pass, ReadFails, Quit, Reorganized, Follow,
     Ready, Tip, Judged, Reserve, Withhold, Sign, MarkUncertain, Release, SignRefused, Submitted,
     EndWritten, Others
<1>2. CASE Settle
  BY <1>2 DEF Settle, RoundStarts, Found, Classify, Verdict, RoundEnds, RoundFails, SettleStops,
     Aside, Others
<1>3. CASE Environment
  BY <1>3 DEF Environment, Replace, Reorganize, Close, Include, Finalize
<1>4. CASE (\E r \in StopReasons : Stop(r)) \/ Land \/ OtherSave
  BY <1>4 DEF Stop, Land, OtherSave
<1> QED  BY <1>1, <1>2, <1>3, <1>4 DEF Next

\* A step of the history task leaves the final lines alone.
LEMMA SyncKeepsFinal ==
  ASSUME TypeOK, Sync, NEW n \in Attempts, Final(n)
  PROVE  journal'[n] = journal[n]
<1>1. journal \in [Attempts -> Line]  BY DEF TypeOK, Journal
<1>2. CASE SyncStart  BY <1>2 DEF SyncStart
<1>3. CASE SyncReport
  <2>1. CASE Final(sync.on)  BY <1>3, <2>1 DEF SyncReport
  <2>2. CASE ~Final(sync.on)
    <3>1. n # sync.on  BY <2>2
    <3> QED  BY <1>1, <1>3, <2>2, <3>1 DEF SyncReport
  <2> QED  BY <2>1, <2>2
<1>4. CASE SyncFinal
  <2>1. CASE Final(sync.on)  BY <1>4, <2>1 DEF SyncFinal
  <2>2. CASE ~Final(sync.on)
    <3>1. n # sync.on  BY <2>2
    <3> QED  BY <1>1, <1>4, <2>2, <3>1 DEF SyncFinal
  <2> QED  BY <2>1, <2>2
<1>5. CASE SyncSave  BY <1>5 DEF SyncSave, memory
<1> QED  BY <1>2, <1>3, <1>4, <1>5 DEF Sync

\* Whatever became of a line while the history task awaited an answer about it, a final one stands.
THEOREM HistoryIsKept == Spec => HistoryKeepsFinal
<1>1. ASSUME TypeOK, [Next]_vars, sync' # sync, faults'.crashes = faults.crashes,
             NEW n \in Attempts, Final(n)
      PROVE  journal'[n] = journal[n]
  <2>1. Next  BY <1>1 DEF vars
  <2>2. ~Crash
    <3>1. faults.crashes \in Nat
      BY <1>1, SessionAssumption DEF TypeOK, Faults, SessionAssumption
    <3>2. faults' = [faults EXCEPT !.crashes = faults.crashes + 1] => faults'.crashes # faults.crashes
      BY <1>1, <3>1 DEF TypeOK, Faults
    <3> QED  BY <1>1, <3>2 DEF Crash
  <2>3. Sync  BY <1>1, <2>1, <2>2, SyncAlone
  <2> QED  BY <1>1, <2>3, SyncKeepsFinal
<1>2. TypeOK /\ [Next]_vars =>
        [sync' # sync /\ faults'.crashes = faults.crashes =>
           \A n \in Attempts : Final(n) => journal'[n] = journal[n]]_vars
  BY <1>1
<1> QED  BY <1>2, TypeCorrect, PTL DEF Spec, HistoryKeepsFinal

-----------------------------------------------------------------------------
(* What storage remembers.                                                 *)
\* No payment that left is said not to have, in memory, in storage or in a queued write.
Remembers ==
  /\ ReleasedInHistory
  /\ \A k \in 1..Len(writes), n \in wire : Told(writes[k].image.journal, n)

\* One queued write is awaited at most, and none once it was answered.
Awaits ==
  /\ io # "wait" => \A k \in 1..Len(writes) : writes[k].by # "session"
  /\ \A i, k \in 1..Len(writes) : writes[i].by = "session" /\ writes[k].by = "session" => i = k

\* The payment about to leave: told in memory, from the awaited write on, and in storage once that
\* write landed.
Leaving ==
  pc = "uncertain" =>
    /\ Told(journal, Last)
    /\ io = "ok" => Told(disk.journal, Last)
    /\ \A k \in 1..Len(writes) :
         io = "ok" \/ (io = "wait" /\ \E i \in 1..k : writes[i].by = "session")
           => Told(writes[k].image.journal, Last)

\* Neither storage nor a queued write counts more signatures than the memory.
Counts ==
  /\ disk.rec.used <= rec.used
  /\ \A k \in 1..Len(writes) : writes[k].image.rec.used <= rec.used

Remembered == Remembers /\ Awaits /\ Leaving /\ Counts

\* A queue with one more write.
LEMMA Appended ==
  ASSUME NEW w, writes \in Seq(Write), writes' = Append(writes, w)
  PROVE  /\ Len(writes) \in Nat /\ Len(writes') = Len(writes) + 1
         /\ \A k \in 1..Len(writes) : writes'[k] = writes[k]
         /\ writes'[Len(writes) + 1] = w
         /\ \A k \in 1..Len(writes') : k \in 1..Len(writes) \/ k = Len(writes) + 1
OBVIOUS

\* The save that queues it.
LEMMA SaveAppends ==
  ASSUME NEW r, NEW j, NEW by, writes \in Seq(Write), Save(r, j, by)
  PROVE  /\ Len(writes) \in Nat /\ Len(writes') = Len(writes) + 1
         /\ writes' # writes
         /\ \A k \in 1..Len(writes) : writes'[k] = writes[k]
         /\ writes'[Len(writes) + 1].image.rec = r
         /\ writes'[Len(writes) + 1].image.journal = j
         /\ writes'[Len(writes) + 1].by = by
         /\ \A k \in 1..Len(writes') : k \in 1..Len(writes) \/ k = Len(writes) + 1
<1> DEFINE w == [image |-> [rec |-> r, journal |-> j], by |-> by]
<1>1. writes' = Append(writes, w)  BY DEF Save
<1>2. w.image.rec = r /\ w.image.journal = j /\ w.by = by  OBVIOUS
<1> HIDE DEF w
<1>3. /\ Len(writes) \in Nat /\ Len(writes') = Len(writes) + 1
      /\ \A k \in 1..Len(writes) : writes'[k] = writes[k]
      /\ writes'[Len(writes) + 1] = w
      /\ \A k \in 1..Len(writes') : k \in 1..Len(writes) \/ k = Len(writes) + 1
  BY <1>1, Appended
<1>4. writes' # writes  BY <1>3
<1> QED  BY <1>2, <1>3, <1>4

\* Every step leaves told what was told, and what is about to leave.
LEMMA RememberedStep ==
  ASSUME TypeOK, Owned, Remembered, Step
  PROVE  Remembered'
<1>0. /\ writes \in Seq(Write) /\ Len(writes) \in Nat /\ wire \subseteq Attempts
      /\ Last \in Nat /\ \A n \in 1..Last : n \in Attempts
      /\ rec.used \in Nat /\ disk' = disk /\ io \in {"none", "wait", "ok", "failed"}
  BY LastIsHeld, ConstantTypes DEF TypeOK, Owned, Step
<1>1. pc = "uncertain" => Last \in Attempts  BY <1>0 DEF Owned, Signing
\* What is told now is still told.
<1>2. \A n \in wire' : /\ Told(journal', n) /\ Told(disk.journal, n)
                       /\ \A k \in 1..Len(writes) : Told(writes[k].image.journal, n)
  <2>1. CASE wire' = wire
    BY <1>0, <2>1 DEF Step, Lasting, Remembered, Remembers, ReleasedInHistory
  <2>2. CASE Release
    <3>1. /\ journal' = journal /\ wire' = wire \cup {Last} /\ pc = "uncertain" /\ io = "ok"
      BY <2>2 DEF Release, memory
    <3>2. /\ Told(journal, Last) /\ Told(disk.journal, Last)
          /\ \A k \in 1..Len(writes) : Told(writes[k].image.journal, Last)
      BY <3>1 DEF Remembered, Leaving
    <3> QED  BY <3>1, <3>2 DEF Remembered, Remembers, ReleasedInHistory
  <2> QED  BY <2>1, <2>2 DEF Step
<1>3. pc' = "uncertain" => Told(journal', Last')
  <2>1. CASE pc' = "uncertain" /\ pc = "uncertain"
    BY <1>1, <2>1 DEF Step, Lasting, Remembered, Leaving
  <2>2. CASE pc' = "uncertain" /\ pc # "uncertain"
    <3>1. MarkUncertain /\ Last' = Last  BY <2>2 DEF Step
    <3>2. journal' = SetLine(journal, Last, "broadcast-uncertain") /\ pc = "signed"
      BY <3>1 DEF MarkUncertain, Persist
    <3>3. Last \in Attempts  BY <1>0, <3>2 DEF Owned, Signing
    <3>4. journal \in [Attempts -> Line]  BY DEF TypeOK, Journal
    <3>5. journal'[Last] = [journal[Last] EXCEPT !.status = "broadcast-uncertain"]
      BY <3>2, <3>3, <3>4 DEF SetLine
    <3>6. journal'[Last].status = "broadcast-uncertain"  BY <3>3, <3>4, <3>5 DEF Line
    <3> QED  BY <3>1, <3>6 DEF Told
  <2> QED  BY <2>1, <2>2
<1>4. rec.used <= rec'.used
  <2>1. CASE Reserve
    <3>1. rec'.used = rec.used + 1  BY <2>1 DEF Reserve, Persist, TypeOK, Record
    <3> QED  BY <1>0, <3>1
  <2> QED  BY <1>0, <2>1 DEF Step
<1>5. rec'.used \in Int /\ rec.used \in Int /\ disk.rec.used \in Int
  <2>1. CASE Reserve
    <3>1. rec'.used = rec.used + 1  BY <2>1 DEF Reserve, Persist, TypeOK, Record
    <3> QED  BY <1>0, <3>1, ConstantTypes DEF TypeOK, Image, Record
  <2> QED  BY <1>0, <2>1, ConstantTypes DEF Step, TypeOK, Image, Record
<1>6. \A k \in 1..Len(writes) : writes[k].image.rec.used \in Int
  <2>1. \A k \in 1..Len(writes) : writes[k].image.rec \in Record
    <3>1. \A k \in 1..Len(writes) : writes[k] \in Write  BY <1>0
    <3>2. \A k \in 1..Len(writes) : writes[k].image \in Image  BY <3>1 DEF Write
    <3> QED  BY <3>2 DEF Image
  <2> QED  BY <2>1, ConstantTypes DEF Record
<1>7. /\ disk.rec.used <= rec'.used
      /\ \A k \in 1..Len(writes) : writes[k].image.rec.used <= rec'.used
  BY <1>4, <1>5, <1>6 DEF Remembered, Counts
<1>8. CASE writes' = writes
  <2>1. io' = io \/ (io # "wait" /\ io' = "none")
    <3>1. ASSUME NEW r, NEW j, NEW by, Save(r, j, by) PROVE FALSE
      <4>1. writes' # writes  BY <1>0, <3>1, SaveAppends
      <4> QED  BY <1>8, <4>1
    <3> QED  BY <3>1 DEF Step, Wrote
  <2>2. Remembers'  BY <1>0, <1>2, <1>8 DEF Remembers, ReleasedInHistory
  <2>3. Awaits'  BY <1>8, <2>1 DEF Remembered, Awaits
  <2>4. Leaving'
    <3> SUFFICES ASSUME pc' = "uncertain" PROVE Leaving'  BY DEF Leaving
    <3>1. Last' = Last  BY DEF Step
    <3>2. CASE io' = io /\ pc = "uncertain"
      BY <1>0, <1>3, <1>8, <3>1, <3>2 DEF Remembered, Leaving
    <3>3. CASE io' = "none"  BY <1>3, <3>3 DEF Leaving
    <3>4. pc = "uncertain" \/ io' = "none"
      <4>1. ASSUME MarkUncertain PROVE FALSE
        <5>1. Save(SetStatus(rec, Last, "uncertain"),
                   SetLine(journal, Last, "broadcast-uncertain"), "session")
          BY <4>1 DEF MarkUncertain, Persist
        <5>2. writes' # writes  BY <1>0, <5>1, SaveAppends
        <5> QED  BY <1>8, <5>2
      <4> QED  BY <4>1 DEF Step
    <3> QED  BY <2>1, <3>2, <3>3, <3>4
  <2>5. Counts'  BY <1>0, <1>7, <1>8 DEF Counts
  <2> QED  BY <2>2, <2>3, <2>4, <2>5 DEF Remembered
<1>9. ASSUME NEW by \in {"session", "other"}, Save(rec', journal', by),
             IF by = "session" THEN io # "wait" /\ io' = "wait" ELSE io' = io
      PROVE  Remembered'
  <2>1. /\ Len(writes') = Len(writes) + 1
        /\ \A k \in 1..Len(writes) : writes'[k] = writes[k]
        /\ \A k \in 1..Len(writes') : k \in 1..Len(writes) \/ k = Len(writes) + 1
    BY <1>0, <1>9, SaveAppends
  <2>2. /\ writes'[Len(writes) + 1].image.journal = journal'
        /\ writes'[Len(writes) + 1].image.rec = rec'
        /\ writes'[Len(writes) + 1].by = by
    BY <1>0, <1>9, SaveAppends
  <2>3. Remembers'
    <3>1. \A k \in 1..Len(writes'), n \in wire' : Told(writes'[k].image.journal, n)
      BY <1>2, <2>1, <2>2
    <3> QED  BY <1>0, <1>2, <3>1 DEF Remembers, ReleasedInHistory
  <2>4. Awaits'
    BY <1>0, <1>9, <2>1, <2>2 DEF Remembered, Awaits
  <2>5. Leaving'
    <3> SUFFICES ASSUME pc' = "uncertain" PROVE Leaving'  BY DEF Leaving
    <3>1. Last' = Last /\ (pc = "uncertain" \/ MarkUncertain)  BY DEF Step
    <3>2. CASE by = "session"
      <4>1. io' = "wait" /\ \A k \in 1..Len(writes) : writes'[k].by # "session"
        BY <1>9, <2>1, <3>2 DEF Remembered, Awaits
      <4>2. \A k \in 1..Len(writes') :
              (\E i \in 1..k : writes'[i].by = "session") => Told(writes'[k].image.journal, Last')
        <5> SUFFICES ASSUME NEW k \in 1..Len(writes'), NEW i \in 1..k, writes'[i].by = "session"
                     PROVE  Told(writes'[k].image.journal, Last')
          OBVIOUS
        <5>1. i \notin 1..Len(writes)  BY <4>1
        <5>2. k = Len(writes) + 1  BY <1>0, <2>1, <5>1
        <5> QED  BY <1>3, <2>1, <2>2, <5>2
      <4> QED  BY <1>3, <4>1, <4>2 DEF Leaving
    <3>3. CASE by = "other"
      <4>1. io' = io  BY <1>9, <3>3
      <4>2. ~MarkUncertain
        <5>1. ASSUME MarkUncertain PROVE FALSE
          <6>1. Save(SetStatus(rec, Last, "uncertain"),
                     SetLine(journal, Last, "broadcast-uncertain"), "session")
            BY <5>1 DEF MarkUncertain, Persist
          <6>2. writes'[Len(writes) + 1].by = "session"  BY <1>0, <6>1, SaveAppends
          <6> QED  BY <2>1, <2>2, <3>3, <6>2
        <5> QED  BY <5>1
      <4>3. pc = "uncertain"  BY <3>1, <4>2
      <4>4. io' = "ok" => Told(disk'.journal, Last')
        BY <1>0, <3>1, <4>1, <4>3 DEF Remembered, Leaving
      <4>5. ASSUME NEW k \in 1..Len(writes'),
                   io' = "ok" \/ (io' = "wait" /\ \E i \in 1..k : writes'[i].by = "session")
            PROVE  Told(writes'[k].image.journal, Last')
        <5>1. CASE k = Len(writes) + 1  BY <1>3, <2>1, <2>2, <5>1
        <5>2. CASE k \in 1..Len(writes)
          <6>1. \A i \in 1..k : writes'[i] = writes[i]  BY <1>0, <2>1, <5>2
          <6>2. io = "ok" \/ (io = "wait" /\ \E i \in 1..k : writes[i].by = "session")
            BY <4>1, <4>5, <6>1
          <6>3. Told(writes[k].image.journal, Last)
            BY <4>3, <5>2, <6>2 DEF Remembered, Leaving
          <6> QED  BY <2>1, <3>1, <5>2, <6>3
        <5> QED  BY <2>1, <5>1, <5>2
      <4> QED  BY <1>3, <4>4, <4>5 DEF Leaving
    <3> QED  BY <3>2, <3>3
  <2>6. Counts'
    <3>1. \A k \in 1..Len(writes') : writes'[k].image.rec.used <= rec'.used
      BY <1>5, <1>7, <2>1, <2>2
    <3> QED  BY <1>0, <1>7, <3>1 DEF Counts
  <2> QED  BY <2>3, <2>4, <2>5, <2>6 DEF Remembered
<1> QED  BY <1>8, <1>9 DEF Step, Wrote

\* A write that lands, or is refused, leaves them told too.
LEMMA RememberedLand ==
  ASSUME TypeOK, Owned, Remembered, Land
  PROVE  Remembered'
<1>0. /\ writes \in Seq(Write) /\ writes # <<>> /\ writes' = Tail(writes)
      /\ UNCHANGED <<rec, journal, pc, wire>>
      /\ Last' = Last
  BY DEF Land, TypeOK, memory, past, Last, HeldAttempts
<1>1. /\ Len(writes) \in Nat /\ Len(writes') = Len(writes) - 1 /\ 1 \in 1..Len(writes)
      /\ \A k \in 1..Len(writes') : k + 1 \in 1..Len(writes) /\ writes'[k] = writes[k + 1]
      /\ Head(writes) = writes[1]
  BY <1>0
<1>2. /\ disk' = disk \/ disk' = writes[1].image
      /\ writes[1].by # "session" => io' = io
      /\ writes[1].by = "session" => io' = "failed" \/ (io' = "ok" /\ disk' = writes[1].image)
  BY <1>1 DEF Land
<1>3. Remembers'
  <2>1. \A n \in wire' : Told(journal', n) /\ Told(disk'.journal, n)
    BY <1>0, <1>1, <1>2 DEF Remembered, Remembers, ReleasedInHistory
  <2>2. \A k \in 1..Len(writes'), n \in wire' : Told(writes'[k].image.journal, n)
    BY <1>0, <1>1 DEF Remembered, Remembers
  <2> QED  BY <2>1, <2>2 DEF Remembers, ReleasedInHistory
<1>4. Awaits'
  <2>1. \A i, k \in 1..Len(writes') :
          writes'[i].by = "session" /\ writes'[k].by = "session" => i = k
    <3> SUFFICES ASSUME NEW i \in 1..Len(writes'), NEW k \in 1..Len(writes'),
                        writes'[i].by = "session", writes'[k].by = "session"
                 PROVE  i = k
      OBVIOUS
    <3>1. i + 1 = k + 1  BY <1>1 DEF Remembered, Awaits
    <3> QED  BY <1>1, <3>1
  <2>2. ASSUME io' # "wait", NEW k \in 1..Len(writes') PROVE writes'[k].by # "session"
    <3>1. CASE writes[1].by = "session"
      <4>1. k + 1 # 1  BY <1>1
      <4> QED  BY <1>1, <3>1, <4>1 DEF Remembered, Awaits
    <3>2. CASE writes[1].by # "session"  BY <1>1, <1>2, <2>2, <3>2 DEF Remembered, Awaits
    <3> QED  BY <3>1, <3>2
  <2> QED  BY <2>1, <2>2 DEF Awaits
<1>5. Leaving'
  <2> SUFFICES ASSUME pc' = "uncertain" PROVE Leaving'  BY DEF Leaving
  <2>1. pc = "uncertain" /\ Told(journal', Last')  BY <1>0 DEF Remembered, Leaving
  <2>2. CASE writes[1].by = "session"
    <3>1. io = "wait" /\ io' \in {"ok", "failed"}
      BY <1>1, <1>2, <2>2 DEF Remembered, Awaits
    <3>2. \A k \in 1..Len(writes) : Told(writes[k].image.journal, Last)
      <4>1. \A k \in 1..Len(writes) : 1 \in 1..k  BY <1>1
      <4> QED  BY <2>1, <2>2, <3>1, <4>1 DEF Remembered, Leaving
    <3>3. \A k \in 1..Len(writes') : Told(writes'[k].image.journal, Last')
      BY <1>0, <1>1, <3>2
    <3>4. io' = "ok" => Told(disk'.journal, Last')
      BY <1>0, <1>1, <1>2, <2>2, <3>2
    <3> QED  BY <2>1, <3>1, <3>3, <3>4 DEF Leaving
  <2>3. CASE writes[1].by # "session"
    <3>1. io' = io  BY <1>2, <2>3
    <3>2. io' = "ok" => Told(disk'.journal, Last')
      BY <1>0, <1>1, <1>2, <2>1, <3>1 DEF Remembered, Leaving
    <3>3. ASSUME NEW k \in 1..Len(writes'),
                 io' = "ok" \/ (io' = "wait" /\ \E i \in 1..k : writes'[i].by = "session")
          PROVE  Told(writes'[k].image.journal, Last')
      <4>1. io = "ok" \/ (io = "wait" /\ \E i \in 1..(k + 1) : writes[i].by = "session")
        <5>1. CASE io' = "ok"  BY <3>1, <5>1
        <5>2. CASE io' = "wait"
          <6>1. PICK i \in 1..k : writes'[i].by = "session"  BY <3>3, <5>2
          <6>2. i \in 1..Len(writes') /\ i + 1 \in 1..(k + 1)  BY <1>1, <6>1
          <6>3. writes[i + 1].by = "session"  BY <1>1, <6>1, <6>2
          <6> QED  BY <3>1, <5>2, <6>2, <6>3
        <5> QED  BY <3>3, <5>1, <5>2
      <4>2. Told(writes[k + 1].image.journal, Last)
        BY <1>1, <2>1, <3>3, <4>1 DEF Remembered, Leaving
      <4> QED  BY <1>0, <1>1, <4>2
    <3> QED  BY <2>1, <3>2, <3>3 DEF Leaving
  <2> QED  BY <2>2, <2>3
<1>6. Counts'
  <2>1. disk'.rec.used <= rec'.used  BY <1>0, <1>1, <1>2 DEF Remembered, Counts
  <2>2. \A k \in 1..Len(writes') : writes'[k].image.rec.used <= rec'.used
    BY <1>0, <1>1 DEF Remembered, Counts
  <2> QED  BY <2>1, <2>2 DEF Counts
<1> QED  BY <1>3, <1>4, <1>5, <1>6 DEF Remembered

\* A restart cancels no line that told.
LEMMA RememberedCrash ==
  ASSUME TypeOK, Owned, Remembered, Crash
  PROVE  Remembered'
<1>0. disk.rec \in Record /\ disk.journal \in Journal /\ disk \in Image /\ wire \subseteq Attempts
  BY DEF TypeOK, Image
<1>1. /\ rec' = LoadRecord(disk.rec, disk.journal) /\ journal' = LoadJournal(disk.journal)
      /\ disk' = IF ValidRecord(disk.rec, disk.journal) THEN disk ELSE [disk EXCEPT !.rec = NoRecord]
      /\ writes' = <<>> /\ pc' = "off" /\ io' = "none" /\ wire' = wire
  BY DEF Crash, past
<1>2. disk'.journal = disk.journal
  BY <1>0, <1>1 DEF Image
<1>3. disk'.rec.used = rec'.used
  <2>1. disk'.rec = IF ValidRecord(disk.rec, disk.journal) THEN disk.rec ELSE NoRecord
    BY <1>0, <1>1 DEF Image
  <2> QED  BY <1>0, <1>1, <2>1, LoadKeeps, EmptyRecords
<1>4. rec'.used \in Nat  BY <1>0, <1>1, LoadKeeps, ConstantTypes DEF Record
<1>5. Len(writes') = 0 /\ 1..Len(writes') = {}  BY <1>1
<1>6. \A n \in wire : Told(disk.journal, n)  BY DEF Remembered, Remembers, ReleasedInHistory
<1>7. \A n \in wire : Told(journal', n)
  <2>1. \A n \in wire : journal'[n] = disk.journal[n]
    BY <1>0, <1>1, <1>6 DEF LoadJournal, Told
  <2> QED  BY <1>6, <2>1 DEF Told
<1>8. Remembers'  BY <1>1, <1>2, <1>5, <1>6, <1>7 DEF Remembers, ReleasedInHistory
<1>9. Awaits' /\ Leaving'  BY <1>1, <1>5 DEF Awaits, Leaving
<1>10. Counts'  BY <1>3, <1>4, <1>5 DEF Counts
<1> QED  BY <1>8, <1>9, <1>10 DEF Remembered

\* At first nothing left and nothing is written.
LEMMA RememberedInit == Init => Remembered
<1> SUFFICES ASSUME Init PROVE Remembered  OBVIOUS
<1>1. /\ wire = {} /\ writes = <<>> /\ pc = "idle" /\ disk.rec = rec /\ rec.used = 0
  BY EmptyRecords DEF Init
<1>2. 1..Len(writes) = {}  BY <1>1
<1> QED
  BY <1>1, <1>2 DEF Remembered, Remembers, ReleasedInHistory, Awaits, Leaving, Counts

\* The inductive invariant, and what every step is.
LEMMA Inductive ==
  TypeOK /\ Owned /\ Remembered /\ [Next]_vars => (TypeOK /\ Owned /\ Remembered)'
<1> SUFFICES ASSUME TypeOK, Owned, Remembered, [Next]_vars
             PROVE  (TypeOK /\ Owned /\ Remembered)'
  OBVIOUS
<1>1. (TypeOK /\ Owned)' /\ (Step \/ Land \/ Crash)  BY OwnedStep
<1>2. Remembered'  BY <1>1, RememberedStep, RememberedLand, RememberedCrash
<1> QED  BY <1>1, <1>2

\* No payment that left the wallet is ever said not to have, in memory or in storage: however writes
\* fail, wait behind others or are lost with the worker, the restart rule of readState cannot
\* cancel its line.
THEOREM ReleasedIsTold == Spec => []ReleasedInHistory
<1>1. Init => TypeOK /\ Owned /\ Remembered  BY OwnedInit, RememberedInit
<1>2. TypeOK /\ Owned /\ Remembered => ReleasedInHistory  BY DEF Remembered, Remembers
<1> QED  BY <1>1, <1>2, Inductive, PTL DEF Spec

\* Once a stop was recorded or no record says the session runs, no signature is counted or made and
\* nothing is sent, whatever the controller was awaiting, and whatever record a restart loads.
THEOREM StopIsFinal == Spec => NothingAfterStop
<1>1. ASSUME TypeOK, Owned, Remembered, [Next]_vars, stopWith # "none" \/ rec.state # "running"
      PROVE  signatures' = signatures /\ wire' = wire /\ rec'.used <= rec.used
  <2>0. rec.used \in Nat /\ disk.rec \in Record
    BY <1>1, ConstantTypes DEF TypeOK, Record, Image
  <2>1. CASE Step
    <3>1. ~Reserve /\ ~Release /\ ~(pc = "reserve" /\ stopWith = "none")
      BY <1>1 DEF Reserve, Release, Owned, Running, Reading, Signing
    <3> QED  BY <2>0, <2>1, <3>1 DEF Step
  <2>2. CASE Land  BY <2>0, <2>2 DEF Land, past, memory
  <2>3. CASE Crash
    <3>1. rec'.used = IF ValidRecord(disk.rec, disk.journal) THEN disk.rec.used ELSE 0
      BY <2>0, <2>3, LoadKeeps DEF Crash
    <3>2. rec'.used <= rec.used  BY <1>1, <2>0, <3>1 DEF Remembered, Counts
    <3> QED  BY <2>3, <3>2 DEF Crash, past
  <2> QED  BY <1>1, <2>1, <2>2, <2>3, OwnedStep
<1>2. TypeOK /\ Owned /\ Remembered /\ [Next]_vars =>
        [stopWith # "none" \/ rec.state # "running" =>
           signatures' = signatures /\ wire' = wire /\ rec'.used <= rec.used]_vars
  BY <1>1
<1>3. Init => TypeOK /\ Owned /\ Remembered  BY OwnedInit, RememberedInit
<1> QED  BY <1>2, <1>3, Inductive, PTL DEF Spec, NothingAfterStop

-----------------------------------------------------------------------------
(* The ledger's rules along the session.                                   *)
\* A set of attempts that is not empty has a least one.
LEMMA LeastAttempt ==
  ASSUME NEW S, S \subseteq Attempts, S # {}
  PROVE  Min(S) \in S
<1>1. S \subseteq Nat  BY DEF Attempts
<1>2. PICK x \in S : \A y \in S : ~(<<y, x>> \in OpToRel(<, Nat))
  BY <1>1, NatLessThanWellFounded, WFMin
<1>3. ASSUME NEW y \in S, ~(x <= y) PROVE FALSE
  <2>1. x \in Nat /\ y \in Nat /\ y < x  BY <1>1, <1>3
  <2>2. <<y, x>> \in OpToRel(<, Nat)  BY <2>1 DEF OpToRel
  <2> QED  BY <1>2, <2>2
<1> QED  BY <1>3 DEF Min

\* Finality marks recorded inclusions, or puts one and what came after it in doubt.
LEMMA RulesMarked ==
  ASSUME NEW r \in Record, NEW j, Rules(r, j), NEW S, S \subseteq Recorded(r)
  PROVE  /\ Rules(Marked(r, S), j) /\ Follows(r, Marked(r, S))
         /\ \A n \in Attempts : Marked(r, S).attempts[n].status = r.attempts[n].status
<1> DEFINE gone == {n \in S : chain[n] # r.attempts[n].at}
           ok   == {n \in S : \A m \in gone : n < m}
           f    == [n \in Attempts |-> IF n \in ok THEN [r.attempts[n] EXCEPT !.finalized = TRUE]
                                                   ELSE r.attempts[n]]
           kept == [r EXCEPT !.attempts = f]
<1>1. \A n \in Attempts : r.attempts[n] \in Attempt  BY DEF Record
<1>2. Marked(r, S) = IF gone = {} THEN kept ELSE DoubtFrom(kept, Min(gone))
  BY DEF Marked, Record
<1>3. gone \subseteq S /\ ok \subseteq S /\ S \subseteq Attempts  BY DEF Recorded
<1> HIDE DEF gone, ok
<1>4. \A n \in Attempts : /\ f[n].status = r.attempts[n].status /\ f[n].at = r.attempts[n].at
                          /\ f[n].hash = r.attempts[n].hash /\ f[n].parent = r.attempts[n].parent
                          /\ f[n].doubt = r.attempts[n].doubt
                          /\ f[n].finalized => r.attempts[n].finalized \/ n \in ok
  BY <1>1 DEF Attempt
<1>5. f \in [Attempts -> Attempt]
  <2>1. \A a \in Attempt : [a EXCEPT !.finalized = TRUE] \in Attempt  BY DEF Attempt
  <2> QED  BY <1>1, <2>1
<1>6. \A n \in Attempts : SameAttempt(r.attempts[n], f[n])
  <2> HIDE DEF f
  <2> QED  BY <1>4 DEF SameAttempt
<1>7. \A n \in Attempts : Fit(f[n])
  <2> SUFFICES ASSUME NEW n \in Attempts PROVE Fit(f[n])  OBVIOUS
  <2>1. Fit(r.attempts[n]) /\ (n \in ok => Doubtful(r.attempts[n]) /\ r.attempts[n].at # NoPlace)
    BY <1>3, RecordedIsDoubtful DEF Rules, Recorded
  <2> HIDE DEF f
  <2> QED  BY <1>4, <2>1 DEF Fit, ValidAttempt, Doubtful
<1>8. /\ kept.attempts = f /\ kept.reorganized = r.reorganized
      /\ SameAttempts(r, kept) /\ kept.state = r.state
  <2> HIDE DEF f
  <2> QED  BY <1>5, <1>6, NewAttempts DEF Record
<1> HIDE DEF f, kept
<1>9. Follows(r, kept)  BY <1>4, <1>8 DEF Follows
<1>10. kept.reorganized <=> \E n \in Attempts : kept.attempts[n].doubt
  BY <1>4, <1>8 DEF Rules
<1>11. \A n \in Attempts : /\ kept.attempts[n].status = "settled" => kept.state = "ended"
                           /\ kept.attempts[n].hash => j[n].status # "none"
  BY <1>4, <1>8 DEF Rules
<1>12. Rules(kept, j)  BY <1>7, <1>8, <1>9, <1>10, <1>11, RulesKept
<1>13. CASE gone = {}  BY <1>2, <1>4, <1>8, <1>9, <1>12, <1>13
<1>14. CASE gone # {}
  <2>1. kept \in Record  BY <1>8 DEF SameAttempts
  <2>2. Min(gone) \in Recorded(r) /\ Min(gone) \in Attempts
    BY <1>3, <1>14, LeastAttempt
  <2>3. Min(gone) \in Recorded(kept)  BY <1>4, <1>8, <2>2 DEF Recorded
  <2>4. Doubtful(kept.attempts[Min(gone)])  BY <1>12, <2>1, <2>3, RecordedIsDoubtful
  <2> DEFINE d == After(kept, Min(gone))
  <2>5. \A n \in d : n \in Attempts /\ Doubtful(kept.attempts[n])
    <3>1. PICK k : k = Min(gone)  OBVIOUS
    <3>2. Doubtful(kept.attempts[k])  BY <2>4, <3>1
    <3>3. \A n \in After(kept, k) : n \in Attempts /\ Doubtful(kept.attempts[n])
      BY <2>1, <3>2, AfterIsDoubtful
    <3> QED  BY <3>1, <3>3
  <2>6. DoubtFrom(kept, Min(gone)) = PutInDoubt(kept, d)  BY DEF DoubtFrom
  <2> HIDE DEF d
  <2>7. /\ Rules(PutInDoubt(kept, d), j) /\ Follows(kept, PutInDoubt(kept, d))
        /\ \A n \in Attempts : PutInDoubt(kept, d).attempts[n] =
              IF n \in d THEN [kept.attempts[n] EXCEPT !.doubt = TRUE] ELSE kept.attempts[n]
    BY <1>12, <2>1, <2>5, RulesDoubt
  <2>8. \A n \in Attempts : PutInDoubt(kept, d).attempts[n].status = r.attempts[n].status
    <3>1. \A n \in Attempts : kept.attempts[n] \in Attempt  BY <2>1 DEF Record
    <3>2. \A a \in Attempt : [a EXCEPT !.doubt = TRUE].status = a.status  BY DEF Attempt
    <3>3. \A n \in Attempts : kept.attempts[n].status = r.attempts[n].status  BY <1>4, <1>8
    <3>4. ASSUME NEW n \in Attempts
          PROVE  PutInDoubt(kept, d).attempts[n].status = kept.attempts[n].status
      <4>1. PICK a \in Attempt : a = kept.attempts[n]  BY <3>1
      <4>2. [a EXCEPT !.doubt = TRUE].status = a.status  BY <3>2
      <4>3. PutInDoubt(kept, d).attempts[n] = IF n \in d THEN [a EXCEPT !.doubt = TRUE] ELSE a
        BY <2>7, <4>1
      <4> QED  BY <4>1, <4>2, <4>3
    <3> QED  BY <3>3, <3>4
  <2>9. PICK e : e = PutInDoubt(kept, d)  OBVIOUS
  <2>10. Follows(kept, e)  BY <2>7, <2>9
  <2>11. Follows(r, e)  BY <1>9, <2>10, FollowsTransitive
  <2> QED  BY <1>2, <1>14, <2>6, <2>7, <2>8, <2>9, <2>11
<1> QED  BY <1>13, <1>14

\* The end of a session, on any record that keeps the rules.
LEMMA RulesEnd ==
  ASSUME TypeOK, NEW r \in Record, Rules(r, journal), NEW why, End(r, why)
  PROVE  /\ Rules(rec', journal') /\ Follows(r, rec')
         /\ \A n \in Attempts \cap released : rec'.attempts[n] = r.attempts[n]
<1> DEFINE f == [n \in Attempts |-> IF n \in Unreleased(r)
                                    THEN [r.attempts[n] EXCEPT !.status = "cancelled"]
                                    ELSE r.attempts[n]]
           new == [r EXCEPT !.state = "ended", !.attempts = f]
<1>1. \A n \in Attempts : r.attempts[n] \in Attempt  BY DEF Record
<1>2. \A n \in Unreleased(r) : /\ n \notin released
                               /\ r.attempts[n].status \in {"reserved", "signed", "uncertain"}
  BY DEF Unreleased
<1>3. rec' = new  BY DEF End, Persist, Record
<1>4. new.attempts = f /\ new.state = "ended" /\ new.reorganized = r.reorganized  BY DEF Record
<1>5. SameAttempts(r, rec')  BY EndKeeps DEF TypeOK
<1>6. \A n \in Attempts :
        /\ f[n].at = r.attempts[n].at /\ f[n].hash = r.attempts[n].hash
        /\ f[n].finalized = r.attempts[n].finalized
        /\ f[n].parent = r.attempts[n].parent /\ f[n].doubt = r.attempts[n].doubt
        /\ \/ f[n].status = r.attempts[n].status
           \/ f[n].status = "cancelled" /\ r.attempts[n].status \in {"reserved", "signed", "uncertain"}
        /\ n \in released => f[n] = r.attempts[n]
  BY <1>1, <1>2, StatusNames DEF Attempt
<1> HIDE DEF f, new
<1>7. \A n \in Attempts : Fit(f[n])
  <2> SUFFICES ASSUME NEW n \in Attempts PROVE Fit(f[n])  OBVIOUS
  <2>1. Fit(r.attempts[n])  BY DEF Rules
  <2> QED  BY <1>6, <2>1 DEF Fit, ValidAttempt, WithInclusion, Outcomes
<1>8. Follows(r, rec')
  BY <1>3, <1>4, <1>6, AdmittingOutcomes DEF Follows, Unresolved
<1>9. rec'.reorganized <=> \E n \in Attempts : rec'.attempts[n].doubt
  BY <1>3, <1>4, <1>6 DEF Rules
<1>10. \A n \in Attempts : rec'.attempts[n].hash => journal'[n].status # "none"
  <2>1. journal' = [n \in Attempts |->
                      IF n \in Unreleased(r) /\ r.attempts[n].hash
                      THEN [journal[n] EXCEPT !.status = "cancelled-before-broadcast"]
                      ELSE journal[n]]
    BY DEF End, Persist
  <2>2. \A n \in Attempts : journal[n] \in Line  BY DEF TypeOK, Journal
  <2>3. \A n \in Attempts : journal[n].status # "none" => journal'[n].status # "none"
    BY <2>1, <2>2 DEF Line
  <2> QED  BY <1>3, <1>4, <1>6, <2>3 DEF Rules
<1>11. \A n \in Attempts : Fit(rec'.attempts[n])  BY <1>3, <1>4, <1>7
<1>12. rec'.state = "ended"  BY <1>3, <1>4
<1>13. Rules(rec', journal')  BY <1>5, <1>8, <1>9, <1>10, <1>11, <1>12, RulesKept
<1> QED  BY <1>3, <1>4, <1>6, <1>8, <1>13

\* Where each stage of the controller finds the last attempt, and that no doubt reaches a signature.
Stands ==
  /\ pc = "reserve" => LastIs({"reserved"})
  /\ pc = "signed" => LastIs({"signed"})
  /\ pc \in {"uncertain", "submit"} => LastIs({"uncertain"})
  /\ pc \in {"pass", "prev"} => Last = 0 \/ LastIs({"sent", "uncertain", "included"} \cup Admitting)
  /\ pc = "tip" => Last = 0 \/ LastIs({"included"} \cup Admitting)
  /\ pc = "admit" => Last = 0 \/ LastIs(Admitting)
  /\ pc = "judged" => LastIs(Outcomes)
  /\ pc \in {"tip", "judged", "admit", "submit"} \cup Signing => ~rec.reorganized
  /\ pc \in Signing \cup {"submit"} /\ Last > 1
       => rec.attempts[Last].parent = rec.attempts[Last - 1].at

\* Only what left is in a block, above the block it was born below.
Placing ==
  /\ \A n \in Attempts : chain[n] # NoPlace => n \in wire
  /\ pc # "off" =>
       \A n \in Attempts : chain[n] \in Places /\ rec.attempts[n].parent # NoPlace
                             => Height[rec.attempts[n].parent] < Height[chain[n]]
  /\ pc = "found" => /\ Last > 0
                     /\ rec.attempts[Last].parent # NoPlace
                          => Height[rec.attempts[Last].parent] < Height[seen]

\* The record says that payment n may have left.
Sent(r, n) == r.attempts[n].status \notin {"none", "reserved", "signed", "cancelled"}

\* A verdict stands, and so does a doubt; what left, or is about to, is never said not to have.
Standing ==
  \A n \in Attempts :
    LET old == rec.attempts[n]
        new == rec'.attempts[n]
    IN /\ old.status \in Outcomes => new.status = old.status /\ new.at = old.at
       /\ old.doubt => new.doubt
       /\ Sent(rec, n) /\ (n \in wire \/ pc' = "uncertain") => Sent(rec', n)

\* What a step leaves of the rules.
Ruled == Rules(rec', journal') /\ Stands' /\ Placing' /\ Standing

\* The facts of every stage.
LEMMA Now ==
  ASSUME TypeOK, Owned
  PROVE  /\ rec \in Record /\ journal \in Journal /\ writes \in Seq(Write) /\ SameAttempts(rec, rec)
         /\ wire \subseteq Attempts /\ released \subseteq Attempts
         /\ Last \in Nat /\ Last <= MaxAttempts /\ HeldAttempts = 1..Last /\ Last \in 0..rec.used
         /\ \A n \in 1..Last : n \in Attempts /\ rec.attempts[n].status # "none"
         /\ \A n \in Attempts : rec.attempts[n] \in Attempt
BY SameAttemptsReflexive, LastIsHeld DEF TypeOK, Owned, Record

\* No stage that needs the last attempt: nothing to show of it.
LEMMA StandsIdle == pc' \notin Running => Stands'
BY DEF Stands, Running, Reading, Signing

\* A step that leaves the chain alone and keeps the attempts.
LEMMA RuledFrame ==
  ASSUME TypeOK, Owned, Placing, SameAttempts(rec, rec'), Follows(rec, rec'), Rules(rec', journal'),
         UNCHANGED <<chain, wire>>, pc # "off" \/ pc' = "off", pc' # "found",
         pc' \notin Running \/ Stands',
         \A n \in Attempts : Sent(rec, n) /\ (n \in wire \/ pc' = "uncertain") => Sent(rec', n)
  PROVE  Ruled /\ Follows(rec, rec')
<1>1. Stands'  BY StandsIdle
<1>2. Placing'  BY DEF Placing, Follows
<1>3. Standing  BY DEF Standing, Follows
<1> QED  BY <1>1, <1>2, <1>3 DEF Ruled

\* A step that ends the session.
LEMMA RuledEnd ==
  ASSUME TypeOK, Owned, Placing, NEW r \in Record, SameAttempts(rec, r), Follows(rec, r),
         Rules(r, journal), \A n \in Attempts : Sent(rec, n) => Sent(r, n),
         NEW why, End(r, why), Others, pc # "off"
  PROVE  Ruled /\ Follows(rec, rec')
<1>1. /\ Rules(rec', journal') /\ Follows(r, rec')
      /\ \A n \in Attempts \cap released : rec'.attempts[n] = r.attempts[n]
  BY RulesEnd
<1>2. SameAttempts(r, rec') /\ pc' = "end"  BY EndKeeps DEF TypeOK
<1>3. SameAttempts(rec, rec') /\ Follows(rec, rec')
  BY <1>1, <1>2, SameAttemptsTransitive, FollowsTransitive
<1>4. pc' \notin Running /\ pc' # "uncertain"  BY <1>2 DEF Running, Reading, Signing
<1>5. \A n \in wire : n \in Attempts \cap released  BY DEF Owned, TypeOK
<1>6. \A n \in Attempts : Sent(rec, n) /\ (n \in wire \/ pc' = "uncertain") => Sent(rec', n)
  BY <1>1, <1>4, <1>5 DEF Sent
<1> QED  BY <1>1, <1>2, <1>3, <1>4, <1>6, RuledFrame DEF Others, world

\* Such a step on the record as it is.
LEMMA RuledPlainEnd ==
  ASSUME TypeOK, Owned, Placing, Rules(rec, journal), NEW why, End(rec, why), Others, pc # "off"
  PROVE  Ruled /\ Follows(rec, rec')
BY Now, FollowsReflexive, RuledEnd

\* Or with every inclusion that is not final in doubt.
LEMMA RuledReorg ==
  ASSUME TypeOK, Owned, Placing, NEW r \in Record, SameAttempts(rec, r), Follows(rec, r),
         Rules(r, journal), \A n \in Attempts : Sent(rec, n) => Sent(r, n),
         NEW why, End(DoubtOpen(r), why), Others, pc # "off"
  PROVE  Ruled /\ Follows(rec, rec')
<1> DEFINE d == DoubtOpen(r)
<1>1. SameAttempts(r, d)  BY DoubtOpenKeeps
<1>2. /\ Rules(d, journal) /\ Follows(r, d)
      /\ \A n \in Attempts : d.attempts[n].status = r.attempts[n].status
  BY RulesDoubtOpen
<1> HIDE DEF d
<1>4. d \in Record /\ SameAttempts(rec, d) /\ Follows(rec, d)
  BY <1>1, <1>2, SameAttemptsTransitive, FollowsTransitive DEF SameAttempts
<1>5. \A n \in Attempts : Sent(rec, n) => Sent(d, n)  BY <1>2 DEF Sent
<1>6. End(d, why)  BY DEF d
<1> QED  BY <1>2, <1>4, <1>5, <1>6, RuledEnd

\* A step that leaves the record alone.
LEMMA RuledSame ==
  ASSUME TypeOK, Owned, Placing, Rules(rec, journal), rec' = rec,
         \A n \in Attempts : journal[n].status # "none" => journal'[n].status # "none",
         UNCHANGED <<chain, wire>>, pc # "off" \/ pc' = "off", pc' # "found",
         pc' \notin Running \/ Stands'
  PROVE  Ruled /\ Follows(rec, rec')
BY Now, FollowsReflexive, RulesOfLines, RuledFrame

\* A payment that left takes its next status, or a verdict where it was included.
LEMMA RuledStatus ==
  ASSUME NEW r \in Record, NEW j, NEW k, NEW n \in Attempts, NEW st, Rules(r, j),
         \A m \in Attempts : j[m].status # "none" => k[m].status # "none",
         \/ /\ r.attempts[n].status \in {"signed", "uncertain", "sent"}
            /\ st \in {"uncertain", "sent", "replaced", "expired", "dead"}
         \/ r.attempts[n].status = "included" /\ st \in Outcomes
  PROVE  LET s == SetStatus(r, n, st)
         IN /\ s \in Record /\ SameAttempts(r, s) /\ Rules(s, k) /\ Follows(r, s)
            /\ s.attempts[n].status = st /\ s.attempts[n].parent = r.attempts[n].parent
            /\ \A m \in Attempts : m # n => s.attempts[m] = r.attempts[m]
            /\ s.reorganized = r.reorganized /\ s.state = r.state
            /\ \A m \in Attempts : Sent(r, m) => Sent(s, m)
<1> DEFINE a == [r.attempts[n] EXCEPT !.status = st]
           s == [r EXCEPT !.attempts[n] = a]
<1>1. r.attempts[n] \in Attempt  BY DEF Record
<1>2. st \in Status \ {"none", "settled", "reserved", "signed", "cancelled", "included"}
  BY StatusNames, AdmittingOutcomes DEF Outcomes
<1>3. /\ a \in Attempt /\ a.status = st /\ a.hash = r.attempts[n].hash /\ a.at = r.attempts[n].at
      /\ a.finalized = r.attempts[n].finalized
      /\ a.doubt = r.attempts[n].doubt /\ a.parent = r.attempts[n].parent
  BY <1>1, <1>2 DEF Attempt
<1>4. SetStatus(r, n, st) = s  BY DEF SetStatus, Record
<1> HIDE DEF a
<1>5. SameAttempt(r.attempts[n], a) /\ Rules(r, k)  BY <1>2, <1>3, RulesOfLines DEF SameAttempt
<1>6. Fit(r.attempts[n])  BY DEF Rules
<1>7. Fit(a) /\ r.attempts[n].hash
  <2>1. CASE /\ r.attempts[n].status \in {"signed", "uncertain", "sent"}
             /\ st \in {"uncertain", "sent", "replaced", "expired", "dead"}
    BY <1>3, <1>6, <2>1 DEF Fit, ValidAttempt, WithInclusion, Outcomes
  <2>2. CASE r.attempts[n].status = "included" /\ st \in Outcomes
    BY <1>2, <1>3, <1>6, <2>2 DEF Fit, ValidAttempt, WithInclusion
  <2> QED  BY <2>1, <2>2
<1>8. k[n].status # "none"  BY <1>7 DEF Rules
<1>9. r.attempts[n].status \notin Outcomes /\ a.status # "settled"
  BY <1>2, <1>3, AdmittingOutcomes DEF Outcomes
<1>10. /\ s \in Record /\ SameAttempts(r, s) /\ Rules(s, k) /\ Follows(r, s)
       /\ s.attempts[n] = a /\ \A m \in Attempts : m # n => s.attempts[m] = r.attempts[m]
       /\ s.state = r.state /\ s.reorganized = r.reorganized
  BY <1>3, <1>5, <1>7, <1>8, <1>9, RulesAttempt
<1> HIDE DEF s
<1>11. \A m \in Attempts : Sent(r, m) => Sent(s, m)  BY <1>2, <1>3, <1>10 DEF Sent
<1> QED  BY <1>3, <1>4, <1>10, <1>11

\* A line once written is not erased.
KeepLines(j, k) == \A m \in Attempts : j[m].status # "none" => k[m].status # "none"

\* A payment handed over is in doubt, or sent.
LEMMA RuledSending ==
  ASSUME NEW r \in Record, NEW j, NEW k, KeepLines(j, k), Rules(r, j), NEW n \in Attempts,
         NEW st \in {"uncertain", "sent"}, r.attempts[n].status \in {"signed", "uncertain"},
         NEW s, s = SetStatus(r, n, st)
  PROVE  /\ SameAttempts(r, s) /\ Rules(s, k) /\ Follows(r, s)
         /\ s.attempts[n].status = st /\ s.attempts[n].parent = r.attempts[n].parent
         /\ \A m \in Attempts : m # n => s.attempts[m] = r.attempts[m]
         /\ s.reorganized = r.reorganized
         /\ \A m \in Attempts : Sent(r, m) => Sent(s, m)
<1>1. \A m \in Attempts : j[m].status # "none" => k[m].status # "none"  BY DEF KeepLines
<1>2. /\ r.attempts[n].status \in {"signed", "uncertain", "sent"}
      /\ st \in {"uncertain", "sent", "replaced", "expired", "dead"}
  OBVIOUS
<1> QED  BY <1>1, <1>2, RuledStatus

\* The verdict where it was included.
LEMMA RuledVerdict ==
  ASSUME NEW r \in Record, NEW j, NEW n \in Attempts, NEW st \in Outcomes, Rules(r, j),
         r.attempts[n].status = "included"
  PROVE  LET s == SetStatus(r, n, st)
         IN /\ s \in Record /\ SameAttempts(r, s) /\ Rules(s, j) /\ Follows(r, s)
            /\ s.attempts[n].status = st /\ s.reorganized = r.reorganized
            /\ \A m \in Attempts : Sent(r, m) => Sent(s, m)
<1>1. \A m \in Attempts : j[m].status # "none" => j[m].status # "none"  OBVIOUS
<1> QED  BY <1>1, RuledStatus

\* A payment found in a block above the one it was born below.
LEMMA RuledIncluded ==
  ASSUME NEW r \in Record, NEW j, NEW n \in Attempts, NEW p \in Places, Rules(r, j),
         r.attempts[n].status \in {"sent", "uncertain"},
         r.attempts[n].parent # NoPlace => Height[r.attempts[n].parent] < Height[p]
  PROVE  LET s == [r EXCEPT !.attempts[n].status = "included", !.attempts[n].at = p]
         IN /\ s \in Record /\ SameAttempts(r, s) /\ Rules(s, j) /\ Follows(r, s)
            /\ s.attempts[n].status = "included"
            /\ s.reorganized = r.reorganized
            /\ \A m \in Attempts : Sent(r, m) => Sent(s, m)
<1> DEFINE a == [r.attempts[n] EXCEPT !.status = "included", !.at = p]
           s == [r EXCEPT !.attempts[n] = a]
<1>1. r.attempts[n] \in Attempt /\ p # NoPlace  BY ConstantTypes DEF Record
<1>2. /\ a \in Attempt /\ a.status = "included" /\ a.hash = r.attempts[n].hash /\ a.at = p
      /\ a.finalized = r.attempts[n].finalized
      /\ a.doubt = r.attempts[n].doubt /\ a.parent = r.attempts[n].parent
  BY <1>1, StatusNames DEF Attempt
<1>3. [r EXCEPT !.attempts[n].status = "included", !.attempts[n].at = p] = s  BY DEF Record
<1> HIDE DEF a
<1>4. SameAttempt(r.attempts[n], a)  BY <1>1, <1>2 DEF SameAttempt
<1>5. Fit(r.attempts[n])  BY DEF Rules
<1>6. Fit(a)  BY <1>1, <1>2, <1>5 DEF Fit, ValidAttempt, WithInclusion, Outcomes
<1>7. j[n].status # "none"
  <2>1. r.attempts[n].hash  BY <1>5 DEF Fit, ValidAttempt
  <2> QED  BY <2>1 DEF Rules
<1>8. r.attempts[n].status \notin Outcomes /\ a.status # "settled"
  BY <1>2 DEF Outcomes
<1>9. /\ s \in Record /\ SameAttempts(r, s) /\ Rules(s, j) /\ Follows(r, s)
      /\ s.attempts[n] = a /\ \A m \in Attempts : m # n => s.attempts[m] = r.attempts[m]
      /\ s.reorganized = r.reorganized
  BY <1>2, <1>4, <1>6, <1>7, <1>8, RulesAttempt
<1> HIDE DEF s
<1>10. \A m \in Attempts : Sent(r, m) => Sent(s, m)  BY <1>2, <1>9 DEF Sent
<1> QED  BY <1>2, <1>3, <1>9, <1>10

\* The attempt just signed, with its history line.
LEMMA RuledSigned ==
  ASSUME NEW r \in Record, NEW k, NEW n \in Attempts, Rules(r, k),
         r.attempts[n].status = "reserved", k[n].status # "none"
  PROVE  LET s == [r EXCEPT !.attempts[n].status = "signed", !.attempts[n].hash = TRUE]
         IN /\ s \in Record /\ SameAttempts(r, s) /\ Rules(s, k) /\ Follows(r, s)
            /\ s.attempts[n].status = "signed" /\ s.attempts[n].parent = r.attempts[n].parent
            /\ \A m \in Attempts : m # n => s.attempts[m] = r.attempts[m]
            /\ s.reorganized = r.reorganized
<1> DEFINE a == [r.attempts[n] EXCEPT !.status = "signed", !.hash = TRUE]
           s == [r EXCEPT !.attempts[n] = a]
<1>1. r.attempts[n] \in Attempt  BY DEF Record
<1>2. /\ a \in Attempt /\ a.status = "signed" /\ a.hash /\ a.at = r.attempts[n].at
      /\ a.finalized = r.attempts[n].finalized
      /\ a.doubt = r.attempts[n].doubt /\ a.parent = r.attempts[n].parent
  BY <1>1, StatusNames DEF Attempt
<1>3. [r EXCEPT !.attempts[n].status = "signed", !.attempts[n].hash = TRUE] = s  BY DEF Record
<1> HIDE DEF a
<1>4. SameAttempt(r.attempts[n], a)  BY <1>1, <1>2 DEF SameAttempt
<1>5. Fit(r.attempts[n])  BY DEF Rules
<1>6. Fit(a)  BY <1>1, <1>2, <1>5 DEF Fit, ValidAttempt, WithInclusion, Outcomes
<1>7. k[n].status # "none"  OBVIOUS
<1>8. r.attempts[n].status \notin Outcomes /\ a.status # "settled"
  BY <1>2 DEF Outcomes
<1>9. /\ s \in Record /\ SameAttempts(r, s) /\ Rules(s, k) /\ Follows(r, s)
      /\ s.attempts[n] = a /\ \A m \in Attempts : m # n => s.attempts[m] = r.attempts[m]
      /\ s.reorganized = r.reorganized
  BY <1>2, <1>4, <1>6, <1>7, <1>8, RulesAttempt
<1> HIDE DEF s
<1> QED  BY <1>2, <1>3, <1>9

\* The stages after a step that keeps the attempts: the last one, its birth and the inclusion before.
LEMMA StandsNext ==
  ASSUME TypeOK, Owned, SameAttempts(rec, rec')
  PROVE  /\ Last' = Last
         /\ \A S : LastIs(S)' <=> Last > 0 /\ rec'.attempts[Last].status \in S
BY LastKept DEF LastIs, TypeOK, Owned

\* The stages of a pass, from the last attempt's status after a step that keeps the attempts.
LEMMA StandsReading ==
  ASSUME TypeOK, Owned, SameAttempts(rec, rec'), pc' \notin Signing \cup {"submit"},
         pc' \in {"pass", "prev"} =>
           Last = 0 \/ rec'.attempts[Last].status \in {"sent", "uncertain", "included"} \cup Admitting,
         pc' = "tip" => Last = 0 \/ rec'.attempts[Last].status \in {"included"} \cup Admitting,
         pc' = "admit" => Last = 0 \/ rec'.attempts[Last].status \in Admitting,
         pc' = "judged" => Last > 0 /\ rec'.attempts[Last].status \in Outcomes,
         pc' \in {"tip", "judged", "admit"} => ~rec'.reorganized
  PROVE  Stands'
<1>1. Last' = Last /\ Last \in Nat  BY LastKept, Now DEF Owned
<1> QED  BY <1>1 DEF Stands, LastIs, Signing

\* The stages of a payment.
LEMMA StandsSigning ==
  ASSUME TypeOK, Owned, SameAttempts(rec, rec'), Last > 0, ~rec'.reorganized,
         \/ pc' = "reserve" /\ rec'.attempts[Last].status = "reserved"
         \/ pc' = "signed" /\ rec'.attempts[Last].status = "signed"
         \/ pc' \in {"uncertain", "submit"} /\ rec'.attempts[Last].status = "uncertain",
         Last > 1 => rec'.attempts[Last].parent = rec'.attempts[Last - 1].at
  PROVE  Stands'
<1>1. Last' = Last /\ Last \in Nat  BY LastKept, Now DEF Owned
<1> QED  BY <1>1 DEF Stands, LastIs, Signing

\* Before the approval is written nothing is held, and nothing left.
LEMMA RuledReset ==
  ASSUME TypeOK, Owned, Rules(rec, journal), Placing, pc \in {"idle", "approve"},
         rec' \in {NoRecord, NewRecord}, UNCHANGED <<chain, wire>>, pc' \in {"approve", "off"}
  PROVE  Ruled
<1>1. Last = 0 /\ wire = {}
  <2>1. Last \in 0..rec.used /\ rec.used = 0 /\ wire = {}  BY Now DEF Owned
  <2> QED  BY <2>1
<1>2. \A n \in Attempts : rec.attempts[n].status = "none"
  <2>1. HeldAttempts = {}  BY <1>1, Now
  <2> QED  BY <2>1 DEF HeldAttempts
<1>3. \A n \in Attempts : chain[n] = NoPlace  BY <1>1 DEF Placing
<1>4. Rules(rec', journal')  BY RulesEmpty
<1>5. Stands'  BY DEF Stands, Signing
<1>6. Placing'  BY <1>3, ConstantTypes DEF Placing
<1>7. Standing
  <2>1. \A n \in Attempts : ~rec.attempts[n].doubt  BY <1>2 DEF Rules, Fit
  <2> QED  BY <1>2, <2>1 DEF Standing, Outcomes, Sent
<1> QED  BY <1>4, <1>5, <1>6, <1>7 DEF Ruled

\* What finality makes of the record, complete or interrupted.
LEMMA RuledMarks ==
  ASSUME TypeOK, Owned, Rules(rec, journal),
         \/ \E next : RefreshFinality(next)
         \/ journal' = journal /\ \E upto \in 0..MaxAttempts : RefreshInterrupted(upto)
  PROVE  /\ Rules(rec', journal') /\ SameAttempts(rec, rec') /\ Follows(rec, rec')
         /\ \A n \in Attempts : rec'.attempts[n].status = rec.attempts[n].status
<1>0. rec \in Record /\ SameAttempts(rec, rec)  BY Now
<1>1. CASE rec' = rec /\ journal' = journal  BY <1>0, <1>1, FollowsReflexive
<1>2. ASSUME NEW S, S \subseteq Recorded(rec), rec' = Marked(rec, S), journal' = journal
      PROVE  /\ Rules(rec', journal') /\ SameAttempts(rec, rec') /\ Follows(rec, rec')
             /\ \A n \in Attempts : rec'.attempts[n].status = rec.attempts[n].status
  <2>1. /\ Rules(Marked(rec, S), journal) /\ Follows(rec, Marked(rec, S))
        /\ \A n \in Attempts : Marked(rec, S).attempts[n].status = rec.attempts[n].status
    BY <1>0, <1>2, RulesMarked
  <2>2. SameAttempts(rec, Marked(rec, S))  BY <1>0, MarkedKeeps
  <2> QED  BY <1>2, <2>1, <2>2
<1>3. Reached(rec) \subseteq Recorded(rec)  BY DEF Reached, Open
<1>4. CASE \E next : RefreshFinality(next)
  <2>1. (rec' = rec /\ journal' = journal) \/ (rec' = Marked(rec, Reached(rec)) /\ journal' = journal)
    BY <1>4 DEF RefreshFinality, Persist, memory
  <2> HIDE DEF Reached
  <2> QED  BY <1>1, <1>2, <1>3, <2>1
<1>5. CASE journal' = journal /\ \E upto \in 0..MaxAttempts : RefreshInterrupted(upto)
  <2>1. PICK upto : rec' = Marked(rec, {n \in Reached(rec) : n <= upto})
    BY <1>5 DEF RefreshInterrupted
  <2>2. PICK S : S = {n \in Reached(rec) : n <= upto}  OBVIOUS
  <2>3. S \subseteq Recorded(rec) /\ rec' = Marked(rec, S)  BY <1>3, <2>1, <2>2
  <2> QED  BY <1>2, <1>5, <2>3
<1> QED  BY <1>4, <1>5

\* The approval, and a pass up to the reservation.
LEMMA RuledPass ==
  ASSUME TypeOK, Owned, Rules(rec, journal), Stands, Placing,
         \/ Approve \/ Approved \/ Refused \/ Pass \/ ReadFails \/ Quit \/ Reorganized
         \/ Follow \/ Ready \/ Tip \/ Judged
  PROVE  Ruled
<1>0. /\ rec \in Record /\ SameAttempts(rec, rec) /\ Last \in Nat
      /\ \A n \in 1..Last : n \in Attempts /\ rec.attempts[n].status # "none"
      /\ \A n \in Attempts : rec.attempts[n] \in Attempt
  BY Now
<1> DEFINE st == rec.attempts[Last].status
<1>1. CASE Approve
  <2>1. pc = "idle" /\ pc' = "approve" /\ rec' = NewRecord /\ UNCHANGED <<chain, wire>>
    BY <1>1 DEF Approve, Persist, Others, world
  <2> QED  BY <2>1, RuledReset
<1>2. CASE Approved
  <2>1. pc = "approve" /\ UNCHANGED <<chain, wire>>  BY <1>2 DEF Approved, Others, world
  <2>2. CASE io = "failed"
    <3>1. rec' = NoRecord /\ pc' = "off"  BY <1>2, <2>2 DEF Approved
    <3> QED  BY <2>1, <3>1, RuledReset
  <2>3. CASE io # "failed" /\ pc' = "pass"
    <3>1. rec' = rec /\ journal' = journal  BY <1>2, <2>3 DEF Approved, memory
    <3>2. Last = 0
      <4>1. Last \in 0..rec.used /\ rec.used = 0  BY <2>1, Now DEF Owned
      <4> QED  BY <4>1
    <3>3. Stands'  BY <1>0, <2>3, <3>1, <3>2, StandsReading DEF Signing
    <3> QED  BY <2>1, <2>3, <3>1, <3>3, RuledSame
  <2>4. CASE io # "failed" /\ pc' # "pass"
    <3> DEFINE r == [rec EXCEPT !.state = "ended"]
    <3>1. rec' = r /\ journal' = journal /\ pc' = "refused"
      BY <1>2, <2>4 DEF Approved, Persist
    <3>2. /\ r \in Record /\ r.attempts = rec.attempts /\ r.used = rec.used /\ r.state = "ended"
          /\ r.reorganized = rec.reorganized
      BY <1>0 DEF Record
    <3> HIDE DEF r
    <3>3. SameAttempts(rec, r) /\ Follows(rec, r)
      BY <1>0, <3>2 DEF SameAttempts, Follows
    <3>4. Rules(r, journal)
      <4>1. /\ \A n \in Attempts : Fit(r.attempts[n])
            /\ r.reorganized <=> \E n \in Attempts : r.attempts[n].doubt
            /\ \A n \in Attempts : r.attempts[n].hash => journal[n].status # "none"
        BY <3>2 DEF Rules
      <4> QED  BY <1>0, <3>2, <3>3, <4>1, RulesKept
    <3>5. pc' \notin Running /\ pc' # "uncertain"  BY <3>1 DEF Running, Reading, Signing
    <3>6. \A n \in Attempts : Sent(rec, n) => Sent(r, n)  BY <3>2 DEF Sent
    <3> QED  BY <2>1, <3>1, <3>3, <3>4, <3>5, <3>6, RuledFrame
  <2> QED  BY <2>2, <2>3, <2>4
<1>3. CASE Refused
  <2>1. /\ pc = "refused" /\ pc' = "off" /\ rec' = rec /\ journal' = journal
        /\ UNCHANGED <<chain, wire>>
    BY <1>3 DEF Refused, memory, Others, world
  <2>2. pc' \notin Running  BY <2>1 DEF Running, Reading, Signing
  <2> QED  BY <2>1, <2>2, RuledSame
<1>4. CASE Pass
  <2>1. /\ pc = "pass" /\ pc' = "prev" /\ RefreshFinality("prev") /\ UNCHANGED <<chain, wire>>
    BY <1>4 DEF Pass, RefreshFinality, Others, world
  <2>2. /\ Rules(rec', journal') /\ SameAttempts(rec, rec') /\ Follows(rec, rec')
        /\ \A n \in Attempts : rec'.attempts[n].status = rec.attempts[n].status
    BY <2>1, RuledMarks
  <2>3. Last = 0 \/ rec'.attempts[Last].status \in {"sent", "uncertain", "included"} \cup Admitting
    BY <1>0, <2>1, <2>2 DEF Stands, LastIs
  <2>4. Stands'  BY <2>1, <2>2, <2>3, StandsReading DEF Signing
  <2>5. \A n \in Attempts : Sent(rec, n) => Sent(rec', n)  BY <2>2 DEF Sent
  <2> QED  BY <2>1, <2>2, <2>4, <2>5, RuledFrame
<1>5. CASE ReadFails
  <2>1. pc \in Reading /\ pc' = "pass" /\ journal' = journal /\ UNCHANGED <<chain, wire>>
    BY <1>5 DEF ReadFails, Others, world
  <2>2. /\ Rules(rec', journal') /\ SameAttempts(rec, rec') /\ Follows(rec, rec')
        /\ \A n \in Attempts : rec'.attempts[n].status = rec.attempts[n].status
    <3>1. CASE rec' = rec  BY <1>0, <2>1, <3>1, FollowsReflexive
    <3>2. CASE \E upto \in 0..MaxAttempts : RefreshInterrupted(upto)  BY <2>1, <3>2, RuledMarks
    <3> QED  BY <1>5, <3>1, <3>2 DEF ReadFails
  <2>3. Last = 0 \/ rec'.attempts[Last].status \in {"sent", "uncertain", "included"} \cup Admitting
    BY <1>0, <2>1, <2>2 DEF Stands, LastIs, Reading
  <2>4. Stands'  BY <2>1, <2>2, <2>3, StandsReading DEF Signing
  <2>5. \A n \in Attempts : Sent(rec, n) => Sent(rec', n)  BY <2>2 DEF Sent
  <2>6. pc # "off"  BY <2>1 DEF Reading
  <2> QED  BY <2>1, <2>2, <2>4, <2>5, <2>6, RuledFrame
<1>6. CASE Quit
  <2>1. PICK why : End(rec, why)  BY <1>6 DEF Quit
  <2>2. Others /\ pc # "off"  BY <1>6 DEF Quit, Reading
  <2> QED  BY <2>1, <2>2, RuledPlainEnd
<1>7. CASE Reorganized
  <2>1. End(rec, "own") /\ Others /\ pc # "off"  BY <1>7 DEF Reorganized
  <2> QED  BY <2>1, RuledPlainEnd
<1>8. CASE Follow
  <2>1. /\ Others /\ pc = "prev" /\ UNCHANGED <<chain, wire>> /\ ~rec.reorganized
        /\ Last > 0 /\ Last \in Attempts /\ st \in {"sent", "uncertain"}
    BY <1>0, <1>8 DEF Follow, LastIs, Others, world
  <2>2. CASE Reorg
    <3>1. End(DoubtOpen(rec), "own")  BY <2>2 DEF Reorg
    <3>2. Follows(rec, rec) /\ \A n \in Attempts : Sent(rec, n) => Sent(rec, n)
      BY FollowsReflexive
    <3> QED  BY <1>0, <2>1, <3>1, <3>2, RuledReorg
  <2>3. ASSUME NEW s \in {"replaced", "expired", "dead"}, 
               End(SetStatus(rec, Last, s), "own") \/ End(DoubtOpen(SetStatus(rec, Last, s)), "own")
        PROVE  Ruled
    <3> DEFINE r == SetStatus(rec, Last, s)
    <3>1. /\ r \in Record /\ SameAttempts(rec, r) /\ Rules(r, journal) /\ Follows(rec, r)
          /\ \A m \in Attempts : Sent(rec, m) => Sent(r, m)
      BY <1>0, <2>1, RuledStatus
    <3> HIDE DEF r
    <3>2. CASE End(r, "own")  BY <2>1, <3>1, <3>2, RuledEnd
    <3>3. CASE End(DoubtOpen(r), "own")  BY <2>1, <3>1, <3>3, RuledReorg
    <3> QED  BY <2>3, <3>2, <3>3 DEF r
  <2>4. CASE pc' = "pass" /\ UNCHANGED memory
    <3>1. rec' = rec /\ journal' = journal  BY <2>4 DEF memory
    <3>2. Stands'  BY <1>0, <2>1, <2>4, <3>1, StandsReading DEF Signing
    <3> QED  BY <2>1, <2>4, <3>1, <3>2, RuledSame
  <2>5. CASE /\ Persist([rec EXCEPT !.attempts[Last].status = "included",
                                    !.attempts[Last].at = chain[Last]], journal)
             /\ pc' = "tip" /\ Placed(Last)
    <3>1. PICK p : p = chain[Last]  OBVIOUS
    <3>2. /\ p \in Places
          /\ rec.attempts[Last].parent # NoPlace => Height[rec.attempts[Last].parent] < Height[p]
      BY <2>1, <2>5, <3>1 DEF Placed, Placing
    <3> DEFINE r == [rec EXCEPT !.attempts[Last].status = "included", !.attempts[Last].at = p]
    <3>3. /\ r \in Record /\ SameAttempts(rec, r) /\ Rules(r, journal) /\ Follows(rec, r)
          /\ r.attempts[Last].status = "included" /\ r.reorganized = rec.reorganized
          /\ \A m \in Attempts : Sent(rec, m) => Sent(r, m)
      BY <1>0, <2>1, <3>2, RuledIncluded
    <3>4. rec' = r /\ journal' = journal  BY <2>5, <3>1 DEF Persist
    <3> HIDE DEF r
    <3>5. Stands'  BY <2>1, <2>5, <3>3, <3>4, StandsReading DEF Signing
    <3> QED  BY <2>1, <2>5, <3>3, <3>4, <3>5, RuledFrame
  <2> QED  BY <1>8, <2>2, <2>3, <2>4, <2>5 DEF Follow
<1>9. CASE Ready
  <2>1. /\ pc = "prev" /\ pc' = "tip" /\ rec' = rec /\ journal' = journal /\ ~rec.reorganized
        /\ UNCHANGED <<chain, wire>> /\ ~LastIs({"sent", "uncertain"})
    BY <1>9 DEF Ready, memory, Others, world
  <2>2. Last = 0 \/ st \in {"included"} \cup Admitting  BY <1>0, <2>1 DEF Stands, LastIs
  <2>3. Stands'  BY <1>0, <2>1, <2>2, StandsReading DEF Signing
  <2> QED  BY <2>1, <2>3, RuledSame
<1>10. CASE Tip
  <2>1. Others /\ pc = "tip" /\ UNCHANGED <<chain, wire>> /\ ~rec.reorganized
    BY <1>10 DEF Tip, Others, world, Stands
  <2>2. CASE Reorg
    <3>1. End(DoubtOpen(rec), "own")  BY <2>2 DEF Reorg
    <3>2. Follows(rec, rec) /\ \A n \in Attempts : Sent(rec, n) => Sent(rec, n)
      BY FollowsReflexive
    <3> QED  BY <1>0, <2>1, <3>1, <3>2, RuledReorg
  <2>3. CASE End(rec, "own")  BY <2>1, <2>3, RuledPlainEnd
  <2>4. CASE /\ LastIs({"included"}) /\ pc' = "judged"
             /\ Persist(SetStatus(rec, Last, Effect[rec.attempts[Last].at]), journal)
    <3>1. Last > 0 /\ Last \in Attempts /\ st = "included"  BY <1>0, <2>4 DEF LastIs
    <3>2. PICK s : s = Effect[rec.attempts[Last].at]  OBVIOUS
    <3>3. s \in Outcomes
      <4>1. rec.attempts[Last].at \in Places
        BY <1>0, <3>1 DEF Owned, Shaped, Attempt
      <4> QED  BY <3>2, <4>1, ConstantTypes
    <3> DEFINE r == SetStatus(rec, Last, s)
    <3>4. /\ r \in Record /\ SameAttempts(rec, r) /\ Rules(r, journal) /\ Follows(rec, r)
          /\ r.attempts[Last].status = s /\ r.reorganized = rec.reorganized
          /\ \A m \in Attempts : Sent(rec, m) => Sent(r, m)
      BY <1>0, <3>1, <3>3, RuledVerdict
    <3>5. rec' = r /\ journal' = journal  BY <2>4, <3>2 DEF Persist
    <3> HIDE DEF r
    <3>6. Stands'  BY <2>1, <2>4, <3>1, <3>3, <3>4, <3>5, StandsReading DEF Signing
    <3> QED  BY <2>1, <2>4, <3>4, <3>5, <3>6, RuledFrame
  <2>5. CASE ~LastIs({"included"}) /\ pc' = "admit" /\ UNCHANGED memory
    <3>1. rec' = rec /\ journal' = journal  BY <2>5 DEF memory
    <3>2. Last = 0 \/ st \in Admitting  BY <1>0, <2>1, <2>5 DEF Stands, LastIs
    <3>3. Stands'  BY <1>0, <2>1, <2>5, <3>1, <3>2, StandsReading DEF Signing
    <3> QED  BY <2>1, <2>5, <3>1, <3>3, RuledSame
  <2> QED  BY <1>10, <2>2, <2>3, <2>4, <2>5 DEF Tip
<1>11. CASE Judged
  <2>1. /\ Others /\ pc = "judged" /\ UNCHANGED <<chain, wire>> /\ ~rec.reorganized
        /\ Last > 0 /\ st \in Outcomes
    BY <1>11 DEF Judged, Others, world, Stands, LastIs
  <2>2. CASE End(rec, "own")  BY <2>1, <2>2, RuledPlainEnd
  <2>3. CASE pc' \in {"tip", "admit"} /\ UNCHANGED memory /\ ~LastIs({"failed", "anomaly"})
    <3>1. rec' = rec /\ journal' = journal  BY <2>3 DEF memory
    <3>2. st \in Admitting  BY <2>1, <2>3 DEF LastIs, Outcomes, Admitting
    <3>3. Stands'  BY <1>0, <2>1, <2>3, <3>1, <3>2, StandsReading DEF Signing
    <3> QED  BY <2>1, <2>3, <3>1, <3>3, RuledSame
  <2> QED  BY <1>11, <2>2, <2>3 DEF Judged
<1> QED  BY <1>1, <1>2, <1>3, <1>4, <1>5, <1>6, <1>7, <1>8, <1>9, <1>10, <1>11

\* P10: one more attempt, below the inclusion that admitted it.
LEMMA RuledReserve ==
  ASSUME TypeOK, Owned, Rules(rec, journal), Stands, Placing, Reserve
  PROVE  Ruled
<1>0. /\ rec \in Record /\ Last \in Nat /\ HeldAttempts = 1..Last /\ Last \in 0..rec.used
      /\ rec.used \in 0..MaxAttempts
      /\ \A n \in Attempts : rec.attempts[n] \in Attempt
  BY Now, LastIsHeld DEF Owned
<1>1. /\ rec' = [rec EXCEPT !.used = @ + 1,
                            !.attempts[Last + 1] =
                              Reserved(IF Last = 0 THEN NoPlace ELSE rec.attempts[Last].at)]
      /\ journal' = journal /\ pc = "admit" /\ pc' = "reserve" /\ UNCHANGED <<chain, wire>>
      /\ Counted(rec, "minted") < MaxLots /\ ~RacesExhausted(rec) /\ rec.used < MaxAttempts
  BY DEF Reserve, Admits, Persist, Others, world
<1>2. rec' \in Record /\ Shaped(rec')
  <2>1. (TypeOK /\ Owned)'  BY OwnedPayment
  <2> QED  BY <2>1 DEF TypeOK, Owned
<1>3. Last + 1 \in Attempts
  <2>1. Last + 1 \in 1..MaxAttempts  BY <1>0, <1>1, ConstantTypes
  <2> QED  BY <2>1 DEF Attempts
<1>4. Last > 0 => rec.attempts[Last].status \in Admitting  BY <1>0, <1>1 DEF Stands, LastIs
<1>5. Held(rec) = 1..Last  BY <1>0 DEF HeldAttempts, Held
<1>6. ~rec.reorganized  BY <1>1 DEF Stands
<1>7. /\ Rules(rec', journal) /\ ~rec'.reorganized
      /\ rec'.attempts[Last + 1].status = "reserved"
      /\ Last > 0 => rec'.attempts[Last + 1].parent = rec.attempts[Last].at
      /\ \A n \in Attempts : n # Last + 1 => rec'.attempts[n] = rec.attempts[n]
      /\ Held(rec') = 1..(Last + 1)
  <2>1. PICK last \in Nat : last = Last  BY <1>0
  <2>2. PICK s \in Record : s = rec'  BY <1>2
  <2> DEFINE parent == IF last = 0 THEN NoPlace ELSE rec.attempts[last].at
  <2> HIDE DEF parent
  <2>5. parent = IF last = 0 THEN NoPlace ELSE rec.attempts[last].at  BY DEF parent
  <2>3. /\ Reserves(rec, s, last + 1, parent)
        /\ Shaped(s) /\ last + 1 \in Attempts
        /\ Held(rec) = 1..last
        /\ last > 0 => rec.attempts[last].status \in Admitting
    BY <1>1, <1>2, <1>3, <1>4, <1>5, <2>1, <2>2 DEF parent, Reserves
  <2>6. rec \in Record /\ Counted(rec, "minted") < MaxLots /\ ~RacesExhausted(rec)
    BY <1>0, <1>1
  <2>4. /\ Rules(s, journal) /\ ~s.reorganized
        /\ s.attempts[last + 1].status = "reserved"
        /\ last > 0 => s.attempts[last + 1].parent = rec.attempts[last].at
        /\ \A n \in Attempts : n # last + 1 => s.attempts[n] = rec.attempts[n]
        /\ Held(s) = 1..(last + 1)
    BY <1>6, <2>3, <2>5, <2>6, RulesReserved
  <2> QED  BY <2>1, <2>2, <2>4
<1>8. Last' = Last + 1
  <2>1. Cardinality(1..(Last + 1)) = Last + 1  BY <1>0, FS_Interval
  <2> QED  BY <1>7, <2>1 DEF Last, HeldAttempts, Held
<1>9. Stands'
  <2>1. LastIs({"reserved"})'  BY <1>0, <1>7, <1>8 DEF LastIs
  <2>2. Last' > 1 => rec'.attempts[Last'].parent = rec'.attempts[Last' - 1].at
    <3> SUFFICES ASSUME Last' > 1 PROVE rec'.attempts[Last'].parent = rec'.attempts[Last' - 1].at
      OBVIOUS
    <3>1. Last > 0 /\ Last' - 1 = Last /\ Last # Last + 1  BY <1>0, <1>8
    <3>2. Last \in Attempts  BY <3>1, Now
    <3> QED  BY <1>7, <1>8, <3>1, <3>2
  <2> QED  BY <1>1, <1>7, <2>1, <2>2 DEF Stands
<1>10. Placing'
  <2>1. \A n \in wire : n # Last + 1
    <3>1. wire \subseteq 1..Last  BY <1>1 DEF Owned
    <3> QED  BY <1>0, <3>1
  <2>2. \A n \in Attempts : chain[n] \in Places => n # Last + 1
    BY <2>1, ConstantTypes DEF Placing
  <2>3. \A n \in Attempts : chain'[n] \in Places /\ rec'.attempts[n].parent # NoPlace
          => Height[rec'.attempts[n].parent] < Height[chain'[n]]
    BY <1>1, <1>7, <2>2 DEF Placing
  <2> QED  BY <1>1, <2>3 DEF Placing
<1>11. Standing
  <2>1. rec.attempts[Last + 1].status = "none"
    <3>1. Last + 1 \notin 1..Last  BY <1>0
    <3> QED  BY <1>3, <1>5, <3>1 DEF Held
  <2>2. ~rec.attempts[Last + 1].doubt  BY <1>3, <2>1 DEF Rules, Fit
  <2> QED  BY <1>7, <2>1, <2>2 DEF Standing, Outcomes, Sent
<1> QED  BY <1>1, <1>7, <1>9, <1>10, <1>11 DEF Ruled

\* P11-P15 and the end.
LEMMA RuledPayment ==
  ASSUME TypeOK, Owned, Rules(rec, journal), Stands, Placing,
         \/ Withhold \/ Sign \/ MarkUncertain \/ Release \/ EndWritten
         \/ \E b \in BOOLEAN : SignRefused(b) \/ Submitted(b)
  PROVE  Ruled
<1>0. /\ rec \in Record /\ SameAttempts(rec, rec) /\ Last \in Nat /\ journal \in Journal
      /\ \A n \in 1..Last : n \in Attempts /\ rec.attempts[n].status # "none"
      /\ \A n \in Attempts : rec.attempts[n] \in Attempt
  BY Now
<1>1. CASE Withhold
  <2>1. PICK why : End(rec, why)  BY <1>1 DEF Withhold
  <2>2. Others /\ pc # "off"  BY <1>1 DEF Withhold, Signing
  <2> QED  BY <2>1, <2>2, RuledPlainEnd
<1>2. ASSUME NEW b \in BOOLEAN, SignRefused(b) PROVE Ruled
  <2>1. End(rec, "own") /\ Others /\ pc # "off"  BY <1>2 DEF SignRefused
  <2> QED  BY <2>1, RuledPlainEnd
<1>3. ASSUME NEW ln \in LineStatus \ {"none"}, journal' = SetLine(journal, Last, ln)
      PROVE  /\ \A m \in Attempts : journal[m].status # "none" => journal'[m].status # "none"
             /\ Last \in Attempts => journal'[Last].status # "none"
  BY <1>0, <1>3 DEF SetLine, Journal, Line
<1>4. LineStatus \ {"none"} = {"signed-not-submitted", "broadcast-uncertain", "submitted",
               "pending", "included", "finalized", "expired", "cancelled-before-broadcast"}
  BY LineNames
<1>5. CASE Sign
  <2>1. /\ pc = "reserve" /\ pc' = "signed" /\ UNCHANGED <<chain, wire>>
        /\ rec' = [rec EXCEPT !.attempts[Last].status = "signed", !.attempts[Last].hash = TRUE]
        /\ journal' = SetLine(journal, Last, "signed-not-submitted")
    BY <1>5 DEF Sign, Persist, Others, world
  <2>2. /\ Last > 0 /\ Last \in Attempts /\ rec.attempts[Last].status = "reserved"
        /\ ~rec.reorganized
        /\ Last > 1 => rec.attempts[Last].parent = rec.attempts[Last - 1].at
    BY <1>0, <2>1 DEF Stands, LastIs, Signing
  <2>3. /\ \A m \in Attempts : journal[m].status # "none" => journal'[m].status # "none"
        /\ journal'[Last].status # "none"
    BY <1>3, <1>4, <2>1, <2>2
  <2>4. PICK k : k = journal'  OBVIOUS
  <2> DEFINE r == [rec EXCEPT !.attempts[Last].status = "signed", !.attempts[Last].hash = TRUE]
  <2>5. /\ r \in Record /\ SameAttempts(rec, r) /\ Rules(r, k) /\ Follows(rec, r)
        /\ r.attempts[Last].status = "signed" /\ r.attempts[Last].parent = rec.attempts[Last].parent
        /\ \A m \in Attempts : m # Last => r.attempts[m] = rec.attempts[m]
        /\ r.reorganized = rec.reorganized
    <3>1. Rules(rec, k) /\ k[Last].status # "none"  BY <2>3, <2>4, RulesOfLines
    <3> QED  BY <1>0, <2>2, <3>1, RuledSigned
  <2> HIDE DEF r
  <2>6. rec' = r /\ journal' = k  BY <2>1, <2>4 DEF r
  <2>7. Last > 1 => r.attempts[Last].parent = r.attempts[Last - 1].at
    <3>1. Last > 1 => Last - 1 \in 1..Last /\ Last - 1 # Last  BY <1>0
    <3> QED  BY <1>0, <2>2, <2>5, <3>1
  <2>8. Stands'  BY <2>1, <2>2, <2>5, <2>6, <2>7, StandsSigning
  <2>9. \A n \in Attempts : Sent(rec, n) => Sent(rec', n)
    BY <2>2, <2>5, <2>6 DEF Sent
  <2> QED  BY <2>1, <2>5, <2>6, <2>8, <2>9, RuledFrame
<1>6. ASSUME NEW st \in {"uncertain", "sent"}, NEW ln \in LineStatus \ {"none"},
             rec' = SetStatus(rec, Last, st), journal' = SetLine(journal, Last, ln),
             LastIs({"signed", "uncertain"})
      PROVE  /\ Rules(rec', journal') /\ SameAttempts(rec, rec') /\ Follows(rec, rec')
             /\ rec'.attempts[Last].status = st
             /\ rec'.attempts[Last].parent = rec.attempts[Last].parent
             /\ \A m \in Attempts : m # Last => rec'.attempts[m] = rec.attempts[m]
             /\ rec'.reorganized = rec.reorganized
             /\ \A m \in Attempts : Sent(rec, m) => Sent(rec', m)
  <2>1. Last \in Attempts /\ rec.attempts[Last].status \in {"signed", "uncertain"}
    BY <1>0, <1>6 DEF LastIs
  <2>2. PICK k : k = journal'  OBVIOUS
  <2>3. \A m \in Attempts : journal[m].status # "none" => k[m].status # "none"
    BY <1>3, <1>6, <2>2
  <2>4. PICK r : r = SetStatus(rec, Last, st)  OBVIOUS
  <2>5. rec' = r /\ journal' = k  BY <1>6, <2>2, <2>4
  <2>6. KeepLines(journal, k)  BY <2>3 DEF KeepLines
  <2>7. /\ SameAttempts(rec, r) /\ Rules(r, k) /\ Follows(rec, r)
        /\ r.attempts[Last].status = st /\ r.attempts[Last].parent = rec.attempts[Last].parent
        /\ \A m \in Attempts : m # Last => r.attempts[m] = rec.attempts[m]
        /\ r.reorganized = rec.reorganized
        /\ \A m \in Attempts : Sent(rec, m) => Sent(r, m)
    <3>1. rec \in Record /\ Rules(rec, journal)  BY <1>0
    <3> QED  BY <2>1, <2>4, <2>6, <3>1, RuledSending
  <2> QED  BY <2>5, <2>7
<1>7. CASE MarkUncertain
  <2>1. /\ pc = "signed" /\ pc' = "uncertain" /\ UNCHANGED <<chain, wire>>
        /\ rec' = SetStatus(rec, Last, "uncertain")
        /\ journal' = SetLine(journal, Last, "broadcast-uncertain")
    BY <1>7 DEF MarkUncertain, Persist, Others, world
  <2>2. /\ Last > 0 /\ LastIs({"signed", "uncertain"}) /\ ~rec.reorganized
        /\ Last > 1 => rec.attempts[Last].parent = rec.attempts[Last - 1].at
    BY <1>0, <2>1 DEF Stands, LastIs, Signing
  <2>3. /\ Rules(rec', journal') /\ SameAttempts(rec, rec') /\ Follows(rec, rec')
        /\ rec'.attempts[Last].status = "uncertain"
        /\ rec'.attempts[Last].parent = rec.attempts[Last].parent
        /\ \A m \in Attempts : m # Last => rec'.attempts[m] = rec.attempts[m]
        /\ rec'.reorganized = rec.reorganized
        /\ \A m \in Attempts : Sent(rec, m) => Sent(rec', m)
    BY <1>4, <1>6, <2>1, <2>2
  <2>4. Last > 1 => rec'.attempts[Last].parent = rec'.attempts[Last - 1].at
    <3>1. Last > 1 => Last - 1 \in 1..Last /\ Last - 1 # Last  BY <1>0
    <3> QED  BY <1>0, <2>2, <2>3, <3>1
  <2>5. Stands'  BY <2>1, <2>2, <2>3, <2>4, StandsSigning
  <2> QED  BY <2>1, <2>3, <2>5, RuledFrame
<1>8. ASSUME NEW b \in BOOLEAN, Submitted(b) PROVE Ruled
  <2>1. PICK st \in {"uncertain", "sent"}, ln \in LineStatus \ {"none"} :
          rec' = SetStatus(rec, Last, st) /\ journal' = SetLine(journal, Last, ln)
    BY <1>4, <1>8 DEF Submitted, Persist
  <2>2. pc = "submit" /\ pc' = "pass" /\ UNCHANGED <<chain, wire>>
    BY <1>8 DEF Submitted, Others, world
  <2>3. LastIs({"signed", "uncertain"})  BY <2>2 DEF Stands, LastIs
  <2>4. /\ Rules(rec', journal') /\ SameAttempts(rec, rec') /\ Follows(rec, rec')
        /\ rec'.attempts[Last].status = st
        /\ \A m \in Attempts : Sent(rec, m) => Sent(rec', m)
    BY <1>6, <2>1, <2>3
  <2>5. Stands'  BY <2>2, <2>4, StandsReading DEF Signing
  <2> QED  BY <2>2, <2>4, <2>5, RuledFrame
<1>9. CASE Release
  <2>1. /\ pc = "uncertain" /\ pc' = "submit" /\ rec' = rec /\ journal' = journal /\ chain' = chain
        /\ wire \subseteq wire'
    BY <1>9 DEF Release, memory, world
  <2>2. /\ Last > 0 /\ rec.attempts[Last].status = "uncertain" /\ ~rec.reorganized
        /\ Last > 1 => rec.attempts[Last].parent = rec.attempts[Last - 1].at
    BY <2>1 DEF Stands, LastIs, Signing
  <2>3. Stands'  BY <1>0, <2>1, <2>2, StandsSigning
  <2>4. Placing'  BY <2>1 DEF Placing
  <2>5. Standing  BY <2>1 DEF Standing
  <2> QED  BY <2>1, <2>3, <2>4, <2>5 DEF Ruled
<1>10. CASE EndWritten
  <2>1. /\ pc \in {"end", "retry"} /\ pc' \in {"off", "settle", "retry"} /\ rec' = rec
        /\ journal' = journal /\ UNCHANGED <<chain, wire>>
    BY <1>10 DEF EndWritten, Persist, memory, Others, world
  <2>2. pc' \notin Running  BY <2>1 DEF Running, Reading, Signing
  <2> QED  BY <2>1, <2>2, RuledSame
<1> QED  BY <1>1, <1>2, <1>5, <1>7, <1>8, <1>9, <1>10

\* A step that leaves the stage and the record alone leaves the stages standing.
LEMMA StandsStill == ASSUME Stands, UNCHANGED <<rec, pc>> PROVE Stands'
BY DEF Stands, LastIs, Last, HeldAttempts

\* A step of another actor that leaves the chain alone.
LEMMA PlacingStill ==
  ASSUME TypeOK, Owned, Placing, SameAttempts(rec, rec'), Follows(rec, rec'),
         UNCHANGED <<chain, wire, pc, seen>>
  PROVE  Placing'
<1>1. Last' = Last /\ (Last > 0 => Last \in Attempts)
  <2>1. Last > 0 => Last \in 1..Last  BY Now
  <2> QED  BY <2>1, Now, LastKept DEF Owned
<1>2. \A n \in Attempts : rec'.attempts[n].parent = rec.attempts[n].parent  BY DEF Follows
<1> QED  BY <1>1, <1>2 DEF Placing

\* A step of another actor that leaves the memory alone.
LEMMA RuledStill ==
  ASSUME TypeOK, Owned, Rules(rec, journal), Stands, Placing,
         UNCHANGED <<rec, journal, pc, seen, chain, wire>>
  PROVE  Ruled
<1>1. Stands'  BY StandsStill
<1>2. Placing'  BY Now, FollowsReflexive, PlacingStill
<1> QED  BY <1>1, <1>2 DEF Ruled, Standing

\* What happens on the chain.
LEMMA RuledEnvironment ==
  ASSUME TypeOK, Owned, Rules(rec, journal), Stands, Placing, Environment
  PROVE  Ruled
<1>1. UNCHANGED <<rec, journal, pc, seen, wire>> /\ Last' = Last
  BY DEF Environment, Include, Replace, Reorganize, Close, Finalize, memory, control, past,
         Last, HeldAttempts
<1>2. Stands'  BY <1>1, StandsStill
<1>3. chain \in [Attempts -> Here \cup {Rival}] /\ Rival \notin Places /\ NoPlace \notin Places
  BY SessionAssumption, ConstantTypes DEF TypeOK, SessionAssumption
<1>4. \A n \in Attempts : chain'[n] # NoPlace => n \in wire
  BY <1>3 DEF Environment, Include, Replace, Reorganize, Close, Finalize, Placing
<1>5. \A n \in Attempts : chain'[n] \in Places /\ rec.attempts[n].parent # NoPlace
        => chain[n] = chain'[n] \/ Height[rec.attempts[n].parent] < Height[chain'[n]]
  <2> SUFFICES ASSUME NEW n \in Attempts, chain'[n] \in Places, rec.attempts[n].parent # NoPlace
               PROVE  chain[n] = chain'[n] \/ Height[rec.attempts[n].parent] < Height[chain'[n]]
    OBVIOUS
  <2>1. ASSUME NEW m \in Attempts, NEW p \in Places, Include(m, p)
        PROVE  chain[n] = chain'[n] \/ Height[rec.attempts[n].parent] < Height[chain'[n]]
    <3>1. CASE m = n
      <4>1. chain'[n] = p  BY <1>3, <2>1, <3>1 DEF Include
      <4>2. Height[p] > Height[rec.attempts[n].parent]  BY <2>1, <3>1 DEF Include
      <4>3. Height[p] \in Int /\ Height[rec.attempts[n].parent] \in Int
        BY Now, ConstantTypes DEF Attempt
      <4> QED  BY <4>1, <4>2, <4>3
    <3>2. CASE m # n  BY <1>3, <2>1, <3>2 DEF Include
    <3> QED  BY <3>1, <3>2
  <2>2. ASSUME NEW m \in Attempts, Replace(m) PROVE chain[n] = chain'[n]
    BY <1>3, <2>2 DEF Replace
  <2>3. ASSUME NEW m \in Attempts, Reorganize(m) PROVE chain[n] = chain'[n]
    BY <1>3, <2>3 DEF Reorganize
  <2>4. CASE Finalize \/ \E m \in Attempts : Close(m)  BY <2>4 DEF Finalize, Close
  <2> QED  BY <2>1, <2>2, <2>3, <2>4 DEF Environment
<1>6. Placing'  BY <1>1, <1>4, <1>5 DEF Placing
<1> QED  BY <1>1, <1>2, <1>6 DEF Ruled, Standing

\* The settle task.
LEMMA RuledSettle ==
  ASSUME TypeOK, Owned, Rules(rec, journal), Stands, Placing, Settle
  PROVE  Ruled
<1>0. /\ rec \in Record /\ SameAttempts(rec, rec) /\ Last \in Nat
      /\ \A n \in 1..Last : n \in Attempts
      /\ \A n \in Attempts : rec.attempts[n] \in Attempt
  BY Now
<1>1. pc \in Settling /\ pc # "off" /\ UNCHANGED <<chain, wire>>
  BY DEF Settle, RoundStarts, Found, Classify, Verdict, RoundEnds, RoundFails, SettleStops,
         Aside, Others, world, Settling
<1>2. ASSUME rec' = rec, journal' = journal, pc' \in {"off", "settle", "round", "classify", "finality"}
      PROVE  Ruled
  <2>1. pc' \notin Running /\ pc' # "found"  BY <1>2 DEF Running, Reading, Signing
  <2> QED  BY <1>1, <1>2, <2>1, RuledSame
<1>3. ASSUME Rules(rec', journal'), SameAttempts(rec, rec'), Follows(rec, rec'),
             \A n \in Attempts : Sent(rec, n) => Sent(rec', n),
             pc' \in {"off", "settle", "round", "classify", "finality"}
      PROVE  Ruled
  <2>1. pc' \notin Running /\ pc' # "found"  BY <1>3 DEF Running, Reading, Signing
  <2> QED  BY <1>1, <1>3, <2>1, RuledFrame
<1>4. CASE SettleStops  BY <1>2, <1>4 DEF SettleStops, Still, memory
<1>5. CASE Classify  BY <1>2, <1>5 DEF Classify, Still, memory
<1>6. CASE RoundFails
  <2>1. journal' = journal /\ pc' = "settle"  BY <1>6 DEF RoundFails
  <2>2. CASE rec' = rec  BY <1>2, <2>1, <2>2
  <2>3. CASE \E upto \in 0..MaxAttempts : RefreshInterrupted(upto)
    <3>1. /\ Rules(rec', journal') /\ SameAttempts(rec, rec') /\ Follows(rec, rec')
          /\ \A n \in Attempts : rec'.attempts[n].status = rec.attempts[n].status
      BY <2>1, <2>3, RuledMarks
    <3>2. \A n \in Attempts : Sent(rec, n) => Sent(rec', n)  BY <3>1 DEF Sent
    <3> QED  BY <1>3, <2>1, <3>1, <3>2
  <2> QED  BY <1>6, <2>2, <2>3 DEF RoundFails
<1>7. CASE RoundEnds
  <2>1. RefreshFinality("settle") /\ pc' = "settle"  BY <1>7 DEF RoundEnds, RefreshFinality
  <2>2. /\ Rules(rec', journal') /\ SameAttempts(rec, rec') /\ Follows(rec, rec')
        /\ \A n \in Attempts : rec'.attempts[n].status = rec.attempts[n].status
    BY <2>1, RuledMarks
  <2>3. \A n \in Attempts : Sent(rec, n) => Sent(rec', n)  BY <2>2 DEF Sent
  <2> QED  BY <1>3, <2>1, <2>2, <2>3
<1>8. CASE RoundStarts
  <2>1. rec' = rec /\ journal' = journal  BY <1>8 DEF RoundStarts, Still, memory
  <2>2. CASE pc' \in {"finality", "round"}  BY <1>2, <2>1, <2>2
  <2>3. CASE pc' \notin {"finality", "round"}
    <3>1. /\ pc' = "found" /\ seen' = chain[Last] /\ chain[Last] \in Places /\ Last > 0
      BY <1>8, <2>3 DEF RoundStarts, LastIs, Placed
    <3>2. Stands'  BY <3>1, StandsIdle DEF Running, Reading, Signing
    <3>3. Last' = Last  BY <2>1 DEF Last, HeldAttempts
    <3>4. Last \in Attempts  BY <1>0, <3>1
    <3>5. Placing'  BY <1>1, <2>1, <3>1, <3>3, <3>4 DEF Placing
    <3> QED  BY <2>1, <3>2, <3>5 DEF Ruled, Standing
  <2> QED  BY <2>2, <2>3
<1>9. CASE Found
  <2>1. pc = "found" /\ pc' = "round"  BY <1>9 DEF Found
  <2>2. CASE ~LastIs({"sent", "uncertain"})
    BY <1>2, <1>9, <2>1, <2>2 DEF Found, Still, memory
  <2>3. CASE LastIs({"sent", "uncertain"})
    <3>1. /\ Last \in Attempts /\ rec.attempts[Last].status \in {"sent", "uncertain"}
          /\ seen \in Places
          /\ rec.attempts[Last].parent # NoPlace => Height[rec.attempts[Last].parent] < Height[seen]
      BY <1>0, <2>1, <2>3 DEF LastIs, Owned, Placing
    <3> DEFINE r == [rec EXCEPT !.attempts[Last].status = "included", !.attempts[Last].at = seen]
    <3>2. rec' = r /\ journal' = journal  BY <1>9, <2>3 DEF Found, Persist
    <3>3. /\ r \in Record /\ SameAttempts(rec, r) /\ Rules(r, journal) /\ Follows(rec, r)
          /\ \A m \in Attempts : Sent(rec, m) => Sent(r, m)
      BY <1>0, <3>1, RuledIncluded
    <3> HIDE DEF r
    <3> QED  BY <1>3, <2>1, <3>2, <3>3
  <2> QED  BY <2>2, <2>3
<1>10. CASE Verdict
  <2>1. pc' = "finality"  BY <1>10 DEF Verdict
  <2>2. CASE rec' = rec /\ journal' = journal  BY <1>2, <2>1, <2>2
  <2>3. CASE ~(rec' = rec /\ journal' = journal)
    <3>1. /\ LastIs({"included"}) /\ rec.attempts[Last].at = seen
          /\ Persist(SetStatus(rec, Last, Effect[seen]), journal)
      BY <1>10, <2>3 DEF Verdict, Still, memory
    <3>2. Last \in Attempts /\ rec.attempts[Last].status = "included"  BY <1>0, <3>1 DEF LastIs
    <3>3. PICK s : s = Effect[seen]  OBVIOUS
    <3>4. s \in Outcomes
      <4>1. seen \in Places
        BY <1>0, <3>1, <3>2 DEF Owned, Shaped, Attempt
      <4> QED  BY <3>3, <4>1, ConstantTypes
    <3> DEFINE r == SetStatus(rec, Last, s)
    <3>5. rec' = r /\ journal' = journal  BY <3>1, <3>3 DEF Persist
    <3>6. /\ r \in Record /\ SameAttempts(rec, r) /\ Rules(r, journal) /\ Follows(rec, r)
          /\ \A m \in Attempts : Sent(rec, m) => Sent(r, m)
      BY <1>0, <3>2, <3>4, RuledVerdict
    <3> HIDE DEF r
    <3> QED  BY <1>3, <2>1, <3>5, <3>6
  <2> QED  BY <2>2, <2>3
<1> QED  BY <1>4, <1>5, <1>6, <1>7, <1>8, <1>9, <1>10 DEF Settle

\* History cancels no payment it tells of.
LEMMA SentResolved ==
  ASSUME NEW r \in Record, NEW j, Rules(r, j), NEW n \in Attempts, Sent(r, n),
         j[n].status # "cancelled-before-broadcast"
  PROVE  Sent(ResolveFromJournal(r, j), n)
<1>1. CASE r.state # "ended"  BY <1>1 DEF ResolveFromJournal
<1>2. CASE r.state = "ended"
  <2> DEFINE S == UNION {After(r, k) : k \in Contradicted(r, j)}
             d == PutInDoubt(r, S)
  <2>1. /\ \A m \in S : m \in Attempts /\ Doubtful(r.attempts[m])
        /\ d \in Record /\ Rules(d, j)
        /\ \A m \in Attempts : ResolveFromJournal(r, j).attempts[m] = Resolved(d.attempts[m], j[m])
    BY <1>2, ResolveSteps
  <2> HIDE DEF S
  <2>2. d.attempts[n] = IF n \in S THEN [r.attempts[n] EXCEPT !.doubt = TRUE] ELSE r.attempts[n]
    BY <2>1, RulesDoubt
  <2> HIDE DEF d
  <2>3. r.attempts[n] \in Attempt /\ d.attempts[n] \in Attempt /\ Fit(d.attempts[n])
    BY <2>1 DEF Record, Rules
  <2>4. d.attempts[n].status = r.attempts[n].status  BY <2>2, <2>3 DEF Attempt
  <2>5. PICK a \in Attempt : a = d.attempts[n]  BY <2>3
  <2>b. PICK b : b = Resolved(a, j[n])  OBVIOUS
  <2>6. /\ b.status = "cancelled" => a.status = "cancelled" \/ j[n].status = "cancelled-before-broadcast"
        /\ b.status \in {"none", "reserved", "signed"} => b.status = a.status
    BY <2>3, <2>5, <2>b, ResolvedFits
  <2>7. ResolveFromJournal(r, j).attempts[n] = b  BY <2>1, <2>5, <2>b
  <2> QED  BY <2>4, <2>5, <2>6, <2>7 DEF Sent
<1> QED  BY <1>1, <1>2

\* The history task: only an ended record takes its word.
LEMMA RuledSync ==
  ASSUME TypeOK, Owned, Remembered, Rules(rec, journal), Stands, Placing, Sync
  PROVE  Ruled
<1>0. rec \in Record /\ SameAttempts(rec, rec) /\ journal \in Journal  BY Now
<1>1. UNCHANGED <<chain, wire, pc, seen>>
  BY DEF Sync, SyncStart, SyncReport, SyncFinal, SyncSave, History, control, world, past
<1>2. \A n \in Attempts : journal[n].status # "none" => journal'[n].status # "none"
  <2>1. CASE SyncStart  BY <2>1 DEF SyncStart
  <2>2. CASE SyncSave  BY <2>2 DEF SyncSave, memory
  <2>3. CASE SyncReport \/ SyncFinal
    <3>1. sync.on \in Attempts /\ sync.report.status # "none"
      BY <2>3 DEF SyncReport, SyncFinal, Owned, Asking
    <3>2. \/ journal' = journal
          \/ \E l : journal' = [journal EXCEPT ![sync.on] = l] /\ l.status = sync.report.status
      BY <2>3 DEF SyncReport, SyncFinal
    <3> QED  BY <1>0, <3>1, <3>2 DEF Journal
  <2> QED  BY <2>1, <2>2, <2>3 DEF Sync
<1>3. rec' = rec \/ rec' = ResolveFromJournal(rec, journal')
  BY DEF Sync, SyncStart, SyncReport, SyncFinal, SyncSave, NextLine, memory
<1>4. PICK k : k = journal'  OBVIOUS
<1>5. Rules(rec, k)  BY <1>2, <1>4, RulesOfLines
<1>6. CASE rec' = rec
  <2>1. Stands'  BY <1>1, <1>6, StandsStill
  <2>2. Placing'  BY <1>0, <1>1, <1>6, FollowsReflexive, PlacingStill
  <2> QED  BY <1>4, <1>5, <1>6, <2>1, <2>2 DEF Ruled, Standing
<1>7. CASE rec' # rec
  <2> DEFINE r == ResolveFromJournal(rec, k)
  <2>1. rec' = r  BY <1>3, <1>4, <1>7
  <2>2. pc \notin Running
    <3>1. rec.state = "ended"  BY <1>7, <2>1 DEF ResolveFromJournal
    <3> QED  BY <3>1 DEF Owned
  <2>3. SameAttempts(rec, r) /\ Rules(r, k) /\ Follows(rec, r)
    BY <1>0, <1>5, ResolveKeeps, RulesResolved
  <2>4. \A n \in Attempts : n \in wire /\ Sent(rec, n) => Sent(r, n)
    <3> SUFFICES ASSUME NEW n \in Attempts, n \in wire, Sent(rec, n) PROVE Sent(r, n)
      OBVIOUS
    <3>1. Lasting /\ Told(journal, n)
      BY OwnedSync DEF Step, Remembered, Remembers, ReleasedInHistory
    <3>2. Told(k, n)  BY <1>4, <3>1 DEF Lasting
    <3>3. k[n].status # "cancelled-before-broadcast"  BY <3>2 DEF Told
    <3> QED  BY <1>0, <1>5, <3>3, SentResolved
  <2> HIDE DEF r
  <2>5. Stands'  BY <1>1, <2>2, StandsIdle
  <2>6. Placing'  BY <1>1, <2>1, <2>3, PlacingStill
  <2>7. Standing
    <3>1. pc' # "uncertain"  BY <1>1, <2>2 DEF Running, Signing
    <3> QED  BY <2>1, <2>3, <2>4, <3>1 DEF Standing, Follows
  <2> QED  BY <1>4, <2>1, <2>3, <2>5, <2>6, <2>7 DEF Ruled
<1> QED  BY <1>6, <1>7

\* Every step but the worker's death.
LEMMA RuledStep ==
  ASSUME TypeOK, Owned, Remembered, Rules(rec, journal), Stands, Placing, [Next]_vars, ~Crash
  PROVE  Ruled
<1>1. CASE UNCHANGED vars
  BY <1>1, RuledStill DEF vars, memory, control, world, past
<1>2. CASE Controller
  BY <1>2, RuledPass, RuledReserve, RuledPayment DEF Controller
<1>3. CASE Land \/ OtherSave \/ \E r \in StopReasons : Stop(r)
  BY <1>3, RuledStill DEF Land, OtherSave, Stop, memory, control, world, past
<1> QED  BY <1>1, <1>2, <1>3, RuledSettle, RuledSync, RuledEnvironment DEF Next

\* The ledgers a restart may find keep the rules: storage's, and those of the queued writes.
Ruling ==
  /\ Rules(rec, journal) /\ Stands /\ Placing
  /\ Rules(disk.rec, disk.journal)
  /\ \A k \in 1..Len(writes) : Rules(writes[k].image.rec, writes[k].image.journal)

\* The restart itself.
LEMMA RulingCrash ==
  ASSUME TypeOK, Owned, Ruling, Crash
  PROVE  /\ Ruling' /\ disk' = disk /\ SameAttempts(disk.rec, rec') /\ Follows(disk.rec, rec')
         /\ rec' = ResolveFromJournal(EndUnowned(disk.rec), journal')
         /\ EndUnowned(disk.rec) \in Record /\ Rules(EndUnowned(disk.rec), journal')
<1>1. disk.rec \in Record /\ disk.journal \in Journal  BY DEF TypeOK, Image
<1>2. PICK r \in Record, j \in Journal : r = disk.rec /\ j = disk.journal  BY <1>1
<1>3. Rules(r, j)  BY <1>2 DEF Ruling
<1>4. LET e == EndUnowned(r)
          s == LoadRecord(r, j)
      IN /\ ValidRecord(r, j)
         /\ s = ResolveFromJournal(e, LoadJournal(j))
         /\ e \in Record /\ Rules(e, LoadJournal(j))
         /\ s \in Record /\ Rules(s, LoadJournal(j)) /\ s.used = r.used
         /\ SameAttempts(r, s)
         /\ Follows(r, s)
  BY <1>3, RulesLoad
<1>5. /\ rec' = LoadRecord(r, j) /\ journal' = LoadJournal(j) /\ disk' = disk
      /\ writes' = <<>> /\ pc' = "off" /\ UNCHANGED <<chain, wire>>
  BY <1>2, <1>4 DEF Crash, world, past
<1>6. Stands'  BY <1>5, StandsIdle DEF Running, Reading, Signing
<1>7. Placing'  BY <1>5 DEF Ruling, Placing
<1>8. Rules(rec', journal')  BY <1>4, <1>5
<1>9. Rules(disk'.rec, disk'.journal)  BY <1>2, <1>3, <1>5
<1>10. \A k \in 1..Len(writes') : Rules(writes'[k].image.rec, writes'[k].image.journal)
  <2>1. 1..Len(writes') = {}  BY <1>5
  <2> QED  BY <2>1
<1>11. Ruling'  BY <1>6, <1>7, <1>8, <1>9, <1>10 DEF Ruling
<1> QED  BY <1>2, <1>4, <1>5, <1>11

\* The rules hold on.
LEMMA RulingStep ==
  ASSUME TypeOK, Owned, Remembered, Ruling, [Next]_vars
  PROVE  Ruling'
<1>0. writes \in Seq(Write) /\ Len(writes) \in Nat  BY DEF TypeOK
<1>1. CASE Crash  BY <1>1, RulingCrash
<1>2. CASE ~Crash
  <2>1. Ruled  BY <1>2, RuledStep DEF Ruling
  <2>2. CASE Step
    <3>1. disk' = disk  BY <2>2 DEF Step
    <3>2. CASE writes' = writes  BY <2>1, <3>1, <3>2 DEF Ruled, Ruling
    <3>3. ASSUME NEW by, Save(rec', journal', by) PROVE Ruling'
      <4>1. /\ writes'[Len(writes) + 1].image.rec = rec'
            /\ writes'[Len(writes) + 1].image.journal = journal'
            /\ \A k \in 1..Len(writes) : writes'[k] = writes[k]
            /\ \A k \in 1..Len(writes') : k \in 1..Len(writes) \/ k = Len(writes) + 1
        BY <1>0, <3>3, SaveAppends
      <4>2. \A k \in 1..Len(writes') : Rules(writes'[k].image.rec, writes'[k].image.journal)
        BY <2>1, <4>1 DEF Ruled, Ruling
      <4> QED  BY <2>1, <3>1, <4>2 DEF Ruled, Ruling
    <3> QED  BY <2>2, <3>2, <3>3 DEF Step, Wrote
  <2>3. CASE Land
    <3>1. /\ writes # <<>> /\ writes' = Tail(writes)
          /\ disk' = disk \/ disk' = Head(writes).image
      BY <2>3 DEF Land
    <3>2. /\ Len(writes') = Len(writes) - 1 /\ 1 \in 1..Len(writes) /\ Head(writes) = writes[1]
          /\ \A k \in 1..Len(writes') : k + 1 \in 1..Len(writes) /\ writes'[k] = writes[k + 1]
      BY <1>0, <3>1
    <3>3. Rules(disk'.rec, disk'.journal)  BY <3>1, <3>2 DEF Ruling
    <3>4. \A k \in 1..Len(writes') : Rules(writes'[k].image.rec, writes'[k].image.journal)
      BY <3>2 DEF Ruling
    <3> QED  BY <2>1, <3>3, <3>4 DEF Ruled, Ruling
  <2> QED  BY <1>2, <2>2, <2>3, OwnedStep
<1> QED  BY <1>1, <1>2

\* At first every ledger is empty.
LEMMA RulingInit == Init => Ruling
<1> SUFFICES ASSUME Init PROVE Ruling  OBVIOUS
<1>1. /\ rec = NoRecord /\ disk.rec = rec /\ pc = "idle" /\ writes = <<>>
      /\ \A n \in Attempts : chain[n] = NoPlace
  BY DEF Init
<1>2. 1..Len(writes) = {}  BY <1>1
<1>3. Stands  BY <1>1 DEF Stands, Signing
<1>4. Placing  BY <1>1, ConstantTypes DEF Placing
<1> QED  BY <1>1, <1>2, <1>3, <1>4, RulesEmpty DEF Ruling

\* All of it, as one invariant.
Invariant == TypeOK /\ Owned /\ Remembered /\ Ruling

LEMMA InvariantHolds == Spec => []Invariant
<1>1. Init => Invariant  BY OwnedInit, RememberedInit, RulingInit DEF Invariant
<1>2. Invariant /\ [Next]_vars => Invariant'
  <2> SUFFICES ASSUME Invariant, [Next]_vars PROVE Invariant'  OBVIOUS
  <2>1. (TypeOK /\ Owned /\ Remembered)'  BY Inductive DEF Invariant
  <2>2. Ruling'  BY RulingStep DEF Invariant
  <2> QED  BY <2>1, <2>2 DEF Invariant
<1> QED  BY <1>1, <1>2, PTL DEF Spec

\* The load check accepts the ledger every restart would find, however the session ended, whatever
\* finality, a reorganization or history made of it, and whichever write the death cut off: the ledger
\* is never archived and its counted signatures never lost.
THEOREM LedgerTheorem == Spec => []LedgerLoads
<1>1. Invariant => LedgerLoads
  <2> SUFFICES ASSUME Invariant PROVE LedgerLoads  OBVIOUS
  <2>1. rec \in Record /\ disk.rec \in Record  BY DEF Invariant, TypeOK, Image
  <2>2. Rules(rec, journal) /\ Rules(disk.rec, disk.journal)  BY DEF Invariant, Ruling
  <2> QED  BY <2>1, <2>2, RulesValid DEF LedgerLoads
<1> QED  BY <1>1, InvariantHolds, PTL

\* A verdict that admitted the next signature stands where it was read, and so does a doubt, through
\* every later pass, settle round and word of history, until the worker dies.
THEOREM VerdictsTheorem == Spec => VerdictsStand
<1>1. ASSUME Invariant, [Next]_vars, faults'.crashes = faults.crashes, NEW n \in Attempts
      PROVE  LET old == rec.attempts[n]
                 new == rec'.attempts[n]
             IN /\ old.status \in Outcomes => new.status = old.status /\ new.at = old.at
                /\ old.doubt => new.doubt
  <2>1. ~Crash
    <3>1. faults.crashes \in Nat
      BY <1>1, SessionAssumption DEF Invariant, TypeOK, Faults, SessionAssumption
    <3>2. faults' = [faults EXCEPT !.crashes = faults.crashes + 1] => faults'.crashes # faults.crashes
      BY <1>1, <3>1 DEF Invariant, TypeOK, Faults
    <3> QED  BY <1>1, <3>2 DEF Crash
  <2>2. Ruled  BY <1>1, <2>1, RuledStep DEF Invariant, Ruling
  <2> QED  BY <2>2 DEF Ruled, Standing
<1>2. Invariant /\ [Next]_vars =>
        [faults'.crashes = faults.crashes =>
           \A n \in Attempts :
             LET old == rec.attempts[n]
                 new == rec'.attempts[n]
             IN /\ old.status \in Outcomes => new.status = old.status /\ new.at = old.at
                /\ old.doubt => new.doubt]_vars
  BY <1>1
<1> QED  BY <1>2, InvariantHolds, PTL DEF Spec, VerdictsStand

\* Only the reserved attempt is signed.
LEMMA SignsLast ==
  ASSUME TypeOK, Owned, [Next]_vars
  PROVE  signatures' \subseteq signatures \cup {Last} /\ (signatures' # signatures => pc = "reserve")
<1>1. CASE Sign \/ \E b \in BOOLEAN : SignRefused(b)  BY <1>1 DEF Sign, SignRefused
<1>2. CASE Controller /\ ~Sign /\ ~\E b \in BOOLEAN : SignRefused(b)
  BY <1>2 DEF Controller, Approve, Approved, Refused, Pass, ReadFails, Quit, Reorganized, Follow,
     Ready, Tip, Judged, Reserve, Withhold, MarkUncertain, Release, Submitted, EndWritten, Quiet
<1>3. CASE Settle
  BY <1>3 DEF Settle, RoundStarts, Found, Classify, Verdict, RoundEnds, RoundFails, SettleStops, Aside
<1>4. CASE Sync
  BY <1>4 DEF Sync, SyncStart, SyncReport, SyncFinal, SyncSave, History, past
<1>5. CASE Environment
  BY <1>5 DEF Environment, Replace, Reorganize, Close, Include, Finalize, past
<1>6. CASE (\E r \in StopReasons : Stop(r)) \/ Land \/ OtherSave \/ Crash \/ UNCHANGED vars
  BY <1>6 DEF Stop, Land, OtherSave, Crash, past, vars
<1> QED  BY <1>1, <1>2, <1>3, <1>4, <1>5, <1>6 DEF Next

\* The session signs only when every payment before is in a block and its outcome a verified lot or a
\* lost race, none of them in doubt, and on a birth block that descends from the payment before.
THEOREM GroundTheorem == Spec => SignsOnVerifiedGround
<1>1. ASSUME Invariant, [Next]_vars, NEW n \in signatures' \ signatures
      PROVE  /\ \A m \in 1..(n - 1) : /\ rec.attempts[m].status \in Admitting
                                      /\ ~rec.attempts[m].doubt
                                      /\ rec.attempts[m].at # NoPlace
             /\ n > 1 => rec.attempts[n].parent = rec.attempts[n - 1].at
  <2>0. TypeOK /\ Owned /\ Rules(rec, journal) /\ Stands  BY <1>1 DEF Invariant, Ruling
  <2>1. n = Last /\ pc = "reserve"  BY <1>1, <2>0, SignsLast
  <2>2. /\ Last > 0 /\ ~rec.reorganized
        /\ Last > 1 => rec.attempts[Last].parent = rec.attempts[Last - 1].at
    BY <2>0, <2>1 DEF Stands, LastIs, Signing
  <2>3. ASSUME NEW m \in 1..(n - 1)
        PROVE  /\ rec.attempts[m].status \in Admitting
               /\ ~rec.attempts[m].doubt
               /\ rec.attempts[m].at # NoPlace
    <3>1. Last \in Nat /\ \A i \in 1..Last : i \in Attempts /\ rec.attempts[i].status # "none"
      BY <2>0, Now
    <3>2. m \in 1..Last /\ m + 1 \in 1..Last  BY <2>1, <2>3, <3>1
    <3>3. rec.attempts[m].status \in Admitting  BY <2>0, <3>1, <3>2 DEF Rules
    <3>4. ~rec.attempts[m].doubt /\ Fit(rec.attempts[m])  BY <2>0, <2>2, <3>1, <3>2 DEF Rules
    <3>5. rec.attempts[m].at # NoPlace
      BY <3>3, <3>4 DEF Fit, ValidAttempt, WithInclusion, Outcomes, Admitting
    <3> QED  BY <3>3, <3>4, <3>5
  <2> QED  BY <2>1, <2>2, <2>3
<1>2. Invariant /\ [Next]_vars =>
        [\A n \in signatures' \ signatures :
           /\ \A m \in 1..(n - 1) : /\ rec.attempts[m].status \in Admitting
                                    /\ ~rec.attempts[m].doubt
                                    /\ rec.attempts[m].at # NoPlace
           /\ n > 1 => rec.attempts[n].parent = rec.attempts[n - 1].at]_vars
  BY <1>1
<1> QED  BY <1>2, InvariantHolds, PTL DEF Spec, SignsOnVerifiedGround

-----------------------------------------------------------------------------
(* What storage holds of a ledger that was written and answered.           *)
\* The record is in G wherever a restart may read it.
Everywhere(G) ==
  /\ rec \in G /\ disk.rec \in G
  /\ \A k \in 1..Len(writes) : writes[k].image.rec \in G

\* The memory is in G, and so is storage from the moment the write that is awaited lands.
Flushed(G) ==
  /\ rec \in G
  /\ io = "ok" => disk.rec \in G
  /\ \A k \in 1..Len(writes) :
       io = "ok" \/ (io = "wait" /\ \E i \in 1..k : writes[i].by = "session")
         => writes[k].image.rec \in G

\* Once it was answered, everything is.
LEMMA FlushedEverywhere == ASSUME NEW G, Flushed(G), io = "ok" PROVE Everywhere(G)
BY DEF Flushed, Everywhere

\* A step that leaves the memory in G.
LEMMA EverywhereStep ==
  ASSUME writes \in Seq(Write), NEW G, Everywhere(G), rec' \in G, disk' = disk, Wrote
  PROVE  Everywhere(G)'
<1>1. CASE writes' = writes  BY <1>1 DEF Everywhere
<1>2. ASSUME NEW by, Save(rec', journal', by) PROVE Everywhere(G)'
  <2>1. /\ writes'[Len(writes) + 1].image.rec = rec'
        /\ \A k \in 1..Len(writes) : writes'[k] = writes[k]
        /\ \A k \in 1..Len(writes') : k \in 1..Len(writes) \/ k = Len(writes) + 1
    BY <1>2, SaveAppends
  <2>2. \A k \in 1..Len(writes') : writes'[k].image.rec \in G  BY <2>1 DEF Everywhere
  <2> QED  BY <2>2 DEF Everywhere
<1> QED  BY <1>1, <1>2 DEF Wrote

\* A write that lands.
LEMMA EverywhereLand ==
  ASSUME writes \in Seq(Write), NEW G, Everywhere(G), Land
  PROVE  Everywhere(G)'
<1>1. /\ writes # <<>> /\ writes' = Tail(writes) /\ rec' = rec
      /\ disk' = disk \/ disk' = Head(writes).image
  BY DEF Land, memory
<1>2. /\ 1 \in 1..Len(writes) /\ Head(writes) = writes[1]
      /\ \A k \in 1..Len(writes') : k + 1 \in 1..Len(writes) /\ writes'[k] = writes[k + 1]
  BY <1>1
<1> QED  BY <1>1, <1>2 DEF Everywhere

\* A step that leaves the memory in G, when it was, or when the step itself awaits its save.
LEMMA FlushedStep ==
  ASSUME writes \in Seq(Write), Awaits, NEW G, rec' \in G, disk' = disk, Wrote,
         Flushed(G) \/ (io # "wait" /\ Save(rec', journal', "session") /\ io' = "wait")
  PROVE  Flushed(G)'
<1>0. Len(writes) \in Nat  OBVIOUS
<1>1. ASSUME writes' = writes, io' = io \/ io' = "none", Flushed(G) PROVE Flushed(G)'
  BY <1>1 DEF Flushed
<1>2. ASSUME Save(rec', journal', "session"), io # "wait", io' = "wait" PROVE Flushed(G)'
  <2>1. /\ writes'[Len(writes) + 1].image.rec = rec'
        /\ \A k \in 1..Len(writes) : writes'[k] = writes[k]
        /\ \A k \in 1..Len(writes') : k \in 1..Len(writes) \/ k = Len(writes) + 1
        /\ Len(writes') = Len(writes) + 1
    BY <1>2, SaveAppends
  <2>2. ASSUME NEW k \in 1..Len(writes'), NEW i \in 1..k, writes'[i].by = "session"
        PROVE  writes'[k].image.rec \in G
    <3>1. i \notin 1..Len(writes)  BY <1>2, <2>1, <2>2 DEF Awaits
    <3>2. k = Len(writes) + 1  BY <1>0, <2>1, <3>1
    <3> QED  BY <2>1, <3>2
  <2> QED  BY <1>2, <2>2 DEF Flushed
<1>3. ASSUME Save(rec', journal', "other"), io' = io, Flushed(G) PROVE Flushed(G)'
  <2>1. /\ writes'[Len(writes) + 1].image.rec = rec'
        /\ \A k \in 1..Len(writes) : writes'[k] = writes[k]
        /\ \A k \in 1..Len(writes') : k \in 1..Len(writes) \/ k = Len(writes) + 1
        /\ Len(writes') = Len(writes) + 1
    BY <1>3, SaveAppends
  <2>2. ASSUME NEW k \in 1..Len(writes'),
               io' = "ok" \/ (io' = "wait" /\ \E i \in 1..k : writes'[i].by = "session")
        PROVE  writes'[k].image.rec \in G
    <3>1. CASE k = Len(writes) + 1  BY <2>1, <3>1
    <3>2. CASE k \in 1..Len(writes)
      <4>1. \A i \in 1..k : writes'[i] = writes[i]  BY <1>0, <2>1, <3>2
      <4>2. io = "ok" \/ (io = "wait" /\ \E i \in 1..k : writes[i].by = "session")
        BY <1>3, <2>2, <4>1
      <4> QED  BY <1>3, <2>1, <3>2, <4>2 DEF Flushed
    <3> QED  BY <2>1, <3>1, <3>2
  <2> QED  BY <1>3, <2>2 DEF Flushed
<1>4. CASE Flushed(G)
  <2>1. CASE writes' = writes /\ (io' = io \/ (io # "wait" /\ io' = "none"))
    BY <1>1, <1>4, <2>1
  <2> QED  BY <1>2, <1>3, <1>4, <2>1 DEF Wrote
<1> QED  BY <1>2, <1>4

\* A write that lands, or is refused.
LEMMA FlushedLand ==
  ASSUME writes \in Seq(Write), Awaits, NEW G, Flushed(G), Land
  PROVE  Flushed(G)'
<1>1. /\ writes # <<>> /\ writes' = Tail(writes) /\ rec' = rec  BY DEF Land, memory
<1>2. /\ Len(writes) \in Nat /\ Len(writes') = Len(writes) - 1 /\ 1 \in 1..Len(writes)
      /\ \A k \in 1..Len(writes') : k + 1 \in 1..Len(writes) /\ writes'[k] = writes[k + 1]
      /\ Head(writes) = writes[1]
  BY <1>1
<1>3. /\ disk' = disk \/ disk' = writes[1].image
      /\ writes[1].by # "session" => io' = io
      /\ writes[1].by = "session" => io' = "failed" \/ (io' = "ok" /\ disk' = writes[1].image)
  BY <1>2 DEF Land
<1>4. CASE writes[1].by = "session"
  <2>1. io = "wait"  BY <1>2, <1>4 DEF Awaits
  <2>2. \A k \in 1..Len(writes) : 1 \in 1..k  BY <1>2
  <2>3. \A k \in 1..Len(writes) : writes[k].image.rec \in G  BY <1>4, <2>1, <2>2 DEF Flushed
  <2> QED  BY <1>1, <1>2, <1>3, <1>4, <2>3 DEF Flushed
<1>5. CASE writes[1].by # "session"
  <2>1. io' = io  BY <1>3, <1>5
  <2>2. io' = "ok" => disk'.rec \in G  BY <1>2, <1>3, <2>1 DEF Flushed
  <2>3. ASSUME NEW k \in 1..Len(writes'),
               io' = "ok" \/ (io' = "wait" /\ \E i \in 1..k : writes'[i].by = "session")
        PROVE  writes'[k].image.rec \in G
    <3>1. io = "ok" \/ (io = "wait" /\ \E i \in 1..(k + 1) : writes[i].by = "session")
      <4>1. CASE io' = "ok"  BY <2>1, <4>1
      <4>2. CASE io' # "ok"
        <5>1. PICK i \in 1..k : writes'[i].by = "session"  BY <2>3, <4>2
        <5>2. i \in 1..Len(writes') /\ i + 1 \in 1..(k + 1)  BY <1>2, <5>1
        <5>3. writes[i + 1].by = "session"  BY <1>2, <5>1, <5>2
        <5> QED  BY <2>1, <2>3, <4>2, <5>2, <5>3
      <4> QED  BY <4>1, <4>2
    <3>2. writes[k + 1].image.rec \in G  BY <1>2, <2>3, <3>1 DEF Flushed
    <3> QED  BY <1>2, <3>2
  <2> QED  BY <1>1, <2>2, <2>3 DEF Flushed
<1> QED  BY <1>4, <1>5

\* What left is told wherever a restart may read; what is about to leave, where the awaited write
\* reached.  Every signature is counted likewise.
Telling(n) == {r \in Record : Sent(r, n)}
Counting(n) == {r \in Record : n <= r.used}
Durable ==
  /\ \A n \in wire : Everywhere(Telling(n))
  /\ pc = "uncertain" => \A n \in Attempts : n = Last => Flushed(Telling(n))
  /\ \A n \in signatures : Everywhere(Counting(n))
  /\ pc = "reserve" => \A n \in Attempts : n = Last => Flushed(Counting(n))

\* The controller comes to its signature by the reservation only.
LEMMA ReserveAlone ==
  ASSUME TypeOK, Owned, [Next]_vars, pc' = "reserve"
  PROVE  Reserve \/ (pc = "reserve" /\ Last' = Last)
<1>1. ASSUME pc = "reserve", rec' = rec PROVE pc = "reserve" /\ Last' = Last
  BY <1>1 DEF Last, HeldAttempts
<1>2. CASE Controller
  BY <1>2 DEF Controller, Approve, Approved, Refused, Pass, ReadFails, Quit, Reorganized, Follow,
     Ready, Tip, Judged, Withhold, Sign, MarkUncertain, Release, SignRefused, Submitted, EndWritten,
     RefreshFinality, End, Reorg
<1>3. CASE Settle
  BY <1>3 DEF Settle, RoundStarts, Found, Classify, Verdict, RoundEnds, RoundFails, SettleStops,
     RefreshFinality
<1>4. CASE Sync
  <2>1. pc' = pc
    BY <1>4 DEF Sync, SyncStart, SyncReport, SyncFinal, SyncSave, History, control
  <2>2. rec.state = "running"  BY <2>1 DEF Owned, Running, Signing
  <2>3. rec' = rec \/ rec' = ResolveFromJournal(rec, journal')
    BY <1>4 DEF Sync, SyncStart, SyncReport, SyncFinal, SyncSave, NextLine, memory
  <2> QED  BY <1>1, <2>1, <2>2, <2>3 DEF ResolveFromJournal
<1>5. CASE Environment
  BY <1>1, <1>5 DEF Environment, Replace, Reorganize, Close, Include, Finalize, memory, control
<1>6. CASE (\E r \in StopReasons : Stop(r)) \/ Land \/ OtherSave \/ UNCHANGED vars
  BY <1>1, <1>6 DEF Stop, Land, OtherSave, memory, control, vars
<1>7. CASE Crash  BY <1>7 DEF Crash
<1> QED  BY <1>2, <1>3, <1>4, <1>5, <1>6, <1>7 DEF Next

\* Durable, said of any sets: what left is in its T, what was signed in its C.
LEMMA DurableNext ==
  ASSUME NEW T, NEW C, \A n \in Attempts : T[n] = Telling(n) /\ C[n] = Counting(n),
         wire' \subseteq Attempts, signatures' \subseteq Attempts,
         \A n \in wire' : Everywhere(T[n])',
         pc' = "uncertain" => \A n \in Attempts : n = Last' => Flushed(T[n])',
         \A n \in signatures' : Everywhere(C[n])',
         pc' = "reserve" => \A n \in Attempts : n = Last' => Flushed(C[n])'
  PROVE  Durable'
<1>1. \A n \in Attempts : Telling(n)' = Telling(n) /\ Counting(n)' = Counting(n)
  BY DEF Telling, Counting, Sent
<1>2. \A n \in Attempts : /\ Everywhere(T[n])' => Everywhere(Telling(n))'
                          /\ Flushed(T[n])' => Flushed(Telling(n))'
  BY <1>1 DEF Everywhere, Flushed
<1>3. \A n \in Attempts : /\ Everywhere(C[n])' => Everywhere(Counting(n))'
                          /\ Flushed(C[n])' => Flushed(Counting(n))'
  BY <1>1 DEF Everywhere, Flushed
<1> QED  BY <1>2, <1>3 DEF Durable

\* A signature is made only once the write that counts it was answered.
LEMMA SignsOk == ASSUME [Next]_vars, NEW n \in signatures', n \notin signatures PROVE io = "ok"
<1>1. CASE Controller
  BY <1>1 DEF Controller, Approve, Approved, Refused, Pass, ReadFails, Quit, Reorganized, Follow,
     Ready, Tip, Judged, Reserve, Withhold, Sign, SignRefused, MarkUncertain, Release, Submitted,
     EndWritten, Quiet
<1>2. CASE Settle
  BY <1>2 DEF Settle, RoundStarts, Found, Classify, Verdict, RoundEnds, RoundFails, SettleStops, Aside
<1>3. CASE Sync
  BY <1>3 DEF Sync, SyncStart, SyncReport, SyncFinal, SyncSave, History, past
<1>4. CASE Environment
  BY <1>4 DEF Environment, Replace, Reorganize, Close, Include, Finalize, past
<1>5. CASE (\E r \in StopReasons : Stop(r)) \/ Land \/ OtherSave \/ Crash \/ UNCHANGED vars
  BY <1>5 DEF Stop, Land, OtherSave, Crash, past, vars
<1> QED  BY <1>1, <1>2, <1>3, <1>4, <1>5 DEF Next

\* A step of the memory, or a save.
LEMMA DurableStep ==
  ASSUME Invariant, Durable, [Next]_vars, Step, ~Crash
  PROVE  Durable'
<1> DEFINE T == [n \in Attempts |-> Telling(n)]
           C == [n \in Attempts |-> Counting(n)]
<1>0. /\ TypeOK /\ Owned /\ Remembered /\ writes \in Seq(Write) /\ Awaits
      /\ TypeOK' /\ Owned' /\ rec' \in Record /\ wire' \subseteq Attempts /\ signatures' \subseteq Attempts
      /\ disk' = disk /\ Wrote
  BY OwnedStep DEF Invariant, TypeOK, Step, Remembered
<1>1. Ruled  BY RuledStep DEF Invariant, Ruling
<1>2. /\ rec.used \in Nat /\ rec.used <= rec'.used
      /\ Last \in 0..rec.used /\ Last \in Nat /\ Last' \in 0..rec'.used /\ rec'.used \in Nat
  <2>1. rec.used \in Nat /\ Last \in 0..rec.used /\ Last \in Nat
    BY <1>0, LastIsHeld, ConstantTypes DEF TypeOK, Owned
  <2>2. Last' \in 0..rec'.used
    <3>1. PICK r \in Record : r = rec'  BY <1>0
    <3>2. Shaped(r)  BY <1>0, <3>1 DEF Owned, Shaped
    <3> QED  BY <3>1, <3>2, ShapeCounts DEF Last, HeldAttempts
  <2>3. rec'.used = rec.used \/ rec'.used = rec.used + 1
    BY <1>0 DEF Step, Reserve, Persist, TypeOK, Record
  <2> QED  BY <2>1, <2>2, <2>3
<1>3. \A n \in Attempts : T[n] = Telling(n) /\ C[n] = Counting(n)  OBVIOUS
<1> HIDE DEF T, C
<1>4. ASSUME NEW n \in wire' PROVE Everywhere(T[n])'
  <2>0. n \in Attempts  BY <1>0, <1>4
  <2>1. PICK G : G = T[n]  OBVIOUS
  <2>2. rec' \in G /\ Everywhere(G)
    <3>1. CASE n \in wire
      <4>1. Everywhere(G)  BY <1>3, <2>0, <2>1, <3>1 DEF Durable
      <4>2. Sent(rec, n)  BY <1>3, <2>0, <2>1, <4>1 DEF Everywhere, Telling
      <4>3. Sent(rec', n)  BY <1>1, <2>0, <3>1, <4>2 DEF Ruled, Standing
      <4> QED  BY <1>0, <1>3, <2>0, <2>1, <4>1, <4>3 DEF Telling
    <3>2. CASE n \notin wire
      <4>1. Release /\ n = Last  BY <1>4, <3>2 DEF Step, Release
      <4>2. Flushed(G)  BY <1>3, <2>0, <2>1, <4>1 DEF Durable, Release
      <4>3. Everywhere(G)  BY <4>1, <4>2, FlushedEverywhere DEF Release
      <4> QED  BY <4>1, <4>3 DEF Everywhere, Release, memory
    <3> QED  BY <3>1, <3>2
  <2>3. Everywhere(G)'  BY <1>0, <2>2, EverywhereStep
  <2> QED  BY <2>1, <2>3
<1>5. ASSUME pc' = "uncertain", NEW n \in Attempts, n = Last' PROVE Flushed(T[n])'
  <2>1. PICK G : G = T[n]  OBVIOUS
  <2>2. n = Last /\ (pc = "uncertain" \/ MarkUncertain)  BY <1>5 DEF Step
  <2>3. rec'.attempts[n].status = "uncertain"  BY <1>1, <1>5 DEF Ruled, Stands, LastIs
  <2>4. rec' \in G  BY <1>0, <1>3, <2>1, <2>3 DEF Telling, Sent
  <2>5. Flushed(G) \/ (io # "wait" /\ Save(rec', journal', "session") /\ io' = "wait")
    <3>1. CASE pc = "uncertain"  BY <1>3, <1>5, <2>1, <2>2, <3>1 DEF Durable
    <3>2. CASE MarkUncertain  BY <3>2 DEF MarkUncertain, Persist
    <3> QED  BY <2>2, <3>1, <3>2
  <2>6. Flushed(G)'  BY <1>0, <2>4, <2>5, FlushedStep
  <2> QED  BY <2>1, <2>6
<1>6. ASSUME NEW n \in signatures' PROVE Everywhere(C[n])'
  <2>0. n \in Attempts  BY <1>0, <1>6
  <2>1. PICK G : G = C[n]  OBVIOUS
  <2>2. Everywhere(G)
    <3>1. CASE n \in signatures  BY <1>3, <2>0, <2>1, <3>1 DEF Durable
    <3>2. CASE n \notin signatures
      <4>1. n = Last /\ pc = "reserve"  BY <1>0, <1>6, <3>2, SignsLast
      <4>2. Flushed(G)  BY <1>3, <2>0, <2>1, <4>1 DEF Durable
      <4>3. io = "ok"  BY <1>6, <3>2, SignsOk
      <4> QED  BY <4>2, <4>3, FlushedEverywhere
    <3> QED  BY <3>1, <3>2
  <2>3. n \in Nat /\ n <= rec.used  BY <1>3, <2>0, <2>1, <2>2 DEF Everywhere, Counting, Attempts
  <2>4. rec' \in G
    <3>1. n <= rec'.used  BY <1>2, <2>3
    <3> QED  BY <1>0, <1>3, <2>0, <2>1, <3>1 DEF Counting
  <2>5. Everywhere(G)'  BY <1>0, <2>2, <2>4, EverywhereStep
  <2> QED  BY <2>1, <2>5
<1>7. ASSUME pc' = "reserve", NEW n \in Attempts, n = Last' PROVE Flushed(C[n])'
  <2>1. PICK G : G = C[n]  OBVIOUS
  <2>2. Reserve \/ (pc = "reserve" /\ Last' = Last)  BY <1>0, <1>7, ReserveAlone
  <2>3. rec' \in G
    <3>1. n <= rec'.used  BY <1>2, <1>7
    <3> QED  BY <1>0, <1>3, <2>1, <3>1 DEF Counting
  <2>4. Flushed(G) \/ (io # "wait" /\ Save(rec', journal', "session") /\ io' = "wait")
    <3>1. CASE pc = "reserve" /\ Last' = Last  BY <1>3, <1>7, <2>1, <3>1 DEF Durable
    <3>2. CASE Reserve  BY <3>2 DEF Reserve, Persist
    <3> QED  BY <2>2, <3>1, <3>2
  <2>5. Flushed(G)'  BY <1>0, <2>3, <2>4, FlushedStep
  <2> QED  BY <2>1, <2>5
<1> QED  BY <1>0, <1>3, <1>4, <1>5, <1>6, <1>7, DurableNext

\* A write that lands, or is refused.
LEMMA DurableLand ==
  ASSUME Invariant, Durable, Land
  PROVE  Durable'
<1> DEFINE T == [n \in Attempts |-> Telling(n)]
           C == [n \in Attempts |-> Counting(n)]
<1>0. /\ writes \in Seq(Write) /\ Awaits /\ wire \subseteq Attempts /\ signatures \subseteq Attempts
      /\ UNCHANGED <<rec, pc, wire, signatures>> /\ Last' = Last
  BY DEF Invariant, TypeOK, Remembered, Land, memory, past, Last, HeldAttempts
<1>1. \A n \in Attempts : T[n] = Telling(n) /\ C[n] = Counting(n)  OBVIOUS
<1> HIDE DEF T, C
<1>2. ASSUME NEW G, Everywhere(G) PROVE Everywhere(G)'  BY <1>0, <1>2, EverywhereLand
<1>3. ASSUME NEW G, Flushed(G) PROVE Flushed(G)'  BY <1>0, <1>3, FlushedLand
<1>4. /\ \A n \in wire : Everywhere(T[n])
      /\ pc = "uncertain" => \A n \in Attempts : n = Last => Flushed(T[n])
      /\ \A n \in signatures : Everywhere(C[n])
      /\ pc = "reserve" => \A n \in Attempts : n = Last => Flushed(C[n])
  BY <1>0, <1>1 DEF Durable
<1>5. \A n \in Attempts : /\ Everywhere(T[n]) => Everywhere(T[n])'
                          /\ Flushed(T[n]) => Flushed(T[n])'
                          /\ Everywhere(C[n]) => Everywhere(C[n])'
                          /\ Flushed(C[n]) => Flushed(C[n])'
  <2> TAKE n \in Attempts
  <2>1. PICK t, c : t = T[n] /\ c = C[n]  OBVIOUS
  <2> QED  BY <1>2, <1>3, <2>1
<1> QED  BY <1>0, <1>1, <1>4, <1>5, DurableNext

\* The worker's death: what it loads was told and counted, and cancels nothing that left.
LEMMA DurableCrash ==
  ASSUME Invariant, Durable, Crash, Invariant'
  PROVE  Durable'
<1> DEFINE T == [n \in Attempts |-> Telling(n)]
           C == [n \in Attempts |-> Counting(n)]
<1>0. /\ wire \subseteq Attempts /\ signatures \subseteq Attempts /\ rec' \in Record
      /\ UNCHANGED <<wire, signatures>> /\ pc' = "off" /\ 1..Len(writes') = {}
  BY DEF Invariant, TypeOK, Crash, past
<1>1. \A n \in Attempts : T[n] = Telling(n) /\ C[n] = Counting(n)  OBVIOUS
<1> HIDE DEF T, C
<1>2. /\ disk' = disk /\ rec' = ResolveFromJournal(EndUnowned(disk.rec), journal')
      /\ EndUnowned(disk.rec) \in Record /\ Rules(EndUnowned(disk.rec), journal')
      /\ SameAttempts(disk.rec, rec')
  BY RulingCrash DEF Invariant
<1>3. ASSUME NEW n \in wire PROVE Everywhere(T[n])'
  <2>1. n \in Attempts /\ disk.rec \in T[n]  BY <1>0, <1>1, <1>3 DEF Durable, Everywhere
  <2>2. disk.rec \in Record /\ Sent(disk.rec, n)  BY <1>1, <2>1 DEF Telling
  <2>3. PICK r, j : r \in Record /\ r = disk.rec /\ j = journal'  BY <2>2
  <2>4. PICK e \in Record : e = EndUnowned(r)  BY <1>2, <2>3
  <2>5. Rules(e, j) /\ rec' = ResolveFromJournal(e, j)  BY <1>2, <2>3, <2>4
  <2>6. Sent(e, n)
    <3>1. r.attempts[n] \in Attempt  BY <2>1, <2>3 DEF Record
    <3>2. e.attempts[n] = r.attempts[n]
      <4>1. r.attempts[n].status \notin {"reserved", "signed"}  BY <2>2, <2>3 DEF Sent
      <4> QED  BY <2>1, <2>4, <4>1 DEF EndUnowned, Record
    <3> QED  BY <2>2, <2>3, <3>2 DEF Sent
  <2>7. j[n].status # "cancelled-before-broadcast"
    BY <1>0, <1>3, <2>3 DEF Invariant, Remembered, Remembers, ReleasedInHistory, Told
  <2>8. Sent(rec', n)  BY <2>1, <2>5, <2>6, <2>7, SentResolved
  <2>9. rec' \in T[n]  BY <1>0, <1>1, <2>1, <2>8 DEF Telling
  <2> QED  BY <1>0, <1>2, <2>1, <2>9 DEF Everywhere
<1>4. ASSUME NEW n \in signatures PROVE Everywhere(C[n])'
  <2>1. n \in Attempts /\ disk.rec \in C[n]  BY <1>0, <1>1, <1>4 DEF Durable, Everywhere
  <2>2. n <= disk.rec.used  BY <1>1, <2>1 DEF Counting
  <2>3. rec' \in C[n]  BY <1>0, <1>1, <1>2, <2>1, <2>2 DEF Counting, SameAttempts
  <2> QED  BY <1>0, <1>2, <2>1, <2>3 DEF Everywhere
<1> QED  BY <1>0, <1>1, <1>3, <1>4, DurableNext

\* The invariant, and what storage holds.
LEMMA DurableHolds == Spec => [](Invariant /\ Durable)
<1>1. Init => Durable
  BY DEF Init, Durable
<1>2. Init => Invariant  BY OwnedInit, RememberedInit, RulingInit DEF Invariant
<1>3. Invariant /\ Durable /\ [Next]_vars => (Invariant /\ Durable)'
  <2> SUFFICES ASSUME Invariant, Durable, [Next]_vars PROVE (Invariant /\ Durable)'  OBVIOUS
  <2>1. Invariant'
    <3>1. (TypeOK /\ Owned /\ Remembered)'  BY Inductive DEF Invariant
    <3>2. Ruling'  BY RulingStep DEF Invariant
    <3> QED  BY <3>1, <3>2 DEF Invariant
  <2>2. Step \/ Land \/ Crash  BY OwnedStep DEF Invariant
  <2>3. CASE Crash  BY <2>1, <2>3, DurableCrash
  <2>4. CASE Step /\ ~Crash  BY <2>1, <2>4, DurableStep
  <2>5. CASE Land  BY <2>1, <2>5, DurableLand
  <2> QED  BY <2>1, <2>2, <2>3, <2>4, <2>5
<1> QED  BY <1>1, <1>2, <1>3, PTL DEF Spec

\* Nor does the ledger ever say of a payment whose bytes left that they did not: the write that makes
\* uncertainty durable lands before the release, whatever writes of others stand before or after it in
\* the queue, so the restart rule never cancels the attempt.
THEOREM LeftTheorem == Spec => []ReleasedInLedger
<1>1. Invariant /\ Durable => ReleasedInLedger
  <2> SUFFICES ASSUME Invariant, Durable, NEW n \in wire, NEW r \in {rec, disk.rec}
               PROVE  r.attempts[n].status \notin {"none", "reserved", "signed", "cancelled"}
    BY DEF ReleasedInLedger
  <2>1. n \in Attempts  BY DEF Invariant, TypeOK
  <2>2. r \in Telling(n)  BY <2>1 DEF Durable, Everywhere
  <2> QED  BY <2>2 DEF Telling, Sent
<1> QED  BY <1>1, DurableHolds, PTL

\* Every signature ever made is within the counter storage holds: a crash may over-count them, never
\* under-count them, whichever write it cuts off.
THEOREM CountedTheorem == Spec => []SignaturesCounted
<1>1. Invariant /\ Durable => SignaturesCounted
  <2> SUFFICES ASSUME Invariant, Durable, NEW n \in signatures
               PROVE  n <= disk.rec.used /\ n <= rec.used
    BY DEF SignaturesCounted
  <2>1. n \in Attempts  BY DEF Invariant, TypeOK
  <2> QED  BY <2>1 DEF Durable, Everywhere, Counting
<1> QED  BY <1>1, DurableHolds, PTL

-----------------------------------------------------------------------------
(* What history says once its line is final.                               *)
\* A payment in a block stands above every payment before it.
Linked ==
  \A m, n \in Attempts : m < n /\ chain[n] \in Places
                           => chain[m] \in Places /\ Height[chain[m]] < Height[chain[n]]

\* The lines of payment n that say nothing the final chain denies.
Truths(n) ==
  {l \in Line : /\ l.status = "expired" => n \in closed
                /\ l.status = "finalized" => /\ chain[n] \in Places /\ Height[chain[n]] <= final
                                             /\ chain[n] = l.at}

\* Such are all lines: in memory, in storage, in the queued writes and in the report history holds.
Truthful ==
  /\ \A n \in Attempts : /\ journal[n] \in Truths(n) /\ disk.journal[n] \in Truths(n)
                         /\ \A k \in 1..Len(writes) : writes[k].image.journal[n] \in Truths(n)
  /\ sync.phase \in {"asked", "again"} => \A n \in Attempts : n = sync.on => sync.report \in Truths(n)

\* Only the chain's own steps change it.
LEMMA WorldAlone == ASSUME [Next]_vars, ~Environment PROVE UNCHANGED <<chain, final, closed>>
<1>1. CASE Controller
  BY <1>1 DEF Controller, Approve, Approved, Refused, Pass, ReadFails, Quit, Reorganized, Follow,
     Ready, Tip, Judged, Reserve, Withhold, Sign, SignRefused, MarkUncertain, Release, Submitted,
     EndWritten, Others, world
<1>2. CASE Settle
  BY <1>2 DEF Settle, RoundStarts, Found, Classify, Verdict, RoundEnds, RoundFails, SettleStops, Aside,
     Others, world
<1>3. CASE Sync
  BY <1>3 DEF Sync, SyncStart, SyncReport, SyncFinal, SyncSave, History, world
<1>4. CASE (\E r \in StopReasons : Stop(r)) \/ Land \/ OtherSave \/ Crash \/ UNCHANGED vars
  BY <1>4 DEF Stop, Land, OtherSave, Crash, world, vars
<1> QED  BY <1>1, <1>2, <1>3, <1>4 DEF Next

\* A payment enters above those before it, and leaves the chain with those after it.
LEMMA LinkedStep ==
  ASSUME Invariant, Durable, Linked, [Next]_vars
  PROVE  Linked'
<1>0. chain \in [Attempts -> Here \cup {Rival}] /\ wire \subseteq Attempts  BY DEF Invariant, TypeOK
<1>1. \A p \in Places : Height[p] \in Nat  BY ConstantTypes
<1>2. Rival \notin Places /\ NoPlace \notin Places
  BY ConstantTypes, SessionAssumption DEF SessionAssumption
<1>3. \A n \in Attempts : n \in Nat /\ n >= 1  BY DEF Attempts
<1>4. ASSUME NEW n \in Attempts, NEW p \in Places, Include(n, p) PROVE Linked'
  <2>1. chain' = [chain EXCEPT ![n] = p] /\ chain[n] = NoPlace /\ n \in wire
    BY <1>4 DEF Include
  <2>2. chain'[n] = p /\ \A m \in Attempts : m # n => chain'[m] = chain[m]  BY <1>0, <2>1
  <2>3. \A k \in Attempts : chain[k] \in Places => ~(n < k)  BY <1>2, <2>1 DEF Linked
  <2>4. ASSUME n > 1
        PROVE  n - 1 \in Attempts /\ chain[n - 1] \in Places /\ Height[chain[n - 1]] < Height[p]
    <3>1. rec \in Telling(n)  BY <2>1 DEF Durable, Everywhere
    <3>2. rec \in Record /\ rec.attempts[n].status # "none"  BY <3>1 DEF Telling, Sent
    <3>3. rec.attempts[n].parent # NoPlace /\ rec.attempts[n].parent \in Places \cup {NoPlace}
      BY <2>4, <3>2 DEF Invariant, Ruling, Rules, Record, Attempt
    <3>4. chain[n - 1] = rec.attempts[n].parent /\ Height[p] > Height[rec.attempts[n].parent]
      BY <1>4, <3>3 DEF Include
    <3>5. rec.attempts[n].parent \in Places  BY <3>3
    <3>6. n - 1 \in Attempts  BY <2>4, ConstantTypes DEF Attempts
    <3>7. Height[rec.attempts[n].parent] \in Nat /\ Height[p] \in Nat  BY <1>1, <3>5
    <3> QED  BY <3>4, <3>5, <3>6, <3>7
  <2>5. ASSUME NEW m \in Attempts, m < n
        PROVE  chain[m] \in Places /\ Height[chain[m]] < Height[p]
    <3>1. n > 1 /\ (m = n - 1 \/ m < n - 1)  BY <1>3, <2>5
    <3>2. CASE m = n - 1  BY <2>4, <3>1, <3>2
    <3>3. CASE m < n - 1
      <4>1. chain[m] \in Places /\ Height[chain[m]] < Height[chain[n - 1]]
        BY <2>4, <3>1, <3>3 DEF Linked
      <4>2. Height[chain[n - 1]] < Height[p] /\ chain[n - 1] \in Places  BY <2>4, <3>1
      <4>3. Height[chain[m]] \in Nat /\ Height[chain[n - 1]] \in Nat /\ Height[p] \in Nat
        BY <1>1, <4>1, <4>2
      <4> QED  BY <4>1, <4>2, <4>3
    <3> QED  BY <3>1, <3>2, <3>3
  <2>6. ASSUME NEW m \in Attempts, NEW k \in Attempts, m < k, chain'[k] \in Places
        PROVE  chain'[m] \in Places /\ Height[chain'[m]] < Height[chain'[k]]
    <3>1. CASE k = n
      <4>1. chain'[m] = chain[m] /\ chain'[k] = p  BY <1>3, <2>2, <2>6, <3>1
      <4> QED  BY <2>5, <2>6, <3>1, <4>1
    <3>2. CASE k # n
      <4>1. chain[k] \in Places  BY <2>2, <2>6, <3>2
      <4>2. m # n  BY <2>3, <2>6, <4>1
      <4> QED  BY <2>2, <2>6, <3>2, <4>1, <4>2 DEF Linked
    <3> QED  BY <3>1, <3>2
  <2> QED  BY <2>6 DEF Linked
<1>5. ASSUME NEW n \in Attempts, Replace(n) PROVE Linked'
  <2>1. chain' = [chain EXCEPT ![n] = Rival] /\ chain[n] = NoPlace  BY <1>5 DEF Replace
  <2>2. chain'[n] = Rival /\ \A m \in Attempts : m # n => chain'[m] = chain[m]  BY <1>0, <2>1
  <2>3. \A k \in Attempts : chain[k] \in Places => ~(n < k)  BY <1>2, <2>1 DEF Linked
  <2>4. ASSUME NEW m \in Attempts, NEW k \in Attempts, m < k, chain'[k] \in Places
        PROVE  chain'[m] \in Places /\ Height[chain'[m]] < Height[chain'[k]]
    <3>1. k # n /\ chain[k] \in Places  BY <1>2, <2>2, <2>4
    <3>2. m # n  BY <2>3, <2>4, <3>1
    <3> QED  BY <2>2, <2>4, <3>1, <3>2 DEF Linked
  <2> QED  BY <2>4 DEF Linked
<1>6. ASSUME NEW n \in Attempts, Reorganize(n) PROVE Linked'
  <2>1. \A m \in Attempts : chain'[m] = IF m >= n THEN NoPlace ELSE chain[m]
    BY <1>6 DEF Reorganize
  <2>2. ASSUME NEW m \in Attempts, NEW k \in Attempts, m < k, chain'[k] \in Places
        PROVE  chain'[m] \in Places /\ Height[chain'[m]] < Height[chain'[k]]
    <3>1. ~(k >= n) /\ ~(m >= n)  BY <1>2, <1>3, <2>1, <2>2
    <3> QED  BY <2>1, <2>2, <3>1 DEF Linked
  <2> QED  BY <2>2 DEF Linked
<1>7. CASE chain' = chain  BY <1>7 DEF Linked
<1>8. CASE Finalize \/ \E n \in Attempts : Close(n)  BY <1>7, <1>8 DEF Finalize, Close
<1>9. CASE Environment  BY <1>4, <1>5, <1>6, <1>8, <1>9 DEF Environment
<1> QED  BY <1>7, <1>9, WorldAlone

\* What is true of a payment stays so.
LEMMA TruthsLast ==
  ASSUME TypeOK, Linked, [Next]_vars, NEW n \in Attempts
  PROVE  Truths(n) \subseteq Truths(n)'
<1>0. chain \in [Attempts -> Here \cup {Rival}] /\ final \in Nat
  BY SessionAssumption DEF TypeOK, SessionAssumption
<1>1. \A p \in Places : Height[p] \in Nat  BY ConstantTypes
<1>2. NoPlace \notin Places  BY ConstantTypes
<1>3. \A m \in Attempts : m \in Nat  BY DEF Attempts
<1>4. closed \subseteq closed' /\ final' \in Nat /\ final <= final'
  <2>1. CASE Environment
    BY <1>0, <2>1 DEF Environment, Include, Replace, Reorganize, Finalize, Close
  <2> QED  BY <1>0, <2>1, WorldAlone
<1>5. ASSUME chain[n] \in Places, Height[chain[n]] <= final PROVE chain'[n] = chain[n]
  <2>1. ASSUME NEW m \in Attempts, NEW p \in Places, Include(m, p) PROVE chain'[n] = chain[n]
    BY <1>0, <1>2, <1>5, <2>1 DEF Include
  <2>2. ASSUME NEW m \in Attempts, Replace(m) PROVE chain'[n] = chain[n]
    BY <1>0, <1>2, <1>5, <2>2 DEF Replace
  <2>3. ASSUME NEW m \in Attempts, Reorganize(m) PROVE chain'[n] = chain[n]
    <3>1. CASE m < n
      <4>1. chain[m] \in Places /\ Height[chain[m]] < Height[chain[n]]  BY <1>5, <3>1 DEF Linked
      <4>2. Height[chain[m]] \in Nat /\ Height[chain[n]] \in Nat  BY <1>1, <1>5, <4>1
      <4>3. Height[chain[m]] <= final  BY <1>0, <1>5, <4>1, <4>2
      <4> QED  BY <2>3, <4>1, <4>3 DEF Reorganize, Fixed, Placed
    <3>2. CASE m = n  BY <1>5, <2>3, <3>2 DEF Reorganize, Fixed, Placed
    <3>3. CASE m > n  BY <1>3, <2>3, <3>3 DEF Reorganize
    <3> QED  BY <1>3, <3>1, <3>2, <3>3
  <2>4. CASE Environment
    BY <2>1, <2>2, <2>3, <2>4 DEF Environment, Finalize, Close
  <2> QED  BY <2>4, WorldAlone
<1>6. ASSUME NEW l \in Truths(n) PROVE l \in Truths(n)'
  <2>1. l \in Line /\ (l.status = "expired" => n \in closed')  BY <1>4, <1>6 DEF Truths
  <2>2. ASSUME l.status = "finalized"
        PROVE  chain'[n] \in Places /\ Height[chain'[n]] <= final' /\ chain'[n] = l.at
    <3>1. chain[n] \in Places /\ Height[chain[n]] <= final /\ chain[n] = l.at
      BY <1>6, <2>2 DEF Truths
    <3>2. Height[chain[n]] \in Nat /\ chain'[n] = chain[n]  BY <1>1, <1>5, <3>1
    <3> QED  BY <1>0, <1>4, <3>1, <3>2
  <2> QED  BY <2>1, <2>2 DEF Truths
<1> QED  BY <1>6

\* What the indexer answers is true: it lags behind the chain and never runs ahead of it.
LEMMA ReportsTrue ==
  ASSUME TypeOK, NEW n \in Attempts
  PROVE  /\ Fixed(n) => FinalReport(n) \in Truths(n)
         /\ \A report \in Reports(n) : report \in Truths(n)
<1>1. /\ Fixed(n) => FinalReport(n) \in Line
      /\ \A report \in Reports(n) : report \in Line
  BY ReportTypes
<1>2. Fixed(n) => FinalReport(n) \in Truths(n)
  BY <1>1 DEF Fixed, Placed, FinalReport, Truths
<1>3. ASSUME NEW report \in Reports(n), report.status \in {"expired", "finalized"}
      PROVE  Fixed(n) /\ report = FinalReport(n)
  BY <1>3 DEF Reports
<1>4. ASSUME NEW report \in Reports(n) PROVE report \in Truths(n)
  <2>1. CASE report.status \in {"expired", "finalized"}  BY <1>2, <1>3, <2>1
  <2>2. CASE report.status \notin {"expired", "finalized"}  BY <1>1, <2>2 DEF Truths
  <2> QED  BY <2>1, <2>2
<1> QED  BY <1>2, <1>4

\* No step but history's writes a line that says a payment is final.
LEMMA LinesAlone ==
  ASSUME TypeOK, Owned, [Next]_vars, ~Sync, ~Crash, NEW n \in Attempts
  PROVE  journal'[n] = journal[n] \/ journal'[n].status \notin {"expired", "finalized"}
<1>0. journal \in Journal  BY DEF TypeOK
<1>1. ASSUME NEW m, NEW s, journal' = SetLine(journal, m, s), s \notin {"expired", "finalized"}
      PROVE  journal'[n] = journal[n] \/ journal'[n].status \notin {"expired", "finalized"}
  BY <1>0, <1>1 DEF SetLine, Journal, Line
<1>2. ASSUME NEW r, NEW why, End(r, why)
      PROVE  journal'[n] = journal[n] \/ journal'[n].status \notin {"expired", "finalized"}
  BY <1>0, <1>2 DEF End, Persist, Journal, Line
<1>3. CASE Approve \/ Approved \/ Refused \/ Pass \/ ReadFails \/ Ready \/ Reserve \/ Release \/ EndWritten
  BY <1>3 DEF Approve, Approved, Refused, Pass, ReadFails, Ready, Reserve, Release, EndWritten,
     RefreshFinality, Persist, memory
<1>4. CASE Quit \/ Reorganized \/ Withhold \/ \E b \in BOOLEAN : SignRefused(b)
  BY <1>2, <1>4 DEF Quit, Reorganized, Withhold, SignRefused
<1>5. CASE Follow \/ Tip \/ Judged
  BY <1>2, <1>5 DEF Follow, Tip, Judged, Reorg, Persist, memory
<1>6. CASE Sign \/ MarkUncertain \/ \E b \in BOOLEAN : Submitted(b)
  BY <1>1, <1>6 DEF Sign, MarkUncertain, Submitted, Persist
<1>7. CASE Settle
  BY <1>7 DEF Settle, RoundStarts, Found, Classify, Verdict, RoundEnds, RoundFails, SettleStops, Still,
     RefreshFinality, Persist, memory
<1>8. CASE Environment
  BY <1>8 DEF Environment, Replace, Reorganize, Close, Include, Finalize, memory
<1>9. CASE (\E r \in StopReasons : Stop(r)) \/ Land \/ OtherSave \/ UNCHANGED vars
  BY <1>9 DEF Stop, Land, OtherSave, memory, vars
<1> QED  BY <1>3, <1>4, <1>5, <1>6, <1>7, <1>8, <1>9 DEF Next, Controller

\* History writes what it was told, and holds what it was told last.
LEMMA SyncTells ==
  ASSUME TypeOK, Owned, Truthful, Sync, journal' \in Journal, NEW n \in Attempts
  PROVE  /\ journal'[n] \in Truths(n)
         /\ sync'.phase \in {"asked", "again"} /\ n = sync'.on => sync'.report \in Truths(n)
<1>0. journal \in Journal /\ journal[n] \in Truths(n)  BY DEF TypeOK, Truthful
<1>1. sync.phase \in {"asked", "again"} /\ n = sync.on => sync.report \in Truths(n)
  BY DEF Truthful
<1>2. journal'[n] \in Truths(n)
  <2>1. CASE journal'[n] = journal[n]  BY <1>0, <2>1
  <2>2. CASE sync.phase = "again" /\ n = sync.on /\ journal'[n] = sync.report
    BY <1>1, <2>2
  <2>3. CASE /\ sync.phase = "asked" /\ n = sync.on
             /\ journal'[n] = [status |-> sync.report.status,
                               at |-> IF sync.report.at = NoPlace THEN journal[n].at ELSE sync.report.at]
    <3>1. sync.report \in Truths(n)  BY <1>1, <2>3
    <3>2. journal'[n] \in Line  BY DEF Journal
    <3>3. PICK l : l = journal'[n]  OBVIOUS
    <3>4. l.status = sync.report.status /\ (sync.report.at # NoPlace => l.at = sync.report.at)
      BY <2>3, <3>3
    <3>5. l \in Truths(n)  BY <3>1, <3>2, <3>3, <3>4, ConstantTypes DEF Truths
    <3> QED  BY <3>3, <3>5
  <2>4. CASE SyncStart \/ SyncSave  BY <2>1, <2>4 DEF SyncStart, SyncSave, memory
  <2>5. CASE SyncReport
    <3>1. \/ journal' = journal
          \/ journal' = [journal EXCEPT ![sync.on] =
               [status |-> sync.report.status,
                at |-> IF sync.report.at = NoPlace THEN journal[sync.on].at ELSE sync.report.at]]
      BY <1>0, <2>5 DEF SyncReport, Journal
    <3> QED  BY <1>0, <2>1, <2>3, <2>5, <3>1 DEF SyncReport, Journal
  <2>6. CASE SyncFinal
    BY <1>0, <2>1, <2>2, <2>6 DEF SyncFinal, Journal
  <2> QED  BY <2>4, <2>5, <2>6 DEF Sync
<1>3. ASSUME sync'.phase \in {"asked", "again"}, n = sync'.on PROVE sync'.report \in Truths(n)
  <2>1. ASSUME NEW below, NextLine(below) PROVE sync'.report \in Truths(n)
    <3>1. CASE sync' = [Idle EXCEPT !.phase = "save"]  BY <1>3, <3>1 DEF Idle
    <3>2. CASE \E m \in Attempts : \E report \in Reports(m) :
                  sync' = [on |-> m, phase |-> "asked", report |-> report]
      BY <1>3, <3>2, ReportsTrue
    <3> QED  BY <2>1, <3>1, <3>2 DEF NextLine, OpenLines
  <2>2. CASE SyncReport
    BY <1>3, <2>1, <2>2, ReportsTrue DEF SyncReport
  <2>3. CASE SyncSave  BY <1>3, <2>3 DEF SyncSave, Idle
  <2> QED  BY <2>1, <2>2, <2>3 DEF Sync, SyncStart, SyncFinal
<1> QED  BY <1>2, <1>3

\* Lines that are true now are true in the next state.
LEMMA TruthfulNext ==
  ASSUME TypeOK, Linked, [Next]_vars,
         \A n \in Attempts :
           /\ journal'[n] \in Truths(n) /\ disk'.journal[n] \in Truths(n)
           /\ \A k \in 1..Len(writes') : writes'[k].image.journal[n] \in Truths(n)
           /\ sync'.phase \in {"asked", "again"} /\ n = sync'.on => sync'.report \in Truths(n)
  PROVE  Truthful'
<1>1. \A n \in Attempts : Truths(n) \subseteq Truths(n)'  BY TruthsLast
<1> QED  BY <1>1 DEF Truthful

\* Every step tells the truth.
LEMMA TruthfulStep ==
  ASSUME Invariant, Truthful, Linked, [Next]_vars
  PROVE  Truthful'
<1>0. /\ TypeOK /\ Owned /\ writes \in Seq(Write) /\ Len(writes) \in Nat /\ journal' \in Journal
      /\ \A n \in Attempts : /\ journal[n] \in Truths(n) /\ disk.journal[n] \in Truths(n)
                             /\ \A k \in 1..Len(writes) : writes[k].image.journal[n] \in Truths(n)
                             /\ sync.phase \in {"asked", "again"} /\ n = sync.on => sync.report \in Truths(n)
  BY OwnedStep DEF Invariant, TypeOK, Truthful
<1>1. CASE Crash
  <2>1. /\ journal' = LoadJournal(disk.journal) /\ disk' = disk /\ 1..Len(writes') = {}
        /\ sync'.phase = "idle"
    BY <1>1, RulingCrash DEF Invariant, Crash, Idle
  <2>2. ASSUME NEW n \in Attempts PROVE journal'[n] \in Truths(n)
    <3>1. PICK a, l : a = disk.journal[n] /\ l = journal'[n]  OBVIOUS
    <3>2. a \in Truths(n) /\ l \in Line  BY <1>0, <2>2, <3>1 DEF Journal
    <3>3. l = a \/ l.status = "cancelled-before-broadcast"
      <4>1. a \in Line  BY <3>2 DEF Truths
      <4> QED  BY <2>1, <3>1, <4>1 DEF LoadJournal, Line
    <3>4. l \in Truths(n)  BY <3>2, <3>3 DEF Truths
    <3> QED  BY <3>1, <3>4
  <2> QED  BY <1>0, <2>1, <2>2, TruthfulNext
<1>2. CASE Land
  <2>1. /\ writes # <<>> /\ writes' = Tail(writes) /\ journal' = journal /\ sync' = sync
        /\ disk' = disk \/ disk' = Head(writes).image
    BY <1>2 DEF Land, memory
  <2>2. /\ 1 \in 1..Len(writes) /\ Head(writes) = writes[1]
        /\ \A k \in 1..Len(writes') : k + 1 \in 1..Len(writes) /\ writes'[k] = writes[k + 1]
    BY <1>0, <2>1
  <2> QED  BY <1>0, <2>1, <2>2, TruthfulNext
<1>3. CASE Step /\ ~Crash
  <2>1. /\ disk' = disk
        /\ writes' = writes \/ \E by : Save(rec', journal', by)
    BY <1>3 DEF Step, Wrote
  <2>2. \A n \in Attempts :
          /\ journal'[n] \in Truths(n)
          /\ sync'.phase \in {"asked", "again"} /\ n = sync'.on => sync'.report \in Truths(n)
    <3>1. CASE Sync  BY <1>0, <3>1, SyncTells
    <3>2. CASE ~Sync
      <4>1. sync' = sync  BY <1>3, <3>2, SyncAlone DEF vars
      <4>2. ASSUME NEW n \in Attempts PROVE journal'[n] \in Truths(n)
        <5>1. journal'[n] = journal[n] \/ journal'[n].status \notin {"expired", "finalized"}
          BY <1>0, <1>3, <3>2, LinesAlone
        <5>2. journal'[n] \in Line  BY <1>0 DEF Journal
        <5> QED  BY <1>0, <5>1, <5>2 DEF Truths
      <4> QED  BY <1>0, <4>1, <4>2
    <3> QED  BY <3>1, <3>2
  <2>3. \A n \in Attempts : \A k \in 1..Len(writes') : writes'[k].image.journal[n] \in Truths(n)
    <3>1. CASE writes' = writes  BY <1>0, <3>1
    <3>2. ASSUME NEW by, Save(rec', journal', by)
          PROVE  \A n \in Attempts : \A k \in 1..Len(writes') : writes'[k].image.journal[n] \in Truths(n)
      <4>1. /\ writes'[Len(writes) + 1].image.journal = journal'
            /\ \A k \in 1..Len(writes) : writes'[k] = writes[k]
            /\ \A k \in 1..Len(writes') : k \in 1..Len(writes) \/ k = Len(writes) + 1
        BY <1>0, <3>2, SaveAppends
      <4> QED  BY <1>0, <2>2, <4>1
    <3> QED  BY <2>1, <3>1, <3>2
  <2> QED  BY <1>0, <2>1, <2>2, <2>3, TruthfulNext
<1> QED  BY <1>0, <1>1, <1>2, <1>3, OwnedStep

\* The whole invariant of a session.
Faithful == Invariant /\ Durable /\ Linked /\ Truthful

LEMMA FaithfulHolds == Spec => []Faithful
<1>1. Init => Linked /\ Truthful
  <2> SUFFICES ASSUME Init PROVE Linked /\ Truthful  OBVIOUS
  <2>1. Linked  BY ConstantTypes DEF Init, Linked
  <2>2. NoLine \in Line /\ NoLine.status = "none"  BY LineNames DEF NoLine, Line
  <2>3. \A n \in Attempts : NoLine \in Truths(n)  BY <2>2 DEF Truths
  <2>4. 1..Len(writes) = {} /\ sync.phase = "idle"  BY DEF Init, Idle
  <2>5. Truthful  BY <2>3, <2>4 DEF Init, Truthful
  <2> QED  BY <2>1, <2>5
<1>2. Invariant /\ Durable /\ Linked /\ Truthful /\ [Next]_vars => (Linked /\ Truthful)'
  BY LinkedStep, TruthfulStep
<1> QED  BY <1>1, <1>2, DurableHolds, PTL DEF Spec, Faithful

\* A final history line is the truth whatever lag, reorganization, restart or second question brought it:
\* what it says ran is final where it says, what it says never ran never can.
THEOREM TruthTheorem == Spec => []FinalLinesAreTrue
<1>1. Faithful => FinalLinesAreTrue
  <2> SUFFICES ASSUME Faithful, NEW n \in Attempts
               PROVE  /\ journal[n].status = "expired" => n \in closed
                      /\ journal[n].status = "finalized" => Fixed(n) /\ chain[n] = journal[n].at
                      /\ journal[n].status = "cancelled-before-broadcast" => n \notin wire
    BY DEF FinalLinesAreTrue
  <2>1. journal[n] \in Truths(n)  BY DEF Faithful, Truthful
  <2>2. n \in wire => Told(journal, n)
    BY DEF Faithful, Invariant, Remembered, Remembers, ReleasedInHistory
  <2> QED  BY <2>1, <2>2 DEF Truths, Fixed, Placed, Told
<1> QED  BY <1>1, FaithfulHolds, PTL

\* The gate lets the next operation in only when no payment of the session can still run, or stop
\* having run: each one that left has a final line, and the line is true.
THEOREM FreeTheorem == Spec => []FreeAccountIsSettled
<1>1. Faithful => FreeAccountIsSettled
  <2> SUFFICES ASSUME Faithful, AccountFree, NEW n \in wire PROVE Fixed(n)
    BY DEF FreeAccountIsSettled
  <2>1. n \in Attempts  BY DEF Faithful, Invariant, TypeOK
  <2>2. Told(journal, n)  BY DEF Faithful, Invariant, Remembered, Remembers, ReleasedInHistory
  <2>3. journal[n].status \in {"expired", "finalized"}
    BY <2>1, <2>2 DEF AccountFree, FinalLine, Told
  <2>4. journal[n] \in Truths(n)  BY <2>1 DEF Faithful, Truthful
  <2> QED  BY <2>3, <2>4 DEF Truths, Fixed, Placed
<1> QED  BY <1>1, FaithfulHolds, PTL

\* What history makes of one attempt whose line is final.
LEMMA ResolvedAgrees ==
  ASSUME NEW r \in Record, NEW j, Rules(r, j), r.state = "ended", NEW n \in Attempts, Sent(r, n),
         j[n].status \in {"expired", "finalized"}
  PROVE  LET b == ResolveFromJournal(r, j).attempts[n]
         IN /\ b.status \notin Unresolved
            /\ b.status \in Outcomes /\ ~b.doubt =>
                 j[n].status = "finalized" /\ (Effect[j[n].at] = "minted") = (b.status = "minted")
<1> DEFINE S == UNION {After(r, k) : k \in Contradicted(r, j)}
           d == PutInDoubt(r, S)
<1>1. /\ \A m \in S : m \in Attempts /\ Doubtful(r.attempts[m])
      /\ d \in Record /\ Rules(d, j)
      /\ \A m \in Attempts : ResolveFromJournal(r, j).attempts[m] = Resolved(d.attempts[m], j[m])
  BY ResolveSteps
<1>2. n \in Contradicted(r, j) => n \in S  BY DEF After
<1> HIDE DEF S
<1>3. d.attempts[n] = IF n \in S THEN [r.attempts[n] EXCEPT !.doubt = TRUE] ELSE r.attempts[n]
  BY <1>1, RulesDoubt
<1> HIDE DEF d
<1>4. PICK o, a, b : /\ o \in Attempt /\ a \in Attempt /\ o = r.attempts[n] /\ a = d.attempts[n]
                     /\ b = Resolved(a, j[n])
  BY <1>1 DEF Record
<1>5. Fit(o) /\ Fit(a)  BY <1>1, <1>4 DEF Rules
<1>6. /\ o.status = a.status /\ o.hash = a.hash /\ o.at = a.at
      /\ ~a.doubt => n \notin S /\ ~o.doubt
  BY <1>3, <1>4 DEF Attempt
<1>7. a.hash
  BY <1>4, <1>5, <1>6 DEF Sent, Fit, ValidAttempt
<1>8. j[n].status \in FinalLine  BY DEF FinalLine
<1>9. /\ b.doubt = a.doubt /\ (a.status \notin Unresolved => b = a)
      /\ a.status \in Unresolved => b.status \in {"settled", "expired", "cancelled"}
  BY <1>4, <1>5, <1>7, <1>8, ResolvedFits
<1>10. CASE a.status \in Unresolved
  BY <1>1, <1>4, <1>9, <1>10 DEF Unresolved, Outcomes
<1>11. CASE a.status \notin Unresolved
  <2>1. b = a  BY <1>9, <1>11
  <2>2. ASSUME a.status \in Outcomes, ~a.doubt
        PROVE  j[n].status = "finalized" /\ (Effect[j[n].at] = "minted") = (a.status = "minted")
    <3>1. ~Contradicts(o, j[n])
      BY <1>2, <1>4, <1>6, <1>7, <1>8, <1>11, <2>2 DEF Contradicted, FinalLine
    <3>2. o.status \notin NeverRan \cup {"settled"} /\ o.at # NoPlace
      BY <1>5, <1>6, <2>2, AdmittingOutcomes DEF Fit, ValidAttempt, WithInclusion, Outcomes
    <3> QED  BY <1>6, <1>8, <3>1, <3>2 DEF Contradicts
  <2>3. ResolveFromJournal(r, j).attempts[n] = b  BY <1>1, <1>4
  <2> QED  BY <1>11, <2>1, <2>2, <2>3
<1> QED  BY <1>10, <1>11

\* Once history is final, what it makes of an ended record agrees with the final chain: no payment stays
\* unresolved, and a verdict that is not in doubt is what the payment did in the final block.
THEOREM CorrectTheorem == Spec => []HistoryCorrectsVerdicts
<1>1. Faithful => HistoryCorrectsVerdicts
  <2> SUFFICES ASSUME Faithful, rec.state = "ended", \A n \in wire : Final(n), NEW n \in wire
               PROVE  LET p == ResolveFromJournal(rec, journal).attempts[n]
                      IN /\ p.status \notin Unresolved
                         /\ p.status \in Outcomes /\ ~p.doubt =>
                              Placed(n) /\ (Effect[chain[n]] = "minted") = (p.status = "minted")
    BY DEF HistoryCorrectsVerdicts
  <2>1. n \in Attempts /\ rec \in Record /\ Rules(rec, journal)
    BY DEF Faithful, Invariant, Ruling, TypeOK
  <2>2. Sent(rec, n)
    <3>1. rec \in Telling(n)  BY <2>1 DEF Faithful, Durable, Everywhere
    <3> QED  BY <3>1 DEF Telling
  <2>3. journal[n].status \in {"expired", "finalized"}
    <3>1. Told(journal, n)  BY DEF Faithful, Invariant, Remembered, Remembers, ReleasedInHistory
    <3> QED  BY <3>1 DEF Final, FinalLine, Told
  <2>4. journal[n] \in Truths(n)  BY <2>1 DEF Faithful, Truthful
  <2>5. journal[n].status = "finalized" => Placed(n) /\ chain[n] = journal[n].at
    BY <2>4 DEF Truths, Placed
  <2> QED  BY <2>1, <2>2, <2>3, <2>5, ResolvedAgrees
<1> QED  BY <1>1, FaithfulHolds, PTL

=============================================================================
