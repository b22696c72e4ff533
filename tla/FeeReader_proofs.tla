--------------------------- MODULE FeeReader_proofs ---------------------------
(* For every schedule, every account and every chain: the reader of FeeReader never halts on its fee
   state, quoted fees are accepted, rates and roles change in the open, and a freeze holds.

   The invariant relates every block of the chain to the blocks before it (Sound); a block is sound
   when it is appended, receipts keep the tip sound, and a rollback keeps the blocks below. *)
EXTENDS FeeReader, TLAPS, WellFoundedInduction

-----------------------------------------------------------------------------
(* Roles *)

\* The five accounts of a fee state, apart: what DistinctRoles says, pair by pair.
Separate(f) ==
  /\ f.operator \notin Reserved /\ f.guardian \notin Reserved /\ f.sentinel \notin Reserved
  /\ f.operator # f.guardian /\ f.operator # f.sentinel /\ f.guardian # f.sentinel
  /\ f.pendingOperator # None =>
       f.pendingOperator.account \notin Reserved \cup {f.operator, f.guardian, f.sentinel}
  /\ f.pendingGuardian # None =>
       f.pendingGuardian.account \notin Reserved \cup {f.operator, f.guardian, f.sentinel}
  /\ f.pendingOperator # None /\ f.pendingGuardian # None =>
       f.pendingOperator.account # f.pendingGuardian.account

\* Accounts that are apart pass the reader's check of roles.
LEMMA SeparateIsDistinct == ASSUME NEW f, Separate(f) PROVE DistinctRoles(f)
<1>1. \A x \in Holders(f.pendingOperator) : f.pendingOperator # None /\ x = f.pendingOperator.account
  BY DEF Holders
<1>2. \A x \in Holders(f.pendingGuardian) : f.pendingGuardian # None /\ x = f.pendingGuardian.account
  BY DEF Holders
<1> DEFINE A == {f.operator} \ {None}  B == {f.guardian}  C == {f.sentinel}
           D == Holders(f.pendingOperator)  E == Holders(f.pendingGuardian)
<1>3. /\ A \cap Reserved = {} /\ B \cap Reserved = {} /\ C \cap Reserved = {}
      /\ D \cap Reserved = {} /\ E \cap Reserved = {}
  BY <1>1, <1>2 DEF Separate
<1>4. /\ A \cap B = {} /\ A \cap C = {} /\ A \cap D = {} /\ A \cap E = {} /\ B \cap C = {}
      /\ B \cap D = {} /\ B \cap E = {} /\ C \cap D = {} /\ C \cap E = {} /\ D \cap E = {}
  BY <1>1, <1>2 DEF Separate
<1> HIDE DEF A, B, C, D, E
<1> DEFINE L == <<A, B, C, D, E>>
<1>5. \A i \in 1..5 : L[i] \cap Reserved = {}
  BY <1>3
<1>6. \A i, j \in 1..5 : i # j => L[i] \cap L[j] = {}
  BY <1>4
<1>7. RoleList(f) = L
  BY DEF RoleList, A, B, C, D, E
<1> QED BY <1>5, <1>6, <1>7 DEF DistinctRoles

-----------------------------------------------------------------------------
(* The block-start step *)

\* What every block of the schedule leaves behind, besides what the reader checks.
Windows(f, h) ==
  /\ f.current.id < f.nextGrid
  /\ From <= f.current.effective /\ f.current.effective <= h
  /\ f.previous # None => /\ f.previous.id < f.nextGrid
                          /\ h < f.current.effective + Grace
                          /\ WithinStep(f.current.rate, f.previous.rate)
                          /\ From + Delay <= f.current.effective
  /\ f.pending # None => /\ f.pending.id < f.nextGrid
                         /\ h < f.pending.effective
                         /\ WithinStep(f.pending.rate, f.current.rate)
                         /\ f.current.effective + Delay <= f.pending.effective
                         /\ f.operator # None
Counted(f, h) == \A i \in DOMAIN Resets : i <= f.nextReset <=> Resets[i].at <= h
Upcoming(f, h) ==
  /\ f.pendingOperator # None => h < f.pendingOperator.effective
  /\ f.pendingGuardian # None => h < f.pendingGuardian.effective
GoodState(f, h) ==
  f \in FeeState /\ Separate(f) /\ Windows(f, h) /\ Upcoming(f, h) /\ Counted(f, h)

\* A good state passes the reader's check.
LEMMA GoodPasses == ASSUME NEW f, NEW h \in Nat, GoodState(f, h) PROVE CheckFeeState(f, h)
BY SeparateIsDistinct DEF GoodState, Windows, CheckFeeState

\* The resets of a schedule, one by one.
LEMMA ResetsTyped ==
  /\ Len(Resets) \in Nat /\ DOMAIN Resets = 1..Len(Resets)
  /\ \A i \in 1..Len(Resets) : Resets[i].at \in Nat /\ Resets[i].roles \in Roles
<1> DEFINE S == [at : Nat, roles : Roles]
<1>1. Resets \in Seq(S)
  BY FeeRulesAssumption
<1> HIDE DEF S
<1>2. Len(Resets) \in Nat /\ DOMAIN Resets = 1..Len(Resets) /\ \A i \in 1..Len(Resets) : Resets[i] \in S
  BY <1>1
<1> QED BY <1>2 DEF S

\* The heights of a fee state are numbers.
LEMMA HeightsAreNat ==
  ASSUME NEW f \in FeeState
  PROVE  /\ f.current \in Grid /\ f.current.effective \in Nat
         /\ f.pending # None => f.pending.effective \in Nat
         /\ f.pendingOperator # None => f.pendingOperator.effective \in Nat
         /\ f.pendingGuardian # None => f.pendingGuardian.effective \in Nat
<1>1. \A n \in 0..U32 : n \in Nat
  BY FeeRulesAssumption
<1>2. \A x \in Grid : x.effective \in 0..U32
  BY DEF Grid
<1>3. \A x \in PendingRole : x.effective \in 0..U32
  BY DEF PendingRole
<1>4. /\ f.current \in Grid
      /\ f.pending # None => f.pending \in Grid
      /\ f.pendingOperator # None => f.pendingOperator \in PendingRole
      /\ f.pendingGuardian # None => f.pendingGuardian \in PendingRole
  BY DEF FeeState
<1> QED BY <1>1, <1>2, <1>3, <1>4

\* Among the resets that are due there is a last one.
LEMMA LastDueExists ==
  ASSUME NEW f \in FeeState, NEW h \in Nat, Due(f, h) # {}
  PROVE  LastDue(f, h) \in Due(f, h) /\ \A j \in Due(f, h) : j <= LastDue(f, h)
<1> DEFINE N == Len(Resets)
           T == {n \in Nat : n <= N /\ N - n \in Due(f, h)}
<1>1. N \in Nat
  BY FeeRulesAssumption
<1>2. Due(f, h) \subseteq 1..N
  BY <1>1 DEF Due, FeeState
<1>3. T \subseteq Nat /\ T # {}
  <2>1. PICK i \in Due(f, h) : TRUE
    OBVIOUS
  <2>2. i \in 1..N
    BY <1>2, <2>1
  <2>3. N - i \in T
    BY <2>1, <2>2, <1>1
  <2> QED BY <2>3
<1> HIDE DEF T
<1>4. PICK m \in T : \A n \in T : ~(<<n, m>> \in OpToRel(<, Nat))
  BY <1>3, NatLessThanWellFounded, WFMin
<1>5. m \in Nat /\ m <= N /\ N - m \in Due(f, h)
  BY <1>4 DEF T
<1>6. \A j \in Due(f, h) : j <= N - m
  <2> SUFFICES ASSUME NEW j \in Due(f, h), ~(j <= N - m) PROVE FALSE
    OBVIOUS
  <2>1. j \in 1..N
    BY <1>2
  <2>2. N - (N - j) = j
    BY <2>1, <1>1
  <2>3. N - j \in T
    BY <2>1, <2>2, <1>1 DEF T
  <2>4. N - j \in Nat /\ N - j < m
    BY <2>1, <1>1, <1>5
  <2>5. <<N - j, m>> \in OpToRel(<, Nat)
    BY <2>4, <1>5 DEF OpToRel
  <2> QED BY <2>3, <2>5, <1>4
<1> QED BY <1>5, <1>6 DEF LastDue

\* A reset of the rules empties every slot that is pending and counts the reset; else nothing changes.
LEMMA ResetKeeps ==
  ASSUME NEW f \in FeeState, NEW h \in Nat, Separate(f), Counted(f, h - 1)
  PROVE  LET g == Reset(f, h) IN
         /\ g \in FeeState /\ Separate(g) /\ Counted(g, h)
         /\ g.current = f.current /\ g.previous = f.previous /\ g.nextGrid = f.nextGrid
         /\ \/ g = f
            \/ /\ g.pending = None /\ g.pendingOperator = None /\ g.pendingGuardian = None
               /\ g.operator # None
               /\ ~NoResetIn(h - 1, h)
<1> DEFINE g == Reset(f, h)
<1>0. /\ Len(Resets) \in Nat /\ DOMAIN Resets = 1..Len(Resets)
      /\ \A i \in 1..Len(Resets) : Resets[i].at \in Nat /\ Resets[i].roles \in Roles
  BY ResetsTyped
<1>1. f.nextReset \in 0..Len(Resets)
  BY DEF FeeState
<1>2. CASE Due(f, h) = {}
  <2>1. g = f
    BY <1>2 DEF Reset
  <2>2. Counted(f, h)
    <3> SUFFICES ASSUME NEW i \in DOMAIN Resets PROVE i <= f.nextReset <=> Resets[i].at <= h
      BY DEF Counted
    <3>1. i <= f.nextReset <=> Resets[i].at <= h - 1
      BY DEF Counted
    <3>2. i \notin Due(f, h)
      BY <1>2
    <3> QED BY <1>0, <1>1, <3>1, <3>2 DEF Due
  <2> QED BY <2>1, <2>2
<1>3. CASE Due(f, h) # {}
  <2> DEFINE n == LastDue(f, h)
  <2>1. n \in Due(f, h) /\ \A j \in Due(f, h) : j <= n
    BY <1>3, LastDueExists
  <2> HIDE DEF n
  <2>2. n \in f.nextReset + 1 .. Len(Resets) /\ Resets[n].at <= h
    BY <2>1 DEF Due
  <2>3. n \in 1..Len(Resets)
    BY <2>2, <1>0, <1>1
  <2> DEFINE r == Resets[n].roles
  <2>4. r \in Roles
    BY <2>3, <1>0
  <2>5. g = [f EXCEPT !.operator = r.operator, !.guardian = r.guardian, !.sentinel = r.sentinel,
                      !.pendingOperator = None, !.pendingGuardian = None, !.pending = None,
                      !.nextReset = n]
    BY <1>3 DEF Reset, n
  <2> HIDE DEF r, g
  <2>6. /\ r.operator \in Accounts \ Reserved /\ r.guardian \in Accounts \ Reserved
        /\ r.sentinel \in Accounts \ Reserved
        /\ r.operator # r.guardian /\ r.operator # r.sentinel /\ r.guardian # r.sentinel
    BY <2>4 DEF Roles
  <2>7. g \in FeeState
    <3>1. n \in 0..Len(Resets)
      BY <2>3, <1>0
    <3> QED BY <2>5, <2>6, <3>1 DEF FeeState
  <2>8. /\ g.operator = r.operator /\ g.guardian = r.guardian /\ g.sentinel = r.sentinel
        /\ g.pendingOperator = None /\ g.pendingGuardian = None /\ g.pending = None
        /\ g.nextReset = n
        /\ g.current = f.current /\ g.previous = f.previous /\ g.nextGrid = f.nextGrid
    BY <2>5 DEF FeeState
  <2>9. Separate(g)
    BY <2>6, <2>8 DEF Separate
  <2>10. Counted(g, h)
    <3> SUFFICES ASSUME NEW i \in DOMAIN Resets PROVE i <= n <=> Resets[i].at <= h
      BY <2>8 DEF Counted
    <3>1. i <= n => Resets[i].at <= Resets[n].at
      <4>1. i < n => Resets[i].at < Resets[n].at
        BY <2>3, <1>0, FeeRulesAssumption
      <4>2. i \in Nat /\ n \in Nat /\ Resets[i].at \in Nat /\ Resets[n].at \in Nat
        BY <2>3, <1>0
      <4> QED BY <4>1, <4>2
    <3>2. ~(i <= n) => i \notin Due(f, h)
      BY <2>1, <2>3, <1>0
    <3>3. ~(i <= n) => ~(Resets[i].at <= h)
      BY <3>2, <2>2, <2>3, <1>0, <1>1 DEF Due
    <3> QED BY <3>1, <3>3, <2>2, <1>0, <2>3
  <2>11. g.operator # None
    BY <2>6, <2>8, FeeRulesAssumption
  <2>12. ~NoResetIn(h - 1, h)
    <3>1. ~(n <= f.nextReset)
      BY <2>2, <1>0, <1>1
    <3>2. ~(Resets[n].at <= h - 1)
      BY <3>1, <2>3, <1>0 DEF Counted
    <3> QED BY <3>2, <2>2, <2>3, <1>0 DEF NoResetIn
  <2> QED BY <2>7, <2>8, <2>9, <2>10, <2>11, <2>12 DEF g
<1> QED BY <1>2, <1>3

\* A guardian that takes over was the pending one, and its slot is free.
LEMMA RotateGuardianKeeps ==
  ASSUME NEW f \in FeeState, NEW h \in Nat, Separate(f)
  PROVE  LET g == RotateGuardian(f, h) IN
         /\ g \in FeeState /\ Separate(g)
         /\ g.current = f.current /\ g.previous = f.previous /\ g.nextGrid = f.nextGrid
         /\ g.pending = f.pending /\ g.pendingOperator = f.pendingOperator
         /\ g.operator = f.operator /\ g.nextReset = f.nextReset
         /\ \/ /\ g.guardian = f.guardian /\ g.pendingGuardian = f.pendingGuardian
               /\ f.pendingGuardian # None => h < f.pendingGuardian.effective
            \/ /\ f.pendingGuardian # None /\ f.pendingGuardian.effective <= h
               /\ g.guardian = f.pendingGuardian.account /\ g.pendingGuardian = None
<1> DEFINE g == RotateGuardian(f, h)
<1>1. CASE f.pendingGuardian # None /\ f.pendingGuardian.effective <= h
  <2> DEFINE a == f.pendingGuardian.account
  <2>1. g = [f EXCEPT !.guardian = a, !.pendingGuardian = None]
    BY <1>1 DEF RotateGuardian
  <2>2. a \in Accounts
    BY <1>1 DEF FeeState, PendingRole
  <2> HIDE DEF a, g
  <2>3. g \in FeeState
    BY <2>1, <2>2 DEF FeeState
  <2>4. /\ g.guardian = a /\ g.pendingGuardian = None /\ g.operator = f.operator
        /\ g.sentinel = f.sentinel /\ g.pendingOperator = f.pendingOperator
        /\ g.current = f.current /\ g.previous = f.previous /\ g.nextGrid = f.nextGrid
        /\ g.pending = f.pending /\ g.nextReset = f.nextReset
    BY <2>1 DEF FeeState
  <2>5. Separate(g)
    BY <1>1, <2>2, <2>4 DEF Separate, a
  <2> QED BY <1>1, <2>3, <2>4, <2>5 DEF a, g
<1>2. CASE ~(f.pendingGuardian # None /\ f.pendingGuardian.effective <= h)
  <2>1. g = f
    BY <1>2 DEF RotateGuardian
  <2>2. f.pendingGuardian # None => f.pendingGuardian.effective \in Nat
    BY FeeRulesAssumption DEF FeeState, PendingRole
  <2> QED BY <1>2, <2>1, <2>2
<1> QED BY <1>1, <1>2

\* An operator that takes over was the pending one, and its slot is free.
LEMMA RotateOperatorKeeps ==
  ASSUME NEW f \in FeeState, NEW h \in Nat, Separate(f)
  PROVE  LET g == RotateOperator(f, h) IN
         /\ g \in FeeState /\ Separate(g)
         /\ g.current = f.current /\ g.previous = f.previous /\ g.nextGrid = f.nextGrid
         /\ g.pending = f.pending /\ g.pendingGuardian = f.pendingGuardian
         /\ g.guardian = f.guardian /\ g.nextReset = f.nextReset
         /\ \/ /\ g.operator = f.operator /\ g.pendingOperator = f.pendingOperator
               /\ f.pendingOperator # None => h < f.pendingOperator.effective
            \/ /\ f.pendingOperator # None /\ f.pendingOperator.effective <= h
               /\ g.operator = f.pendingOperator.account /\ g.operator # None
               /\ g.pendingOperator = None
<1> DEFINE g == RotateOperator(f, h)
<1>1. CASE f.pendingOperator # None /\ f.pendingOperator.effective <= h
  <2> DEFINE a == f.pendingOperator.account
  <2>1. g = [f EXCEPT !.operator = a, !.pendingOperator = None]
    BY <1>1 DEF RotateOperator
  <2>2. a \in Accounts /\ a # None
    BY <1>1, FeeRulesAssumption DEF FeeState, PendingRole
  <2> HIDE DEF a, g
  <2>3. g \in FeeState
    BY <2>1, <2>2 DEF FeeState
  <2>4. /\ g.operator = a /\ g.pendingOperator = None /\ g.guardian = f.guardian
        /\ g.sentinel = f.sentinel /\ g.pendingGuardian = f.pendingGuardian
        /\ g.current = f.current /\ g.previous = f.previous /\ g.nextGrid = f.nextGrid
        /\ g.pending = f.pending /\ g.nextReset = f.nextReset
    BY <2>1 DEF FeeState
  <2>5. Separate(g)
    BY <1>1, <2>2, <2>4 DEF Separate, a
  <2> QED BY <1>1, <2>2, <2>3, <2>4, <2>5 DEF a, g
<1>2. CASE ~(f.pendingOperator # None /\ f.pendingOperator.effective <= h)
  <2>1. g = f
    BY <1>2 DEF RotateOperator
  <2>2. f.pendingOperator # None => f.pendingOperator.effective \in Nat
    BY FeeRulesAssumption DEF FeeState, PendingRole
  <2> QED BY <1>2, <2>1, <2>2
<1> QED BY <1>1, <1>2

\* How the rates of a block follow from those of the block before: either the rate stays, or the
\* pending one takes effect at its height and the old one stays for the grace window.
RatesFollow(f, g, h) ==
  /\ \/ /\ g.current = f.current
        /\ \/ g.previous = f.previous
           \/ g.previous = None /\ h >= f.current.effective + Grace
        /\ g.pending \in {f.pending, None}
     \/ /\ f.pending # None /\ f.pending.effective = h
        /\ g.current = f.pending /\ g.pending = None
        /\ g.previous = f.current \/ (g.previous = None /\ Grace = 0)

\* The promotion and the end of the grace window keep the windows.
LEMMA PromotionKeeps ==
  ASSUME NEW f \in FeeState, NEW h \in Nat, Windows(f, h - 1)
  PROVE  LET g == Expire(Promote(f, h), h) IN
         /\ g \in FeeState /\ Windows(g, h) /\ RatesFollow(f, g, h)
         /\ g.operator = f.operator /\ g.guardian = f.guardian /\ g.sentinel = f.sentinel
         /\ g.pendingOperator = f.pendingOperator /\ g.pendingGuardian = f.pendingGuardian
         /\ g.nextReset = f.nextReset
<1> DEFINE p == Promote(f, h)  g == Expire(p, h)
<1>0. /\ U32 \in Nat /\ Grace \in Nat /\ Delay \in Nat /\ From \in Nat /\ Grace < Delay
      /\ Rates \subseteq Nat
  BY FeeRulesAssumption
<1>1. \A x \in {f.current, f.previous, f.pending} \ {None} :
        x \in Grid /\ x.id \in Nat /\ x.effective \in Nat /\ x.rate \in Nat
  <2>1. ASSUME NEW x \in Grid PROVE x.id \in Nat /\ x.effective \in Nat /\ x.rate \in Nat
    <3>1. x.id \in 0..U32 /\ x.effective \in 0..U32 /\ x.rate \in Rates
      BY DEF Grid
    <3>2. x.rate \in Nat
      BY <3>1, FeeRulesAssumption, Zenon
    <3>3. \A n \in 0..U32 : n \in Nat
      BY <1>0
    <3> QED BY <3>1, <3>2, <3>3
  <2>2. \A x \in {f.current, f.previous, f.pending} \ {None} : x \in Grid
    BY DEF FeeState
  <2> QED BY <2>1, <2>2
<1>2. f.nextGrid \in Nat /\ f.current \in Grid
  BY <1>0 DEF FeeState
<1>3. CASE f.pending # None /\ f.pending.effective <= h
  <2>1. p = [f EXCEPT !.previous = f.current, !.current = f.pending, !.pending = None]
    BY <1>3 DEF Promote
  <2>2. f.pending.effective = h
    BY <1>1, <1>3 DEF Windows
  <2> HIDE DEF p
  <2>3. p \in FeeState
    BY <2>1, <1>1, <1>3 DEF FeeState
  <2>4. /\ p.current = f.pending /\ p.previous = f.current /\ p.pending = None
        /\ p.operator = f.operator /\ p.guardian = f.guardian /\ p.sentinel = f.sentinel
        /\ p.pendingOperator = f.pendingOperator /\ p.pendingGuardian = f.pendingGuardian
        /\ p.nextReset = f.nextReset /\ p.nextGrid = f.nextGrid
    BY <2>1 DEF FeeState
  <2>5. CASE Grace = 0
    <3>1. g = [p EXCEPT !.previous = None] \/ (g = p /\ p.previous = None)
      BY <2>2, <2>4, <2>5, <1>3 DEF Expire
    <3> HIDE DEF g
    <3>2. g \in FeeState
      BY <3>1, <2>3 DEF FeeState
    <3>3. /\ g.current = f.pending /\ g.previous = None /\ g.pending = None
          /\ g.operator = p.operator /\ g.guardian = p.guardian /\ g.sentinel = p.sentinel
          /\ g.pendingOperator = p.pendingOperator /\ g.pendingGuardian = p.pendingGuardian
          /\ g.nextReset = p.nextReset /\ g.nextGrid = p.nextGrid
      BY <3>1, <2>3, <2>4 DEF FeeState
    <3>4. From <= f.pending.effective
      BY <2>2, <1>0, <1>2, <1>3 DEF Windows, Grid
    <3>5. f.pending.id < f.nextGrid
      BY <1>3 DEF Windows
    <3>6. Windows(g, h)
      BY <3>3, <3>4, <3>5, <2>2, <2>4 DEF Windows
    <3> QED BY <3>2, <3>3, <3>6, <2>2, <2>4, <2>5, <1>3 DEF RatesFollow, g, p
  <2>6. CASE Grace # 0
    <3>1. g = p
      BY <2>2, <2>4, <2>6, <1>0 DEF Expire
    <3> HIDE DEF g
    <3>2. f.current.effective + Delay <= h /\ From + Delay <= h
      BY <2>2, <1>0, <1>1, <1>3 DEF Windows, FeeState, Grid
    <3>3. WithinStep(f.pending.rate, f.current.rate) /\ f.pending.id < f.nextGrid /\ f.current.id < f.nextGrid
      BY <1>3 DEF Windows
    <3>4. Windows(g, h)
      BY <3>1, <3>2, <3>3, <2>2, <2>4, <2>6, <1>0 DEF Windows
    <3> QED BY <3>1, <3>4, <2>2, <2>3, <2>4, <1>3 DEF RatesFollow, g, p
  <2> QED BY <2>5, <2>6
<1>4. CASE ~(f.pending # None /\ f.pending.effective <= h)
  <2>1. p = f
    BY <1>4 DEF Promote
  <2>2. f.pending # None => h < f.pending.effective
    BY <1>1, <1>4
  <2>3. f.current.effective \in Nat /\ f.current \in Grid
    BY <1>0 DEF FeeState, Grid
  <2>4. CASE f.previous # None /\ h >= f.current.effective + Grace
    <3>1. g = [f EXCEPT !.previous = None]
      BY <2>1, <2>4 DEF Expire
    <3> HIDE DEF g
    <3>2. g \in FeeState
      BY <3>1 DEF FeeState
    <3>3. /\ g.current = f.current /\ g.previous = None /\ g.pending = f.pending
          /\ g.operator = f.operator /\ g.guardian = f.guardian /\ g.sentinel = f.sentinel
          /\ g.pendingOperator = f.pendingOperator /\ g.pendingGuardian = f.pendingGuardian
          /\ g.nextReset = f.nextReset /\ g.nextGrid = f.nextGrid
      BY <3>1 DEF FeeState
    <3>4. Windows(g, h)
      BY <3>3, <2>2, <2>3, <1>0 DEF Windows
    <3> QED BY <3>2, <3>3, <3>4, <2>4 DEF RatesFollow, g, p
  <2>5. CASE ~(f.previous # None /\ h >= f.current.effective + Grace)
    <3>1. g = f
      BY <2>1, <2>5 DEF Expire
    <3>2. f.previous # None => h < f.current.effective + Grace
      BY <2>5, <2>3, <1>0
    <3> HIDE DEF g
    <3>3. Windows(g, h)
      BY <3>1, <3>2, <2>2, <2>3, <1>0 DEF Windows
    <3> QED BY <3>1, <3>3 DEF RatesFollow, g, p
  <2> QED BY <2>4, <2>5
<1> QED BY <1>3, <1>4

\* How the roles of a block follow from those of the block before, unless the rules reset them.
RolesFollow(f, g, h) ==
  /\ g.pending = None \/ g.pending = f.pending
  /\ g.pendingOperator = None \/ g.pendingOperator = f.pendingOperator
  /\ g.pendingGuardian = None \/ g.pendingGuardian = f.pendingGuardian
  /\ g.operator = None => f.operator = None
  /\ NoResetIn(h - 1, h) =>
       /\ \/ g.guardian = f.guardian
          \/ /\ f.pendingGuardian # None
             /\ f.pendingGuardian = [account |-> g.guardian, effective |-> h]
       /\ \/ g.operator = f.operator
          \/ /\ f.pendingOperator # None
             /\ f.pendingOperator = [account |-> g.operator, effective |-> h]

\* The block-start step leads from a good state to a good state.
LEMMA StepKeeps ==
  ASSUME NEW f, NEW h \in Nat, h > From, GoodState(f, h - 1)
  PROVE  LET g == StepFees(f, h) IN
         GoodState(g, h) /\ RatesFollow(f, g, h) /\ RolesFollow(f, g, h)
<1> DEFINE a == Reset(f, h)  b == RotateGuardian(a, h)  c == RotateOperator(b, h)
           g == Expire(Promote(c, h), h)
<1>0. From \in Nat /\ ~(h < From) /\ h # From
  BY FeeRulesAssumption
<1>1. g = StepFees(f, h)
  BY <1>0 DEF StepFees, Started
<1>2. f \in FeeState /\ Separate(f) /\ Counted(f, h - 1) /\ Windows(f, h - 1) /\ Upcoming(f, h - 1)
  BY DEF GoodState
<1>3. /\ a \in FeeState /\ Separate(a) /\ Counted(a, h)
      /\ a.current = f.current /\ a.previous = f.previous /\ a.nextGrid = f.nextGrid
      /\ \/ a = f
         \/ /\ a.pending = None /\ a.pendingOperator = None /\ a.pendingGuardian = None
            /\ a.operator # None
            /\ ~NoResetIn(h - 1, h)
  BY <1>2, ResetKeeps
<1> HIDE DEF a
<1>4. /\ b \in FeeState /\ Separate(b)
      /\ b.current = a.current /\ b.previous = a.previous /\ b.nextGrid = a.nextGrid
      /\ b.pending = a.pending /\ b.pendingOperator = a.pendingOperator
      /\ b.operator = a.operator /\ b.nextReset = a.nextReset
      /\ \/ /\ b.guardian = a.guardian /\ b.pendingGuardian = a.pendingGuardian
            /\ a.pendingGuardian # None => h < a.pendingGuardian.effective
         \/ /\ a.pendingGuardian # None /\ a.pendingGuardian.effective <= h
            /\ b.guardian = a.pendingGuardian.account /\ b.pendingGuardian = None
  BY <1>3, RotateGuardianKeeps
<1> HIDE DEF b
<1>5. /\ c \in FeeState /\ Separate(c)
      /\ c.current = b.current /\ c.previous = b.previous /\ c.nextGrid = b.nextGrid
      /\ c.pending = b.pending /\ c.pendingGuardian = b.pendingGuardian
      /\ c.guardian = b.guardian /\ c.nextReset = b.nextReset
      /\ \/ /\ c.operator = b.operator /\ c.pendingOperator = b.pendingOperator
            /\ b.pendingOperator # None => h < b.pendingOperator.effective
         \/ /\ b.pendingOperator # None /\ b.pendingOperator.effective <= h
            /\ c.operator = b.pendingOperator.account /\ c.operator # None
            /\ c.pendingOperator = None
  BY <1>4, RotateOperatorKeeps
<1> HIDE DEF c
<1>6. Windows(c, h - 1)
  BY <1>2, <1>3, <1>4, <1>5 DEF Windows
<1>7. /\ g \in FeeState /\ Windows(g, h) /\ RatesFollow(c, g, h)
      /\ g.operator = c.operator /\ g.guardian = c.guardian /\ g.sentinel = c.sentinel
      /\ g.pendingOperator = c.pendingOperator /\ g.pendingGuardian = c.pendingGuardian
      /\ g.nextReset = c.nextReset
  BY <1>5, <1>6, PromotionKeeps
<1> HIDE DEF g
<1>8. Separate(g)
  BY <1>5, <1>7 DEF Separate
<1>9. Counted(g, h)
  BY <1>3, <1>4, <1>5, <1>7 DEF Counted
<1>10. Upcoming(g, h)
  BY <1>4, <1>5, <1>7 DEF Upcoming
<1>11. RatesFollow(f, g, h)
  BY <1>3, <1>4, <1>5, <1>7 DEF RatesFollow
<1>12. RolesFollow(f, g, h)
  <2>1. \A p \in PendingRole : p.effective \in Nat /\ p = [account |-> p.account, effective |-> p.effective]
    BY FeeRulesAssumption DEF PendingRole
  <2>2. f.pendingGuardian # None => f.pendingGuardian \in PendingRole
    BY <1>2 DEF FeeState
  <2>3. f.pendingOperator # None => f.pendingOperator \in PendingRole
    BY <1>2 DEF FeeState
  <2>4. g.pending = None \/ g.pending = f.pending
    BY <1>3, <1>4, <1>5, <1>7 DEF RatesFollow
  <2>5. g.pendingOperator = None \/ g.pendingOperator = f.pendingOperator
    BY <1>3, <1>4, <1>5, <1>7
  <2>6. g.pendingGuardian = None \/ g.pendingGuardian = f.pendingGuardian
    BY <1>3, <1>4, <1>5, <1>7
  <2>7. ASSUME NoResetIn(h - 1, h)
        PROVE  \/ g.guardian = f.guardian
               \/ /\ f.pendingGuardian # None
                  /\ f.pendingGuardian = [account |-> g.guardian, effective |-> h]
    <3>1. a = f
      BY <1>3, <2>7
    <3>2. CASE b.guardian = a.guardian
      BY <3>1, <3>2, <1>5, <1>7
    <3>3. CASE b.guardian # a.guardian
      <4>1. /\ f.pendingGuardian # None /\ f.pendingGuardian.effective <= h
            /\ g.guardian = f.pendingGuardian.account
        BY <3>1, <3>3, <1>4, <1>5, <1>7
      <4>2. f.pendingGuardian.effective = h
        BY <4>1, <2>1, <2>2, <1>2 DEF Upcoming
      <4> QED BY <4>1, <4>2, <2>1, <2>2
    <3> QED BY <3>2, <3>3
  <2>8. ASSUME NoResetIn(h - 1, h)
        PROVE  \/ g.operator = f.operator
               \/ /\ f.pendingOperator # None
                  /\ f.pendingOperator = [account |-> g.operator, effective |-> h]
    <3>1. a = f
      BY <1>3, <2>8
    <3>2. CASE c.operator = b.operator
      BY <3>1, <3>2, <1>4, <1>7
    <3>3. CASE c.operator # b.operator
      <4>1. /\ f.pendingOperator # None /\ f.pendingOperator.effective <= h
            /\ g.operator = f.pendingOperator.account
        BY <3>1, <3>3, <1>4, <1>5, <1>7
      <4>2. f.pendingOperator.effective = h
        BY <4>1, <2>1, <2>3, <1>2 DEF Upcoming
      <4> QED BY <4>1, <4>2, <2>1, <2>3
    <3> QED BY <3>2, <3>3
  <2>9. g.operator = None => f.operator = None
    BY <1>3, <1>4, <1>5, <1>7
  <2> QED BY <2>4, <2>5, <2>6, <2>7, <2>8, <2>9 DEF RolesFollow
<1> QED BY <1>1, <1>7, <1>8, <1>9, <1>10, <1>11, <1>12 DEF GoodState

\* At the schedule's block the step installs the genesis state: no reset is due yet.
LEMMA GenesisStep == StepFees(None, From) = GenesisFeeState
<1> DEFINE z == GenesisFeeState
<1>1. /\ z.pendingGuardian = None /\ z.pendingOperator = None /\ z.pending = None
      /\ z.previous = None /\ z.nextReset = 0
  BY DEF GenesisFeeState
<1>2. From \in Nat
  BY FeeRulesAssumption
<1>3. Due(z, From) = {}
  BY <1>1, <1>2, ResetsTyped, FeeRulesAssumption DEF Due
<1> HIDE DEF z
<1>4. Reset(z, From) = z
  BY <1>3 DEF Reset
<1>5. RotateGuardian(z, From) = z /\ RotateOperator(z, From) = z
  BY <1>1 DEF RotateGuardian, RotateOperator
<1>6. Promote(z, From) = z /\ Expire(z, From) = z
  BY <1>1 DEF Promote, Expire
<1> QED BY <1>2, <1>4, <1>5, <1>6 DEF StepFees, Started, z

\* The schedule's first block is good.
LEMMA GenesisGood == GoodState(StepFees(None, From), From)
<1> DEFINE z == GenesisFeeState
<1>0. /\ From \in Nat \ {0} /\ U32 \in Nat /\ Grace \in Nat /\ Delay \in Nat /\ GuardianDelay \in Nat
      /\ From <= U32 /\ Len(Resets) \in Nat /\ DOMAIN Resets = 1..Len(Resets)
  BY ResetsTyped, FeeRulesAssumption
<1>1. /\ FirstRoles.operator \in Accounts \ Reserved /\ FirstRoles.guardian \in Accounts \ Reserved
      /\ FirstRoles.sentinel \in Accounts \ Reserved
      /\ FirstRoles.operator # FirstRoles.guardian /\ FirstRoles.operator # FirstRoles.sentinel
      /\ FirstRoles.guardian # FirstRoles.sentinel
  BY FeeRulesAssumption DEF Roles
<1>2. \A i \in DOMAIN Resets : ~(Resets[i].at <= From) /\ ~(i <= 0)
  <2> SUFFICES ASSUME NEW i \in DOMAIN Resets PROVE ~(Resets[i].at <= From) /\ ~(i <= 0)
    OBVIOUS
  <2>1. Resets[i].at \in Nat
    BY ResetsTyped
  <2> QED BY <2>1, <1>0, FeeRulesAssumption
<1>3. z.nextReset = 0 /\ z.pendingGuardian = None /\ z.pendingOperator = None /\ z.pending = None
      /\ z.previous = None /\ z.current.effective = From /\ z.current.id = 0 /\ z.nextGrid = 1
      /\ z.operator = FirstRoles.operator /\ z.guardian = FirstRoles.guardian
      /\ z.sentinel = FirstRoles.sentinel
  BY DEF GenesisFeeState
<1>5. StepFees(None, From) = z
  BY GenesisStep
<1>6. z.current \in Grid
  BY <1>0, FeeRulesAssumption DEF GenesisFeeState, Grid
<1>7. z \in FeeState
  <2>1. 1 \in 0..U32 /\ 0 \in 0..Len(Resets)
    BY <1>0
  <2> QED BY <1>1, <1>6, <2>1 DEF GenesisFeeState, FeeState
<1> HIDE DEF z
<1>8. Separate(z)
  BY <1>1, <1>3 DEF Separate
<1>9. Windows(z, From) /\ Upcoming(z, From)
  BY <1>0, <1>3 DEF Windows, Upcoming
<1>10. Counted(z, From)
  BY <1>2, <1>3 DEF Counted
<1> QED BY <1>5, <1>7, <1>8, <1>9, <1>10 DEF GoodState

-----------------------------------------------------------------------------
(* The governance operations *)

\* What a receipt of block h may do to the fee state.
ReceiptFollows(f, g, h) ==
  /\ g.current = f.current /\ g.previous = f.previous /\ g.guardian = f.guardian
  /\ g.operator # f.operator => g.operator = None /\ g.pendingOperator = None /\ g.pending = None
  /\ \/ g.pending \in {None, f.pending}
     \/ h + Delay <= g.pending.effective /\ f.operator # None
  /\ \/ g.pendingOperator \in {None, f.pendingOperator}
     \/ h + Delay <= g.pendingOperator.effective
  /\ \/ g.pendingGuardian \in {None, f.pendingGuardian}
     \/ h + GuardianDelay <= g.pendingGuardian.effective

\* A posted rate leaves a good state.
LEMMA FeeRateKeeps ==
  ASSUME NEW f, NEW h \in 0..U32, From <= h, GoodState(f, h),
         NEW signer, NEW rate \in Rates, NEW effective \in 0..U32,
         FeeRateAllowed(f, signer, rate, effective, h)
  PROVE  LET g == ApplyFeeRate(f, rate, effective, h) IN GoodState(g, h) /\ ReceiptFollows(f, g, h)
<1> DEFINE p == [id |-> f.nextGrid, rate |-> rate, effective |-> effective, height |-> h]
           g == ApplyFeeRate(f, rate, effective, h)
<1>0. From \in Nat /\ U32 \in Nat /\ Delay \in Nat /\ Grace \in Nat /\ Grace < Delay
  BY FeeRulesAssumption
<1>1. f \in FeeState /\ f.current \in Grid /\ f.nextGrid \in 0..U32
  BY DEF GoodState, FeeState
<1>2. f.current.effective \in Nat /\ f.current.id \in Nat
  BY <1>0, <1>1 DEF Grid
<1>3. p \in Grid
  BY <1>1 DEF Grid
<1>4. f.operator # None /\ h + Delay <= effective /\ WithinStep(rate, f.current.rate) /\ f.nextGrid < U32
  BY DEF FeeRateAllowed, EffectiveIn
<1>5. g = [f EXCEPT !.pending = p, !.nextGrid = f.nextGrid + 1]
  BY DEF ApplyFeeRate
<1>6. p.id = f.nextGrid /\ p.rate = rate /\ p.effective = effective
  OBVIOUS
<1> HIDE DEF p, g
<1>7. f.nextGrid + 1 \in 0..U32
  BY <1>0, <1>1, <1>4
<1>8. g \in FeeState
  BY <1>1, <1>3, <1>5, <1>7 DEF FeeState
<1>9. /\ g.pending = p /\ g.nextGrid = f.nextGrid + 1
      /\ g.operator = f.operator /\ g.guardian = f.guardian /\ g.sentinel = f.sentinel
      /\ g.pendingOperator = f.pendingOperator /\ g.pendingGuardian = f.pendingGuardian
      /\ g.current = f.current /\ g.previous = f.previous /\ g.nextReset = f.nextReset
  BY <1>1, <1>5 DEF FeeState
<1>10. Windows(g, h)
  <2>1. g.current.id < g.nextGrid
    BY <1>1, <1>2, <1>9, <1>0 DEF GoodState, Windows
  <2>2. g.previous # None => g.previous.id < g.nextGrid
    <3>1. g.previous # None => g.previous \in Grid
      BY <1>1, <1>9 DEF FeeState
    <3>2. g.previous # None => g.previous.id \in Nat
      BY <3>1, <1>0 DEF Grid
    <3> QED BY <3>2, <1>1, <1>9, <1>0 DEF GoodState, Windows
  <2>3. /\ h < p.effective /\ p.id < g.nextGrid
        /\ f.current.effective + Delay <= p.effective
        /\ WithinStep(p.rate, f.current.rate)
    BY <1>0, <1>1, <1>2, <1>4, <1>6, <1>9 DEF GoodState, Windows
  <2> QED BY <2>1, <2>2, <2>3, <1>4, <1>9 DEF GoodState, Windows
<1>11. Separate(g) /\ Upcoming(g, h) /\ Counted(g, h)
  BY <1>9 DEF GoodState, Separate, Upcoming, Counted
<1>12. ReceiptFollows(f, g, h)
  BY <1>4, <1>6, <1>9 DEF ReceiptFollows
<1> QED BY <1>8, <1>10, <1>11, <1>12 DEF GoodState, g

\* A cancel leaves a good state.
LEMMA CancelKeeps ==
  ASSUME NEW f, NEW h, GoodState(f, h)
  PROVE  LET g == ApplyCancel(f) IN GoodState(g, h) /\ ReceiptFollows(f, g, h)
<1> DEFINE g == ApplyCancel(f)
<1>1. f \in FeeState
  BY DEF GoodState
<1>2. g = [f EXCEPT !.pending = None]
  BY DEF ApplyCancel
<1> HIDE DEF g
<1>3. g \in FeeState
  BY <1>1, <1>2 DEF FeeState
<1>4. /\ g.pending = None /\ g.nextGrid = f.nextGrid
      /\ g.operator = f.operator /\ g.guardian = f.guardian /\ g.sentinel = f.sentinel
      /\ g.pendingOperator = f.pendingOperator /\ g.pendingGuardian = f.pendingGuardian
      /\ g.current = f.current /\ g.previous = f.previous /\ g.nextReset = f.nextReset
  BY <1>1, <1>2 DEF FeeState
<1>5. Separate(g) /\ Windows(g, h) /\ Upcoming(g, h) /\ Counted(g, h)
  BY <1>4 DEF GoodState, Separate, Windows, Upcoming, Counted
<1>6. ReceiptFollows(f, g, h)
  BY <1>4 DEF ReceiptFollows
<1> QED BY <1>3, <1>5, <1>6 DEF GoodState, g

\* A freeze leaves a good state.
LEMMA FreezeKeeps ==
  ASSUME NEW f, NEW h, GoodState(f, h)
  PROVE  LET g == ApplyFreeze(f) IN GoodState(g, h) /\ ReceiptFollows(f, g, h)
<1> DEFINE g == ApplyFreeze(f)
<1>1. f \in FeeState
  BY DEF GoodState
<1>2. g = [f EXCEPT !.operator = None, !.pendingOperator = None, !.pending = None]
  BY DEF ApplyFreeze
<1> HIDE DEF g
<1>3. g \in FeeState
  BY <1>1, <1>2 DEF FeeState
<1>4. /\ g.pending = None /\ g.nextGrid = f.nextGrid /\ g.operator = None
      /\ g.guardian = f.guardian /\ g.sentinel = f.sentinel
      /\ g.pendingOperator = None /\ g.pendingGuardian = f.pendingGuardian
      /\ g.current = f.current /\ g.previous = f.previous /\ g.nextReset = f.nextReset
  BY <1>1, <1>2 DEF FeeState
<1>5. f.guardian \in Accounts /\ f.sentinel \in Accounts
      /\ (f.pendingGuardian # None => f.pendingGuardian.account \in Accounts)
  BY <1>1 DEF FeeState, PendingRole
<1>6. Separate(g)
  BY <1>4, <1>5, FeeRulesAssumption DEF GoodState, Separate
<1>7. Windows(g, h) /\ Upcoming(g, h) /\ Counted(g, h)
  BY <1>4 DEF GoodState, Windows, Upcoming, Counted
<1>8. ReceiptFollows(f, g, h)
  BY <1>4 DEF ReceiptFollows
<1> QED BY <1>3, <1>6, <1>7, <1>8 DEF GoodState, g

\* Naming an operator leaves a good state.
LEMMA SetOperatorKeeps ==
  ASSUME NEW f, NEW h \in 0..U32, From <= h, GoodState(f, h),
         NEW signer, NEW account \in Accounts, NEW effective \in 0..U32,
         SetOperatorAllowed(f, signer, account, effective, h)
  PROVE  LET g == ApplySetOperator(f, account, effective) IN GoodState(g, h) /\ ReceiptFollows(f, g, h)
<1> DEFINE p == [account |-> account, effective |-> effective]
           g == ApplySetOperator(f, account, effective)
<1>0. From \in Nat /\ U32 \in Nat /\ Delay \in Nat \ {0}
  BY FeeRulesAssumption
<1>1. f \in FeeState /\ p \in PendingRole
  BY DEF GoodState, PendingRole
<1>2. g = [f EXCEPT !.pendingOperator = p]
  BY DEF ApplySetOperator
<1>3. p.account = account /\ p.effective = effective
  OBVIOUS
<1>4. h + Delay <= effective /\ account \notin {f.operator, f.guardian, f.sentinel} \cup Reserved
      /\ (f.pendingGuardian # None => account # f.pendingGuardian.account)
  BY DEF SetOperatorAllowed, EffectiveIn, Holders
<1> HIDE DEF g, p
<1>5. g \in FeeState
  BY <1>1, <1>2 DEF FeeState
<1>6. /\ g.pending = f.pending /\ g.nextGrid = f.nextGrid /\ g.operator = f.operator
      /\ g.guardian = f.guardian /\ g.sentinel = f.sentinel
      /\ g.pendingOperator = p /\ g.pendingGuardian = f.pendingGuardian
      /\ g.current = f.current /\ g.previous = f.previous /\ g.nextReset = f.nextReset
  BY <1>1, <1>2 DEF FeeState
<1>7. Separate(g)
  BY <1>3, <1>4, <1>6 DEF GoodState, Separate
<1>8. h < effective
  BY <1>0, <1>4
<1>9. Windows(g, h) /\ Upcoming(g, h) /\ Counted(g, h)
  BY <1>3, <1>6, <1>8 DEF GoodState, Windows, Upcoming, Counted
<1>10. ReceiptFollows(f, g, h)
  BY <1>3, <1>4, <1>6 DEF ReceiptFollows
<1> QED BY <1>5, <1>7, <1>9, <1>10 DEF GoodState, g

\* Naming a guardian leaves a good state.
LEMMA SetGuardianKeeps ==
  ASSUME NEW f, NEW h \in 0..U32, From <= h, GoodState(f, h),
         NEW signer, NEW account \in Accounts, NEW effective \in 0..U32,
         SetGuardianAllowed(f, signer, account, effective, h)
  PROVE  LET g == ApplySetGuardian(f, account, effective) IN GoodState(g, h) /\ ReceiptFollows(f, g, h)
<1> DEFINE r == [account |-> account, effective |-> effective]
           p == IF account = f.guardian THEN None ELSE r
           g == ApplySetGuardian(f, account, effective)
<1>0. From \in Nat /\ U32 \in Nat /\ GuardianDelay \in Nat \ {0}
  BY FeeRulesAssumption
<1>1. f \in FeeState /\ p \in PendingRole \cup {None}
  BY DEF GoodState, PendingRole
<1>2. g = [f EXCEPT !.pendingGuardian = p]
  BY DEF ApplySetGuardian
<1>3. p # None => p.account = account /\ p.effective = effective
  OBVIOUS
<1>4. p # None => /\ h + GuardianDelay <= effective
                  /\ account \notin {f.operator, f.guardian, f.sentinel} \cup Reserved
                  /\ f.pendingOperator # None => account # f.pendingOperator.account
  BY DEF SetGuardianAllowed, EffectiveIn, Holders
<1> HIDE DEF g, p
<1>5. g \in FeeState
  BY <1>1, <1>2 DEF FeeState
<1>6. /\ g.pending = f.pending /\ g.nextGrid = f.nextGrid /\ g.operator = f.operator
      /\ g.guardian = f.guardian /\ g.sentinel = f.sentinel
      /\ g.pendingOperator = f.pendingOperator /\ g.pendingGuardian = p
      /\ g.current = f.current /\ g.previous = f.previous /\ g.nextReset = f.nextReset
  BY <1>1, <1>2 DEF FeeState
<1>7. Separate(g)
  BY <1>3, <1>4, <1>6 DEF GoodState, Separate
<1>8. p # None => h < effective
  BY <1>0, <1>4
<1>9. Windows(g, h) /\ Upcoming(g, h) /\ Counted(g, h)
  BY <1>3, <1>6, <1>8 DEF GoodState, Windows, Upcoming, Counted
<1>10. ReceiptFollows(f, g, h)
  BY <1>3, <1>4, <1>6 DEF ReceiptFollows
<1> QED BY <1>5, <1>7, <1>9, <1>10 DEF GoodState, g

\* Naming a sentinel leaves a good state.
LEMMA SetSentinelKeeps ==
  ASSUME NEW f, NEW h, GoodState(f, h), NEW signer, NEW account \in Accounts,
         SetSentinelAllowed(f, signer, account)
  PROVE  LET g == ApplySetSentinel(f, account) IN GoodState(g, h) /\ ReceiptFollows(f, g, h)
<1> DEFINE g == ApplySetSentinel(f, account)
<1>1. f \in FeeState
  BY DEF GoodState
<1>2. g = [f EXCEPT !.sentinel = account]
  BY DEF ApplySetSentinel
<1>3. /\ account \notin {f.operator, f.guardian, f.sentinel} \cup Reserved
      /\ (f.pendingOperator # None => account # f.pendingOperator.account)
      /\ (f.pendingGuardian # None => account # f.pendingGuardian.account)
  BY DEF SetSentinelAllowed, Holders
<1> HIDE DEF g
<1>4. g \in FeeState
  BY <1>1, <1>2 DEF FeeState
<1>5. /\ g.pending = f.pending /\ g.nextGrid = f.nextGrid /\ g.operator = f.operator
      /\ g.guardian = f.guardian /\ g.sentinel = account
      /\ g.pendingOperator = f.pendingOperator /\ g.pendingGuardian = f.pendingGuardian
      /\ g.current = f.current /\ g.previous = f.previous /\ g.nextReset = f.nextReset
  BY <1>1, <1>2 DEF FeeState
<1>6. Separate(g)
  BY <1>3, <1>5 DEF GoodState, Separate
<1>7. Windows(g, h) /\ Upcoming(g, h) /\ Counted(g, h)
  BY <1>5 DEF GoodState, Windows, Upcoming, Counted
<1>8. ReceiptFollows(f, g, h)
  BY <1>5 DEF ReceiptFollows
<1> QED BY <1>4, <1>6, <1>7, <1>8 DEF GoodState, g

-----------------------------------------------------------------------------
(* A chain of blocks: s is the fee state of each of them *)

\* What is pending at a block was pending at every block since its notice began.
Shown(s, h) ==
  /\ s[h].pending # None =>
       /\ From <= s[h].pending.effective - Delay
       /\ \A k \in s[h].pending.effective - Delay .. h : s[k].pending = s[h].pending
  /\ s[h].pendingOperator # None =>
       /\ From <= s[h].pendingOperator.effective - Delay
       /\ \A k \in s[h].pendingOperator.effective - Delay .. h :
            s[k].pendingOperator = s[h].pendingOperator
  /\ s[h].pendingGuardian # None =>
       /\ From <= s[h].pendingGuardian.effective - GuardianDelay
       /\ \A k \in s[h].pendingGuardian.effective - GuardianDelay .. h :
            s[k].pendingGuardian = s[h].pendingGuardian

\* A rate that was current at a, at most grace blocks ago, is current or previous.
Quoted(s, h) ==
  \A a \in From..h : h <= a + Grace =>
    \/ s[h].current = s[a].current
    \/ s[h].previous = s[a].current /\ a < s[h].current.effective

RateNotice(s, h) ==
  h > From /\ s[h - 1].current # s[h].current =>
    /\ s[h].current.effective = h
    /\ WithinStep(s[h].current.rate, s[h - 1].current.rate)
    /\ From <= h - Delay
    /\ \A k \in h - Delay .. h - 1 : s[k].pending = s[h].current
RoleNotice(s, h) ==
  h > From /\ NoResetIn(h - 1, h) =>
    /\ s[h].guardian # s[h - 1].guardian =>
         /\ From <= h - GuardianDelay
         /\ \A k \in h - GuardianDelay .. h - 1 :
              s[k].pendingGuardian = [account |-> s[h].guardian, effective |-> h]
    /\ s[h].operator \notin {None, s[h - 1].operator} =>
         /\ From <= h - Delay
         /\ \A k \in h - Delay .. h - 1 :
              s[k].pendingOperator = [account |-> s[h].operator, effective |-> h]

FrozenBy(s, x) == s[x].operator = None /\ (x = From \/ s[x - 1].operator # None)
FreezeKept(s, h) ==
  \A x \in From..h : FrozenBy(s, x) /\ NoResetIn(x, h) =>
    /\ s[h].operator = None \/ x + Delay <= h
    /\ s[h].pendingOperator # None => x + Delay <= s[h].pendingOperator.effective
    /\ s[h].pending # None => x + 2 * Delay <= s[h].pending.effective
    /\ s[h].current = s[x].current \/ x + 2 * Delay <= h

Sound(s, h) ==
  /\ GoodState(s[h], h) /\ Shown(s, h) /\ Quoted(s, h) /\ RateNotice(s, h) /\ RoleNotice(s, h)
  /\ FreezeKept(s, h)

\* A block's soundness is about that block and the ones before it.
LEMMA SoundFrame ==
  ASSUME NEW s, NEW t, NEW h \in Nat, From <= h, Sound(s, h), \A k \in From..h : t[k] = s[k]
  PROVE  Sound(t, h)
<1>0. /\ From \in Nat /\ Delay \in Nat /\ GuardianDelay \in Nat /\ Grace \in Nat /\ U32 \in Nat
      /\ Delay <= GuardianDelay
  BY FeeRulesAssumption
<1>1. t[h] = s[h] /\ h \in From..h
  BY <1>0
<1>2. /\ s[h].pending # None => s[h].pending.effective \in Nat
      /\ s[h].pendingOperator # None => s[h].pendingOperator.effective \in Nat
      /\ s[h].pendingGuardian # None => s[h].pendingGuardian.effective \in Nat
  BY HeightsAreNat DEF Sound, GoodState
<1>3. GoodState(t[h], h)
  BY <1>1 DEF Sound
<1>4. Shown(t, h)
  <2>1. Shown(s, h)
    BY DEF Sound
  <2>2. \A e \in Nat, d \in Nat : From <= e - d => e - d .. h \subseteq From..h
    BY <1>0
  <2> QED BY <2>1, <2>2, <1>0, <1>1, <1>2 DEF Shown
<1>5. Quoted(t, h)
  BY <1>1 DEF Sound, Quoted
<1>6. RateNotice(t, h)
  <2> SUFFICES ASSUME h > From, t[h - 1].current # t[h].current
               PROVE  /\ t[h].current.effective = h
                      /\ WithinStep(t[h].current.rate, t[h - 1].current.rate)
                      /\ From <= h - Delay
                      /\ \A k \in h - Delay .. h - 1 : t[k].pending = t[h].current
    BY DEF RateNotice
  <2>1. h - 1 \in From..h
    BY <1>0
  <2>2. RateNotice(s, h) /\ t[h - 1] = s[h - 1]
    BY <2>1 DEF Sound
  <2>3. From <= h - Delay /\ \A k \in h - Delay .. h - 1 : s[k].pending = s[h].current
    BY <2>2, <1>1 DEF RateNotice
  <2>4. \A k \in h - Delay .. h - 1 : k \in From..h
    BY <2>3, <1>0
  <2> QED BY <2>2, <2>3, <2>4, <1>1 DEF RateNotice
<1>7. RoleNotice(t, h)
  <2> SUFFICES ASSUME h > From, NoResetIn(h - 1, h)
               PROVE  /\ t[h].guardian # t[h - 1].guardian =>
                           /\ From <= h - GuardianDelay
                           /\ \A k \in h - GuardianDelay .. h - 1 :
                                t[k].pendingGuardian = [account |-> t[h].guardian, effective |-> h]
                      /\ t[h].operator \notin {None, t[h - 1].operator} =>
                           /\ From <= h - Delay
                           /\ \A k \in h - Delay .. h - 1 :
                                t[k].pendingOperator = [account |-> t[h].operator, effective |-> h]
    BY DEF RoleNotice
  <2>1. h - 1 \in From..h
    BY <1>0
  <2>2. RoleNotice(s, h) /\ t[h - 1] = s[h - 1]
    BY <2>1 DEF Sound
  <2>3. \A d \in Nat : From <= h - d => h - d .. h - 1 \subseteq From..h
    BY <1>0
  <2>4. ASSUME s[h].guardian # s[h - 1].guardian
        PROVE  /\ From <= h - GuardianDelay
               /\ \A k \in h - GuardianDelay .. h - 1 :
                    t[k].pendingGuardian = [account |-> s[h].guardian, effective |-> h]
    <3>1. /\ From <= h - GuardianDelay
          /\ \A k \in h - GuardianDelay .. h - 1 :
               s[k].pendingGuardian = [account |-> s[h].guardian, effective |-> h]
      BY <2>2, <2>4 DEF RoleNotice
    <3> QED BY <3>1, <2>3, <1>0
  <2>5. ASSUME s[h].operator \notin {None, s[h - 1].operator}
        PROVE  /\ From <= h - Delay
               /\ \A k \in h - Delay .. h - 1 :
                    t[k].pendingOperator = [account |-> s[h].operator, effective |-> h]
    <3>1. /\ From <= h - Delay
          /\ \A k \in h - Delay .. h - 1 :
               s[k].pendingOperator = [account |-> s[h].operator, effective |-> h]
      BY <2>2, <2>5 DEF RoleNotice
    <3> QED BY <3>1, <2>3, <1>0
  <2> QED BY <2>2, <2>4, <2>5, <1>1
<1>8. FreezeKept(t, h)
  <2> SUFFICES ASSUME NEW x \in From..h, FrozenBy(t, x), NoResetIn(x, h)
               PROVE  /\ t[h].operator = None \/ x + Delay <= h
                      /\ t[h].pendingOperator # None => x + Delay <= t[h].pendingOperator.effective
                      /\ t[h].pending # None => x + 2 * Delay <= t[h].pending.effective
                      /\ t[h].current = t[x].current \/ x + 2 * Delay <= h
    BY DEF FreezeKept
  <2>1. x # From => x - 1 \in From..h
    BY <1>0
  <2>2. FrozenBy(s, x)
    BY <2>1 DEF FrozenBy
  <2> QED BY <2>2, <1>1 DEF Sound, FreezeKept
<1> QED BY <1>3, <1>4, <1>5, <1>6, <1>7, <1>8 DEF Sound

\* The next block is sound.
LEMMA NextSound ==
  ASSUME NEW s, NEW h \in Nat, From <= h, Sound(s, h), NEW t,
         \A k \in From..h : t[k] = s[k], t[h + 1] = StepFees(s[h], h + 1)
  PROVE  Sound(t, h + 1)
<1> DEFINE f == s[h]  g == t[h + 1]  n == h + 1
<1>0. /\ From \in Nat /\ Delay \in Nat /\ GuardianDelay \in Nat /\ Grace \in Nat /\ U32 \in Nat
      /\ Delay <= GuardianDelay /\ Grace < Delay /\ Delay # 0 /\ n \in Nat /\ n - 1 = h /\ n > From
  BY FeeRulesAssumption
<1>1. Sound(t, h)
  BY SoundFrame
<1>2. t[h] = f
  BY <1>0
<1>3. GoodState(f, h)
  BY DEF Sound
<1> HIDE DEF n
<1>4. GoodState(g, n) /\ RatesFollow(f, g, n) /\ RolesFollow(f, g, n)
  <2>1. g = StepFees(f, n)
    BY DEF n
  <2>2. GoodState(f, n - 1)
    BY <1>0, <1>3
  <2> HIDE DEF f, g
  <2> QED BY <2>1, <2>2, <1>0, StepKeeps
<1>5. t[n] = g
  BY DEF n
<1>6. n = h + 1
  BY DEF n
<1> HIDE DEF f, g
<1>7. /\ f.pending # None => f.pending.effective \in Nat
      /\ f.pendingOperator # None => f.pendingOperator.effective \in Nat
      /\ f.pendingGuardian # None => f.pendingGuardian.effective \in Nat
      /\ f.current.effective \in Nat /\ f.current # None
  BY <1>3, HeightsAreNat, NoneAssumption DEF GoodState
<1>8. Shown(t, n)
  <2>1. Shown(t, h)
    BY <1>1 DEF Sound
  <2>2. \A e \in Nat, d \in Nat : \A k \in e - d .. n : k \in e - d .. h \/ k = n
    BY <1>0, <1>6
  <2>3. ASSUME g.pending # None
        PROVE  /\ From <= g.pending.effective - Delay
               /\ \A k \in g.pending.effective - Delay .. n : t[k].pending = g.pending
    BY <2>1, <2>2, <2>3, <1>0, <1>2, <1>4, <1>5, <1>7 DEF Shown, RolesFollow
  <2>4. ASSUME g.pendingOperator # None
        PROVE  /\ From <= g.pendingOperator.effective - Delay
               /\ \A k \in g.pendingOperator.effective - Delay .. n : t[k].pendingOperator = g.pendingOperator
    BY <2>1, <2>2, <2>4, <1>0, <1>2, <1>4, <1>5, <1>7 DEF Shown, RolesFollow
  <2>5. ASSUME g.pendingGuardian # None
        PROVE  /\ From <= g.pendingGuardian.effective - GuardianDelay
               /\ \A k \in g.pendingGuardian.effective - GuardianDelay .. n :
                    t[k].pendingGuardian = g.pendingGuardian
    BY <2>1, <2>2, <2>5, <1>0, <1>2, <1>4, <1>5, <1>7 DEF Shown, RolesFollow
  <2> QED BY <2>3, <2>4, <2>5, <1>5 DEF Shown
<1>9. Quoted(t, n)
  <2> SUFFICES ASSUME NEW a \in From..n, n <= a + Grace
               PROVE  g.current = t[a].current \/ (g.previous = t[a].current /\ a < g.current.effective)
    BY <1>5 DEF Quoted
  <2>1. CASE a = n
    BY <2>1, <1>5
  <2>2. CASE a # n
    <3>1. a \in From..h /\ h <= a + Grace /\ a <= h /\ Grace # 0
      BY <2>2, <1>0, <1>6
    <3>2. f.current = t[a].current \/ (f.previous = t[a].current /\ a < f.current.effective)
      BY <3>1, <1>1, <1>2 DEF Sound, Quoted
    <3>3. CASE f.current = t[a].current
      <4>1. CASE g.current = f.current
        BY <3>3, <4>1
      <4>2. CASE g.current # f.current
        <5>1. g.previous = f.current /\ g.current.effective = n
          BY <4>2, <3>1, <1>4 DEF RatesFollow
        <5> QED BY <5>1, <3>1, <3>3, <1>0, <1>6
      <4> QED BY <4>1, <4>2
    <3>4. CASE f.previous = t[a].current /\ a < f.current.effective
      <4>1. n < f.current.effective + Grace
        BY <3>4, <1>0, <1>7
      <4>2. ~(f.pending # None /\ f.pending.effective = n)
        BY <4>1, <1>0, <1>3, <1>7 DEF GoodState, Windows
      <4>3. g.current = f.current /\ g.previous = f.previous
        BY <4>1, <4>2, <1>0, <1>4, <1>7 DEF RatesFollow
      <4> QED BY <4>3, <3>4
    <3> QED BY <3>2, <3>3, <3>4
  <2> QED BY <2>1, <2>2
<1>10. RateNotice(t, n)
  <2> SUFFICES ASSUME f.current # g.current
               PROVE  /\ g.current.effective = n /\ WithinStep(g.current.rate, f.current.rate)
                      /\ From <= n - Delay
                      /\ \A k \in n - Delay .. n - 1 : t[k].pending = g.current
    BY <1>0, <1>2, <1>5 DEF RateNotice
  <2>1. f.pending # None /\ f.pending.effective = n /\ g.current = f.pending
    BY <1>4 DEF RatesFollow
  <2>2. WithinStep(f.pending.rate, f.current.rate)
    BY <2>1, <1>3 DEF GoodState, Windows
  <2>3. From <= n - Delay /\ \A k \in n - Delay .. h : t[k].pending = f.pending
    BY <2>1, <1>1, <1>2 DEF Sound, Shown
  <2> QED BY <2>1, <2>2, <2>3, <1>0
<1>11. RoleNotice(t, n)
  <2> SUFFICES ASSUME NoResetIn(n - 1, n)
               PROVE  /\ g.guardian # f.guardian =>
                           /\ From <= n - GuardianDelay
                           /\ \A k \in n - GuardianDelay .. n - 1 :
                                t[k].pendingGuardian = [account |-> g.guardian, effective |-> n]
                      /\ g.operator \notin {None, f.operator} =>
                           /\ From <= n - Delay
                           /\ \A k \in n - Delay .. n - 1 :
                                t[k].pendingOperator = [account |-> g.operator, effective |-> n]
    BY <1>0, <1>2, <1>5 DEF RoleNotice
  <2>1. ASSUME g.guardian # f.guardian
        PROVE  /\ From <= n - GuardianDelay
               /\ \A k \in n - GuardianDelay .. n - 1 :
                    t[k].pendingGuardian = [account |-> g.guardian, effective |-> n]
    <3> DEFINE p == [account |-> g.guardian, effective |-> n]
    <3>1. f.pendingGuardian # None /\ f.pendingGuardian = p
      BY <2>1, <1>4 DEF RolesFollow
    <3>2. p.effective = n
      OBVIOUS
    <3> HIDE DEF p
    <3>3. From <= n - GuardianDelay /\ \A k \in n - GuardianDelay .. h : t[k].pendingGuardian = p
      BY <3>1, <3>2, <1>1, <1>2 DEF Sound, Shown
    <3> QED BY <3>3, <1>0 DEF p
  <2>2. ASSUME g.operator \notin {None, f.operator}
        PROVE  /\ From <= n - Delay
               /\ \A k \in n - Delay .. n - 1 :
                    t[k].pendingOperator = [account |-> g.operator, effective |-> n]
    <3> DEFINE p == [account |-> g.operator, effective |-> n]
    <3>1. f.pendingOperator # None /\ f.pendingOperator = p
      BY <2>2, <1>4 DEF RolesFollow
    <3>2. p.effective = n
      OBVIOUS
    <3> HIDE DEF p
    <3>3. From <= n - Delay /\ \A k \in n - Delay .. h : t[k].pendingOperator = p
      BY <3>1, <3>2, <1>1, <1>2 DEF Sound, Shown
    <3> QED BY <3>3, <1>0 DEF p
  <2> QED BY <2>1, <2>2
<1>12. FreezeKept(t, n)
  <2> SUFFICES ASSUME NEW x \in From..n, FrozenBy(t, x), NoResetIn(x, n)
               PROVE  /\ g.operator = None \/ x + Delay <= n
                      /\ g.pendingOperator # None => x + Delay <= g.pendingOperator.effective
                      /\ g.pending # None => x + 2 * Delay <= g.pending.effective
                      /\ g.current = t[x].current \/ x + 2 * Delay <= n
    BY <1>5 DEF FreezeKept
  <2>1. x # n
    BY <1>0, <1>2, <1>4, <1>5 DEF FrozenBy, RolesFollow
  <2>2. x \in From..h
    BY <2>1, <1>0, <1>6
  <2>3. NoResetIn(x, h) /\ NoResetIn(n - 1, n)
    <3>1. \A i \in DOMAIN Resets : Resets[i].at \in Nat
      BY ResetsTyped
    <3> QED BY <3>1, <2>2, <1>0, <1>6 DEF NoResetIn
  <2>4. /\ f.operator = None \/ x + Delay <= h
        /\ f.pendingOperator # None => x + Delay <= f.pendingOperator.effective
        /\ f.pending # None => x + 2 * Delay <= f.pending.effective
        /\ f.current = t[x].current \/ x + 2 * Delay <= h
    BY <2>2, <2>3, <1>1, <1>2 DEF Sound, FreezeKept
  <2>5. g.operator = None \/ x + Delay <= n
    <3>1. CASE g.operator = f.operator
      BY <3>1, <2>2, <2>4, <1>0, <1>6
    <3>2. CASE g.operator # f.operator
      <4>1. f.pendingOperator # None /\ f.pendingOperator = [account |-> g.operator, effective |-> n]
        BY <3>2, <2>3, <1>4 DEF RolesFollow
      <4>2. f.pendingOperator # None /\ f.pendingOperator.effective = n
        BY <4>1
      <4> QED BY <4>2, <2>4
    <3> QED BY <3>1, <3>2
  <2>6. g.pendingOperator # None => x + Delay <= g.pendingOperator.effective
    BY <2>4, <1>4 DEF RolesFollow
  <2>7. g.pending # None => x + 2 * Delay <= g.pending.effective
    BY <2>4, <1>4 DEF RolesFollow
  <2>8. g.current = t[x].current \/ x + 2 * Delay <= n
    BY <2>2, <2>4, <1>0, <1>4, <1>6 DEF RatesFollow
  <2> QED BY <2>5, <2>6, <2>7, <2>8
<1> QED BY <1>4, <1>5, <1>6, <1>8, <1>9, <1>10, <1>11, <1>12 DEF Sound

\* A receipt leaves the block sound.
LEMMA ReceiptSound ==
  ASSUME NEW s, NEW h \in Nat, From <= h, Sound(s, h), NEW t,
         \A k \in From..h - 1 : t[k] = s[k],
         GoodState(t[h], h), ReceiptFollows(s[h], t[h], h)
  PROVE  Sound(t, h)
<1> DEFINE f == s[h]  g == t[h]
<1>0. /\ From \in Nat /\ Delay \in Nat /\ GuardianDelay \in Nat /\ Grace \in Nat /\ U32 \in Nat
      /\ Delay <= GuardianDelay /\ Delay # 0
  BY FeeRulesAssumption
<1>1. GoodState(f, h) /\ GoodState(g, h)
  BY DEF Sound
<1>2. ReceiptFollows(f, g, h)
  OBVIOUS
<1> HIDE DEF f, g
<1>3. s[h] = f /\ t[h] = g
  BY DEF f, g
<1>4. /\ f.pending # None => f.pending.effective \in Nat
      /\ f.pendingOperator # None => f.pendingOperator.effective \in Nat
      /\ f.pendingGuardian # None => f.pendingGuardian.effective \in Nat
      /\ g.pending # None => g.pending.effective \in Nat
      /\ g.pendingOperator # None => g.pendingOperator.effective \in Nat
      /\ g.pendingGuardian # None => g.pendingGuardian.effective \in Nat
  BY <1>1, HeightsAreNat DEF GoodState
<1>5. \A k \in From..h : k = h \/ (k \in From..h - 1 /\ t[k] = s[k])
  BY <1>0
<1>6. g.current = f.current /\ g.previous = f.previous /\ g.guardian = f.guardian
  BY <1>2 DEF ReceiptFollows
<1>7. \A k \in From..h : t[k].current = s[k].current
  BY <1>3, <1>5, <1>6
<1>8. Shown(t, h)
  <2>1. Shown(s, h)
    BY DEF Sound
  <2>2. ASSUME g.pending # None
        PROVE  /\ From <= g.pending.effective - Delay
               /\ \A k \in g.pending.effective - Delay .. h : t[k].pending = g.pending
    <3>1. CASE g.pending = f.pending
      <4>1. /\ From <= g.pending.effective - Delay
            /\ \A k \in g.pending.effective - Delay .. h : s[k].pending = g.pending
        BY <2>1, <2>2, <3>1, <1>3 DEF Shown
      <4>2. \A k \in g.pending.effective - Delay .. h : k \in From..h
        BY <4>1, <2>2, <1>0, <1>4
      <4> QED BY <4>1, <4>2, <3>1, <1>3, <1>5
    <3>2. CASE h + Delay <= g.pending.effective
      <4>1. \A k \in g.pending.effective - Delay .. h : k = h
        BY <3>2, <2>2, <1>0, <1>4
      <4> QED BY <4>1, <3>2, <2>2, <1>0, <1>3, <1>4
    <3> QED BY <3>1, <3>2, <2>2, <1>2 DEF ReceiptFollows
  <2>3. ASSUME g.pendingOperator # None
        PROVE  /\ From <= g.pendingOperator.effective - Delay
               /\ \A k \in g.pendingOperator.effective - Delay .. h :
                    t[k].pendingOperator = g.pendingOperator
    <3>1. CASE g.pendingOperator = f.pendingOperator
      <4>1. /\ From <= g.pendingOperator.effective - Delay
            /\ \A k \in g.pendingOperator.effective - Delay .. h : s[k].pendingOperator = g.pendingOperator
        BY <2>1, <2>3, <3>1, <1>3 DEF Shown
      <4>2. \A k \in g.pendingOperator.effective - Delay .. h : k \in From..h
        BY <4>1, <2>3, <1>0, <1>4
      <4> QED BY <4>1, <4>2, <3>1, <1>3, <1>5
    <3>2. CASE h + Delay <= g.pendingOperator.effective
      <4>1. \A k \in g.pendingOperator.effective - Delay .. h : k = h
        BY <3>2, <2>3, <1>0, <1>4
      <4> QED BY <4>1, <3>2, <2>3, <1>0, <1>3, <1>4
    <3> QED BY <3>1, <3>2, <2>3, <1>2 DEF ReceiptFollows
  <2>4. ASSUME g.pendingGuardian # None
        PROVE  /\ From <= g.pendingGuardian.effective - GuardianDelay
               /\ \A k \in g.pendingGuardian.effective - GuardianDelay .. h :
                    t[k].pendingGuardian = g.pendingGuardian
    <3>1. CASE g.pendingGuardian = f.pendingGuardian
      <4>1. /\ From <= g.pendingGuardian.effective - GuardianDelay
            /\ \A k \in g.pendingGuardian.effective - GuardianDelay .. h :
                 s[k].pendingGuardian = g.pendingGuardian
        BY <2>1, <2>4, <3>1, <1>3 DEF Shown
      <4>2. \A k \in g.pendingGuardian.effective - GuardianDelay .. h : k \in From..h
        BY <4>1, <2>4, <1>0, <1>4
      <4> QED BY <4>1, <4>2, <3>1, <1>3, <1>5
    <3>2. CASE h + GuardianDelay <= g.pendingGuardian.effective
      <4>1. \A k \in g.pendingGuardian.effective - GuardianDelay .. h : k = h
        BY <3>2, <2>4, <1>0, <1>4
      <4> QED BY <4>1, <3>2, <2>4, <1>0, <1>3, <1>4
    <3> QED BY <3>1, <3>2, <2>4, <1>2 DEF ReceiptFollows
  <2> QED BY <2>2, <2>3, <2>4, <1>3 DEF Shown
<1>9. Quoted(t, h)
  BY <1>3, <1>6, <1>7 DEF Sound, Quoted
<1>10. RateNotice(t, h)
  <2> SUFFICES ASSUME h > From, t[h - 1].current # g.current
               PROVE  /\ g.current.effective = h
                      /\ WithinStep(g.current.rate, t[h - 1].current.rate)
                      /\ From <= h - Delay
                      /\ \A k \in h - Delay .. h - 1 : t[k].pending = g.current
    BY <1>3 DEF RateNotice
  <2>1. h - 1 \in From..h - 1
    BY <1>0
  <2>2. /\ f.current.effective = h /\ WithinStep(f.current.rate, s[h - 1].current.rate)
        /\ From <= h - Delay /\ \A k \in h - Delay .. h - 1 : s[k].pending = f.current
    BY <2>1, <1>3, <1>6 DEF Sound, RateNotice
  <2>3. \A k \in h - Delay .. h - 1 : k \in From..h - 1
    BY <2>2, <1>0
  <2> QED BY <2>1, <2>2, <2>3, <1>6
<1>11. RoleNotice(t, h)
  <2> SUFFICES ASSUME h > From, NoResetIn(h - 1, h)
               PROVE  /\ g.guardian # t[h - 1].guardian =>
                           /\ From <= h - GuardianDelay
                           /\ \A k \in h - GuardianDelay .. h - 1 :
                                t[k].pendingGuardian = [account |-> g.guardian, effective |-> h]
                      /\ g.operator \notin {None, t[h - 1].operator} =>
                           /\ From <= h - Delay
                           /\ \A k \in h - Delay .. h - 1 :
                                t[k].pendingOperator = [account |-> g.operator, effective |-> h]
    BY <1>3 DEF RoleNotice
  <2>1. h - 1 \in From..h - 1
    BY <1>0
  <2>2. RoleNotice(s, h) /\ t[h - 1] = s[h - 1]
    BY <2>1 DEF Sound
  <2>3. \A d \in Nat : From <= h - d => \A k \in h - d .. h - 1 : k \in From..h - 1
    BY <1>0
  <2>4. ASSUME g.guardian # s[h - 1].guardian
        PROVE  /\ From <= h - GuardianDelay
               /\ \A k \in h - GuardianDelay .. h - 1 :
                    t[k].pendingGuardian = [account |-> g.guardian, effective |-> h]
    <3>1. /\ From <= h - GuardianDelay
          /\ \A k \in h - GuardianDelay .. h - 1 :
               s[k].pendingGuardian = [account |-> g.guardian, effective |-> h]
      BY <2>2, <2>4, <1>3, <1>6 DEF RoleNotice
    <3> QED BY <3>1, <2>3, <1>0
  <2>5. ASSUME g.operator \notin {None, s[h - 1].operator}
        PROVE  /\ From <= h - Delay
               /\ \A k \in h - Delay .. h - 1 :
                    t[k].pendingOperator = [account |-> g.operator, effective |-> h]
    <3>0. g.operator = f.operator
      BY <2>5, <1>2 DEF ReceiptFollows
    <3>1. /\ From <= h - Delay
          /\ \A k \in h - Delay .. h - 1 :
               s[k].pendingOperator = [account |-> g.operator, effective |-> h]
      BY <2>2, <2>5, <3>0, <1>3 DEF RoleNotice
    <3> QED BY <3>1, <2>3, <1>0
  <2> QED BY <2>2, <2>4, <2>5
<1>12. FreezeKept(t, h)
  <2> SUFFICES ASSUME NEW x \in From..h, FrozenBy(t, x), NoResetIn(x, h)
               PROVE  /\ g.operator = None \/ x + Delay <= h
                      /\ g.pendingOperator # None => x + Delay <= g.pendingOperator.effective
                      /\ g.pending # None => x + 2 * Delay <= g.pending.effective
                      /\ g.current = t[x].current \/ x + 2 * Delay <= h
    BY <1>3 DEF FreezeKept
  <2>0. x # From => x - 1 \in From..h - 1
    BY <1>0
  <2>1. CASE FrozenBy(s, x)
    <3>1. /\ f.operator = None \/ x + Delay <= h
          /\ f.pendingOperator # None => x + Delay <= f.pendingOperator.effective
          /\ f.pending # None => x + 2 * Delay <= f.pending.effective
          /\ f.current = s[x].current \/ x + 2 * Delay <= h
      BY <2>1, <1>3 DEF Sound, FreezeKept
    <3>2. g.operator = None \/ x + Delay <= h
      BY <3>1, <1>2 DEF ReceiptFollows
    <3>3. g.pendingOperator # None => x + Delay <= g.pendingOperator.effective
      <4>1. x + Delay <= h + Delay
        BY <1>0
      <4> QED BY <4>1, <3>1, <1>0, <1>2, <1>4 DEF ReceiptFollows
    <3>4. g.pending # None => x + 2 * Delay <= g.pending.effective
      BY <3>1, <1>0, <1>2, <1>4 DEF ReceiptFollows
    <3>5. g.current = t[x].current \/ x + 2 * Delay <= h
      BY <3>1, <1>6, <1>7
    <3> QED BY <3>2, <3>3, <3>4, <3>5
  <2>2. CASE ~FrozenBy(s, x)
    <3>1. x = h
      BY <2>0, <2>2, <1>5 DEF FrozenBy
    <3>2. g.operator = None /\ f.operator # None
      BY <2>0, <2>2, <3>1, <1>3, <1>5 DEF FrozenBy
    <3>3. g.pendingOperator = None /\ g.pending = None
      BY <3>2, <1>2 DEF ReceiptFollows
    <3> QED BY <3>1, <3>2, <3>3, <1>3
  <2> QED BY <2>1, <2>2
<1> QED BY <1>1, <1>3, <1>8, <1>9, <1>10, <1>11, <1>12 DEF Sound

\* The schedule's first block is sound.
LEMMA FirstSound == ASSUME NEW t, t[From] = StepFees(None, From) PROVE Sound(t, From)
<1> DEFINE g == t[From]
<1>0. /\ From \in Nat /\ Delay \in Nat /\ GuardianDelay \in Nat /\ Delay <= GuardianDelay
  BY FeeRulesAssumption
<1>1. GoodState(g, From)
  BY GenesisGood
<1>2. g.pending = None /\ g.pendingOperator = None /\ g.pendingGuardian = None /\ g.operator # None
  <2>1. FirstRoles.operator # None
    BY FeeRulesAssumption DEF Roles
  <2> QED BY <2>1, GenesisStep DEF GenesisFeeState
<1>3. \A x \in From..From : x = From
  BY <1>0
<1> HIDE DEF g
<1>4. t[From] = g
  BY DEF g
<1>5. Shown(t, From) /\ Quoted(t, From) /\ FreezeKept(t, From)
  BY <1>2, <1>3, <1>4 DEF Shown, Quoted, FreezeKept, FrozenBy
<1>6. RateNotice(t, From) /\ RoleNotice(t, From)
  BY <1>0 DEF RateNotice, RoleNotice
<1> QED BY <1>1, <1>4, <1>5, <1>6 DEF Sound

-----------------------------------------------------------------------------
(* The reader *)

\* The inductive invariant: one fee state per block of the chain, each sound.
Chain ==
  /\ height \in Nat /\ Start <= height /\ height <= MaxHeight
  /\ states = [h \in Start..height |-> states[h]]
  /\ \A h \in Start..height : h < From => states[h] = None
  /\ \A h \in From..height : Sound(states, h)

\* The chain starts with the activation block, before the schedule.
LEMMA ChainInit == Init => Chain
<1> SUFFICES ASSUME Init PROVE Chain
  OBVIOUS
<1>0. Start \in Nat /\ From \in Nat /\ Start < From /\ Start <= MaxHeight
  BY FeeRulesAssumption, FeeReaderAssumption
<1>1. height = Start /\ states = [h \in {Start} |-> None]
  BY DEF Init
<1>2. Start..height = {Start} /\ From..height = {}
  BY <1>0, <1>1
<1> QED BY <1>0, <1>1, <1>2 DEF Chain

\* The next block keeps the chain.
LEMMA ChainNextBlock == ASSUME Chain, NextBlock PROVE Chain'
<1> DEFINE n == height + 1  t == states'
<1>0. /\ Start \in Nat /\ From \in Nat /\ Start < From /\ height \in Nat /\ Start <= height
      /\ MaxHeight \in Nat
  BY FeeRulesAssumption, FeeReaderAssumption DEF Chain
<1>1. /\ height < MaxHeight /\ height' = n
      /\ t = [h \in Start..n |-> IF h <= height THEN states[h] ELSE StepFees(states[height], n)]
  BY DEF NextBlock, Tip
<1>2. \A h \in Start..height : t[h] = states[h]
  BY <1>0, <1>1
<1>3. t[n] = StepFees(states[height], n)
  BY <1>0, <1>1
<1>4. t = [h \in Start..n |-> t[h]]
  BY <1>1
<1>5. n \in Nat /\ Start <= n /\ n <= MaxHeight /\ Start..n = Start..height \cup {n}
  BY <1>0, <1>1
<1> HIDE DEF n, t
<1>6. ASSUME NEW h \in Start..n, h < From PROVE t[h] = None
  <2>1. CASE h \in Start..height
    BY <2>1, <1>2, <1>6 DEF Chain
  <2>2. CASE h = n
    <3>1. n < From /\ height \in Start..height /\ height < From
      BY <2>2, <1>0, <1>6 DEF n
    <3>2. states[height] = None
      BY <3>1 DEF Chain
    <3> QED BY <2>2, <3>1, <3>2, <1>3 DEF StepFees
  <2> QED BY <2>1, <2>2, <1>5
<1>7. ASSUME NEW h \in From..n PROVE Sound(t, h)
  <2>1. CASE h # n
    <3>1. h \in From..height /\ h \in Nat /\ From <= h
      BY <2>1, <1>0 DEF n
    <3>2. \A k \in From..h : k \in Start..height
      BY <3>1, <1>0
    <3> QED BY <3>1, <3>2, <1>2, SoundFrame DEF Chain
  <2>2. CASE h = n /\ n = From
    <3>1. height \in Start..height /\ height < From
      BY <2>2, <1>0 DEF n
    <3>2. states[height] = None
      BY <3>1 DEF Chain
    <3> QED BY <2>2, <3>2, <1>3, FirstSound
  <2>3. CASE h = n /\ n # From
    <3>1. height \in From..height /\ From <= height
      BY <2>3, <1>0 DEF n
    <3>2. Sound(states, height)
      BY <3>1 DEF Chain
    <3>3. \A k \in From..height : t[k] = states[k]
      BY <1>0, <1>2
    <3>4. t[height + 1] = StepFees(states[height], height + 1)
      BY <1>3 DEF n
    <3>5. Sound(t, height + 1)
      BY <3>1, <3>2, <3>3, <3>4, <1>0, NextSound
    <3> QED BY <2>3, <3>5 DEF n
  <2> QED BY <2>1, <2>2, <2>3
<1> QED BY <1>1, <1>4, <1>5, <1>6, <1>7 DEF Chain, t

\* A receipt keeps the chain.
LEMMA ChainApplied ==
  ASSUME Chain, From <= height, NEW g, Applied(g), GoodState(g, height),
         ReceiptFollows(Tip, g, height)
  PROVE  Chain'
<1>0. Start \in Nat /\ From \in Nat /\ Start < From /\ height \in Nat
  BY FeeRulesAssumption, FeeReaderAssumption DEF Chain
<1>1. height' = height /\ states' = [states EXCEPT ![height] = g]
  BY DEF Applied
<1>2. states = [h \in Start..height |-> states[h]]
  BY DEF Chain
<1> DEFINE t == states'
<1>3. t = [h \in Start..height |-> IF h = height THEN g ELSE states[h]]
  BY <1>1, <1>2
<1>4. t[height] = g /\ \A h \in Start..height : h # height => t[h] = states[h]
  BY <1>0, <1>3
<1>5. t = [h \in Start..height |-> t[h]]
  BY <1>3
<1> HIDE DEF t
<1>6. \A h \in Start..height : h < From => t[h] = None
  BY <1>0, <1>4 DEF Chain
<1>7. ASSUME NEW h \in From..height PROVE Sound(t, h)
  <2>0. Sound(states, h) /\ h \in Nat /\ From <= h
    BY <1>0 DEF Chain
  <2>1. CASE h = height
    <3>1. \A k \in From..h - 1 : t[k] = states[k]
      BY <2>1, <1>0, <1>4
    <3> QED BY <2>0, <2>1, <3>1, <1>4, ReceiptSound DEF Tip
  <2>2. CASE h # height
    <3>1. \A k \in From..h : t[k] = states[k]
      BY <2>2, <1>0, <1>4
    <3> QED BY <2>0, <3>1, SoundFrame
  <2> QED BY <2>1, <2>2
<1> QED BY <1>1, <1>5, <1>6, <1>7 DEF Chain, t

\* A rollback keeps the blocks below.
LEMMA ChainRollback == ASSUME Chain, Rollback PROVE Chain'
<1>0. Start \in Nat /\ From \in Nat /\ Start < From /\ height \in Nat /\ MaxHeight \in Nat
  BY FeeRulesAssumption, FeeReaderAssumption DEF Chain
<1>1. PICK n \in Start..height - 1 : height' = n /\ states' = [k \in Start..n |-> states[k]]
  BY DEF Rollback
<1> DEFINE t == states'
<1>2. n \in Nat /\ Start <= n /\ n <= MaxHeight /\ n < height
  BY <1>0 DEF Chain
<1>3. \A k \in Start..n : t[k] = states[k]
  BY <1>1
<1>4. t = [k \in Start..n |-> t[k]]
  BY <1>1
<1> HIDE DEF t
<1>5. ASSUME NEW h \in Start..n, h < From PROVE t[h] = None
  <2>1. h \in Start..height
    BY <1>0, <1>2
  <2> QED BY <2>1, <1>3, <1>5 DEF Chain
<1>6. ASSUME NEW h \in From..n PROVE Sound(t, h)
  <2>1. h \in From..height /\ h \in Nat /\ From <= h
    BY <1>0, <1>2
  <2>2. \A k \in From..h : t[k] = states[k]
    BY <2>1, <1>0, <1>2, <1>3
  <2> QED BY <2>1, <2>2, SoundFrame DEF Chain
<1> QED BY <1>1, <1>2, <1>4, <1>5, <1>6 DEF Chain, t

\* Every step keeps the chain.
LEMMA ChainStep == Chain /\ [Next]_vars => Chain'
<1> SUFFICES ASSUME Chain, [Next]_vars PROVE Chain'
  OBVIOUS
<1>0. /\ From \in Nat /\ U32 \in Nat /\ height \in Nat /\ height <= U32
  BY FeeRulesAssumption, FeeReaderAssumption DEF Chain
<1>1. ASSUME Reading PROVE From <= height /\ height \in 0..U32 /\ GoodState(Tip, height)
  <2>1. From <= height
    BY <1>1, <1>0 DEF Reading
  <2>2. height \in From..height
    BY <2>1, <1>0
  <2> QED BY <2>1, <2>2, <1>0 DEF Chain, Sound, Tip
<1>2. CASE NextBlock
  BY <1>2, ChainNextBlock
<1>3. CASE FeeRate
  <2>1. PICK signer \in Accounts, rate \in Rates, effective \in 0..U32 :
          /\ FeeRateAllowed(Tip, signer, rate, effective, height)
          /\ Applied(ApplyFeeRate(Tip, rate, effective, height))
    BY <1>3 DEF FeeRate
  <2>2. From <= height /\ height \in 0..U32 /\ GoodState(Tip, height)
    BY <1>1, <1>3 DEF FeeRate
  <2>3. LET g == ApplyFeeRate(Tip, rate, effective, height) IN
        GoodState(g, height) /\ ReceiptFollows(Tip, g, height)
    BY <2>1, <2>2, FeeRateKeeps
  <2> QED BY <2>1, <2>2, <2>3, ChainApplied
<1>4. CASE Cancel
  <2>1. Applied(ApplyCancel(Tip)) /\ From <= height /\ GoodState(Tip, height)
    BY <1>1, <1>4 DEF Cancel
  <2>2. GoodState(ApplyCancel(Tip), height) /\ ReceiptFollows(Tip, ApplyCancel(Tip), height)
    BY <2>1, CancelKeeps
  <2> QED BY <2>1, <2>2, ChainApplied
<1>5. CASE Freeze
  <2>1. Applied(ApplyFreeze(Tip)) /\ From <= height /\ GoodState(Tip, height)
    BY <1>1, <1>5 DEF Freeze
  <2>2. GoodState(ApplyFreeze(Tip), height) /\ ReceiptFollows(Tip, ApplyFreeze(Tip), height)
    BY <2>1, FreezeKeeps
  <2> QED BY <2>1, <2>2, ChainApplied
<1>6. CASE SetOperator
  <2>1. PICK signer \in Accounts, account \in Accounts, effective \in 0..U32 :
          /\ SetOperatorAllowed(Tip, signer, account, effective, height)
          /\ Applied(ApplySetOperator(Tip, account, effective))
    BY <1>6 DEF SetOperator
  <2>2. From <= height /\ height \in 0..U32 /\ GoodState(Tip, height)
    BY <1>1, <1>6 DEF SetOperator
  <2>3. LET g == ApplySetOperator(Tip, account, effective) IN
        GoodState(g, height) /\ ReceiptFollows(Tip, g, height)
    BY <2>1, <2>2, SetOperatorKeeps
  <2> QED BY <2>1, <2>2, <2>3, ChainApplied
<1>7. CASE SetGuardian
  <2>1. PICK signer \in Accounts, account \in Accounts, effective \in 0..U32 :
          /\ SetGuardianAllowed(Tip, signer, account, effective, height)
          /\ Applied(ApplySetGuardian(Tip, account, effective))
    BY <1>7 DEF SetGuardian
  <2>2. From <= height /\ height \in 0..U32 /\ GoodState(Tip, height)
    BY <1>1, <1>7 DEF SetGuardian
  <2>3. LET g == ApplySetGuardian(Tip, account, effective) IN
        GoodState(g, height) /\ ReceiptFollows(Tip, g, height)
    BY <2>1, <2>2, SetGuardianKeeps
  <2> QED BY <2>1, <2>2, <2>3, ChainApplied
<1>8. CASE SetSentinel
  <2>1. PICK signer \in Accounts, account \in Accounts :
          /\ SetSentinelAllowed(Tip, signer, account)
          /\ Applied(ApplySetSentinel(Tip, account))
    BY <1>8 DEF SetSentinel
  <2>2. From <= height /\ GoodState(Tip, height)
    BY <1>1, <1>8 DEF SetSentinel
  <2>3. LET g == ApplySetSentinel(Tip, account) IN
        GoodState(g, height) /\ ReceiptFollows(Tip, g, height)
    BY <2>1, <2>2, SetSentinelKeeps
  <2> QED BY <2>1, <2>2, <2>3, ChainApplied
<1>9. CASE Rollback
  BY <1>9, ChainRollback
<1>10. CASE UNCHANGED vars
  BY <1>10 DEF vars, Chain
<1> QED BY <1>2, <1>3, <1>4, <1>5, <1>6, <1>7, <1>8, <1>9, <1>10 DEF Next

\* The chain is an invariant.
LEMMA ChainHolds == Spec => []Chain
<1> QED BY ChainInit, ChainStep, PTL DEF Spec

\* The blocks of the properties are those of the chain.
LEMMA ChainBlocks ==
  ASSUME Chain
  PROVE  /\ Blocks = Start..height /\ Active = From..height /\ Start <= From
         /\ Start \in Nat /\ From \in Nat /\ height \in Nat
<1>1. Start \in Nat /\ From \in Nat /\ Start <= From /\ height \in Nat
  BY FeeRulesAssumption, FeeReaderAssumption DEF Chain
<1>2. Blocks = Start..height
  BY DEF Chain, Blocks
<1> QED BY <1>1, <1>2 DEF Active

\* The reader never halts on its fee state (checkFeeState after every receipt and block).
THEOREM ReaderNeverHalts == Spec => []NeverHalts
<1>1. ASSUME Chain PROVE NeverHalts
  <2> SUFFICES ASSUME NEW h \in Blocks
               PROVE  IF h < From THEN states[h] = None
                      ELSE states[h] # None /\ CheckFeeState(states[h], h)
    BY DEF NeverHalts
  <2>1. CASE h < From
    BY <2>1, <1>1, ChainBlocks DEF Chain
  <2>2. CASE ~(h < From)
    <3>1. h \in From..height /\ h \in Nat
      BY <2>2, <1>1, ChainBlocks
    <3>2. GoodState(states[h], h)
      BY <3>1, <1>1 DEF Chain, Sound
    <3> QED BY <2>2, <3>1, <3>2, GoodPasses, NoneAssumption DEF GoodState
  <2> QED BY <2>1, <2>2
<1> QED BY <1>1, ChainHolds, PTL

\* A fee quoted at a block is accepted for the next grace blocks of every chain that holds the block.
THEOREM QuotesAreKept == Spec => []QuotedFeesAccepted
<1>1. ASSUME Chain PROVE QuotedFeesAccepted
  <2> SUFFICES ASSUME NEW a \in Blocks, NEW h \in Blocks, a < h, h <= a + Grace
               PROVE  QuotedFees(states[a]) \subseteq AcceptedFees(states[h], h)
    BY DEF QuotedFeesAccepted
  <2>0. /\ Start \in Nat /\ From \in Nat /\ height \in Nat /\ Start <= From /\ Grace \in Nat
        /\ a \in Start..height /\ h \in Start..height
    BY <1>1, ChainBlocks, FeeRulesAssumption
  <2>1. CASE a < From
    <3>1. states[a] = None
      BY <2>0, <2>1, <1>1 DEF Chain
    <3>2. h < From + Grace
      BY <2>0, <2>1
    <3> QED BY <3>1, <3>2 DEF QuotedFees, AcceptedFees, AllowedFees, LegacyWindow
  <2>2. CASE ~(a < From)
    <3>1. a \in From..height /\ h \in From..height /\ a \in From..h /\ h >= From
      BY <2>0, <2>2
    <3>2. GoodState(states[a], a) /\ Quoted(states, h)
      BY <3>1, <1>1 DEF Chain, Sound
    <3>3. states[a] \in FeeState /\ states[a] # None
      BY <3>2, NoneAssumption DEF GoodState
    <3>4. states[a].current # None
      BY <3>3, HeightsAreNat, NoneAssumption
    <3>5. states[h].current = states[a].current \/ states[h].previous = states[a].current
      BY <3>1, <3>2 DEF Quoted
    <3>6. FeeAt[states[a].current.rate] \in AllowedFees(states[h], h)
      BY <3>4, <3>5 DEF AllowedFees
    <3> QED BY <3>1, <3>3, <3>6 DEF QuotedFees, AcceptedFees
  <2> QED BY <2>1, <2>2
<1> QED BY <1>1, ChainHolds, PTL

\* At most two amounts are accepted at any height, and two rates differ by one step.
THEOREM TwoFeesAtMost == Spec => []AtMostTwoFees
<1>1. ASSUME Chain PROVE AtMostTwoFees
  <2> SUFFICES ASSUME NEW h \in Active, states[h].previous # None
               PROVE  ~LegacyWindow(h) /\ WithinStep(states[h].current.rate, states[h].previous.rate)
    BY DEF AtMostTwoFees
  <2>1. h \in From..height /\ h \in Nat /\ From \in Nat /\ Grace \in Nat /\ Delay \in Nat /\ Grace < Delay
    BY <1>1, ChainBlocks, FeeRulesAssumption
  <2>2. GoodState(states[h], h)
    BY <2>1, <1>1 DEF Chain, Sound
  <2>3. states[h].current.effective \in Nat
    BY <2>2, HeightsAreNat DEF GoodState
  <2> QED BY <2>1, <2>2, <2>3 DEF GoodState, Windows, LegacyWindow
<1> QED BY <1>1, ChainHolds, PTL

\* A rate takes effect at its height, one step from the last, after its whole notice.
THEOREM RatesAreAnnounced == Spec => []RatesAnnounced
<1>1. ASSUME Chain PROVE RatesAnnounced
  <2> SUFFICES ASSUME NEW h \in Active, h > From, states[h - 1].current # states[h].current
               PROVE  /\ states[h].current.effective = h
                      /\ WithinStep(states[h].current.rate, states[h - 1].current.rate)
                      /\ \A k \in h - Delay .. h - 1 :
                           k \in Active /\ states[k].pending = states[h].current
    BY DEF RatesAnnounced
  <2>1. h \in From..height /\ RateNotice(states, h)
    BY <1>1, ChainBlocks DEF Chain, Sound
  <2>2. \A d \in Nat : From <= h - d => \A k \in h - d .. h - 1 : k \in Active
    BY <1>1, <2>1, ChainBlocks
  <2>3. Delay \in Nat
    BY FeeRulesAssumption
  <2> QED BY <2>1, <2>2, <2>3 DEF RateNotice
<1> QED BY <1>1, ChainHolds, PTL

\* A guardian or an operator takes over after its whole notice, or by a reset of the rules.
THEOREM RolesAreAnnounced == Spec => []RolesAnnounced
<1>1. ASSUME Chain PROVE RolesAnnounced
  <2> SUFFICES ASSUME NEW h \in Active, h > From, NoResetIn(h - 1, h)
               PROVE  /\ states[h].guardian # states[h - 1].guardian =>
                           \A k \in h - GuardianDelay .. h - 1 :
                             /\ k \in Active
                             /\ states[k].pendingGuardian =
                                  [account |-> states[h].guardian, effective |-> h]
                      /\ states[h].operator \notin {None, states[h - 1].operator} =>
                           \A k \in h - Delay .. h - 1 :
                             /\ k \in Active
                             /\ states[k].pendingOperator =
                                  [account |-> states[h].operator, effective |-> h]
    BY DEF RolesAnnounced
  <2>1. h \in From..height /\ RoleNotice(states, h)
    BY <1>1, ChainBlocks DEF Chain, Sound
  <2>2. \A d \in Nat : From <= h - d => \A k \in h - d .. h - 1 : k \in Active
    BY <1>1, <2>1, ChainBlocks
  <2>3. Delay \in Nat /\ GuardianDelay \in Nat
    BY FeeRulesAssumption
  <2> QED BY <2>1, <2>2, <2>3 DEF RoleNotice
<1> QED BY <1>1, ChainHolds, PTL

\* After a freeze the rate stays for two delays.
THEOREM FreezesHold == Spec => []FreezeHolds
<1>1. ASSUME Chain PROVE FreezeHolds
  <2> SUFFICES ASSUME NEW h \in Active, NEW k \in Active, h < k, k < h + 2 * Delay,
                      Freezes(h), NoResetIn(h, k)
               PROVE  states[k].current = states[h].current
    BY DEF FreezeHolds
  <2>1. /\ h \in From..k /\ k \in From..height /\ Delay \in Nat /\ h \in Nat /\ k \in Nat
    BY <1>1, ChainBlocks, FeeRulesAssumption
  <2>2. FrozenBy(states, h)
    BY DEF Freezes, FrozenBy
  <2>3. states[k].current = states[h].current \/ h + 2 * Delay <= k
    BY <2>1, <2>2, <1>1 DEF Chain, Sound, FreezeKept
  <2> QED BY <2>1, <2>3
<1> QED BY <1>1, ChainHolds, PTL
=============================================================================
