----------------------------- MODULE FeeSchedule -----------------------------
(* The QLYP fee schedule, packages/native/src/fee-schedule.ts: the block-start step, what a
   rate-derived operation may pay, and the two governance operations.

   Amounts of one operation kind stand for all of them: FeeAt is its fee at a rate, LegacyFee its
   fixed fee. Rates are the acceptable ones (checkRate). *)
EXTENDS Integers, Sequences

CONSTANTS
  Accounts, Reserved,   \* ids of roles; the zero and the Qlyphs fee account
  None,                 \* null
  From, FirstRoles, FirstRate, Delay, Grace, GuardianDelay, LegacyBefore, Resets,  \* FeeRules
  Rates, FeeAt, LegacyFee,
  U32                   \* U32_MAX

Roles == {r \in [operator : Accounts \ Reserved, guardian : Accounts \ Reserved,
                 sentinel : Accounts \ Reserved] :
            r.operator # r.guardian /\ r.operator # r.sentinel /\ r.guardian # r.sentinel}

\* A schedule the reducer accepts.
ASSUME FeeRulesAssumption ==
  /\ None \notin Accounts /\ Reserved \subseteq Accounts
  /\ FirstRoles \in Roles
  /\ Rates \subseteq Nat /\ FirstRate \in Rates
  /\ FeeAt \in [Rates -> Nat] /\ LegacyFee \in Nat
  /\ From \in Nat \ {0} /\ U32 \in Nat
  /\ Grace \in Nat /\ Delay \in Nat /\ GuardianDelay \in Nat
  /\ Grace < Delay /\ Delay <= GuardianDelay
  /\ From + 2 * GuardianDelay <= U32
  /\ LegacyBefore \in BOOLEAN
  /\ Resets \in Seq([at : Nat, roles : Roles])
  /\ \A i \in DOMAIN Resets : From < Resets[i].at /\ Resets[i].at <= U32
  /\ \A i, j \in DOMAIN Resets : i < j => Resets[i].at < Resets[j].at

-----------------------------------------------------------------------------
(* The fee state *)

Grid == [id : 0..U32, rate : Rates, effective : 0..U32, height : 0..U32]
PendingRole == [account : Accounts, effective : 0..U32]
FeeState == [operator : Accounts \cup {None}, guardian : Accounts, sentinel : Accounts,
             pendingOperator : PendingRole \cup {None}, pendingGuardian : PendingRole \cup {None},
             current : Grid, previous : Grid \cup {None}, pending : Grid \cup {None},
             nextGrid : 0..U32, nextReset : 0..Len(Resets)]

\* null is none of the values it stands in for.
ASSUME NoneAssumption == None \notin Grid /\ None \notin PendingRole /\ None \notin FeeState

GenesisFeeState ==
  [operator |-> FirstRoles.operator, guardian |-> FirstRoles.guardian,
   sentinel |-> FirstRoles.sentinel, pendingOperator |-> None, pendingGuardian |-> None,
   current |-> [id |-> 0, rate |-> FirstRate, effective |-> From, height |-> From],
   previous |-> None, pending |-> None, nextGrid |-> 1, nextReset |-> 0]

Holders(p) == IF p = None THEN {} ELSE {p.account}
RoleList(f) == <<{f.operator} \ {None}, {f.guardian}, {f.sentinel},
                 Holders(f.pendingOperator), Holders(f.pendingGuardian)>>

\* checkFeeState: what the reader halts on after any receipt or block.
DistinctRoles(f) ==
  \A i, j \in 1..5 : /\ RoleList(f)[i] \cap Reserved = {}
                     /\ i # j => RoleList(f)[i] \cap RoleList(f)[j] = {}
CheckFeeState(f, h) ==
  /\ f \in FeeState
  /\ \A g \in {f.current, f.previous, f.pending} \ {None} : g.id < f.nextGrid
  /\ f.pending # None => f.pending.effective > h
  /\ f.previous # None => h < f.current.effective + Grace
  /\ DistinctRoles(f)

-----------------------------------------------------------------------------
(* The block-start step *)

Due(f, h) == {i \in f.nextReset + 1 .. Len(Resets) : Resets[i].at <= h}
LastDue(f, h) == CHOOSE i \in Due(f, h) : \A j \in Due(f, h) : j <= i

\* A mutant: a reset keeps a rotation that was under way.
Reset_KeepsPending(f, h) ==
  IF Due(f, h) = {} THEN f
  ELSE LET n == LastDue(f, h) IN
       [f EXCEPT !.operator = Resets[n].roles.operator, !.guardian = Resets[n].roles.guardian,
                 !.sentinel = Resets[n].roles.sentinel, !.pending = None, !.nextReset = n]

Reset(f, h) ==
  IF Due(f, h) = {} THEN f
  ELSE LET n == LastDue(f, h) IN
       [f EXCEPT !.operator = Resets[n].roles.operator, !.guardian = Resets[n].roles.guardian,
                 !.sentinel = Resets[n].roles.sentinel, !.pendingOperator = None,
                 !.pendingGuardian = None, !.pending = None, !.nextReset = n]

RotateGuardian(f, h) ==
  IF f.pendingGuardian # None /\ f.pendingGuardian.effective <= h
  THEN [f EXCEPT !.guardian = f.pendingGuardian.account, !.pendingGuardian = None] ELSE f
RotateOperator(f, h) ==
  IF f.pendingOperator # None /\ f.pendingOperator.effective <= h
  THEN [f EXCEPT !.operator = f.pendingOperator.account, !.pendingOperator = None] ELSE f

\* A mutant: the promoted rate is not kept for the grace window.
Promote_NoOverlap(f, h) ==
  IF f.pending # None /\ f.pending.effective <= h
  THEN [f EXCEPT !.current = f.pending, !.pending = None] ELSE f

Promote(f, h) ==
  IF f.pending # None /\ f.pending.effective <= h
  THEN [f EXCEPT !.previous = f.current, !.current = f.pending, !.pending = None] ELSE f

Expire(f, h) ==
  IF f.previous # None /\ h >= f.current.effective + Grace
  THEN [f EXCEPT !.previous = None] ELSE f

Started(f, h) == IF h = From THEN GenesisFeeState ELSE f
StepFees(f, h) ==
  IF h < From THEN f
  ELSE Expire(Promote(RotateOperator(RotateGuardian(Reset(Started(f, h), h), h), h), h), h)

-----------------------------------------------------------------------------
(* What a rate-derived operation pays *)

LegacyWindow(h) == LegacyBefore /\ h < From + Grace
AllowedFees(f, h) ==
  {FeeAt[f.current.rate]}
    \cup (IF f.previous = None THEN {} ELSE {FeeAt[f.previous.rate]})
    \cup (IF LegacyWindow(h) THEN {LegacyFee} ELSE {})

\* The amounts the reducer accepts in block h, whose fee state is f.
AcceptedFees(f, h) ==
  IF h >= From THEN AllowedFees(f, h) ELSE IF LegacyBefore THEN {LegacyFee} ELSE {}

\* The amount a wallet pays that prices at a block whose fee state is f: feeBasis, qlyphsFee.
QuotedFees(f) ==
  IF f # None THEN {FeeAt[f.current.rate]} ELSE IF LegacyBefore THEN {LegacyFee} ELSE {}

-----------------------------------------------------------------------------
(* FEE_RATE and FEE_ADMIN, included in block P *)

\* A mutant: the notice is a block short.
EffectiveIn_Short(effective, P, delay) == P + delay <= effective + 1 /\ effective <= P + 2 * delay

EffectiveIn(effective, P, delay) == P + delay <= effective /\ effective <= P + 2 * delay
WithinStep(new, old) == 4 * new <= 5 * old /\ 5 * new >= 4 * old

FeeRateAllowed(f, signer, rate, effective, P) ==
  /\ f.operator # None /\ signer = f.operator
  /\ EffectiveIn(effective, P, Delay)
  /\ WithinStep(rate, f.current.rate)
  /\ f.nextGrid < U32
ApplyFeeRate(f, rate, effective, P) ==
  [f EXCEPT !.pending = [id |-> f.nextGrid, rate |-> rate, effective |-> effective, height |-> P],
            !.nextGrid = f.nextGrid + 1]

CancelAllowed(f, signer) == signer \in {f.operator, f.sentinel, f.guardian} /\ f.pending # None
ApplyCancel(f) == [f EXCEPT !.pending = None]

FreezeAllowed(f, signer) == signer \in {f.sentinel, f.guardian}

\* A mutant: a freeze keeps the operator that was about to take over.
ApplyFreeze_KeepsRotation(f) == [f EXCEPT !.operator = None, !.pending = None]

ApplyFreeze(f) == [f EXCEPT !.operator = None, !.pendingOperator = None, !.pending = None]

SetOperatorAllowed(f, signer, account, effective, P) ==
  /\ signer = f.guardian
  /\ account \notin {f.operator, f.guardian, f.sentinel} \cup Holders(f.pendingGuardian) \cup Reserved
  /\ EffectiveIn(effective, P, Delay)
ApplySetOperator(f, account, effective) ==
  [f EXCEPT !.pendingOperator = [account |-> account, effective |-> effective]]

\* A mutant: the new guardian takes over after the operator's delay.
SetGuardianAllowed_Soon(f, signer, account, effective, P) ==
  /\ signer = f.guardian
  /\ \/ account = f.guardian
     \/ /\ account \notin {f.operator, f.sentinel} \cup Holders(f.pendingOperator) \cup Reserved
        /\ EffectiveIn(effective, P, Delay)

\* Naming the guardian aborts a rotation, at any effective height.
SetGuardianAllowed(f, signer, account, effective, P) ==
  /\ signer = f.guardian
  /\ \/ account = f.guardian
     \/ /\ account \notin {f.operator, f.sentinel} \cup Holders(f.pendingOperator) \cup Reserved
        /\ EffectiveIn(effective, P, GuardianDelay)
ApplySetGuardian(f, account, effective) ==
  [f EXCEPT !.pendingGuardian = IF account = f.guardian THEN None
                                ELSE [account |-> account, effective |-> effective]]

SetSentinelAllowed(f, signer, account) ==
  /\ signer = f.guardian
  /\ account \notin {f.operator, f.guardian, f.sentinel} \cup Holders(f.pendingOperator)
                      \cup Holders(f.pendingGuardian) \cup Reserved
ApplySetSentinel(f, account) == [f EXCEPT !.sentinel = account]
=============================================================================
