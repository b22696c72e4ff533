------------------------------ MODULE FeeReader ------------------------------
(* The fee state along the chain a reader follows: NativeIndexer of packages/native/src/protocol.ts
   applies blocks in order, in each the block-start step and then the governance operations it
   includes, and rolls back at a reorganization.

   `states` is the reader's history, the fee state at the end of every block of its chain. The tip
   is `open` while receipts of its block are still applied; the code does all of a block in one call.
   Operations a check refuses change nothing here (the code writes a verdict to the journal). The
   code only rolls back to blocks above the finalized one; the model to any. *)
EXTENDS FeeSchedule

CONSTANTS
  Start,                            \* the activation block
  MaxHeight, MaxOps, MaxRollbacks   \* bounds

ASSUME FeeReaderAssumption ==
  /\ Start \in Nat /\ Start < From
  /\ MaxHeight \in Nat /\ Start <= MaxHeight /\ MaxHeight <= U32
  /\ MaxOps \in Nat /\ MaxRollbacks \in Nat

VARIABLES height, states, open, ops, rollbacks
vars == <<height, states, open, ops, rollbacks>>

Init ==
  /\ height = Start
  /\ states = [h \in {Start} |-> None]
  /\ open = FALSE
  /\ ops = 0 /\ rollbacks = 0

Tip == states[height]

\* apply(): the next block and its block-start step.
NextBlock ==
  /\ height < MaxHeight
  /\ height' = height + 1
  /\ states' = [h \in Start..height + 1 |-> IF h <= height THEN states[h]
                                            ELSE StepFees(Tip, height + 1)]
  /\ open' = TRUE
  /\ UNCHANGED <<ops, rollbacks>>

\* A receipt of the tip's block leaves the fee state f.
Applied(f) ==
  /\ states' = [states EXCEPT ![height] = f]
  /\ ops' = ops + 1
  /\ UNCHANGED <<height, open, rollbacks>>

\* Governance operations decode only under the schedule, in a block being applied.
Reading == open /\ height >= From /\ ops < MaxOps

FeeRate ==
  /\ Reading
  /\ \E signer \in Accounts, rate \in Rates, effective \in 0..U32 :
       /\ FeeRateAllowed(Tip, signer, rate, effective, height)
       /\ Applied(ApplyFeeRate(Tip, rate, effective, height))
Cancel ==
  /\ Reading
  /\ \E signer \in Accounts : CancelAllowed(Tip, signer)
  /\ Applied(ApplyCancel(Tip))
Freeze ==
  /\ Reading
  /\ \E signer \in Accounts : FreezeAllowed(Tip, signer)
  /\ Applied(ApplyFreeze(Tip))
SetOperator ==
  /\ Reading
  /\ \E signer, account \in Accounts, effective \in 0..U32 :
       /\ SetOperatorAllowed(Tip, signer, account, effective, height)
       /\ Applied(ApplySetOperator(Tip, account, effective))
SetGuardian ==
  /\ Reading
  /\ \E signer, account \in Accounts, effective \in 0..U32 :
       /\ SetGuardianAllowed(Tip, signer, account, effective, height)
       /\ Applied(ApplySetGuardian(Tip, account, effective))
SetSentinel ==
  /\ Reading
  /\ \E signer, account \in Accounts :
       /\ SetSentinelAllowed(Tip, signer, account)
       /\ Applied(ApplySetSentinel(Tip, account))

\* rollback(): back to the end of an earlier block.
Rollback ==
  /\ rollbacks < MaxRollbacks
  /\ \E h \in Start..height - 1 :
       /\ height' = h
       /\ states' = [k \in Start..h |-> states[k]]
  /\ open' = FALSE
  /\ rollbacks' = rollbacks + 1
  /\ UNCHANGED ops

Next == NextBlock \/ FeeRate \/ Cancel \/ Freeze \/ SetOperator \/ SetGuardian \/ SetSentinel
          \/ Rollback
Spec == Init /\ [][Next]_vars

-----------------------------------------------------------------------------
(* Properties *)

Blocks == DOMAIN states
Active == {h \in Blocks : h >= From}
NoResetIn(h, k) == \A i \in DOMAIN Resets : ~(h < Resets[i].at /\ Resets[i].at <= k)

\* The reader never halts on its own fee state: whatever the roles post, every state along the chain
\* passes checkFeeState (fee-schedule.ts:400), and there is one exactly from the schedule's block on.
NeverHalts ==
  \A h \in Blocks : IF h < From THEN states[h] = None
                    ELSE states[h] # None /\ CheckFeeState(states[h], h)

\* A wallet that prices at block a and is included at most `grace` blocks later, on a chain that holds
\* a, never loses its fee to a rate change (feeBasis, commands.ts:238; allowedFees).
QuotedFeesAccepted ==
  \A a, h \in Blocks : a < h /\ h <= a + Grace => QuotedFees(states[a]) \subseteq AcceptedFees(states[h], h)

\* At most two amounts are accepted at any height (allowedFees, fee-schedule.ts:300): the legacy
\* amount and a previous rate never overlap, and two rates that do differ by one step.
AtMostTwoFees ==
  \A h \in Active : LET f == states[h] IN f.previous # None =>
    ~LegacyWindow(h) /\ WithinStep(f.current.rate, f.previous.rate)

\* A rate takes effect only at its height, one step from the rate before it, and after every block
\* of its delay has shown it as the pending one: a replacement starts the notice again.
RatesAnnounced ==
  \A h \in Active : LET new == states[h].current IN
    h > From /\ states[h - 1].current # new =>
      /\ new.effective = h
      /\ WithinStep(new.rate, states[h - 1].current.rate)
      /\ \A k \in h - Delay .. h - 1 : k \in Active /\ states[k].pending = new

\* A guardian takes over by a reset of the rules, or after every block of guardianDelay has shown it
\* as the pending one; so for an operator and delay.
RolesAnnounced ==
  \A h \in Active : LET f == states[h] IN h > From /\ NoResetIn(h - 1, h) =>
    /\ f.guardian # states[h - 1].guardian =>
         \A k \in h - GuardianDelay .. h - 1 :
           k \in Active /\ states[k].pendingGuardian = [account |-> f.guardian, effective |-> h]
    /\ f.operator \notin {None, states[h - 1].operator} =>
         \A k \in h - Delay .. h - 1 :
           k \in Active /\ states[k].pendingOperator = [account |-> f.operator, effective |-> h]

\* After the block that freezes the operator the rate stays for two delays, one to name an operator
\* and one for its first rate, unless the rules reset the roles (freeze, fee-schedule.ts:358).
Freezes(h) == states[h].operator = None /\ (h = From \/ states[h - 1].operator # None)
FreezeHolds ==
  \A h, k \in Active :
    h < k /\ k < h + 2 * Delay /\ Freezes(h) /\ NoResetIn(h, k)
      => states[k].current = states[h].current
=============================================================================
