---------------------------- MODULE MintSession ----------------------------
(***************************************************************************)
(* One mint session of the wallet, from its approval to the day every      *)
(* payment it released is final in history.  Five actors interleave:       *)
(*   - the controller (mint-session.ts, MintSessionController): passes,    *)
(*     reservation, signature, release, end;                               *)
(*   - its settle task, which follows the last payment after the end;      *)
(*   - the history task (background.ts, syncHistory), which asks the       *)
(*     indexer about every open history line and resolves ended records;   *)
(*   - the wallet's storage (background.ts, save): each write is a         *)
(*     snapshot of the memory taken when save() is called, and writes land *)
(*     in call order, may fail, and are lost when the worker dies;         *)
(*   - the chain: a payment enters a block, a reorganization takes it out, *)
(*     the finalized height advances, an era ends.                         *)
(* An await of the code is a step boundary here: whatever the others do    *)
(* may happen between the read and its use, or the write and its result.   *)
(*                                                                         *)
(* Amounts and a lying node are left to MintSpend: here the node may stop  *)
(* answering, and what the witnesses attest is true.                       *)
(***************************************************************************)
EXTENDS MintLedger, Sequences, FiniteSetsExt

CONSTANTS
  Rival,            \* chain[n] when another installation's transaction has payment n's nonce
  StopReasons,      \* what a revocation hook or the deadline may stop the session with
  NoSettle,         \* NO_SETTLE: the reasons after which no settle task starts
  MaxHeight,        \* bound: highest height the model finalizes
  MaxQueue,         \* bound: queued writes at which history and other operations save no more
  MaxSaves,         \* bound: saves by other operations
  MaxHistories,     \* bound: passes of the history task
  HistoryRepeats,   \* whether history passes go on beyond that bound, uncounted
  MaxCrashes,       \* bound: worker deaths
  MaxWriteFailures, \* bound: storage writes that fail
  MaxReorgs,        \* bound: reorganizations
  MaxRivals         \* bound: nonces another installation takes

ASSUME SessionAssumption ==
  /\ Rival \notin Places \cup {NoPlace}
  /\ NoSettle \subseteq StopReasons
  /\ {"none", "own"} \cap StopReasons = {}
  /\ {MaxHeight, MaxQueue, MaxSaves, MaxHistories, MaxCrashes, MaxWriteFailures,
      MaxReorgs, MaxRivals} \subseteq Nat
  /\ HistoryRepeats \in BOOLEAN
  /\ \A p \in Places : Height[p] \in 1..MaxHeight

VARIABLES
  rec,          \* the session's record in memory
  journal,      \* its history lines in memory
  disk,         \* what storage holds of both
  writes,       \* the save queue: snapshots not yet in storage
  pc,           \* where the controller, then the settle task, stands
  io,           \* the write that task awaits
  stopWith,     \* the first stop reason ("none": not stopped)
  reason,       \* the reason the session ended with
  released,     \* attempts whose bytes went to submit (memory)
  unverifiedAt, \* the inclusion whose classification gave no verdict
  seen,         \* the inclusion the settle task read before its last await
  sync,         \* the history task: the line it is at and the report it holds
  chain,        \* where each payment is on the best chain
  final,        \* finalized height
  closed,       \* payments whose era ended on the final chain without them
  wire,         \* payments whose bytes left the wallet, ever
  signatures,   \* attempts a signature was produced for, ever
  faults        \* bounded events so far

memory  == <<rec, journal>>
storage == <<disk, writes>>
control == <<pc, io, stopWith, reason, released, unverifiedAt, seen>>
world   == <<chain, final, closed>>
past    == <<wire, signatures>>
vars    == <<memory, storage, control, sync, world, past, faults>>

Image  == [rec : Record, journal : Journal]
Write  == [image : Image, by : {"session", "other"}]
Here   == Places \cup {NoPlace}
Reading == {"pass", "prev", "tip", "admit"}       \* passes: reads, no write awaited inside
Signing == {"reserve", "signed", "uncertain"}     \* a write before the bytes may leave
Settling == {"settle", "found", "round", "classify", "finality"}
Stages == {"idle", "approve", "refused", "judged", "submit", "end", "retry", "off"}
            \cup Reading \cup Signing \cup Settling
Faults == [saves : 0..MaxSaves, histories : 0..MaxHistories, crashes : 0..MaxCrashes,
           writes : 0..MaxWriteFailures, reorgs : 0..MaxReorgs, rivals : 0..MaxRivals]
Idle   == [on |-> 0, phase |-> "idle", report |-> NoLine]

TypeOK ==
  /\ rec \in Record
  /\ journal \in Journal
  /\ disk \in Image
  /\ writes \in Seq(Write)
  /\ pc \in Stages
  /\ io \in {"none", "wait", "ok", "failed"}
  /\ stopWith \in {"none", "own"} \cup StopReasons
  /\ reason \in {"none", "own"} \cup StopReasons
  /\ released \subseteq Attempts
  /\ unverifiedAt \in Here
  /\ seen \in Here
  /\ sync \in [on : 0..MaxAttempts, phase : {"idle", "asked", "again", "save"}, report : Line]
  /\ chain \in [Attempts -> Here \cup {Rival}]
  /\ final \in 0..MaxHeight
  /\ closed \subseteq Attempts
  /\ wire \subseteq Attempts
  /\ signatures \subseteq Attempts
  /\ faults \in Faults

-----------------------------------------------------------------------------
(* Storage.                                                                *)
\* save(): a snapshot of the memory as it is, behind the writes already queued.
Save(r, j, by) ==
  writes' = Append(writes, [image |-> [rec |-> r, journal |-> j], by |-> by])
\* The memory becomes r and j, and `persist()` saves them and is awaited.
Persist(r, j) ==
  rec' = r /\ journal' = j /\ Save(r, j, "session") /\ io' = "wait"
\* The awaited write answered, whatever it answered.
Answered == io # "wait" /\ io' = "none"

\* The oldest queued write lands in storage, or storage refuses it; its caller learns which.
Land ==
  LET told(answer) == IF Head(writes).by = "session" THEN answer ELSE io
  IN /\ writes # <<>>
     /\ writes' = Tail(writes)
     /\ \/ /\ disk' = Head(writes).image
           /\ io' = told("ok")
           /\ UNCHANGED faults
        \/ /\ faults.writes < MaxWriteFailures
           /\ faults' = [faults EXCEPT !.writes = @ + 1]
           /\ io' = told("failed")
           /\ UNCHANGED disk
     /\ UNCHANGED <<memory, pc, stopWith, reason, released, unverifiedAt, seen, sync, world, past>>

\* Any other operation of the wallet saves the memory as it finds it.
OtherSave ==
  /\ Len(writes) < MaxQueue /\ faults.saves < MaxSaves
  /\ pc # "idle"
  /\ faults' = [faults EXCEPT !.saves = @ + 1]
  /\ Save(rec, journal, "other")
  /\ UNCHANGED <<memory, disk, control, sync, world, past>>

\* The worker dies and restarts: readState loads what storage holds.
Crash ==
  LET valid == ValidRecord(disk.rec, disk.journal)
  IN /\ pc # "idle"
     /\ faults.crashes < MaxCrashes
     /\ faults' = [faults EXCEPT !.crashes = @ + 1]
     /\ rec' = LoadRecord(disk.rec, disk.journal)
     /\ journal' = LoadJournal(disk.journal)
     /\ disk' = IF valid THEN disk ELSE [disk EXCEPT !.rec = NoRecord]
     /\ writes' = <<>>
     /\ pc' = "off" /\ io' = "none" /\ stopWith' = "none" /\ reason' = "none"
     /\ released' = {} /\ unverifiedAt' = NoPlace /\ seen' = NoPlace /\ sync' = Idle
     /\ UNCHANGED <<world, past>>

-----------------------------------------------------------------------------
(* The chain.                                                              *)
Placed(n) == chain[n] \in Places
\* Nothing can change payment n's fate any more.
Fixed(n)  == n \in closed \/ (Placed(n) /\ Height[chain[n]] <= final)

\* A payment born on a block that descends from `parent` can only run above it.
Include(n, p) ==
  /\ n \in wire \ closed
  /\ chain[n] = NoPlace
  /\ \A m \in Attempts : chain[m] # p
  /\ Height[p] > final
  /\ LET parent == rec.attempts[n].parent
     IN parent # NoPlace => /\ n > 1 /\ chain[n - 1] = parent
                            /\ Height[p] > Height[parent]
  /\ chain' = [chain EXCEPT ![n] = p]
  /\ UNCHANGED <<memory, storage, control, sync, final, closed, past, faults>>

\* Another installation's transaction takes payment n's nonce.
Replace(n) ==
  /\ n \in wire \ closed
  /\ chain[n] = NoPlace
  /\ faults.rivals < MaxRivals
  /\ faults' = [faults EXCEPT !.rivals = @ + 1]
  /\ chain' = [chain EXCEPT ![n] = Rival]
  /\ UNCHANGED <<memory, storage, control, sync, final, closed, past>>

\* A reorganization takes payment n, and every later one, out of the best chain.
Reorganize(n) ==
  /\ chain[n] # NoPlace /\ ~Fixed(n)
  /\ faults.reorgs < MaxReorgs
  /\ faults' = [faults EXCEPT !.reorgs = @ + 1]
  /\ chain' = [m \in Attempts |-> IF m >= n THEN NoPlace ELSE chain[m]]
  /\ UNCHANGED <<memory, storage, control, sync, final, closed, past>>

Finalize ==
  /\ final < MaxHeight
  /\ final' = final + 1
  /\ UNCHANGED <<memory, storage, control, sync, chain, closed, past, faults>>

\* The final chain passes payment n's last block, or holds another block at its birth.
Close(n) ==
  /\ n \in signatures \ closed
  /\ ~Placed(n)
  /\ closed' = closed \cup {n}
  /\ UNCHANGED <<memory, storage, control, sync, chain, final, past, faults>>

Environment ==
  \/ \E n \in Attempts : Replace(n) \/ Reorganize(n) \/ Close(n)
  \/ \E n \in Attempts, p \in Places : Include(n, p)
  \/ Finalize

-----------------------------------------------------------------------------
(* The controller.                                                         *)
HeldAttempts == {n \in Attempts : rec.attempts[n].status # "none"}
Last         == Cardinality(HeldAttempts)
LastIs(S)    == Last > 0 /\ rec.attempts[Last].status \in S
SetStatus(r, n, s) == [r EXCEPT !.attempts[n].status = s]
SetLine(j, n, s)   == [j EXCEPT ![n].status = s]

\* The stop a revocation hook, the lease or the deadline brings: the first one wins.
Stop(r) ==
  /\ pc \in Reading \cup Signing \cup {"judged", "submit", "end", "retry"}
  /\ stopWith = "none"
  /\ stopWith' = r
  /\ UNCHANGED <<memory, storage, pc, io, reason, released, unverifiedAt, seen, sync, world,
                 past, faults>>

\* cancel(): the last attempt, when its bytes never left, in the ledger and in history.
Unreleased(r) ==
  {n \in Attempts \ released : /\ r.attempts[n].status \in {"reserved", "signed", "uncertain"}
                               /\ \A m \in Attempts : r.attempts[m].status # "none" => m <= n}

\* end(reason) on the record `r` its caller leaves, with the cancel every exit makes first.
End(r, why) ==
  /\ Persist([r EXCEPT !.state = "ended",
                       !.attempts = [n \in Attempts |-> IF n \in Unreleased(r)
                                       THEN [@[n] EXCEPT !.status = "cancelled"] ELSE @[n]]],
             [n \in Attempts |->
                IF n \in Unreleased(r) /\ r.attempts[n].hash
                THEN [journal[n] EXCEPT !.status = "cancelled-before-broadcast"]
                ELSE journal[n]])
  /\ reason' = why
  /\ stopWith' = IF stopWith = "none" THEN "own" ELSE stopWith
  /\ pc' = "end"
  /\ UNCHANGED <<released, seen>>

\* What a controller step leaves to the others.
Others == UNCHANGED <<disk, sync, world, wire, faults>>
Quiet  == UNCHANGED <<reason, stopWith, released, unverifiedAt, seen, signatures>>

\* approveSession writes the record before anything else.
Approve ==
  /\ pc = "idle"
  /\ pc' = "approve"
  /\ Persist(NewRecord, journal)
  /\ Quiet /\ Others

\* A failed write takes the record out again; a request that is no longer current ends it.
Approved ==
  /\ pc = "approve" /\ io # "wait"
  /\ IF io = "failed"
     THEN rec' = NoRecord /\ pc' = "off" /\ io' = "none" /\ UNCHANGED <<journal, writes>>
     ELSE \/ pc' = "pass" /\ io' = "none" /\ UNCHANGED <<memory, writes>>
          \/ pc' = "refused" /\ Persist([rec EXCEPT !.state = "ended"], journal)
  /\ Quiet /\ Others

Refused ==
  /\ pc = "refused" /\ Answered
  /\ pc' = "off"
  /\ UNCHANGED <<memory, writes>> /\ Quiet /\ Others

-----------------------------------------------------------------------------
(* Finality of the recorded inclusions (refreshFinality).                  *)
Open(r)    == {n \in Recorded(r) : ~r.attempts[n].finalized /\ ~r.attempts[n].doubt}
Reached(r) == {n \in Open(r) : Height[r.attempts[n].at] <= final}

\* The inclusions of S examined oldest first: final, or the first that left and all after it in doubt.
Marked(r, S) ==
  LET gone == {n \in S : chain[n] # r.attempts[n].at}
      ok   == {n \in S : \A m \in gone : n < m}
      kept == [r EXCEPT !.attempts = [n \in Attempts |-> IF n \in ok
                                        THEN [@[n] EXCEPT !.finalized = TRUE] ELSE @[n]]]
  IN IF gone = {} THEN kept ELSE DoubtFrom(kept, Min(gone))

\* Throttled, or complete and saved when it marked anything.
RefreshFinality(next) ==
  /\ io # "wait"
  /\ pc' = next
  /\ IF Reached(rec) = {}
     THEN io' = "none" /\ UNCHANGED <<memory, writes>>
     ELSE \/ io' = "none" /\ UNCHANGED <<memory, writes>>
          \/ Persist(Marked(rec, Reached(rec)), journal)

\* A read of it failed after the first `upto` inclusions: their marks stand, unsaved.
RefreshInterrupted(upto) == rec' = Marked(rec, {n \in Reached(rec) : n <= upto})

-----------------------------------------------------------------------------
(* A pass (P1-P9): reads only, each refused once a stop was recorded.      *)
Admits ==
  /\ Counted(rec, "minted") < MaxLots
  /\ ~RacesExhausted(rec)
  /\ rec.used < MaxAttempts

\* Every recorded inclusion is on the chain of the tip (onAncestry, proveLineage).
OnTip == \A n \in Recorded(rec) : chain[n] = rec.attempts[n].at

\* reorg(): the session ends and every inclusion not final yet is in doubt.
Reorg == End(DoubtOpen(rec), "own") /\ UNCHANGED unverifiedAt

Pass ==
  /\ pc = "pass" /\ stopWith = "none"
  /\ RefreshFinality("prev")
  /\ Quiet /\ Others

\* A read fails and may be tried again: the next pass starts over.
ReadFails ==
  /\ pc \in Reading /\ stopWith = "none"
  /\ Answered
  /\ pc' = "pass"
  /\ IF pc = "pass" THEN \E upto \in 0..MaxAttempts : RefreshInterrupted(upto) ELSE UNCHANGED rec
  /\ UNCHANGED <<journal, writes>> /\ Quiet /\ Others

\* A stop, a read that failed for good or too often, a limit or a refusal of P3 or P7-P9.
Quit ==
  /\ pc \in Reading /\ io # "wait"
  /\ ~(pc = "prev" /\ rec.reorganized)
  /\ \/ (stopWith = "none" \/ ~Admits) /\ End(rec, "own")
     \/ stopWith # "none" /\ End(rec, stopWith)
  /\ UNCHANGED <<unverifiedAt, signatures>> /\ Others

\* Finality found a recorded inclusion on no final block.
Reorganized ==
  /\ pc = "prev" /\ io # "wait"
  /\ rec.reorganized
  /\ End(rec, "own")
  /\ UNCHANGED <<unverifiedAt, signatures>> /\ Others

\* P2: where the released payment is on the tip's chain.
Follow ==
  /\ pc = "prev" /\ io # "wait" /\ stopWith = "none"
  /\ ~rec.reorganized
  /\ LastIs({"sent", "uncertain"})
  /\ \/ Reorg                         \* an inclusion left, or the headers read do not chain
     \/ /\ OnTip
        /\ \/ chain[Last] = Rival
              /\ End(SetStatus(rec, Last, "replaced"), "own") /\ UNCHANGED unverifiedAt
           \/ chain[Last] = NoPlace /\ Last \in closed
              /\ \/ End(SetStatus(rec, Last, "expired"), "own")
                 \/ End(DoubtOpen(SetStatus(rec, Last, "dead")), "own")
              /\ UNCHANGED unverifiedAt
           \/ chain[Last] = NoPlace /\ Last \notin closed
              /\ pc' = "pass" /\ io' = "none"
              /\ UNCHANGED <<memory, writes>>
              /\ UNCHANGED <<reason, stopWith, released, unverifiedAt, seen>>
           \/ Placed(Last)
              /\ Persist([rec EXCEPT !.attempts[Last].status = "included",
                                     !.attempts[Last].at = chain[Last]], journal)
              /\ pc' = "tip"
              /\ UNCHANGED <<reason, stopWith, released, unverifiedAt, seen>>
  /\ UNCHANGED signatures /\ Others

\* P3: a classification to make, or a lot to ask for.
Ready ==
  /\ pc = "prev" /\ stopWith = "none" /\ Answered
  /\ ~rec.reorganized
  /\ ~LastIs({"sent", "uncertain"})
  /\ LastIs({"included"}) \/ Admits
  /\ pc' = "tip"
  /\ UNCHANGED <<memory, writes>> /\ Quiet /\ Others

\* Mutant: the lineage is proven, the verdict left for later.
Tip_NoVerdict ==
  /\ pc = "tip" /\ io # "wait" /\ stopWith = "none"
  /\ IF ~OnTip THEN Reorg
     ELSE /\ pc' = "admit" /\ io' = "none"
          /\ UNCHANGED <<memory, writes, reason, stopWith, released, unverifiedAt, seen>>
  /\ UNCHANGED signatures /\ Others

\* P4-P6 (or the early verdict of P3): the lineage at the block the verdict reads, then the verdict.
Tip ==
  /\ pc = "tip" /\ io # "wait" /\ stopWith = "none"
  /\ IF ~OnTip THEN Reorg
     ELSE IF LastIs({"included"})
     THEN LET at == rec.attempts[Last].at IN
          \/ /\ unverifiedAt' = at
             /\ End(rec, "own")
          \/ /\ Persist(SetStatus(rec, Last, Effect[at]), journal)
             /\ pc' = "judged"
             /\ UNCHANGED <<reason, stopWith, released, unverifiedAt, seen>>
     ELSE /\ pc' = "admit" /\ io' = "none"
          /\ UNCHANGED <<memory, writes, reason, stopWith, released, unverifiedAt, seen>>
  /\ UNCHANGED signatures /\ Others

\* A failure or an anomaly ends the session, and so does a limit; after an early verdict the tip
\* is attested for the admission alone.
Judged ==
  /\ pc = "judged" /\ io # "wait"
  /\ IF LastIs({"failed", "anomaly"}) \/ ~Admits
     THEN End(rec, "own")
     ELSE /\ pc' \in {"tip", "admit"} /\ io' = "none"
          /\ UNCHANGED <<memory, writes, reason, stopWith, released, seen>>
  /\ UNCHANGED <<unverifiedAt, signatures>> /\ Others

-----------------------------------------------------------------------------
(* P7-P15: one payment.                                                    *)
\* P10: the signature is counted, durably, before the secret is touched.
Reserve ==
  /\ pc = "admit" /\ io # "wait" /\ stopWith = "none"
  /\ Admits
  /\ Persist([rec EXCEPT !.used = @ + 1,
                         !.attempts[Last + 1] =
                           Reserved(IF Last = 0 THEN NoPlace ELSE rec.attempts[Last].at)],
             journal)
  /\ pc' = "reserve"
  /\ Quiet /\ Others

\* Mutant: a stop that comes during a write is not checked after it.
Withhold_NoStop ==
  /\ pc \in Signing
  /\ io = "failed"
  /\ End(rec, "own")
  /\ UNCHANGED <<unverifiedAt, signatures>> /\ Others

\* A write before the release failed, or a stop came while it was awaited: nothing leaves.
Withhold ==
  /\ pc \in Signing
  /\ io = "failed" \/ (io = "ok" /\ stopWith # "none")
  /\ End(rec, IF io = "failed" THEN "own" ELSE stopWith)
  /\ UNCHANGED <<unverifiedAt, signatures>> /\ Others

\* P11-P13: no vault, an expired quote, bytes that differ from the review, or a full history.
SignRefused(made) ==
  /\ pc = "reserve" /\ io = "ok" /\ stopWith = "none"
  /\ signatures' = IF made THEN signatures \cup {Last} ELSE signatures
  /\ End(rec, "own")
  /\ UNCHANGED unverifiedAt /\ Others

\* Mutant: signs whatever became of the write that counts the signature.
Sign_Uncounted ==
  /\ pc = "reserve" /\ io # "wait" /\ stopWith = "none"
  /\ signatures' = signatures \cup {Last}
  /\ Persist([rec EXCEPT !.attempts[Last].status = "signed", !.attempts[Last].hash = TRUE],
             SetLine(journal, Last, "signed-not-submitted"))
  /\ pc' = "signed"
  /\ UNCHANGED <<reason, stopWith, released, unverifiedAt, seen>> /\ Others

\* P11-P13: the hash and its history line exist from one step on, and are saved before the next.
Sign ==
  /\ pc = "reserve" /\ io = "ok" /\ stopWith = "none"
  /\ signatures' = signatures \cup {Last}
  /\ Persist([rec EXCEPT !.attempts[Last].status = "signed", !.attempts[Last].hash = TRUE],
             SetLine(journal, Last, "signed-not-submitted"))
  /\ pc' = "signed"
  /\ UNCHANGED <<reason, stopWith, released, unverifiedAt, seen>> /\ Others

\* P14: uncertainty is durable before the bytes leave.
MarkUncertain ==
  /\ pc = "signed" /\ io = "ok" /\ stopWith = "none"
  /\ Persist(SetStatus(rec, Last, "uncertain"), SetLine(journal, Last, "broadcast-uncertain"))
  /\ pc' = "uncertain"
  /\ Quiet /\ Others

\* Mutants: the bytes leave whatever became of the write; the bytes leave after a stop.
Release_Unwritten ==
  /\ pc = "uncertain" /\ io # "wait" /\ stopWith = "none"
  /\ released' = released \cup {Last} /\ wire' = wire \cup {Last}
  /\ pc' = "submit" /\ io' = "none"
  /\ UNCHANGED <<memory, storage, reason, stopWith, unverifiedAt, seen, sync, world, signatures,
                 faults>>
Release_Stopped ==
  /\ pc = "uncertain" /\ io = "ok"
  /\ released' = released \cup {Last} /\ wire' = wire \cup {Last}
  /\ pc' = "submit" /\ io' = "none"
  /\ UNCHANGED <<memory, storage, reason, stopWith, unverifiedAt, seen, sync, world, signatures,
                 faults>>

Release ==
  /\ pc = "uncertain" /\ io = "ok" /\ stopWith = "none"
  /\ released' = released \cup {Last}
  /\ wire' = wire \cup {Last}
  /\ pc' = "submit" /\ io' = "none"
  /\ UNCHANGED <<memory, storage, reason, stopWith, unverifiedAt, seen, sync, world, signatures,
                 faults>>

\* P15: the answer, or its loss; the write that records it is not fatal.
Submitted(sent) ==
  /\ pc = "submit"
  /\ Persist(SetStatus(rec, Last, IF sent THEN "sent" ELSE "uncertain"),
             SetLine(journal, Last, IF sent THEN "submitted" ELSE "broadcast-uncertain"))
  /\ pc' = "pass"
  /\ Quiet /\ Others

\* The end is written twice at most; the wallet is free for other operations from then on.
EndWritten ==
  /\ pc \in {"end", "retry"} /\ io # "wait"
  /\ IF pc = "end" /\ io = "failed"
     THEN pc' = "retry" /\ Persist(rec, journal)
     ELSE /\ pc' = IF reason \in NoSettle THEN "off" ELSE "settle"
          /\ io' = "none" /\ UNCHANGED <<memory, writes>>
  /\ Quiet /\ Others

Controller ==
  \/ Approve \/ Approved \/ Refused
  \/ Pass \/ ReadFails \/ Quit \/ Reorganized \/ Follow \/ Ready \/ Tip \/ Judged
  \/ Reserve \/ Withhold \/ Sign \/ MarkUncertain \/ Release
  \/ \E b \in BOOLEAN : SignRefused(b) \/ Submitted(b)
  \/ EndWritten

-----------------------------------------------------------------------------
(* The settle task: read-only rounds over the last payment.                *)
Aside == UNCHANGED <<reason, stopWith, released, signatures>> /\ Others
Still == UNCHANGED <<memory, writes>>

\* Nothing left to follow, the retention is over, or a reset, switch or update aborted it.
SettleStops ==
  /\ pc \in Settling
  /\ pc' = "off" /\ seen' = NoPlace
  /\ io' = IF io = "wait" THEN "wait" ELSE "none"
  /\ Still /\ UNCHANGED unverifiedAt /\ Aside

\* A failed read ends the round; what finality already marked stands, unsaved.
RoundFails ==
  /\ pc \in Settling \ {"settle"} /\ Answered
  /\ pc' = "settle" /\ seen' = NoPlace
  /\ IF pc = "finality" THEN \E upto \in 0..MaxAttempts : RefreshInterrupted(upto)
                        ELSE UNCHANGED rec
  /\ UNCHANGED <<journal, writes, unverifiedAt>> /\ Aside

\* A payment in doubt is left to history; one not yet in a block is searched for.
RoundStarts ==
  /\ pc = "settle" /\ Answered
  /\ ~SettledNow(rec)
  /\ IF Last = 0 \/ rec.attempts[Last].doubt
     THEN pc' = "finality" /\ UNCHANGED seen
     ELSE IF LastIs({"sent", "uncertain"}) /\ Placed(Last)
     THEN pc' = "found" /\ seen' = chain[Last]
     ELSE pc' = "round" /\ UNCHANGED seen
  /\ Still /\ UNCHANGED unverifiedAt /\ Aside

\* Recorded only if history has not resolved the payment during the search.
Found ==
  /\ pc = "found"
  /\ pc' = "round" /\ seen' = NoPlace
  /\ IF LastIs({"sent", "uncertain"})
     THEN Persist([rec EXCEPT !.attempts[Last].status = "included", !.attempts[Last].at = seen],
                  journal)
     ELSE Still /\ UNCHANGED io
  /\ UNCHANGED unverifiedAt /\ Aside

\* A classification starts only at an inclusion the tip's chain still holds.
Classify ==
  /\ pc = "round" /\ Answered
  /\ LET at == rec.attempts[Last].at
     IN IF LastIs({"included"}) /\ at # unverifiedAt /\ chain[Last] = at
        THEN pc' = "classify" /\ seen' = at
        ELSE pc' = "finality" /\ UNCHANGED seen
  /\ Still /\ UNCHANGED unverifiedAt /\ Aside

\* History may have resolved the attempt meanwhile; it then keeps that verdict.
Verdict ==
  /\ pc = "classify"
  /\ pc' = "finality" /\ seen' = NoPlace
  /\ IF LastIs({"included"}) /\ rec.attempts[Last].at = seen
     THEN \/ Persist(SetStatus(rec, Last, Effect[seen]), journal) /\ UNCHANGED unverifiedAt
          \/ unverifiedAt' = seen /\ Still /\ UNCHANGED io
     ELSE Still /\ UNCHANGED <<io, unverifiedAt>>
  /\ Aside

RoundEnds ==
  /\ pc = "finality"
  /\ RefreshFinality("settle")
  /\ UNCHANGED <<seen, unverifiedAt>> /\ Aside

Settle == RoundStarts \/ Found \/ Classify \/ Verdict \/ RoundEnds \/ RoundFails \/ SettleStops

-----------------------------------------------------------------------------
(* The history task.                                                       *)
\* The indexer's final word on a payment whose fate is fixed.
FinalReport(n) == IF n \in closed THEN [status |-> "expired", at |-> NoPlace]
                                  ELSE [status |-> "finalized", at |-> chain[n]]
\* What it may answer: it can lag behind the chain, never run ahead of it.
Reports(n) ==
  {[status |-> "pending", at |-> NoPlace]}
    \cup (IF Placed(n) THEN {[status |-> "included", at |-> chain[n]]} ELSE {})
    \cup (IF Fixed(n) THEN {FinalReport(n)} ELSE {})

Final(n)     == journal[n].status \in FinalLine
\* Mutant: a line is asked about only once its submission was acknowledged.
OpenLines_Submitted(j) == {n \in Attempts : j[n].status \in {"submitted", "pending", "included"}}
OpenLines(j) == {n \in Attempts : j[n].status \notin FinalLine \cup {"none"}}

\* The next open line is asked about; after the last one, ended records take history's word.
NextLine(below) ==
  LET left == {n \in OpenLines(journal') : n < below}
  IN IF left = {}
     THEN /\ rec' = ResolveFromJournal(rec, journal')
          /\ sync' = [Idle EXCEPT !.phase = "save"]
     ELSE /\ rec' = rec
          /\ \E n \in left : /\ \A m \in left : m <= n
                            /\ \E report \in Reports(n) :
                                 sync' = [on |-> n, phase |-> "asked", report |-> report]

History == UNCHANGED <<storage, control, world, past>>

SyncStart ==
  /\ sync.phase = "idle" /\ pc # "idle"
  /\ IF faults.histories < MaxHistories
     THEN faults' = [faults EXCEPT !.histories = @ + 1]
     ELSE HistoryRepeats /\ UNCHANGED faults
  /\ journal' = journal
  /\ NextLine(MaxAttempts + 1)
  /\ History

\* Mutants: the line is not read again after the answer; it expires without the second question;
\* it expires although no boundary was observed.
SyncReport_Stale ==
  LET n == sync.on
  IN /\ sync.phase = "asked"
     /\ journal' = [journal EXCEPT ![n] = [sync.report EXCEPT !.at = IF @ = NoPlace
                                                        THEN journal[n].at ELSE @]]
     /\ NextLine(n)
     /\ History /\ UNCHANGED faults
SyncReport_Once ==
  LET n == sync.on
  IN /\ sync.phase = "asked"
     /\ journal' = IF Final(n) THEN journal
                   ELSE IF sync.report.status = "pending" /\ Fixed(n)
                   THEN [journal EXCEPT ![n] = [status |-> "expired", at |-> NoPlace]]
                   ELSE [journal EXCEPT ![n] = [sync.report EXCEPT !.at = IF @ = NoPlace
                                                        THEN journal[n].at ELSE @]]
     /\ NextLine(n)
     /\ History /\ UNCHANGED faults
SyncReport_NoBoundary ==
  LET n == sync.on
  IN /\ sync.phase = "asked"
     /\ journal' = IF Final(n) THEN journal
                   ELSE IF sync.report.status = "pending"
                   THEN [journal EXCEPT ![n] = [status |-> "expired", at |-> NoPlace]]
                   ELSE [journal EXCEPT ![n] = sync.report]
     /\ NextLine(n)
     /\ History /\ UNCHANGED faults

\* A line that became final meanwhile stays; the report's height replaces the one it had.
SyncReport ==
  LET n == sync.on
  IN /\ sync.phase = "asked"
     /\ journal' = IF Final(n) THEN journal
                   ELSE [journal EXCEPT ![n] =
                          [status |-> sync.report.status,
                           at |-> IF sync.report.at = NoPlace THEN @.at ELSE sync.report.at]]
     /\ \/ NextLine(n)
        \/ \* The finalized height is past the payment's last block: ask once more, after it.
           /\ ~Final(n) /\ sync.report.status = "pending" /\ Fixed(n)
           /\ sync' = [on |-> n, phase |-> "again", report |-> FinalReport(n)]
           /\ rec' = rec
     /\ History /\ UNCHANGED faults

\* The second answer is final, and a final line keeps only its own report's height.
SyncFinal ==
  LET n == sync.on
  IN /\ sync.phase = "again"
     /\ journal' = IF Final(n) THEN journal ELSE [journal EXCEPT ![n] = sync.report]
     /\ NextLine(n)
     /\ History /\ UNCHANGED faults

\* What changed is saved.
SyncSave ==
  /\ sync.phase = "save"
  /\ Len(writes) < MaxQueue
  /\ sync' = Idle
  /\ Save(rec, journal, "other")
  /\ UNCHANGED <<memory, disk, control, world, past, faults>>

Sync == SyncStart \/ SyncReport \/ SyncFinal \/ SyncSave

-----------------------------------------------------------------------------
Init ==
  /\ rec = NoRecord
  /\ journal = [n \in Attempts |-> NoLine]
  /\ disk = [rec |-> rec, journal |-> journal]
  /\ writes = <<>>
  /\ pc = "idle" /\ io = "none" /\ stopWith = "none" /\ reason = "none"
  /\ released = {} /\ unverifiedAt = NoPlace /\ seen = NoPlace
  /\ sync = Idle
  /\ chain = [n \in Attempts |-> NoPlace] /\ final = 0 /\ closed = {}
  /\ wire = {} /\ signatures = {}
  /\ faults = [saves |-> 0, histories |-> 0, crashes |-> 0, writes |-> 0, reorgs |-> 0, rivals |-> 0]

Next ==
  \/ Controller \/ Settle \/ Sync \/ Environment
  \/ \E r \in StopReasons : Stop(r)
  \/ Land \/ OtherSave \/ Crash

Spec == Init /\ [][Next]_vars

-----------------------------------------------------------------------------
(* Safety.                                                                 *)
\* History never says of a payment whose bytes left that they did not, in memory or in storage:
\* whenever the worker dies, readState's restart rule cannot cancel it and open the account.
Told(j, n) == j[n].status \notin {"none", "signed-not-submitted", "cancelled-before-broadcast"}
ReleasedInHistory == \A n \in wire : Told(journal, n) /\ Told(disk.journal, n)

\* Nor does the ledger, so that endOnRestart cannot cancel its attempt either.
ReleasedInLedger ==
  \A n \in wire : \A r \in {rec, disk.rec} :
    r.attempts[n].status \notin {"none", "reserved", "signed", "cancelled"}

\* The wallet is between operations and requireSettledAccount lets the next one in.
AccountFree ==
  /\ pc \in {"idle", "off"} \cup Settling
  /\ \A n \in Attempts : journal[n].status \in FinalLine \cup {"none"}

\* The gate opens only when no payment of the session can still run, or stop having run: the next
\* operation never competes with one of them.
FreeAccountIsSettled == AccountFree => \A n \in wire : Fixed(n)

\* A crash may over-count signatures, never under-count them: each signature ever made is within
\* the stored counter.
SignaturesCounted == \A n \in signatures : n <= disk.rec.used /\ n <= rec.used

\* The load check accepts the ledger every restart would find, so it is never archived.
LedgerLoads == ValidRecord(disk.rec, disk.journal) /\ ValidRecord(rec, journal)

\* A final history line is the truth: what it says ran is final, what it says never ran never can.
FinalLinesAreTrue ==
  \A n \in Attempts :
    /\ journal[n].status = "expired" => n \in closed
    /\ journal[n].status = "finalized" => Fixed(n) /\ chain[n] = journal[n].at
    /\ journal[n].status = "cancelled-before-broadcast" => n \notin wire

\* Once history is final, what it makes of an ended record agrees with the final chain: a verified
\* verdict was right, and one a reorganization undid, which nobody watched, is in doubt.
HistoryCorrectsVerdicts ==
  LET told == ResolveFromJournal(rec, journal)
  IN rec.state = "ended" /\ (\A n \in wire : Final(n)) =>
       \A n \in wire :
         LET p == told.attempts[n]
         IN /\ p.status \notin Unresolved
            /\ p.status \in Outcomes /\ ~p.doubt =>
                 Placed(n) /\ (Effect[chain[n]] = "minted") = (p.status = "minted")

\* Once no record says the session runs, or a stop was recorded, nothing is counted, signed or sent.
NothingAfterStop ==
  [][stopWith # "none" \/ rec.state # "running" =>
       /\ signatures' = signatures /\ wire' = wire
       /\ rec'.used <= rec.used]_vars

\* A session never signs while one of its payments is outside a block or its outcome is not a
\* verified lot or lost race, and it signs at a birth block above the payment before.
SignsOnVerifiedGround ==
  [][\A n \in signatures' \ signatures :
       /\ \A m \in 1..(n - 1) : /\ rec.attempts[m].status \in Admitting
                                /\ ~rec.attempts[m].doubt
                                /\ rec.attempts[m].at # NoPlace
       /\ n > 1 => rec.attempts[n].parent = rec.attempts[n - 1].at]_vars

\* The history task never replaces a line that became final while it awaited an answer.
HistoryKeepsFinal ==
  [][sync' # sync /\ faults'.crashes = faults.crashes =>
       \A n \in Attempts : Final(n) => journal'[n] = journal[n]]_vars

\* A verdict that admitted the next signature stands, and so does a doubt, until the worker dies.
VerdictsStand ==
  [][faults'.crashes = faults.crashes =>
       \A n \in Attempts :
         LET old == rec.attempts[n]
             new == rec'.attempts[n]
         IN /\ old.status \in Outcomes => new.status = old.status /\ new.at = old.at
            /\ old.doubt => new.doubt]_vars

\* syncHistory's comment (background.ts:853-854): a final line keeps only the height of the report that
\* made it final, so a line that says the payment never ran has none.
FinalLineKeepsOwnHeight ==
  \A n \in Attempts : journal[n].status = "expired" => journal[n].at = NoPlace

-----------------------------------------------------------------------------
(* Liveness.  Storage answers each write; reads answer or time out; the approved duration and the
   unlock deadline stop every session; a settle task keeps to its retention; the chain finalizes
   and eras end; the wallet asks its history again and again and the indexer catches up.         *)
CatchesUp(n) == Sync /\ sync'.on = n /\ sync'.report.status \in FinalLine

Fairness ==
  /\ WF_vars(Land) /\ WF_vars(pc # "idle" /\ Controller) /\ WF_vars(\E r \in StopReasons : Stop(r))
  /\ WF_vars(Settle) /\ WF_vars(SettleStops)
  /\ WF_vars(Finalize) /\ \A n \in Attempts : WF_vars(Close(n))
  /\ WF_vars(Sync) /\ \A n \in Attempts : SF_vars(CatchesUp(n))

FairSpec == Spec /\ Fairness

\* Every approval comes to rest: the session ends and its settle task with it.
SessionRests == pc = "approve" ~> pc = "off"

\* Every payment that left is final in history in the end: the account is freed for good.
AccountFrees == \A n \in Attempts : n \in wire ~> [](journal[n].status \in FinalLine)
=============================================================================
