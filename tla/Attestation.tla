----------------------------- MODULE Attestation -----------------------------
(* What a wallet concludes from its witnesses (apps/native): the statements of pq/node.ts, their
   verification in pq/checkpoint.ts, and the calls of web/pq-guard.ts, which authorize a purchase on
   a final block or read the state of a best block, in several windows over one cursor store.

   Witnesses lag, and some may follow another chain or sign anything.  What they sign may be delivered
   for another call, late or mixed.  Hashes, keys and the decoding of snapshots are left
   out: a statement names a block, which stands for the state there too. *)
EXTENDS Integers, Sequences, FiniteSets, FiniteSetsExt, TLC

CONSTANTS
  Witnesses, Faulty,   \* every policy requires all of the first; the others keep to attest()
  Windows, Build,      \* the windows of a wallet, and the policy version each was built with
  Until,               \* when each policy version ends
  Live,                \* the blocks in whose state the reservation stands
  Forks,               \* what tells the blocks of one height apart: 0 and others
  Ttl, Request, ClockSkew,  \* MAX_TTL_MS, REQUEST_MS, CLOCK_SKEW_MS
  Skews,               \* how far the device's clock may be ahead
  MaxHeight, MaxTime, MaxCalls  \* bounds

ASSUME AttestationConstants ==
  /\ IsFiniteSet(Witnesses) /\ Faulty \subseteq Witnesses /\ Faulty # Witnesses
  /\ Until \in Seq(Nat) /\ Build \in [Windows -> DOMAIN Until]
  /\ {Ttl, Request, ClockSkew} \subseteq Nat \ {0}
  /\ ClockSkew >= Ttl /\ Skews \subseteq Int /\ 0 \in Forks

VARIABLES
  final,    \* the height of the last final block; the final chain is fork 0
  seen,     \* the final height each witness imported
  now, skew,
  signed,   \* what each window's call has been answered by each witness
  cursor,   \* the high-water mark in IndexedDB, shared by the windows
  call,     \* what each window's call is at
  results   \* what the calls concluded, in order
chain == <<final, seen>>
clock == <<now, skew>>
vars == <<chain, clock, signed, cursor, call, results>>

Block(h, f) == [height |-> h, fork |-> f]
OnFinal(b) == b.height <= final /\ b.fork = 0
Device == now + skew
NoCursor == [ver |-> 0, block |-> Block(0, 0)]
Idle == [stage |-> "idle", n |-> 0]

Init ==
  /\ final = 0 /\ seen = [w \in Witnesses |-> 0]
  /\ now = 0 /\ skew \in Skews
  /\ signed = [t \in Windows |-> {}] /\ cursor = NoCursor
  /\ call = [t \in Windows |-> Idle] /\ results = <<>>
-----------------------------------------------------------------------------
(* The chain and the witnesses *)

Finalize ==
  /\ final < MaxHeight /\ final' = final + 1
  /\ UNCHANGED <<seen, clock, signed, cursor, call, results>>
Import(w) ==
  /\ seen[w] < final /\ seen' = [seen EXCEPT ![w] = @ + 1]
  /\ UNCHANGED <<final, clock, signed, cursor, call, results>>
Tick ==
  /\ now < MaxTime /\ now' = now + 1
  /\ UNCHANGED <<chain, skew, signed, cursor, call, results>>

\* attest(): a witness signs, for a challenge it received, a final block it imported (the latest, or
\* the one the aggregator asked for) or the best block, each in its own domain.
Statement(w, kind, b, time, t) ==
  [by |-> w, kind |-> kind, ver |-> Build[t], block |-> b, challenge |-> <<t, call[t].n>>,
   issued |-> time, expires |-> Min({time + Ttl, Until[Build[t]]})]
Signs(w, t) ==
  /\ w \notin Faulty /\ call[t].stage = "asked" /\ now < Until[Build[t]]
  /\ \A s \in signed[t] : s.by # w
  /\ \E b \in (IF call[t].kind = "final" THEN {Block(h, 0) : h \in 1..seen[w]} ELSE {call[t].block}) :
       signed' = [signed EXCEPT ![t] = @ \cup {Statement(w, call[t].kind, b, now, t)}]
  /\ UNCHANGED <<chain, clock, cursor, call, results>>
\* A faulty one signs anything, whatever its clock says.
Lies ==
  {Statement(w, kind, Block(h, f), time, t) :
     w \in Faulty, kind \in {"final", "tip"}, h \in 1..MaxHeight + 1, f \in Forks, time \in {now, now + 1}, t \in Windows}
\* What may be delivered: for each witness something it signed, in whatever call.
Sound == Witnesses \ Faulty
Bundles ==
  {[w \in Witnesses |-> IF w \in Faulty THEN lies[w] ELSE heard[w]] :
     heard \in {h \in [Sound -> UNION {signed[t] : t \in Windows}] : \A w \in Sound : h[w].by = w},
     lies \in {l \in [Faulty -> Lies] : \A w \in Faulty : l[w].by = w}}
-----------------------------------------------------------------------------
(* The wallet *)

\* verifyStatements(): the bundle decodes and has one statement of every witness, all for this
\* challenge, this policy and one state, none expired at `time`.
Blocks == [height : Nat, fork : Forks]
Verified(bundle, t, time) ==
  /\ time < Until[Build[t]]
  /\ \A w \in Witnesses :
       LET s == bundle[w]
       IN /\ s.block \in Blocks /\ s.issued \in Nat
          /\ s.by = w /\ s.ver = Build[t] /\ s.kind = call[t].kind
          /\ s.challenge = <<t, call[t].n>>
          /\ s.issued <= time /\ time < s.expires /\ time - s.issued <= Ttl
  /\ \A v, w \in Witnesses : bundle[v].block = bundle[w].block

\* witnessOffset(): the witnesses' clock minus the device's, as far as it is corrected.
Offset(bundle) ==
  LET latest == Max({bundle[w].issued : w \in Witnesses})
      offset == latest - Device
  IN IF -ClockSkew <= offset /\ offset <= ClockSkew THEN offset ELSE 0

\* The call draws its challenge; a tip is asked of the best block then, which reorgs may change.
Best == {Block(final + 1, f) : f \in Forks}
Asks(t, kind, attempt, b) ==
  /\ call' = [call EXCEPT ![t] = [stage |-> "asked", n |-> @.n + 1, kind |-> kind, attempt |-> attempt,
                                  begun |-> now, after |-> Len(results), block |-> b]]
  /\ signed' = [signed EXCEPT ![t] = {}]
Call(t, kind) ==
  /\ call[t].stage = "idle" /\ call[t].n < MaxCalls
  /\ Device < Until[Build[t]]
  /\ \E b \in (IF kind = "tip" THEN Best ELSE {Block(0, 0)}) : Asks(t, kind, 1, b)
  /\ UNCHANGED <<chain, clock, cursor, results>>

\* Every call ends in an error or a result.
BlockOf(bundle) == bundle[CHOOSE w \in Witnesses : TRUE].block
Ends(t) ==
  /\ call' = [call EXCEPT ![t] = [stage |-> "idle", n |-> @.n]]
  /\ signed' = [signed EXCEPT ![t] = {}]
Concludes(t, bundle) ==
  /\ results' = Append(results, [ver |-> Build[t], block |-> BlockOf(bundle),
                                 issued |-> [w \in Witnesses |-> bundle[w].issued],
                                 begun |-> call[t].begun, after |-> call[t].after, at |-> now])
  /\ Ends(t)

\* The bundle arrives in time: a tip is read, a purchase keeps the bundle until its cursor is stored.
Arrives(t) ==
  /\ call[t].stage = "asked" /\ now - call[t].begun <= Request
  /\ \E bundle \in Bundles :
       /\ Verified(bundle, t, Device + Offset(bundle))
       /\ IF call[t].kind = "tip"
          THEN BlockOf(bundle) = call[t].block /\ Ends(t) /\ UNCHANGED results
          ELSE /\ BlockOf(bundle) \in Live  \* verifiedPurchase()
               /\ call' = [call EXCEPT ![t] = [stage |-> "verified", n |-> @.n, kind |-> @.kind, begun |-> @.begun,
                    after |-> @.after, bundle |-> bundle, offset |-> Offset(bundle)]]
               /\ UNCHANGED <<signed, results>>
  /\ UNCHANGED <<chain, clock, cursor>>

\* A read that failed is made once more, of the best block by then.
Retry(t) ==
  /\ call[t].stage = "asked" /\ call[t].kind = "tip" /\ call[t].attempt = 1
  /\ \E b \in Best : Asks(t, "tip", 2, b)
  /\ UNCHANGED <<chain, clock, cursor, results>>
Fails(t) ==
  /\ call[t].stage # "idle" /\ Ends(t)
  /\ UNCHANGED <<chain, clock, cursor, results>>

\* The transaction on the cursor: it aborts on a rollback or another block at the same height.
Checkpoint(t) == [ver |-> Build[t], block |-> BlockOf(call[t].bundle)]
NotBack_SameHeight(next) ==
  next.block.height = cursor.block.height => next.block = cursor.block
NotBack(next) ==
  \/ cursor = NoCursor
  \/ /\ next.ver >= cursor.ver /\ next.block.height >= cursor.block.height
     /\ next.block.height = cursor.block.height => next.block = cursor.block
Stores(t) ==
  /\ call[t].stage = "verified" /\ NotBack(Checkpoint(t))
  /\ cursor' = Checkpoint(t)
  /\ call' = [call EXCEPT ![t].stage = "stored"]
  /\ UNCHANGED <<chain, clock, signed, results>>

\* The lifetimes are checked again once the cursor is stored.
Authorizes_NoRecheck(t) ==
  /\ call[t].stage = "stored"
  /\ Concludes(t, call[t].bundle)
  /\ UNCHANGED <<chain, clock, cursor>>
Authorizes(t) ==
  /\ call[t].stage = "stored"
  /\ Verified(call[t].bundle, t, Device + call[t].offset)
  /\ Concludes(t, call[t].bundle)
  /\ UNCHANGED <<chain, clock, cursor>>

Next ==
  \/ Finalize \/ Tick
  \/ \E w \in Witnesses : Import(w) \/ (\E t \in Windows : Signs(w, t))
  \/ \E t \in Windows :
       \/ \E kind \in {"final", "tip"} : Call(t, kind)
       \/ Arrives(t) \/ Retry(t) \/ Fails(t) \/ Stores(t) \/ Authorizes(t)
Spec == Init /\ [][Next]_vars
-----------------------------------------------------------------------------
(* Properties *)

Results == {results[i] : i \in DOMAIN results}

\* Whatever is delivered late, twice or mixed, and however far the device's clock is, a purchase is
\* only authorized on a final block where its reservation stands, and the claim of a witness that
\* keeps to attest() is no older than its lifetime and one request (attested(), pq-guard.ts:331).
AuthorizedWhileVouched ==
  \A r \in Results : 
    /\ OnFinal(r.block) /\ r.block \in Live
    /\ \A w \in Sound : r.issued[w] >= r.begun /\ r.at - r.issued[w] <= Ttl + Request

\* Over any windows and builds, a purchase asked for after another was authorized stands on no older
\* block and no older policy (the transaction, pq-guard.ts:359).
AuthorizationsAdvance ==
  \A i, j \in DOMAIN results :
    i <= results[j].after =>
      results[j].ver >= results[i].ver /\ results[j].block.height >= results[i].block.height
=============================================================================
