------------------------ MODULE Installation_proofs --------------------------
(* What an installation of the wallet stores: the cursor of its light client (Attestation) and its
   account book (AccountBook).

   Attestation: AuthorizationsAdvance and AuthorizedWhileVouched for any witnesses, windows, policies
   and clocks.  The cursor store alone orders the windows.  Every authorized result is at or below the
   cursor (Below), so a call whose checkpoint the transaction accepted stands at or above every result
   there was when it was asked (Above), and stays so until it concludes: the cursor only moves up.
   AuthorizedWhileVouched is about the sound witnesses: what VInv says of their claims.

   AccountBook, in the second half: BookLoads, AddedStay and BackupsRestore for any roots, passwords
   and operations, from BookInv. *)
EXTENDS Attestation, AccountBook, FiniteSums_proofs

Result == [ver : Nat, block : Blocks, issued : [Witnesses -> Nat], begun : Nat, after : Nat, at : Nat]

Kept(c, len) ==
  /\ c.n \in Nat
  /\ c.stage # "idle" => c.begun \in Nat /\ c.after \in 0..len
  /\ c.stage \in {"verified", "stored"} =>
       /\ BlockOf(c.bundle) \in Blocks
       /\ c = [stage |-> c.stage, n |-> c.n, kind |-> c.kind, begun |-> c.begun, after |-> c.after,
               bundle |-> c.bundle, offset |-> c.offset]

ATypeOK ==
  /\ now \in Nat
  /\ results \in Seq(Result)
  /\ cursor \in [ver : Nat, block : [height : Nat, fork : Forks]]
  /\ DOMAIN call = Windows
  /\ \A t \in Windows : Kept(call[t], Len(results))

\* Nothing authorized is above the cursor.
Below ==
  \A i \in DOMAIN results :
    results[i].ver <= cursor.ver /\ results[i].block.height <= cursor.block.height

\* A stored checkpoint is at or below the cursor, and above what was authorized before its call.
Above ==
  \A t \in Windows :
    call[t].stage = "stored" =>
      /\ Build[t] <= cursor.ver /\ BlockOf(call[t].bundle).height <= cursor.block.height
      /\ \A i \in DOMAIN results :
           i <= call[t].after =>
             results[i].ver <= Build[t] /\ results[i].block.height <= BlockOf(call[t].bundle).height

\* A call is asked after results that are there.
Asked == \A i \in DOMAIN results : results[i].after < i

AInv == ATypeOK /\ Asked /\ Below /\ Above /\ AuthorizationsAdvance
-----------------------------------------------------------------------------
\* Some witness signs every bundle, so a verified one names a block (verifyStatements).
LEMMA VerifiedBlock ==
  ASSUME NEW bundle, NEW t \in Windows, NEW time, Verified(bundle, t, time)
  PROVE  /\ BlockOf(bundle) \in Blocks
         /\ [w \in Witnesses |-> bundle[w].issued] \in [Witnesses -> Nat]
<1>1. (CHOOSE w \in Witnesses : TRUE) \in Witnesses
  BY AttestationConstants DEF AttestationConstants
<1> QED BY <1>1 DEF Verified, BlockOf

\* The policy of a window is one of the wallet's.
LEMMA BuildNat == ASSUME NEW t \in Windows PROVE Build[t] \in Nat
BY AttestationConstants DEF AttestationConstants

\* A call that changes leaves the calls of the other windows.
LEMMA OtherCalls ==
  ASSUME NEW t \in Windows, NEW s \in Windows, NEW c, DOMAIN call = Windows,
         call' = [call EXCEPT ![t] = c]
  PROVE  DOMAIN call' = Windows /\ call'[s] = IF s = t THEN c ELSE call[s]
OBVIOUS

\* A step that ends or asks a call, and authorizes nothing, keeps the invariant (Ends, Asks).
LEMMA CallOnly ==
  ASSUME AInv, NEW t \in Windows, NEW c, call' = [call EXCEPT ![t] = c],
         c.stage # "stored", Kept(c, Len(results)),
         UNCHANGED <<now, results, cursor>>
  PROVE  AInv'
<1>1. DOMAIN call' = Windows /\ \A s \in Windows : call'[s] = IF s = t THEN c ELSE call[s]
  BY OtherCalls DEF AInv, ATypeOK
<1>2. ATypeOK'
  BY <1>1 DEF AInv, ATypeOK, Kept
<1>3. Above'
  <2> SUFFICES ASSUME NEW s \in Windows, call'[s].stage = "stored"
               PROVE  /\ Build[s] <= cursor'.ver
                      /\ BlockOf(call'[s].bundle).height <= cursor'.block.height
                      /\ \A i \in DOMAIN results' : i <= call'[s].after =>
                           results'[i].ver <= Build[s]
                           /\ results'[i].block.height <= BlockOf(call'[s].bundle).height
    BY DEF Above
  <2>1. s # t /\ call'[s] = call[s]
    BY <1>1
  <2> QED BY <2>1 DEF AInv, Above
<1>4. Asked' /\ Below' /\ AuthorizationsAdvance'
  BY DEF AInv, Asked, Below, AuthorizationsAdvance
<1> QED BY <1>2, <1>3, <1>4 DEF AInv

\* The transaction admits no checkpoint below the cursor (pq-guard.ts, the cursor transaction).
LEMMA StoresKeeps ==
  ASSUME AInv, NEW t \in Windows, Stores(t) PROVE AInv'
<1> DEFINE next == Checkpoint(t)
<1>1. /\ call[t].stage = "verified" /\ NotBack(next) /\ cursor' = next
      /\ call' = [call EXCEPT ![t] = [call[t] EXCEPT !.stage = "stored"]]
      /\ UNCHANGED <<now, results>>
  BY DEF Stores, clock
<1>2. BlockOf(call[t].bundle) \in Blocks /\ Build[t] \in Nat
  BY <1>1, BuildNat DEF AInv, ATypeOK, Kept
<1>3. next.ver = Build[t] /\ next.block = BlockOf(call[t].bundle)
  BY DEF Checkpoint
<1>4. cursor'.ver = Build[t] /\ cursor'.block.height = BlockOf(call[t].bundle).height
  BY <1>1, <1>3
<1>5. cursor.ver <= cursor'.ver /\ cursor.block.height <= cursor'.block.height
  BY <1>1, <1>2, <1>3, <1>4 DEF NotBack, NoCursor, Block, Blocks, AInv, ATypeOK
<1>6. cursor' \in [ver : Nat, block : [height : Nat, fork : Forks]]
  BY <1>1, <1>2 DEF Checkpoint, Blocks
<1> HIDE DEF next
<1> DEFINE c == [call[t] EXCEPT !.stage = "stored"]
<1>7. /\ c.stage = "stored" /\ c.n = call[t].n /\ c.kind = call[t].kind /\ c.begun = call[t].begun
      /\ c.after = call[t].after /\ c.bundle = call[t].bundle /\ c.offset = call[t].offset
      /\ c = [stage |-> c.stage, n |-> c.n, kind |-> c.kind, begun |-> c.begun, after |-> c.after,
              bundle |-> c.bundle, offset |-> c.offset]
  <2>1. call[t] = [stage |-> call[t].stage, n |-> call[t].n, kind |-> call[t].kind,
                   begun |-> call[t].begun, after |-> call[t].after, bundle |-> call[t].bundle,
                   offset |-> call[t].offset]
    BY <1>1 DEF AInv, ATypeOK, Kept
  <2> QED BY <2>1
<1> HIDE DEF c
<1>8. DOMAIN call' = Windows /\ \A s \in Windows : call'[s] = IF s = t THEN c ELSE call[s]
  BY <1>1, OtherCalls DEF AInv, ATypeOK, c
<1>9. ATypeOK'
  <2>1. Kept(c, Len(results))
    BY <1>1, <1>2, <1>7 DEF AInv, ATypeOK, Kept
  <2> QED BY <1>1, <1>6, <1>8, <2>1 DEF AInv, ATypeOK, Kept
<1>10. Below'
  <2> SUFFICES ASSUME NEW i \in DOMAIN results
               PROVE  results[i].ver <= cursor'.ver /\ results[i].block.height <= cursor'.block.height
    BY <1>1 DEF Below
  <2>1. results[i] \in Result
    BY DEF AInv, ATypeOK
  <2>2. results[i].ver \in Nat /\ results[i].block.height \in Nat
    BY <2>1 DEF Result, Blocks
  <2>3. /\ cursor.ver \in Nat /\ cursor.block.height \in Nat
        /\ cursor'.ver \in Nat /\ cursor'.block.height \in Nat
    BY <1>6 DEF AInv, ATypeOK
  <2>4. results[i].ver <= cursor.ver /\ results[i].block.height <= cursor.block.height
    BY DEF AInv, Below
  <2> QED BY <2>2, <2>3, <2>4, <1>5
<1>11. Above'
  <2> SUFFICES ASSUME NEW s \in Windows, call'[s].stage = "stored"
               PROVE  /\ Build[s] <= cursor'.ver
                      /\ BlockOf(call'[s].bundle).height <= cursor'.block.height
                      /\ \A i \in DOMAIN results' : i <= call'[s].after =>
                           results'[i].ver <= Build[s]
                           /\ results'[i].block.height <= BlockOf(call'[s].bundle).height
    BY DEF Above
  <2>1. CASE s = t
    <3>1. Build[s] <= cursor'.ver /\ BlockOf(call'[s].bundle).height <= cursor'.block.height
      BY <2>1, <1>2, <1>4, <1>7, <1>8 DEF Blocks
    <3>2. \A i \in DOMAIN results' :
            /\ results'[i].ver <= Build[s]
            /\ results'[i].block.height <= BlockOf(call'[s].bundle).height
      BY <2>1, <1>4, <1>7, <1>8, <1>10 DEF Below
    <3> QED BY <3>1, <3>2
  <2>2. CASE s # t
    <3>1. call'[s] = call[s] /\ BlockOf(call[s].bundle) \in Blocks /\ Build[s] \in Nat
      BY <2>2, <1>8, BuildNat DEF AInv, ATypeOK, Kept
    <3> QED BY <3>1, <1>1, <1>5, <1>6 DEF AInv, Above, ATypeOK, Blocks
  <2> QED BY <2>1, <2>2
<1>12. AuthorizationsAdvance' /\ Asked'
  BY <1>1 DEF AInv, AuthorizationsAdvance, Asked
<1> QED BY <1>9, <1>10, <1>11, <1>12 DEF AInv

\* A result is appended at or below the cursor and above those its call was asked after (attested).
LEMMA AuthorizesKeeps ==
  ASSUME AInv, NEW t \in Windows, Authorizes(t) PROVE AInv'
<1> DEFINE bundle == call[t].bundle
           r == [ver |-> Build[t], block |-> BlockOf(bundle),
                 issued |-> [w \in Witnesses |-> bundle[w].issued],
                 begun |-> call[t].begun, after |-> call[t].after, at |-> now]
           c == [stage |-> "idle", n |-> call[t].n]
<1>1. /\ call[t].stage = "stored" /\ Verified(bundle, t, Device + call[t].offset)
      /\ results' = Append(results, r) /\ call' = [call EXCEPT ![t] = c]
      /\ UNCHANGED <<now, cursor>>
  BY DEF Authorizes, Concludes, Ends, clock
<1>2. /\ BlockOf(bundle) \in Blocks /\ [w \in Witnesses |-> bundle[w].issued] \in [Witnesses -> Nat]
      /\ Build[t] \in Nat
  BY <1>1, VerifiedBlock, BuildNat
<1>3. call[t].n \in Nat /\ call[t].begun \in Nat /\ call[t].after \in 0..Len(results)
  BY <1>1 DEF AInv, ATypeOK, Kept
<1>4. results \in Seq(Result) /\ Len(results) \in Nat /\ now \in Nat
  BY DEF AInv, ATypeOK
<1>5. r \in Result
  BY <1>2, <1>3, <1>4 DEF Result
<1>6. /\ r.ver = Build[t] /\ r.block = BlockOf(bundle) /\ r.after = call[t].after
      /\ r.ver <= cursor.ver /\ r.block.height <= cursor.block.height
      /\ \A i \in DOMAIN results :
           i <= r.after => results[i].ver <= r.ver /\ results[i].block.height <= r.block.height
  BY <1>1 DEF AInv, Above
<1> HIDE DEF r, bundle
<1>7. /\ results' \in Seq(Result) /\ Len(results') = Len(results) + 1
      /\ DOMAIN results' = 1..Len(results) + 1 /\ DOMAIN results = 1..Len(results)
      /\ results'[Len(results) + 1] = r
      /\ \A i \in 1..Len(results) : results'[i] = results[i]
  BY <1>1, <1>4, <1>5
<1>8. DOMAIN call' = Windows /\ \A s \in Windows : call'[s] = IF s = t THEN c ELSE call[s]
  BY <1>1, OtherCalls DEF AInv, ATypeOK
<1>9. ATypeOK'
  <2>1. \A s \in Windows : Kept(call'[s], Len(results'))
    BY <1>3, <1>4, <1>7, <1>8 DEF AInv, ATypeOK, Kept
  <2> QED BY <2>1, <1>1, <1>7, <1>8 DEF AInv, ATypeOK
<1>10. Below'
  BY <1>1, <1>6, <1>7 DEF AInv, Below
<1>11. Above'
  <2> SUFFICES ASSUME NEW s \in Windows, call'[s].stage = "stored"
               PROVE  /\ Build[s] <= cursor'.ver
                      /\ BlockOf(call'[s].bundle).height <= cursor'.block.height
                      /\ \A i \in DOMAIN results' : i <= call'[s].after =>
                           results'[i].ver <= Build[s]
                           /\ results'[i].block.height <= BlockOf(call'[s].bundle).height
    BY DEF Above
  <2>1. s # t /\ call'[s] = call[s]
    BY <1>8
  <2>2. call[s].after \in 0..Len(results)
    BY <2>1 DEF AInv, ATypeOK, Kept
  <2>3. \A i \in DOMAIN results' : i <= call[s].after => i \in DOMAIN results /\ results'[i] = results[i]
    BY <2>2, <1>4, <1>7
  <2> QED BY <2>1, <2>3, <1>1 DEF AInv, Above
<1>12. AuthorizationsAdvance'
  <2> SUFFICES ASSUME NEW i \in DOMAIN results', NEW j \in DOMAIN results', i <= results'[j].after
               PROVE  results'[j].ver >= results'[i].ver
                      /\ results'[j].block.height >= results'[i].block.height
    BY DEF AuthorizationsAdvance
  <2>1. \A k \in DOMAIN results' : results'[k] \in Result
    BY <1>7
  <2>2. CASE j = Len(results) + 1
    <3>1. i \in DOMAIN results /\ results'[i] = results[i] /\ i <= r.after
      BY <2>2, <1>3, <1>4, <1>6, <1>7
    <3> QED BY <3>1, <2>1, <2>2, <1>6, <1>7 DEF Result, Blocks
  <2>3. CASE j # Len(results) + 1
    <3>1. j \in DOMAIN results /\ results'[j] = results[j]
      BY <2>3, <1>4, <1>7
    <3>2. i \in DOMAIN results /\ results'[i] = results[i]
      <4>1. i <= results[j].after /\ results[j].after < j /\ results[j] \in Result
        BY <3>1, <1>4 DEF AInv, Asked
      <4>2. results[j].after \in Nat
        BY <4>1 DEF Result
      <4> QED BY <3>1, <4>1, <4>2, <1>4, <1>7
    <3> QED BY <3>1, <3>2 DEF AInv, AuthorizationsAdvance
  <2> QED BY <2>2, <2>3
<1>13. Asked'
  <2>1. r.after < Len(results) + 1
    BY <1>3, <1>4, <1>6
  <2> QED BY <2>1, <1>4, <1>7 DEF AInv, Asked
<1> QED BY <1>9, <1>10, <1>11, <1>12, <1>13 DEF AInv

\* A step of the chain, of the clock or of a witness leaves the wallet as it is.
LEMMA WorldKeeps ==
  ASSUME AInv, now' \in Nat, UNCHANGED <<results, cursor, call>> PROVE AInv'
BY DEF AInv, ATypeOK, Asked, Below, Above, AuthorizationsAdvance

\* Every action keeps the invariant.
LEMMA NextKeeps ==
  ASSUME AInv, [Next]_vars PROVE AInv'
<1>1. now \in Nat
  BY DEF AInv, ATypeOK
<1>2. CASE UNCHANGED vars
  BY <1>1, <1>2, WorldKeeps DEF vars, clock
<1>3. CASE Finalize \/ \E w \in Witnesses : Import(w) \/ \E t \in Windows : Signs(w, t)
  BY <1>1, <1>3, WorldKeeps DEF Finalize, Import, Signs, clock
<1>4. CASE Tick
  BY <1>1, <1>4, WorldKeeps DEF Tick
<1>5. ASSUME NEW t \in Windows, NEW kind, Call(t, kind) PROVE AInv'
  <2> DEFINE c(b) == [stage |-> "asked", n |-> call[t].n + 1, kind |-> kind, attempt |-> 1,
                      begun |-> now, after |-> Len(results), block |-> b]
  <2>1. PICK b : call' = [call EXCEPT ![t] = c(b)] /\ UNCHANGED <<now, results, cursor>>
    BY <1>5 DEF Call, Asks, clock
  <2>2. Kept(c(b), Len(results))
    BY <1>1 DEF AInv, ATypeOK, Kept
  <2> QED BY <2>1, <2>2, CallOnly
<1>6. ASSUME NEW t \in Windows, Retry(t) PROVE AInv'
  <2> DEFINE c(b) == [stage |-> "asked", n |-> call[t].n + 1, kind |-> "tip", attempt |-> 2,
                      begun |-> now, after |-> Len(results), block |-> b]
  <2>1. PICK b : call' = [call EXCEPT ![t] = c(b)] /\ UNCHANGED <<now, results, cursor>>
    BY <1>6 DEF Retry, Asks, clock
  <2>2. Kept(c(b), Len(results))
    BY <1>1 DEF AInv, ATypeOK, Kept
  <2> QED BY <2>1, <2>2, CallOnly
<1>7. ASSUME NEW t \in Windows, Ends(t), UNCHANGED <<now, results, cursor>> PROVE AInv'
  <2> DEFINE c == [stage |-> "idle", n |-> call[t].n]
  <2>1. call' = [call EXCEPT ![t] = c]
    BY <1>7 DEF Ends
  <2>2. Kept(c, Len(results))
    BY DEF AInv, ATypeOK, Kept
  <2> QED BY <1>7, <2>1, <2>2, CallOnly
<1>8. ASSUME NEW t \in Windows, Fails(t) PROVE AInv'
  BY <1>7, <1>8 DEF Fails, clock
<1>9. ASSUME NEW t \in Windows, Arrives(t) PROVE AInv'
  <2>1. PICK bundle \in Bundles :
          /\ Verified(bundle, t, Device + Offset(bundle))
          /\ IF call[t].kind = "tip"
             THEN BlockOf(bundle) = call[t].block /\ Ends(t) /\ UNCHANGED results
             ELSE /\ BlockOf(bundle) \in Live
                  /\ call' = [call EXCEPT ![t] = [stage |-> "verified", n |-> @.n, kind |-> @.kind,
                       begun |-> @.begun, after |-> @.after, bundle |-> bundle, offset |-> Offset(bundle)]]
                  /\ UNCHANGED <<signed, results>>
    BY <1>9 DEF Arrives
  <2>2. UNCHANGED <<now, cursor>> /\ call[t].stage = "asked"
    BY <1>9 DEF Arrives, clock
  <2>3. CASE call[t].kind = "tip"
    BY <2>1, <2>2, <2>3, <1>7
  <2>4. CASE call[t].kind # "tip"
    <3> DEFINE c == [stage |-> "verified", n |-> call[t].n, kind |-> call[t].kind, begun |-> call[t].begun,
                     after |-> call[t].after, bundle |-> bundle, offset |-> Offset(bundle)]
    <3>1. call' = [call EXCEPT ![t] = c] /\ UNCHANGED results
      BY <2>1, <2>4
    <3>2. BlockOf(bundle) \in Blocks
      BY <2>1, VerifiedBlock
    <3>3. Kept(c, Len(results))
      BY <2>2, <3>2 DEF AInv, ATypeOK, Kept
    <3> QED BY <2>2, <3>1, <3>3, CallOnly
  <2> QED BY <2>3, <2>4
<1> QED BY <1>2, <1>3, <1>4, <1>5, <1>6, <1>8, <1>9, StoresKeeps, AuthorizesKeeps DEF Next

\* At first nothing is authorized and no call is made.
LEMMA InitAdvances == Init => AInv
<1> SUFFICES ASSUME Init PROVE AInv
  OBVIOUS
<1>1. results = <<>> /\ now = 0 /\ cursor = NoCursor /\ call = [t \in Windows |-> Idle]
  BY DEF Init
<1>2. ATypeOK
  BY <1>1, AttestationConstants DEF ATypeOK, AttestationConstants, NoCursor, Block, Idle, Kept
<1>3. Asked /\ Below /\ Above /\ AuthorizationsAdvance
  BY <1>1 DEF Asked, Below, Above, AuthorizationsAdvance, Idle
<1> QED BY <1>2, <1>3 DEF AInv

\* Over any windows and builds, with witnesses that may sign anything and a device whose clock says
\* anything, what is authorized later, of what was asked after, is on no older block or policy.
THEOREM AuthorizationsNeverGoBack == Spec => []AuthorizationsAdvance
<1>1. AInv /\ [Next]_vars => AInv'
  BY NextKeeps
<1>2. AInv => AuthorizationsAdvance
  BY DEF AInv
<1> QED BY <1>1, <1>2, InitAdvances, PTL DEF Spec
-----------------------------------------------------------------------------
(* AuthorizedWhileVouched.

   A sound witness signs for a challenge only while its call runs, so what it signed for the challenge
   of a call is no older than the call (Heard).  A bundle is accepted at the witnesses' time, which
   the correction keeps within a request of the true one (Ready), and the correction stays with the
   call: when the call authorizes, the true time is at most that much later than the time it checks. *)

\* What a sound witness signed for a call, it signed since the call was asked; final blocks are final.
Heard ==
  \A t \in Windows : \A s \in signed[t] :
    /\ call[t].stage # "idle" /\ s.challenge = <<t, call[t].n>>
    /\ s.kind = "final" => s.block \in Blocks /\ OnFinal(s.block)
    /\ s.issued \in Nat /\ call[t].begun <= s.issued /\ s.issued <= now

\* A bundle that was accepted names a final block, and the corrected clock lags a request at most.
Ready(t) ==
  LET c == call[t] IN
    /\ OnFinal(BlockOf(c.bundle)) /\ BlockOf(c.bundle) \in Live
    /\ \A w \in Sound : c.begun <= c.bundle[w].issued
    /\ c.offset \in Int /\ skew + c.offset >= -Request

VInv ==
  /\ final \in Nat /\ skew \in Int
  /\ seen \in [Witnesses -> Nat] /\ \A w \in Witnesses : seen[w] <= final
  /\ DOMAIN signed = Windows /\ Heard
  /\ \A t \in Windows :
       /\ call[t].stage \in {"idle", "asked", "verified", "stored"}
       /\ call[t].stage # "idle" => call[t].kind \in {"final", "tip"} /\ call[t].begun <= now
       /\ call[t].stage \in {"verified", "stored"} => Ready(t)
  /\ AuthorizedWhileVouched

\* A finite set of integers that is not empty has a largest element, which Max names.
LEMMA MaxExists ==
  ASSUME NEW S, IsFiniteSet(S), S # {}, S \subseteq Int
  PROVE  Max(S) \in S /\ \A y \in S : Max(S) >= y
<1> DEFINE Top(T) == \E x \in T : \A y \in T : x >= y
           P == {T \in SUBSET S : T # {} /\ ~Top(T)}
<1>1. SUFFICES Top(S)
  BY DEF Max
<1>2. SUFFICES ASSUME P # {} PROVE FALSE
  OBVIOUS
<1>3. P \subseteq FiniteSubsetsOf(S)
  BY FS_FiniteSubsetsOfFinite
<1> HIDE DEF P
<1>4. PICK T \in P : \A U \in P : ~(<<U, T>> \in StrictSubsetOrdering(S))
  BY <1>2, <1>3, FS_StrictSubsetOrderingWellFounded, WFMin
<1>5. T \in SUBSET S /\ T # {} /\ ~Top(T)
  BY <1>4 DEF P
<1>6. PICK x \in T : TRUE
  BY <1>5
<1> DEFINE U == T \ {x}
<1>7. U \in SUBSET S /\ <<U, T>> \in StrictSubsetOrdering(S)
  BY <1>5, <1>6 DEF StrictSubsetOrdering
<1>8. U = {} \/ Top(U)
  BY <1>4, <1>7 DEF P
<1>9. CASE U = {}
  <2>1. \A y \in T : y = x
    BY <1>9
  <2> QED BY <2>1, <1>5, <1>6
<1>10. CASE Top(U)
  <2>1. PICK m \in U : \A y \in U : m >= y
    BY <1>10
  <2>2. x \in Int /\ m \in Int /\ \A y \in T : y \in Int
    BY <1>5, <1>6, <2>1
  <2>3. CASE m >= x
    <3>1. \A y \in T : m >= y
      BY <2>1, <2>3
    <3> QED BY <2>1, <3>1, <1>5
  <2>4. CASE x >= m
    <3>1. \A y \in T : x >= y
      BY <2>1, <2>2, <2>4
    <3> QED BY <3>1, <1>5, <1>6
  <2> QED BY <2>2, <2>3, <2>4
<1> QED BY <1>8, <1>9, <1>10

\* The latest statement of a bundle (witnessOffset).
LEMMA Latest ==
  ASSUME NEW bundle, \A w \in Witnesses : bundle[w].issued \in Nat
  PROVE  LET latest == Max({bundle[w].issued : w \in Witnesses}) IN
         latest \in Nat /\ \A w \in Witnesses : bundle[w].issued <= latest
<1> DEFINE S == {bundle[w].issued : w \in Witnesses}
           f == [w \in Witnesses |-> bundle[w].issued]
<1>1. f \in Surjection(Witnesses, S)
  BY DEF Surjection
<1>2. IsFiniteSet(S)
  BY <1>1, FS_Surjection, AttestationConstants DEF AttestationConstants
<1>3. S # {} /\ S \subseteq Nat /\ S \subseteq Int
  <2>1. PICK w \in Witnesses : TRUE
    BY AttestationConstants DEF AttestationConstants
  <2>2. bundle[w].issued \in S
    BY <2>1
  <2>3. S \subseteq Nat
    OBVIOUS
  <2> HIDE DEF S
  <2> QED BY <2>2, <2>3
<1>4. \A w \in Witnesses : bundle[w].issued \in S
  OBVIOUS
<1> HIDE DEF S
<1>5. Max(S) \in S /\ \A y \in S : Max(S) >= y
  BY <1>2, <1>3, MaxExists
<1>6. \A w \in Witnesses : bundle[w].issued <= Max(S)
  BY <1>1, <1>3, <1>4, <1>5
<1> QED BY <1>3, <1>5, <1>6 DEF S

\* The corrected clock of an accepted bundle is behind none of its statements (verifyStatements).
LEMMA NotBehind ==
  ASSUME NEW bundle, NEW t \in Windows, now \in Nat, skew \in Int,
         Verified(bundle, t, Device + Offset(bundle))
  PROVE  /\ Offset(bundle) \in Int
         /\ \A w \in Witnesses : /\ bundle[w].issued \in Nat
                                  /\ bundle[w].issued <= now + (skew + Offset(bundle))
<1>1. \A w \in Witnesses : bundle[w].issued \in Nat
  BY DEF Verified
<1> DEFINE latest == Max({bundle[w].issued : w \in Witnesses})
           offset == latest - Device
<1>2. latest \in Nat
  BY <1>1, Latest
<1>3. Offset(bundle) = offset \/ Offset(bundle) = 0
  BY DEF Offset
<1> HIDE DEF latest
<1>4. offset \in Int /\ Device = now + skew
  BY <1>2 DEF Device
<1>5. Offset(bundle) \in Int
  BY <1>3, <1>4
<1>6. \A w \in Witnesses : bundle[w].issued <= Device + Offset(bundle)
  BY DEF Verified
<1> QED BY <1>1, <1>4, <1>5, <1>6

\* What a bundle holds of a sound witness, that witness signed for some call.
LEMMA BundleHeard ==
  ASSUME NEW bundle \in Bundles, NEW w \in Sound
  PROVE  \E t \in Windows : bundle[w] \in signed[t]
<1>1. PICK heard \in [Sound -> UNION {signed[t] : t \in Windows}] :
        \E lies : bundle = [v \in Witnesses |-> IF v \in Faulty THEN lies[v] ELSE heard[v]]
  BY DEF Bundles
<1>2. bundle[w] = heard[w]
  BY <1>1 DEF Sound
<1> QED BY <1>1, <1>2

\* There is a sound witness.
LEMMA SomeSound == \E w \in Witnesses : w \in Sound
BY AttestationConstants DEF AttestationConstants, Sound

\* Every statement of a verified bundle names the block the call goes by.
LEMMA SameBlock ==
  ASSUME NEW bundle, NEW t \in Windows, NEW time, Verified(bundle, t, time), NEW w \in Witnesses
  PROVE  bundle[w].block = BlockOf(bundle)
<1>1. (CHOOSE v \in Witnesses : TRUE) \in Witnesses
  BY AttestationConstants DEF AttestationConstants
<1> QED BY <1>1 DEF Verified, BlockOf

\* A bundle that arrives in time is ready: it answers the call's own challenge (attested).
LEMMA ArrivesReady ==
  ASSUME AInv, VInv, NEW t \in Windows, NEW bundle \in Bundles,
         call[t].stage = "asked", now - call[t].begun <= Request, call[t].kind = "final",
         Verified(bundle, t, Device + Offset(bundle))
  PROVE  /\ OnFinal(BlockOf(bundle))
         /\ \A w \in Sound : call[t].begun <= bundle[w].issued
         /\ Offset(bundle) \in Int /\ skew + Offset(bundle) >= -Request
<1>1. now \in Nat /\ skew \in Int /\ call[t].begun \in Nat /\ Request \in Nat
  BY AttestationConstants DEF AInv, ATypeOK, Kept, VInv, AttestationConstants
<1>2. ASSUME NEW w \in Sound
      PROVE  /\ OnFinal(bundle[w].block) /\ call[t].begun <= bundle[w].issued
             /\ bundle[w].block = BlockOf(bundle)
  <2>1. PICK s \in Windows : bundle[w] \in signed[s]
    BY BundleHeard
  <2>2. bundle[w].challenge = <<s, call[s].n>> /\ bundle[w].challenge = <<t, call[t].n>>
        /\ bundle[w].kind = "final"
    BY <2>1 DEF VInv, Heard, Verified, Sound
  <2>3. s = t
    BY <2>2
  <2> QED BY <2>1, <2>2, <2>3, SameBlock DEF VInv, Heard, Sound
<1>3. PICK w \in Witnesses : w \in Sound
  BY SomeSound
<1>4. Offset(bundle) \in Int /\ bundle[w].issued \in Nat
      /\ bundle[w].issued <= now + (skew + Offset(bundle))
  BY <1>1, NotBehind
<1>5. skew + Offset(bundle) >= -Request
  <2>1. call[t].begun <= bundle[w].issued
    BY <1>2, <1>3
  <2> QED BY <2>1, <1>1, <1>4
<1> QED BY <1>2, <1>3, <1>4, <1>5

\* A step of one window that concludes nothing: what it does to its call and its answers.
LEMMA CallKeeps ==
  ASSUME AInv, VInv, NEW t \in Windows, NEW c, NEW S,
         call' = [call EXCEPT ![t] = c],
         signed' = [signed EXCEPT ![t] = S] \/ (signed' = signed /\ S = signed[t]),
         UNCHANGED <<final, seen, now, skew, results>>,
         c.stage \in {"idle", "asked", "verified", "stored"},
         c.stage # "idle" => c.kind \in {"final", "tip"} /\ c.begun <= now,
         \/ S = {}
         \/ S = signed[t] /\ c.stage # "idle" /\ call[t].stage # "idle"
                          /\ c.n = call[t].n /\ c.begun = call[t].begun,
         c.stage \in {"verified", "stored"} =>
           /\ OnFinal(BlockOf(c.bundle)) /\ BlockOf(c.bundle) \in Live
           /\ \A w \in Sound : c.begun <= c.bundle[w].issued
           /\ c.offset \in Int /\ skew + c.offset >= -Request
  PROVE  VInv'
<1>1. DOMAIN call' = Windows /\ \A s \in Windows : call'[s] = IF s = t THEN c ELSE call[s]
  BY OtherCalls DEF AInv, ATypeOK
<1>2. DOMAIN signed' = Windows /\ \A s \in Windows : signed'[s] = IF s = t THEN S ELSE signed[s]
  BY DEF VInv
<1>3. Heard'
  <2> SUFFICES ASSUME NEW u \in Windows, NEW s \in signed'[u]
               PROVE  /\ call'[u].stage # "idle" /\ s.challenge = <<u, call'[u].n>>
                      /\ s.kind = "final" => s.block \in Blocks /\ s.block.height <= final' /\ s.block.fork = 0
                      /\ s.issued \in Nat /\ call'[u].begun <= s.issued /\ s.issued <= now'
    BY DEF Heard, OnFinal
  <2>1. CASE u = t
    BY <2>1, <1>1, <1>2 DEF VInv, Heard, OnFinal
  <2>2. CASE u # t
    BY <2>2, <1>1, <1>2 DEF VInv, Heard, OnFinal
  <2> QED BY <2>1, <2>2
<1>4. \A s \in Windows :
        /\ call'[s].stage \in {"idle", "asked", "verified", "stored"}
        /\ call'[s].stage # "idle" => call'[s].kind \in {"final", "tip"} /\ call'[s].begun <= now'
  BY <1>1 DEF VInv
<1>5. ASSUME NEW s \in Windows, call'[s].stage \in {"verified", "stored"} PROVE Ready(s)'
  BY <1>1, <1>5 DEF VInv, Ready, OnFinal
<1>6. AuthorizedWhileVouched'
  BY DEF VInv, AuthorizedWhileVouched, Results, OnFinal
<1> QED BY <1>2, <1>3, <1>4, <1>5, <1>6 DEF VInv

\* Time and finality only advance, which breaks nothing that was heard or concluded.
LEMMA AdvanceKeeps ==
  ASSUME AInv, VInv, UNCHANGED <<skew, signed, call, results>>,
         now' \in Nat, now <= now', final' \in Nat, final <= final',
         seen' \in [Witnesses -> Nat], \A w \in Witnesses : seen'[w] <= final'
  PROVE  VInv'
<1>1. final \in Nat /\ now \in Nat
  BY DEF VInv, AInv, ATypeOK
<1>2. ASSUME NEW b \in Blocks, b.height <= final /\ b.fork = 0 PROVE b.height <= final' /\ b.fork = 0
  BY <1>1, <1>2 DEF Blocks
<1>3. Heard'
  <2> SUFFICES ASSUME NEW t \in Windows, NEW s \in signed[t]
               PROVE  /\ call[t].stage # "idle" /\ s.challenge = <<t, call[t].n>>
                      /\ s.kind = "final" => s.block \in Blocks /\ s.block.height <= final' /\ s.block.fork = 0
                      /\ s.issued \in Nat /\ call[t].begun <= s.issued /\ s.issued <= now'
    BY DEF Heard, OnFinal
  <2>1. s.issued \in Nat /\ s.issued <= now
    BY DEF VInv, Heard
  <2>2. s.issued <= now'
    BY <2>1, <1>1
  <2> QED BY <1>2, <2>2 DEF VInv, Heard, OnFinal
<1>4. ASSUME NEW t \in Windows, call[t].stage \in {"verified", "stored"} PROVE Ready(t)'
  <2>1. BlockOf(call[t].bundle) \in Blocks
    BY <1>4 DEF AInv, ATypeOK, Kept
  <2> QED BY <1>2, <1>4, <2>1 DEF VInv, Ready, OnFinal
<1>5. AuthorizedWhileVouched'
  <2>1. \A r \in Results : r.block \in Blocks
    <3>1. \A i \in DOMAIN results : results[i] \in Result
      BY DEF AInv, ATypeOK
    <3> QED BY <3>1 DEF Results, Result
  <2> QED BY <1>2, <2>1 DEF VInv, AuthorizedWhileVouched, Results, OnFinal
<1>6. \A t \in Windows : call[t].stage # "idle" => call[t].begun <= now'
  <2>1. \A t \in Windows : call[t].stage # "idle" => call[t].begun \in Nat /\ call[t].begun <= now
    BY DEF VInv, AInv, ATypeOK, Kept
  <2> QED BY <2>1, <1>1
<1> QED BY <1>3, <1>4, <1>5, <1>6 DEF VInv

\* A sound witness signs since the call was asked, and only final blocks as final (attest).
LEMMA SignsKeeps ==
  ASSUME AInv, VInv, NEW w \in Witnesses, NEW t \in Windows, Signs(w, t) PROVE VInv'
<1>1. PICK b \in (IF call[t].kind = "final" THEN {Block(h, 0) : h \in 1..seen[w]} ELSE {call[t].block}) :
        signed' = [signed EXCEPT ![t] = @ \cup {Statement(w, call[t].kind, b, now, t)}]
  BY DEF Signs
<1>2. call[t].stage = "asked" /\ UNCHANGED <<final, seen, now, skew, call, results>>
  BY DEF Signs, chain, clock
<1>3. call[t].kind = "final" => b \in Blocks /\ OnFinal(b)
  BY <1>1, AttestationConstants DEF VInv, Block, Blocks, OnFinal, AttestationConstants
<1>4. now \in Nat /\ call[t].begun \in Nat
  BY <1>2 DEF AInv, ATypeOK, Kept
<1> DEFINE new == Statement(w, call[t].kind, b, now, t)
<1>5. /\ new.challenge = <<t, call[t].n>> /\ new.kind = call[t].kind /\ new.block = b /\ new.issued = now
  BY DEF Statement
<1> HIDE DEF new
<1>6. Heard'
  <2> SUFFICES ASSUME NEW u \in Windows, NEW s \in signed'[u]
               PROVE  /\ call[u].stage # "idle" /\ s.challenge = <<u, call[u].n>>
                      /\ s.kind = "final" => s.block \in Blocks /\ OnFinal(s.block)
                      /\ s.issued \in Nat /\ call[u].begun <= s.issued /\ s.issued <= now
    BY <1>2 DEF Heard, OnFinal
  <2>1. s \in signed[u] \/ (u = t /\ s = new)
    BY <1>1 DEF VInv, new
  <2>2. CASE s \in signed[u]
    BY <2>2 DEF VInv, Heard
  <2>3. CASE u = t /\ s = new
    BY <2>3, <1>2, <1>3, <1>4, <1>5 DEF VInv
  <2> QED BY <2>1, <2>2, <2>3
<1>7. DOMAIN signed' = Windows
  BY <1>1 DEF VInv
<1> QED BY <1>2, <1>6, <1>7 DEF VInv, Ready, OnFinal, AuthorizedWhileVouched, Results


\* A statement of a verified bundle is within its lifetime at the time it is checked.
LEMMA Lifetime ==
  ASSUME NEW bundle, NEW t \in Windows, NEW time, Verified(bundle, t, time), NEW w \in Witnesses
  PROVE  bundle[w].issued \in Nat /\ time - bundle[w].issued <= Ttl
BY DEF Verified

\* What a call authorizes: its statements are checked again at the corrected time (attested).
LEMMA AuthorizesVouches ==
  ASSUME AInv, VInv, NEW t \in Windows, Authorizes(t) PROVE VInv'
<1> DEFINE bundle == call[t].bundle
           r == [ver |-> Build[t], block |-> BlockOf(bundle),
                 issued |-> [w \in Witnesses |-> bundle[w].issued],
                 begun |-> call[t].begun, after |-> call[t].after, at |-> now]
           c == [stage |-> "idle", n |-> call[t].n]
<1>1. /\ call[t].stage = "stored" /\ Verified(bundle, t, Device + call[t].offset)
      /\ results' = Append(results, r) /\ call' = [call EXCEPT ![t] = c]
      /\ signed' = [signed EXCEPT ![t] = {}] /\ UNCHANGED <<final, seen, now, skew>>
  BY DEF Authorizes, Concludes, Ends, chain, clock
<1>2. Ready(t)
  BY <1>1 DEF VInv
<1>3. now \in Nat /\ skew \in Int /\ {Ttl, Request} \subseteq Nat
  BY AttestationConstants DEF AInv, ATypeOK, VInv, AttestationConstants
<1>4. ASSUME NEW w \in Sound PROVE r.issued[w] >= r.begun /\ r.at - r.issued[w] <= Ttl + Request
  <2>1. w \in Witnesses
    BY DEF Sound
  <2>2. /\ call[t].begun <= bundle[w].issued
        /\ call[t].offset \in Int /\ skew + call[t].offset >= -Request
    BY <1>2 DEF Ready
  <2> DEFINE time == now + skew + call[t].offset
  <2>6. bundle[w].issued \in Nat /\ time - bundle[w].issued <= Ttl
    <3>1. Verified(bundle, t, time)
      BY <1>1 DEF Device
    <3> HIDE DEF bundle, time
    <3> QED BY <2>1, <3>1, Lifetime
  <2>3. call[t].begun \in Nat
    BY <1>1 DEF AInv, ATypeOK, Kept
  <2>4. now - bundle[w].issued <= Ttl + Request
    BY <1>3, <2>2, <2>6
  <2>5. r.issued[w] = bundle[w].issued /\ r.begun = call[t].begun /\ r.at = now
    BY <2>1
  <2> QED BY <2>2, <2>3, <2>4, <2>5, <2>6
<1>5. r.block = BlockOf(bundle) /\ OnFinal(r.block) /\ r.block \in Live
  BY <1>2 DEF Ready
<1>6. results \in Seq(Result)
  BY DEF AInv, ATypeOK
<1> HIDE DEF r
<1>7. \A x \in Results' : x \in Results \/ x = r
  BY <1>1, <1>6 DEF Results
<1>8. AuthorizedWhileVouched'
  BY <1>1, <1>4, <1>5, <1>7 DEF VInv, AuthorizedWhileVouched, OnFinal
<1>9. DOMAIN call' = Windows /\ \A s \in Windows : call'[s] = IF s = t THEN c ELSE call[s]
  BY <1>1, OtherCalls DEF AInv, ATypeOK
<1>10. DOMAIN signed' = Windows /\ \A s \in Windows : signed'[s] = IF s = t THEN {} ELSE signed[s]
  BY <1>1 DEF VInv
<1>11. Heard'
  BY <1>1, <1>9, <1>10 DEF VInv, Heard, OnFinal
<1>12. ASSUME NEW s \in Windows, call'[s].stage # "idle" PROVE call'[s] = call[s]
  BY <1>9, <1>12
<1>13. \A s \in Windows : call'[s].stage \in {"verified", "stored"} => Ready(s)'
  BY <1>1, <1>9, <1>12 DEF VInv, Ready, OnFinal
<1>14. \A s \in Windows :
         /\ call'[s].stage \in {"idle", "asked", "verified", "stored"}
         /\ call'[s].stage # "idle" => call'[s].kind \in {"final", "tip"} /\ call'[s].begun <= now'
  BY <1>1, <1>9 DEF VInv
<1> QED BY <1>1, <1>8, <1>10, <1>11, <1>13, <1>14 DEF VInv

\* Every action keeps what vouches for a purchase.
LEMMA NextVouches ==
  ASSUME AInv, VInv, [Next]_vars PROVE VInv'
<1>0. now \in Nat /\ final \in Nat /\ seen \in [Witnesses -> Nat] /\ \A w \in Witnesses : seen[w] <= final
  BY DEF AInv, ATypeOK, VInv
<1>1. CASE UNCHANGED vars
  BY <1>0, <1>1, AdvanceKeeps DEF vars, chain, clock
<1>2. CASE Finalize
  BY <1>0, <1>2, AdvanceKeeps DEF Finalize, clock
<1>3. CASE Tick
  BY <1>0, <1>3, AdvanceKeeps DEF Tick, chain
<1>4. ASSUME NEW w \in Witnesses, Import(w) PROVE VInv'
  <2>1. seen' \in [Witnesses -> Nat] /\ \A v \in Witnesses : seen'[v] <= final
    BY <1>0, <1>4 DEF Import
  <2> QED BY <1>0, <1>4, <2>1, AdvanceKeeps DEF Import, clock
<1>5. ASSUME NEW t \in Windows, NEW kind \in {"final", "tip"}, Call(t, kind) PROVE VInv'
  <2>1. PICK b : /\ call' = [call EXCEPT ![t] = [stage |-> "asked", n |-> call[t].n + 1, kind |-> kind,
                      attempt |-> 1, begun |-> now, after |-> Len(results), block |-> b]]
                 /\ signed' = [signed EXCEPT ![t] = {}]
                 /\ UNCHANGED <<final, seen, now, skew, results>>
    BY <1>5 DEF Call, Asks, chain, clock
  <2> DEFINE c == [stage |-> "asked", n |-> call[t].n + 1, kind |-> kind, attempt |-> 1,
                   begun |-> now, after |-> Len(results), block |-> b]
  <2>2. c.stage = "asked" /\ c.kind \in {"final", "tip"} /\ c.begun <= now
    BY <1>0
  <2> QED BY <2>1, <2>2, CallKeeps
<1>6. ASSUME NEW t \in Windows, Retry(t) PROVE VInv'
  <2>1. PICK b : /\ call' = [call EXCEPT ![t] = [stage |-> "asked", n |-> call[t].n + 1, kind |-> "tip",
                      attempt |-> 2, begun |-> now, after |-> Len(results), block |-> b]]
                 /\ signed' = [signed EXCEPT ![t] = {}]
                 /\ UNCHANGED <<final, seen, now, skew, results>>
    BY <1>6 DEF Retry, Asks, chain, clock
  <2> DEFINE c == [stage |-> "asked", n |-> call[t].n + 1, kind |-> "tip", attempt |-> 2,
                   begun |-> now, after |-> Len(results), block |-> b]
  <2>2. c.stage = "asked" /\ c.kind \in {"final", "tip"} /\ c.begun <= now
    BY <1>0
  <2> QED BY <2>1, <2>2, CallKeeps
<1>7. ASSUME NEW t \in Windows, Ends(t), UNCHANGED <<final, seen, now, skew, results>> PROVE VInv'
  <2> DEFINE c == [stage |-> "idle", n |-> call[t].n]
  <2>1. call' = [call EXCEPT ![t] = c] /\ signed' = [signed EXCEPT ![t] = {}]
    BY <1>7 DEF Ends
  <2> QED BY <1>7, <2>1, CallKeeps
<1>8. ASSUME NEW t \in Windows, Fails(t) PROVE VInv'
  BY <1>7, <1>8 DEF Fails, chain, clock
<1>9. ASSUME NEW t \in Windows, Arrives(t) PROVE VInv'
  <2>1. PICK bundle \in Bundles :
          /\ Verified(bundle, t, Device + Offset(bundle))
          /\ IF call[t].kind = "tip"
             THEN BlockOf(bundle) = call[t].block /\ Ends(t) /\ UNCHANGED results
             ELSE /\ BlockOf(bundle) \in Live
                  /\ call' = [call EXCEPT ![t] = [stage |-> "verified", n |-> @.n, kind |-> @.kind,
                       begun |-> @.begun, after |-> @.after, bundle |-> bundle, offset |-> Offset(bundle)]]
                  /\ UNCHANGED <<signed, results>>
    BY <1>9 DEF Arrives
  <2>2. UNCHANGED <<final, seen, now, skew>> /\ call[t].stage = "asked" /\ now - call[t].begun <= Request
    BY <1>9 DEF Arrives, chain, clock
  <2>3. CASE call[t].kind = "tip"
    BY <2>1, <2>2, <2>3, <1>7
  <2>4. CASE call[t].kind # "tip"
    <3> DEFINE c == [stage |-> "verified", n |-> call[t].n, kind |-> call[t].kind, begun |-> call[t].begun,
                     after |-> call[t].after, bundle |-> bundle, offset |-> Offset(bundle)]
    <3>1. call' = [call EXCEPT ![t] = c] /\ UNCHANGED <<signed, results>> /\ BlockOf(bundle) \in Live
      BY <2>1, <2>4
    <3>2. call[t].kind = "final" /\ call[t].begun <= now
      BY <2>2, <2>4 DEF VInv
    <3>3. /\ OnFinal(BlockOf(bundle))
          /\ \A w \in Sound : call[t].begun <= bundle[w].issued
          /\ Offset(bundle) \in Int /\ skew + Offset(bundle) >= -Request
      BY <2>1, <2>2, <3>2, ArrivesReady
    <3> QED BY <2>2, <3>1, <3>2, <3>3, CallKeeps
  <2> QED BY <2>3, <2>4
<1>10. ASSUME NEW t \in Windows, Stores(t) PROVE VInv'
  <2> DEFINE c == [call[t] EXCEPT !.stage = "stored"]
  <2>1. /\ call[t].stage = "verified" /\ call' = [call EXCEPT ![t] = c]
        /\ UNCHANGED <<final, seen, now, skew, signed, results>>
    BY <1>10 DEF Stores, chain, clock
  <2>2. call[t] = [stage |-> call[t].stage, n |-> call[t].n, kind |-> call[t].kind,
                   begun |-> call[t].begun, after |-> call[t].after, bundle |-> call[t].bundle,
                   offset |-> call[t].offset]
    BY <2>1 DEF AInv, ATypeOK, Kept
  <2>3. /\ c.stage = "stored" /\ c.n = call[t].n /\ c.kind = call[t].kind /\ c.begun = call[t].begun
        /\ c.bundle = call[t].bundle /\ c.offset = call[t].offset
    BY <2>2
  <2>4. Ready(t) /\ call[t].kind \in {"final", "tip"} /\ call[t].begun <= now
    BY <2>1 DEF VInv
  <2> HIDE DEF c
  <2> QED BY <2>1, <2>3, <2>4, CallKeeps DEF Ready
<1>11. ASSUME NEW t \in Windows, Authorizes(t) PROVE VInv'
  BY <1>11, AuthorizesVouches
<1> QED BY <1>1, <1>2, <1>3, <1>4, <1>5, <1>6, <1>8, <1>9, <1>10, <1>11, SignsKeeps DEF Next

\* A purchase is only authorized on a final block where its reservation stands, and on statements of
\* the sound witnesses that are no older than the call, a lifetime and one request.
THEOREM AuthorizedIsVouched == Spec => []AuthorizedWhileVouched
<1>1. Init => AInv
  BY InitAdvances
<1>2. Init => VInv
  BY AttestationConstants DEF Init, VInv, Heard, Idle, AuthorizedWhileVouched, Results, AttestationConstants
<1>3. AInv /\ VInv /\ [Next]_vars => AInv' /\ VInv'
  BY NextKeeps, NextVouches
<1>4. VInv => AuthorizedWhileVouched
  BY DEF VInv
<1> QED BY <1>1, <1>2, <1>3, <1>4, PTL DEF Spec
-----------------------------------------------------------------------------
(* A book, for the proofs: a typed one that loads, in which the accounts of a root are numbered
   without a gap.  Frame is what the rewriting of its records leaves alone. *)
Frame(b)   == {<<r.vault.root, r.index, r.pos>> : r \in b.records}
RootsOf(b) == {r.vault.root : r \in RootRecords(b)}

Distinct(b) == \A r, s \in b.records : Identity(r) = Identity(s) \/ r.pos = s.pos => r = s
Rooted(b) ==
  \A r \in b.records :
    /\ r.index < MaxAccounts
    /\ r.index > 0 => \E s \in b.records : s.index = 0 /\ s.vault = r.vault
    /\ r.passkey \in {NoRoot, r.vault.root}
Owned(b) ==
  b.access # NoAccess =>
    b.access.owner \in RootsOf(b) /\ b.access.wallets \subseteq RootsOf(b) \ {b.access.owner}
Gapless(b) ==
  \A r \in b.records : \A i \in Nat :
    i < r.index => \E s \in b.records : s.vault.root = r.vault.root /\ s.index = i
Good(b) ==
  /\ b \in Books /\ IsFiniteSet(b.records) /\ Cardinality(b.records) <= MaxAccounts
  /\ b.records # {} => \E r \in b.records : r.pos = b.active
  /\ b.records = {} => b = NoBook
  /\ Distinct(b) /\ Rooted(b) /\ Owned(b) /\ Gapless(b)

\* What readState() loads, in the parts the proofs use.
LEMMA LoadsIs ==
  ASSUME NEW b, b \in Books
  PROVE  Loads(b) <=> /\ Cardinality(b.records) <= MaxAccounts
                      /\ b.records # {} => \E r \in b.records : r.pos = b.active
                      /\ Distinct(b) /\ Rooted(b) /\ Owned(b)
<1>1. (\A r \in b.records :
         /\ r.index < MaxAccounts
         /\ r.index > 0 => \E s \in RootRecords(b) : s.vault = r.vault
         /\ r.passkey \in {NoRoot, r.vault.root}) <=> Rooted(b)
  BY DEF Rooted, RootRecords
<1>2. (b.access # NoAccess =>
         LET roots == {r.vault.root : r \in RootRecords(b)}
         IN b.access.owner \in roots /\ b.access.wallets \subseteq roots \ {b.access.owner}) <=> Owned(b)
  BY DEF Owned, RootsOf
<1> QED BY <1>1, <1>2 DEF Loads, Distinct

\* A finite set of numbers is bounded.
LEMMA Bounded ==
  ASSUME NEW S, S \subseteq Nat, IsFiniteSet(S)
  PROVE  \E b \in Nat : \A n \in S : n <= b
<1> DEFINE B == {T \in SUBSET S : \E b \in Nat : \A n \in S \ T : n <= b}
<1>1. S \in B
  <2>1. 0 \in Nat /\ \A n \in S \ S : n <= 0  OBVIOUS
  <2> QED BY <2>1
<1>2. PICK T \in B : \A x \in T : T \ {x} \notin B
  <2>1. B \in SUBSET (SUBSET S) /\ B # {}  BY <1>1
  <2> HIDE DEF B
  <2> QED BY <2>1, SmallestSet
<1>3. ASSUME NEW x \in T PROVE FALSE
  <2>1. PICK b \in Nat : \A n \in S \ T : n <= b  BY <1>2
  <2>2. PICK c \in Nat : c = IF b < x THEN x ELSE b  BY <1>2, <1>3
  <2>3. \A n \in S \ (T \ {x}) : n <= c
    <3> SUFFICES ASSUME NEW n \in S \ (T \ {x}) PROVE n <= c  OBVIOUS
    <3>1. n = x \/ n <= b  BY <2>1
    <3>2. n \in Nat /\ x \in Nat  BY <1>2
    <3> QED BY <2>2, <3>1, <3>2
  <2>4. T \ {x} \in B  BY <1>2, <2>3
  <2> QED BY <1>2, <2>4
<1>4. T = {}  BY <1>3
<1> QED BY <1>2, <1>4

\* The image of a finite set is no larger.
LEMMA Image ==
  ASSUME NEW S, IsFiniteSet(S), NEW f, f = [x \in S |-> f[x]], NEW T, T = {f[x] : x \in S}
  PROVE  /\ IsFiniteSet(T) /\ Cardinality(T) <= Cardinality(S)
         /\ (\A x, y \in S : f[x] = f[y] => x = y) => Cardinality(T) = Cardinality(S)
<1>1. f \in Surjection(S, T)  BY DEF Surjection
<1>2. (\A x, y \in S : f[x] = f[y] => x = y) => f \in Injection(S, T)
  BY <1>1 DEF Injection, Surjection, IsInjective
<1> QED BY <1>1, <1>2, FS_Surjection

\* The accounts of a root without a gap are as many as their largest number says (account-backup.ts).
LEMMA RestoresIs ==
  ASSUME NEW b, b \in Books, IsFiniteSet(b.records), Distinct(b), Rooted(b)
  PROVE  Restores(b) <=> Gapless(b)
<1>0. b.records \subseteq Records  BY DEF Books
<1>1. ASSUME NEW r \in RootRecords(b), Gapless(b)
      PROVE  {s.index : s \in Of(b, r.vault.root)} = 0..(Cardinality(Of(b, r.vault.root)) - 1)
  <2> DEFINE S == Of(b, r.vault.root)
             f == [s \in S |-> s.index]
             I == {s.index : s \in S}
  <2>1. S \subseteq b.records /\ IsFiniteSet(S) /\ r \in S /\ r.index = 0
    <3>1. S \in SUBSET b.records  BY DEF Of
    <3> QED BY <3>1, FS_Subset DEF Of, RootRecords
  <2>2. I \subseteq Nat /\ I = {f[s] : s \in S} /\ 0 \in I
    BY <1>0, <2>1 DEF Records
  <2>3. \A x, y \in S : f[x] = f[y] => x = y
    BY <2>1 DEF Distinct, Identity, Of
  <2>4. IsFiniteSet(I) /\ Cardinality(I) = Cardinality(S)
    <3> f = [x \in S |-> f[x]]  OBVIOUS
    <3> HIDE DEF f, I
    <3> QED BY <2>1, <2>2, <2>3, Image
  <2>5. \A n \in I : \A i \in Nat : i < n => i \in I
    <3> SUFFICES ASSUME NEW n \in S, NEW i \in Nat, i < n.index PROVE i \in I
      OBVIOUS
    <3>0. n \in b.records /\ n.vault.root = r.vault.root
      BY DEF Of
    <3>1. PICK s \in b.records : s.vault.root = n.vault.root /\ s.index = i
      BY <1>1, <3>0 DEF Gapless
    <3>2. s \in S
      BY <3>0, <3>1 DEF Of
    <3> QED BY <3>1, <3>2
  <2> HIDE DEF I
  <2>6. PICK m \in I : \A n \in I : n <= m
    <3>1. PICK c \in Nat : \A n \in I : n <= c  BY <2>2, <2>4, Bounded
    <3> QED BY <2>2, <3>1, MaxIs
  <2>7. I = 0..m
    <3>0. \A n \in I : n \in Nat  BY <2>2
    <3>1. m \in Nat  BY <2>6, <3>0
    <3>2. \A n \in I : n \in 0..m  BY <2>6, <3>0, <3>1
    <3>3. \A n \in 0..m : n \in I
      <4> SUFFICES ASSUME NEW n \in 0..m PROVE n \in I  OBVIOUS
      <4>1. n \in Nat /\ (n = m \/ n < m)  BY <3>1
      <4> QED BY <2>5, <2>6, <4>1
    <3> QED BY <3>2, <3>3
  <2>8. Cardinality(I) = m + 1
    <3>1. m \in Nat /\ 0 \in Int /\ m \in Int /\ ~(0 > m)  BY <2>2, <2>6
    <3>2. Cardinality(0..m) = m - 0 + 1  BY <3>1, FS_Interval
    <3> QED BY <2>7, <3>1, <3>2
  <2>9. 0..(Cardinality(S) - 1) = 0..m  BY <2>2, <2>4, <2>6, <2>8
  <2> QED BY <2>7, <2>9 DEF I
<1>2. ASSUME Restores(b), NEW r \in b.records, NEW i \in Nat, i < r.index
      PROVE  \E s \in b.records : s.vault.root = r.vault.root /\ s.index = i
  <2>1. PICK t \in RootRecords(b) : t.vault = r.vault
    <3>1. r.index \in Nat /\ r.index > 0  BY <1>0, <1>2 DEF Records
    <3> QED BY <3>1 DEF Rooted, RootRecords
  <2>2. PICK n : n = Cardinality(Of(b, t.vault.root)) - 1  OBVIOUS
  <2>3. {s.index : s \in Of(b, t.vault.root)} = 0..n  BY <1>2, <2>2 DEF Restores
  <2>4. r \in Of(b, t.vault.root)  BY <2>1 DEF Of
  <2>5. n \in Int
    <3>1. Of(b, t.vault.root) \in SUBSET b.records  BY DEF Of
    <3>2. Cardinality(Of(b, t.vault.root)) \in Nat  BY <3>1, FS_Subset, FS_CardinalityType
    <3> QED BY <2>2, <3>2
  <2>6. r.index \in 0..n  BY <2>3, <2>4
  <2>7. i \in 0..n  BY <1>2, <2>5, <2>6
  <2>8. PICK s \in Of(b, t.vault.root) : s.index = i  BY <2>3, <2>7
  <2> QED BY <2>1, <2>8 DEF Of
<1> QED BY <1>1, <1>2 DEF Restores, Gapless

-----------------------------------------------------------------------------
\* The active account (activeRecord).
LEMMA ActiveIs ==
  ASSUME NEW b, Good(b), b # NoBook
  PROVE  Active(b) \in b.records /\ Active(b).pos = b.active
<1>1. \E r \in b.records : r.pos = b.active  BY DEF Good
<1> QED BY <1>1 DEF Active

\* Some root owns access: the one recorded, or before there is one the oldest (accessRecord).
LEMMA AnchorIs ==
  ASSUME NEW b, Good(b), b # NoBook
  PROVE  /\ AccessRecord(b) \in RootRecords(b) /\ AccessRecord(b) \in b.records
         /\ AccessRecord(b).vault.root = Anchor(b) /\ Anchor(b) \in RootsOf(b) /\ Anchor(b) \in Roots
         /\ b.access # NoAccess => Anchor(b) = b.access.owner
         /\ b.access = NoAccess => \A s \in RootRecords(b) : AccessRecord(b).pos <= s.pos
<1>1. b.records \subseteq Records  BY DEF Good, Books
<1>2. RootRecords(b) \subseteq b.records  BY DEF RootRecords
<1>3. CASE b.access # NoAccess
  <2>1. \E r \in RootRecords(b) : r.vault.root = b.access.owner
    BY <1>3 DEF Good, Owned, RootsOf
  <2>2. AccessRecord(b) = CHOOSE r \in RootRecords(b) : r.vault.root = b.access.owner
    BY <1>3 DEF AccessRecord
  <2>3. AccessRecord(b) \in RootRecords(b) /\ AccessRecord(b).vault.root = b.access.owner
    BY <2>1, <2>2
  <2> QED BY <1>1, <1>2, <1>3, <2>3 DEF Anchor, RootsOf, Records, Vaults
<1>4. CASE b.access = NoAccess
  <2> DEFINE P == {r.pos : r \in RootRecords(b)}
  <2>1. PICK r \in b.records : TRUE  BY DEF Good
  <2>2. \E s \in RootRecords(b) : TRUE
    <3>1. r.index \in Nat  BY <1>1, <2>1 DEF Records
    <3>2. CASE r.index = 0  BY <2>1, <3>2 DEF RootRecords
    <3>3. CASE r.index > 0  BY <2>1, <3>3 DEF Good, Rooted, RootRecords
    <3> QED BY <3>1, <3>2, <3>3
  <2>3. P \subseteq Nat /\ P # {}  BY <1>1, <1>2, <2>2 DEF Records
  <2>4. PICK p \in P : \A n \in P : p <= n
    <3> HIDE DEF P
    <3> QED BY <2>3, LeastNumber
  <2>5. \E x \in RootRecords(b) : \A s \in RootRecords(b) : x.pos <= s.pos  BY <2>4
  <2>6. AccessRecord(b) = CHOOSE x \in RootRecords(b) : \A s \in RootRecords(b) : x.pos <= s.pos
    BY <1>4 DEF AccessRecord
  <2>7. /\ AccessRecord(b) \in RootRecords(b)
        /\ \A s \in RootRecords(b) : AccessRecord(b).pos <= s.pos
    <3> HIDE DEF P
    <3> QED BY <2>5, <2>6
  <2> HIDE DEF P
  <2> QED BY <1>1, <1>2, <1>4, <2>7 DEF Anchor, RootsOf, Records, Vaults
<1> QED BY <1>3, <1>4

\* Two records of a root are one.
LEMMA OneRoot ==
  ASSUME NEW b, Good(b), NEW r \in RootRecords(b), NEW s \in RootRecords(b),
         r.vault.root = s.vault.root \/ r.pos = s.pos
  PROVE  r = s
<1>1. r \in b.records /\ s \in b.records /\ (Identity(r) = Identity(s) \/ r.pos = s.pos)
  BY DEF RootRecords, Identity
<1> QED BY <1>1 DEF Good, Distinct, RootRecords, Identity

\* Books of one frame have the same records but for vaults, backups and passkeys.
LEMMA FrameOf ==
  ASSUME NEW b, NEW c, Frame(b) = Frame(c), NEW r \in b.records
  PROVE  \E s \in c.records : s.vault.root = r.vault.root /\ s.index = r.index /\ s.pos = r.pos
<1>1. <<r.vault.root, r.index, r.pos>> \in Frame(c)  BY DEF Frame
<1>2. PICK s \in c.records :
        <<r.vault.root, r.index, r.pos>> = <<s.vault.root, s.index, s.pos>>
  BY <1>1 DEF Frame
<1> QED BY <1>2

\* So they have the same accounts and roots.
LEMMA FrameKeeps ==
  ASSUME NEW b, NEW c, Frame(b) = Frame(c)
  PROVE  /\ Accounts(b) = Accounts(c) /\ RootsOf(b) = RootsOf(c)
         /\ b.records = {} <=> c.records = {}
<1>2. \A x, y : Frame(x) = Frame(y) => Accounts(x) \subseteq Accounts(y)
  <2> SUFFICES ASSUME NEW x, NEW y, Frame(x) = Frame(y), NEW r \in x.records
               PROVE  Identity(r) \in Accounts(y)
    BY DEF Accounts
  <2>1. PICK s \in y.records : s.vault.root = r.vault.root /\ s.index = r.index  BY FrameOf
  <2> QED BY <2>1 DEF Accounts, Identity
<1>3. \A x, y : Frame(x) = Frame(y) => RootsOf(x) \subseteq RootsOf(y)
  <2> SUFFICES ASSUME NEW x, NEW y, Frame(x) = Frame(y), NEW r \in x.records, r.index = 0
               PROVE  r.vault.root \in RootsOf(y)
    BY DEF RootsOf, RootRecords
  <2>1. PICK s \in y.records : s.vault.root = r.vault.root /\ s.index = r.index  BY FrameOf
  <2> QED BY <2>1 DEF RootsOf, RootRecords
<1>4. \A x, y : Frame(x) = Frame(y) /\ x.records # {} => y.records # {}  BY FrameOf
<1>5. Accounts(b) = Accounts(c)  BY <1>2
<1>6. RootsOf(b) = RootsOf(c)  BY <1>3
<1>7. b.records = {} <=> c.records = {}  BY <1>4
<1> QED BY <1>5, <1>6, <1>7

\* The anchor depends on the frame and on who owns access.
LEMMA AnchorFrame ==
  ASSUME NEW b, NEW c, Good(b), Good(c), b # NoBook, c # NoBook,
         Frame(b) = Frame(c), b.access = c.access
  PROVE  Anchor(b) = Anchor(c)
<1>1. CASE b.access # NoAccess  BY <1>1, AnchorIs
<1>2. CASE b.access = NoAccess
  <2>1. PICK x : x = AccessRecord(b)  OBVIOUS
  <2>2. PICK y : y = AccessRecord(c)  OBVIOUS
  <2>3. /\ x \in b.records /\ x.index = 0 /\ \A s \in RootRecords(b) : x.pos <= s.pos
        /\ y \in c.records /\ y.index = 0 /\ \A s \in RootRecords(c) : y.pos <= s.pos
    BY <1>2, <2>1, <2>2, AnchorIs DEF RootRecords
  <2>4. PICK u \in c.records : u.vault.root = x.vault.root /\ u.index = x.index /\ u.pos = x.pos
    BY <2>3, FrameOf
  <2>5. PICK v \in b.records : v.vault.root = y.vault.root /\ v.index = y.index /\ v.pos = y.pos
    BY <2>3, FrameOf
  <2>6. y.pos <= x.pos /\ x.pos <= y.pos  BY <2>3, <2>4, <2>5 DEF RootRecords
  <2>7. x.pos = y.pos
    <3>1. x.pos \in Nat /\ y.pos \in Nat  BY <2>3 DEF Good, Books, Records
    <3> QED BY <2>6, <3>1
  <2>8. u = y  BY <2>3, <2>4, <2>7 DEF Good, Distinct
  <2> QED BY <2>1, <2>2, <2>4, <2>8 DEF Anchor
<1> QED BY <1>1, <1>2

\* What opens each account depends on its frame, its anchor and its links.
LEMMA OpensFrame ==
  ASSUME NEW b, NEW c, Frame(b) = Frame(c), Anchor(b) = Anchor(c)
  PROVE  /\ b.access.wallets \subseteq c.access.wallets => Reported(b) \subseteq Reported(c)
         /\ b.access.wallets = c.access.wallets => Reported(b) = Reported(c)
         /\ b.access.wallets = c.access.wallets =>
              (UnlinkedWallets(b) = {} <=> UnlinkedWallets(c) = {})
<1>1. Accounts(b) = Accounts(c) /\ RootsOf(b) = RootsOf(c)  BY FrameKeeps
<1>2. \A x : UnlinkedWallets(x) = {} <=> \A k \in RootsOf(x) : Opens(x, k)
  BY DEF UnlinkedWallets, RootsOf
<1> QED BY <1>1, <1>2 DEF Reported, Opens

\* Every record of c is one of b, rewritten by f.
Rewrites(b, c, f) ==
  /\ c \in Books /\ c.active = b.active /\ c.access = b.access
  /\ f = [r \in b.records |-> f[r]] /\ c.records = {f[r] : r \in b.records}
  /\ \A r \in b.records : /\ f[r].vault.root = r.vault.root /\ f[r].index = r.index
                           /\ f[r].pos = r.pos /\ f[r].passkey \in {NoRoot, r.vault.root}
  /\ \A r, s \in b.records : r.vault = s.vault => f[r].vault = f[s].vault

\* A book whose records are rewritten, each keeping its root, number and position.
LEMMA Rewritten ==
  ASSUME NEW b, Good(b), b # NoBook, NEW c, NEW f, Rewrites(b, c, f)
  PROVE  /\ Good(c) /\ c # NoBook /\ Frame(c) = Frame(b) /\ Anchor(c) = Anchor(b)
         /\ Cardinality(c.records) <= Cardinality(b.records)
<1> USE DEF Rewrites
<1>1. b.records # {} /\ IsFiniteSet(b.records) /\ Cardinality(b.records) <= MaxAccounts
  BY DEF Good
<1>2. c.records # {} /\ c # NoBook
  <2>1. PICK r \in b.records : TRUE  BY <1>1
  <2>2. f[r] \in c.records  BY <2>1
  <2>3. NoBook.records = {}  BY DEF NoBook
  <2> QED BY <2>2, <2>3
<1>3. IsFiniteSet(c.records) /\ Cardinality(c.records) <= Cardinality(b.records)
  BY <1>1, Image
<1>4. Cardinality(c.records) <= MaxAccounts
  BY <1>1, <1>3, FS_CardinalityType, AccountBookConstants DEF AccountBookConstants
<1>5. \A x \in c.records : \E r \in b.records : x = f[r]  OBVIOUS
<1>6. Frame(c) = Frame(b)
  <2>1. ASSUME NEW t \in Frame(b) PROVE t \in Frame(c)
    <3>1. PICK r \in b.records : t = <<r.vault.root, r.index, r.pos>>  BY DEF Frame
    <3>2. f[r] \in c.records /\ t = <<f[r].vault.root, f[r].index, f[r].pos>>  BY <3>1
    <3> QED BY <3>2 DEF Frame
  <2>2. ASSUME NEW t \in Frame(c) PROVE t \in Frame(b)
    <3>1. PICK x \in c.records : t = <<x.vault.root, x.index, x.pos>>  BY DEF Frame
    <3>2. PICK r \in b.records : x = f[r]  BY <1>5
    <3>3. t = <<r.vault.root, r.index, r.pos>>  BY <3>1, <3>2
    <3> QED BY <3>3 DEF Frame
  <2> QED BY <2>1, <2>2
<1>7. \E x \in c.records : x.pos = c.active
  <2>1. PICK r \in b.records : r.pos = b.active  BY <1>1 DEF Good
  <2>2. f[r] \in c.records /\ f[r].pos = c.active  BY <2>1
  <2> QED BY <2>2
<1>8. Distinct(c)
  <2> SUFFICES ASSUME NEW x \in c.records, NEW y \in c.records,
                      Identity(x) = Identity(y) \/ x.pos = y.pos
               PROVE  x = y
    BY DEF Distinct
  <2>1. PICK r \in b.records : x = f[r]  BY <1>5
  <2>2. PICK s \in b.records : y = f[s]  BY <1>5
  <2>3. Identity(r) = Identity(s) \/ r.pos = s.pos  BY <2>1, <2>2 DEF Identity
  <2>4. r = s  BY <2>3 DEF Good, Distinct
  <2> QED BY <2>1, <2>2, <2>4
<1>9. Rooted(c)
  <2> SUFFICES ASSUME NEW x \in c.records
               PROVE  /\ x.index < MaxAccounts
                      /\ x.index > 0 => \E y \in c.records : y.index = 0 /\ y.vault = x.vault
                      /\ x.passkey \in {NoRoot, x.vault.root}
    BY DEF Rooted
  <2>1. PICK r \in b.records : x = f[r]  BY <1>5
  <2>2. r.index < MaxAccounts /\ (r.index > 0 => \E s \in b.records : s.index = 0 /\ s.vault = r.vault)
    BY DEF Good, Rooted
  <2>3. ASSUME r.index > 0 PROVE \E y \in c.records : y.index = 0 /\ y.vault = x.vault
    <3>1. PICK s \in b.records : s.index = 0 /\ s.vault = r.vault  BY <2>2, <2>3
    <3>2. f[s] \in c.records /\ f[s].index = 0 /\ f[s].vault = x.vault  BY <2>1, <3>1
    <3> QED BY <3>2
  <2>4. x.index = r.index /\ x.vault.root = r.vault.root /\ x.passkey \in {NoRoot, r.vault.root}
    BY <2>1
  <2> QED BY <2>2, <2>3, <2>4
<1>10. Owned(c)
  <2>1. RootsOf(c) = RootsOf(b)  BY <1>6, FrameKeeps
  <2> QED BY <2>1 DEF Good, Owned
<1>11. Gapless(c)
  <2> SUFFICES ASSUME NEW x \in c.records, NEW i \in Nat, i < x.index
               PROVE  \E y \in c.records : y.vault.root = x.vault.root /\ y.index = i
    BY DEF Gapless
  <2>1. PICK r \in b.records : x = f[r]  BY <1>5
  <2>2. i < r.index  BY <2>1
  <2>3. PICK s \in b.records : s.vault.root = r.vault.root /\ s.index = i
    BY <2>2 DEF Good, Gapless
  <2>4. f[s] \in c.records /\ f[s].vault.root = x.vault.root /\ f[s].index = i  BY <2>1, <2>3
  <2> QED BY <2>4
<1>12. Good(c)  BY <1>2, <1>3, <1>4, <1>7, <1>8, <1>9, <1>10, <1>11 DEF Good
<1> QED BY <1>2, <1>3, <1>6, <1>12, AnchorFrame

\* c is b with more links, its anchor recorded.
Relinks(b, c) ==
  /\ c \in Books /\ c.records = b.records /\ c.active = b.active /\ c.access.owner = Anchor(b)
  /\ b.access.wallets \subseteq c.access.wallets
  /\ c.access.wallets \subseteq RootsOf(b) \ {Anchor(b)}

\* A book that only gains links.
LEMMA Relinked ==
  ASSUME NEW b, Good(b), b # NoBook, NEW c, Relinks(b, c)
  PROVE  /\ Good(c) /\ c # NoBook /\ Frame(c) = Frame(b) /\ Anchor(c) = Anchor(b)
         /\ Reported(b) \subseteq Reported(c)
<1> USE DEF Relinks
<1>1. Anchor(b) \in RootsOf(b) /\ Anchor(b) \in Roots  BY AnchorIs
<1>2. Frame(c) = Frame(b) /\ RootsOf(c) = RootsOf(b) /\ b.records # {}
  BY DEF Frame, RootsOf, RootRecords, Good
<1>3. c # NoBook /\ c.access # NoAccess
  BY <1>1, <1>2, AccountBookConstants DEF NoBook, NoAccess, AccountBookConstants
<1>4. Distinct(c) /\ Rooted(c) /\ Gapless(c)  BY DEF Good, Distinct, Rooted, Gapless
<1>5. Owned(c)  BY <1>1, <1>2 DEF Owned
<1>6. Good(c)  BY <1>2, <1>4, <1>5 DEF Good
<1>7. Anchor(c) = Anchor(b)  BY <1>3, <1>6, AnchorIs
<1> QED BY <1>2, <1>3, <1>6, <1>7, OpensFrame

\* A book whose active account is another of its own.
LEMMA Selected ==
  ASSUME NEW b, Good(b), NEW a \in Accounts(b)
  PROVE  LET c == Select(b, a)
         IN Good(c) /\ c # NoBook /\ Frame(c) = Frame(b) /\ Reported(c) = Reported(b)
<1> DEFINE x == CHOOSE r \in b.records : Identity(r) = a
<1>1. x \in b.records
  <2>1. \E r \in b.records : Identity(r) = a  BY DEF Accounts
  <2> QED BY <2>1
<1>2. PICK c : c = Select(b, a)  OBVIOUS
<1>3. b \in Books /\ x.pos \in Nat  BY <1>1 DEF Good, Books, Records
<1> HIDE DEF x
<1>4. /\ c \in Books /\ c.records = b.records /\ c.access = b.access /\ c.active = x.pos
  BY <1>2, <1>3 DEF Select, Books, x
<1>5. Frame(c) = Frame(b) /\ RootsOf(c) = RootsOf(b) /\ RootRecords(c) = RootRecords(b)
  BY <1>4 DEF Frame, RootsOf, RootRecords
<1>6. c # NoBook  BY <1>1, <1>4 DEF NoBook
<1>7. Distinct(c) /\ Rooted(c) /\ Gapless(c)  BY <1>4 DEF Good, Distinct, Rooted, Gapless
<1>8. Owned(c)  BY <1>4, <1>5 DEF Good, Owned
<1>9. Good(c)  BY <1>1, <1>4, <1>7, <1>8 DEF Good
<1>10. Anchor(c) = Anchor(b)  BY <1>4, <1>5 DEF Anchor, AccessRecord
<1>11. Reported(c) = Reported(b)  BY <1>4, <1>5, <1>10, OpensFrame
<1> QED BY <1>2, <1>5, <1>6, <1>9, <1>11

\* The next position follows every other (addAccount).
LEMMA NextPosIs ==
  ASSUME NEW b, Good(b)
  PROVE  NextPos(b) \in Nat /\ \A r \in b.records : r.pos < NextPos(b)
<1> DEFINE P == {r.pos : r \in b.records}
<1>1. b.records \subseteq Records /\ IsFiniteSet(b.records)  BY DEF Good, Books
<1>2. P \subseteq Nat  BY <1>1 DEF Records
<1>3. IsFiniteSet(P)
  <2> DEFINE f == [r \in b.records |-> r.pos]
  <2>1. f = [r \in b.records |-> f[r]] /\ P = {f[r] : r \in b.records}  OBVIOUS
  <2> HIDE DEF f, P
  <2> QED BY <1>1, <2>1, Image
<1>4. PICK m \in Nat : \A n \in P : n <= m
  <2> HIDE DEF P
  <2> QED BY <1>2, <1>3, Bounded
<1> DEFINE Q == {0} \cup P
<1>5. Q \subseteq Nat /\ Q # {} /\ \A n \in Q : n <= m  BY <1>2, <1>4
<1>6. Max(Q) \in Q /\ \A n \in Q : n <= Max(Q)
  <2> HIDE DEF Q
  <2> QED BY <1>5, MaxIs
<1>7. NextPos(b) = Max(Q) + 1  BY DEF NextPos
<1>8. Max(Q) \in Nat
  <2> HIDE DEF Q
  <2> QED BY <1>5, <1>6
<1>9. ASSUME NEW r \in b.records PROVE r.pos < NextPos(b)
  <2>1. r.pos \in Q /\ r.pos \in Nat  BY <1>1 DEF Records
  <2> HIDE DEF Q
  <2> QED BY <1>6, <1>7, <1>8, <2>1
<1> HIDE DEF Q
<1> QED BY <1>7, <1>8, <1>9

\* The next number follows those of its root (nextDerivation).
LEMMA NextDerivationIs ==
  ASSUME NEW b, Good(b), b # NoBook
  PROVE  /\ NextDerivation(b) \in Nat /\ NextDerivation(b) > 0
         /\ \A r \in Of(b, Active(b).vault.root) : r.index < NextDerivation(b)
         /\ \E r \in Of(b, Active(b).vault.root) : r.index + 1 = NextDerivation(b)
<1> DEFINE S == Of(b, Active(b).vault.root)
           P == {r.index : r \in S}
<1>1. b.records \subseteq Records  BY DEF Good, Books
<1>2. S \subseteq b.records /\ Active(b) \in S  BY ActiveIs DEF Of
<1>3. P \subseteq Nat /\ P # {}  BY <1>1, <1>2 DEF Records
<1>4. \A n \in P : n <= MaxAccounts
  <2> SUFFICES ASSUME NEW r \in S PROVE r.index <= MaxAccounts  OBVIOUS
  <2>1. r.index < MaxAccounts /\ r.index \in Nat  BY <1>1, <1>2 DEF Good, Rooted, Records
  <2> QED BY <2>1, AccountBookConstants DEF AccountBookConstants
<1>5. Max(P) \in P /\ \A n \in P : n <= Max(P)
  <2> HIDE DEF P
  <2>1. MaxAccounts \in Nat  BY AccountBookConstants DEF AccountBookConstants
  <2> QED BY <1>3, <1>4, <2>1, MaxIs
<1>6. NextDerivation(b) = Max(P) + 1  BY DEF NextDerivation
<1>7. Max(P) \in Nat
  <2> HIDE DEF P
  <2> QED BY <1>3, <1>5
<1>8. PICK m \in Nat : m = Max(P)  BY <1>7
<1>9. NextDerivation(b) = m + 1 /\ m \in P /\ \A n \in P : n <= m  BY <1>5, <1>6, <1>8
<1>10. \A r \in S : r.index < m + 1
  <2> SUFFICES ASSUME NEW r \in S PROVE r.index < m + 1  OBVIOUS
  <2>1. r.index \in P /\ r.index \in Nat  BY <1>3
  <2> QED BY <1>9, <2>1
<1>11. \E r \in S : r.index + 1 = m + 1  BY <1>9
<1> HIDE DEF S, P
<1> QED BY <1>8, <1>9, <1>10, <1>11 DEF S

\* A book with records added, of no position or account it had.
LEMMA Grown ==
  ASSUME NEW b, Good(b), NEW c, c \in Books, NEW W, IsFiniteSet(W), W # {},
         c.records = b.records \cup W,
         Cardinality(b.records) + Cardinality(W) <= MaxAccounts,
         \A w \in W : \A r \in b.records : Identity(w) # Identity(r) /\ w.pos # r.pos,
         \A v, w \in W : Identity(v) = Identity(w) \/ v.pos = w.pos => v = w,
         Rooted(c), Owned(c), Gapless(c), \E w \in W : w.pos = c.active
  PROVE  Good(c) /\ c # NoBook
<1>1. IsFiniteSet(b.records)  BY DEF Good
<1>2. IsFiniteSet(c.records) /\ Cardinality(c.records) <= MaxAccounts
  <2>1. IsFiniteSet(b.records \cap W)  BY <1>1, FS_Intersection
  <2>2. /\ IsFiniteSet(c.records)
        /\ Cardinality(c.records) = Cardinality(b.records) + Cardinality(W) - Cardinality(b.records \cap W)
    BY <1>1, FS_Union
  <2>3. /\ Cardinality(b.records) \in Nat /\ Cardinality(W) \in Nat
        /\ Cardinality(b.records \cap W) \in Nat
    BY <1>1, <2>1, FS_CardinalityType
  <2> QED BY <2>2, <2>3, AccountBookConstants DEF AccountBookConstants
<1>3. Distinct(c)
  <2> SUFFICES ASSUME NEW r \in c.records, NEW s \in c.records,
                      Identity(r) = Identity(s) \/ r.pos = s.pos
               PROVE  r = s
    BY DEF Distinct
  <2>1. CASE r \in b.records /\ s \in b.records  BY <2>1 DEF Good, Distinct
  <2>2. CASE r \in W /\ s \in W  BY <2>2
  <2>3. CASE r \in b.records /\ s \in W  BY <2>3
  <2>4. CASE r \in W /\ s \in b.records  BY <2>4
  <2> QED BY <2>1, <2>2, <2>3, <2>4
<1>4. c # NoBook /\ c.records # {}
  <2>1. NoBook.records = {}  BY DEF NoBook
  <2> QED BY <2>1
<1> QED BY <1>2, <1>3, <1>4 DEF Good

\* A derived account (addDerivedAccount): no root is added, so what opens the others stays.
LEMMA Derived ==
  ASSUME NEW b, Good(b), b # NoBook, Cardinality(b.records) < MaxAccounts,
         NextDerivation(b) < MaxAccounts
  PROVE  LET c == AddDerived(b)
         IN Good(c) /\ c # NoBook /\ Reported(b) \subseteq Reported(c)
<1>1. PICK x : x = Active(b)  OBVIOUS
<1>2. PICK n : n = NextDerivation(b)  OBVIOUS
<1>3. PICK p : p = NextPos(b)  OBVIOUS
<1>4. x \in b.records /\ b.records \subseteq Records /\ x \in Records
  BY <1>1, ActiveIs DEF Good, Books
<1>5. /\ n \in Nat /\ n > 0 /\ n < MaxAccounts
      /\ \A r \in Of(b, x.vault.root) : r.index < n
      /\ \E r \in Of(b, x.vault.root) : r.index + 1 = n
  BY <1>1, <1>2, NextDerivationIs
<1>6. p \in Nat /\ \A r \in b.records : r.pos < p  BY <1>3, NextPosIs
<1>7. PICK w : w = Record(x.vault, n, p, TRUE, x.passkey)  OBVIOUS
<1>8. /\ w \in Records /\ w.vault = x.vault /\ w.index = n /\ w.pos = p /\ w.passkey = x.passkey
  BY <1>4, <1>5, <1>6, <1>7 DEF Record, Records
<1>9. PICK c : c = AddDerived(b)  OBVIOUS
<1>10. c \in Books /\ c.records = b.records \cup {w} /\ c.active = p /\ c.access = b.access
  <2>1. c = [b EXCEPT !.records = @ \cup {w}, !.active = p]
    BY <1>1, <1>2, <1>3, <1>7, <1>9 DEF AddDerived
  <2>2. b \in Books  BY DEF Good
  <2> QED BY <1>6, <1>8, <2>1, <2>2 DEF Books
<1>11. RootRecords(c) = RootRecords(b)  BY <1>5, <1>8, <1>10 DEF RootRecords
<1>12. RootsOf(c) = RootsOf(b) /\ Anchor(c) = Anchor(b)
  BY <1>10, <1>11 DEF RootsOf, Anchor, AccessRecord
<1>13. \A r \in b.records : Identity(w) # Identity(r) /\ w.pos # r.pos
  <2> SUFFICES ASSUME NEW r \in b.records PROVE Identity(w) # Identity(r) /\ w.pos # r.pos
    OBVIOUS
  <2>1. r.pos < p /\ r.pos \in Nat /\ r.index \in Nat  BY <1>4, <1>6 DEF Records
  <2>2. r.vault.root = x.vault.root => r.index < n  BY <1>5 DEF Of
  <2>3. w.pos # r.pos  BY <1>6, <1>8, <2>1
  <2>4. w.vault.root = r.vault.root => w.index # r.index  BY <1>5, <1>8, <2>1, <2>2
  <2> QED BY <2>3, <2>4 DEF Identity
<1>14. Rooted(c)
  <2>1. PICK s \in b.records : s.index = 0 /\ s.vault = x.vault
    <3>1. x.index \in Nat  BY <1>4 DEF Records
    <3>2. CASE x.index = 0  BY <1>4, <3>2
    <3>3. CASE x.index > 0  BY <1>4, <3>3 DEF Good, Rooted
    <3> QED BY <3>1, <3>2, <3>3
  <2>2. x.passkey \in {NoRoot, x.vault.root}  BY <1>4 DEF Good, Rooted
  <2> SUFFICES ASSUME NEW r \in c.records
               PROVE  /\ r.index < MaxAccounts
                      /\ r.index > 0 => \E t \in c.records : t.index = 0 /\ t.vault = r.vault
                      /\ r.passkey \in {NoRoot, r.vault.root}
    BY DEF Rooted
  <2>3. CASE r = w  BY <1>5, <1>8, <1>10, <2>1, <2>2, <2>3
  <2>4. CASE r \in b.records  BY <1>10, <2>4 DEF Good, Rooted
  <2> QED BY <1>10, <2>3, <2>4
<1>15. Owned(c)  BY <1>10, <1>12 DEF Good, Owned
<1>16. Gapless(c)
  <2> SUFFICES ASSUME NEW r \in c.records, NEW i \in Nat, i < r.index
               PROVE  \E t \in c.records : t.vault.root = r.vault.root /\ t.index = i
    BY DEF Gapless
  <2>1. CASE r = w
    <3>1. PICK s \in b.records : s.vault.root = x.vault.root /\ s.index + 1 = n
      BY <1>5 DEF Of
    <3>2. s.index \in Nat /\ i < n  BY <1>4, <1>8, <2>1 DEF Records
    <3>3. i = s.index \/ i < s.index  BY <3>1, <3>2, <1>5
    <3>4. \E t \in b.records : t.vault.root = s.vault.root /\ t.index = i
      BY <3>1, <3>3 DEF Good, Gapless
    <3> QED BY <1>8, <1>10, <2>1, <3>1, <3>4
  <2>2. CASE r \in b.records  BY <1>10, <2>2 DEF Good, Gapless
  <2> QED BY <1>10, <2>1, <2>2
<1>17. Good(c) /\ c # NoBook
  <2>1. IsFiniteSet({w}) /\ Cardinality({w}) = 1  BY FS_Singleton
  <2>2. Cardinality(b.records) + Cardinality({w}) <= MaxAccounts
    <3>1. Cardinality(b.records) \in Nat  BY FS_CardinalityType DEF Good
    <3> QED BY <2>1, <3>1, AccountBookConstants DEF AccountBookConstants
  <2>3. PICK W : W = {w}  OBVIOUS
  <2> QED BY <1>8, <1>10, <1>13, <1>14, <1>15, <1>16, <2>1, <2>2, <2>3, Grown
<1>18. Reported(b) \subseteq Reported(c)
  BY <1>10, <1>12 DEF Reported, Accounts, Opens
<1> QED BY <1>9, <1>17, <1>18

\* A wallet added, alone or from a backup, and the link that opens it (addAccount, restore).
LEMMA Added ==
  ASSUME NEW b, Good(b),
         NEW w, w \in [vault : Vaults, created : BOOLEAN, size : 1..MaxAccounts, selected : Nat],
         w.selected < w.size, Of(b, w.vault.root) = {},
         Cardinality(b.records) + w.size <= MaxAccounts
  PROVE  LET access == IF b = NoBook THEN [owner |-> w.vault.root, wallets |-> {}]
                       ELSE [owner |-> Anchor(b), wallets |-> b.access.wallets \cup {w.vault.root}]
             c == AddWallet([b EXCEPT !.access = access], w)
         IN Good(c) /\ c # NoBook /\ Reported(b) \subseteq Reported(c)
<1>1. PICK p : p = NextPos(b)  OBVIOUS
<1>2. PICK k : k = w.vault.root  OBVIOUS
<1>3. p \in Nat /\ \A r \in b.records : r.pos < p  BY <1>1, NextPosIs
<1>4. PICK access : access = IF b = NoBook THEN [owner |-> k, wallets |-> {}]
                             ELSE [owner |-> Anchor(b), wallets |-> b.access.wallets \cup {k}]
  OBVIOUS
<1>5. PICK d : d = [b EXCEPT !.access = access]  OBVIOUS
<1>6. PICK c : c = AddWallet(d, w)  OBVIOUS
<1>7. PICK W : W = WalletRecords(d, w)  OBVIOUS
<1>8. b \in Books /\ w.vault \in Vaults /\ k \in Roots /\ w.size \in 1..MaxAccounts /\ w.selected \in Nat
  BY <1>2 DEF Good, Vaults
<1>9. b # NoBook => Anchor(b) \in RootsOf(b) /\ Anchor(b) \in Roots  BY AnchorIs
<1>10. access \in [owner : Roots \cup {NoRoot}, wallets : SUBSET Roots]
  BY <1>4, <1>8, <1>9 DEF Books
<1>11. d \in Books /\ d.records = b.records /\ d.access = access  BY <1>5, <1>8, <1>10 DEF Books
<1>12. NextPos(d) = p  BY <1>1, <1>11 DEF NextPos
<1> DEFINE rec(i) == Record(w.vault, i, p + i, ~w.created, NoRoot)
           I == 0..(w.size - 1)
<1>13. W = {rec(i) : i \in I}  BY <1>7, <1>12 DEF WalletRecords
<1>14. \A i \in I : /\ rec(i) \in Records /\ rec(i).vault = w.vault /\ rec(i).index = i
                    /\ rec(i).pos = p + i /\ rec(i).passkey = NoRoot
  BY <1>3, <1>8 DEF Record, Records
<1>15. \A x \in W : /\ x \in Records /\ x.vault = w.vault /\ x.index \in I /\ x.pos = p + x.index
                    /\ x.passkey = NoRoot
  BY <1>13, <1>14
<1>16. c \in Books /\ c.records = b.records \cup W /\ c.active = p + w.selected /\ c.access = access
  <2>1. c = [d EXCEPT !.records = @ \cup W, !.active = p + w.selected]
    BY <1>6, <1>7, <1>12 DEF AddWallet
  <2>2. p + w.selected \in Nat  BY <1>3, <1>8
  <2>3. W \subseteq Records  BY <1>15
  <2> HIDE DEF rec, I
  <2> QED BY <1>11, <2>1, <2>2, <2>3 DEF Books
<1>17. IsFiniteSet(W) /\ Cardinality(W) <= w.size
  <2> DEFINE f == [i \in I |-> rec(i)]
  <2>1. f = [i \in I |-> f[i]] /\ W = {f[i] : i \in I}  BY <1>13
  <2>2. IsFiniteSet(I) /\ Cardinality(I) = w.size
    <3>1. 0 \in Int /\ w.size - 1 \in Int /\ ~(0 > w.size - 1) /\ (w.size - 1) - 0 + 1 = w.size
      BY <1>8
    <3> QED BY <3>1, FS_Interval
  <2> HIDE DEF f, I
  <2>3. IsFiniteSet(W) /\ Cardinality(W) <= Cardinality(I)  BY <2>1, <2>2, Image
  <2> QED BY <2>2, <2>3
<1>18. Cardinality(b.records) + Cardinality(W) <= MaxAccounts
  <2>1. Cardinality(b.records) \in Nat /\ Cardinality(W) \in Nat
    BY <1>17, FS_CardinalityType DEF Good
  <2> QED BY <1>8, <1>17, <2>1, AccountBookConstants DEF AccountBookConstants
<1>19. rec(0) \in W /\ 0 \in I /\ w.selected \in I /\ rec(w.selected) \in W
  <2>1. 0 \in I /\ w.selected \in I  BY <1>8
  <2> QED BY <1>13, <2>1
<1>20. \A x \in W : \A r \in b.records : Identity(x) # Identity(r) /\ x.pos # r.pos
  <2> SUFFICES ASSUME NEW x \in W, NEW r \in b.records
               PROVE  Identity(x) # Identity(r) /\ x.pos # r.pos
    OBVIOUS
  <2>1. r.vault.root # x.vault.root  BY <1>15 DEF Of
  <2>2. x.pos = p + x.index /\ x.index \in Nat  BY <1>15
  <2>3. r.pos < p /\ r.pos \in Nat  BY <1>3, <1>8 DEF Books, Records
  <2>4. x.pos # r.pos  BY <1>3, <2>2, <2>3
  <2> QED BY <2>1, <2>4 DEF Identity
<1>21. \A x, y \in W : Identity(x) = Identity(y) \/ x.pos = y.pos => x = y
  <2> SUFFICES ASSUME NEW x \in W, NEW y \in W, Identity(x) = Identity(y) \/ x.pos = y.pos
               PROVE  x = y
    OBVIOUS
  <2>1. PICK i \in I : x = rec(i)  BY <1>13
  <2>2. PICK j \in I : y = rec(j)  BY <1>13
  <2>3. x.index = i /\ y.index = j /\ x.pos = p + i /\ y.pos = p + j  BY <1>14, <2>1, <2>2
  <2>4. i = j
    <3>1. i \in Int /\ j \in Int  OBVIOUS
    <3> HIDE DEF rec, I
    <3>2. CASE Identity(x) = Identity(y)  BY <2>3, <3>2 DEF Identity
    <3>3. CASE x.pos = y.pos  BY <1>3, <2>3, <3>1, <3>3
    <3> QED BY <3>2, <3>3
  <2> QED BY <2>1, <2>2, <2>4
<1>22. Rooted(c)
  <2> SUFFICES ASSUME NEW r \in c.records
               PROVE  /\ r.index < MaxAccounts
                      /\ r.index > 0 => \E t \in c.records : t.index = 0 /\ t.vault = r.vault
                      /\ r.passkey \in {NoRoot, r.vault.root}
    BY DEF Rooted
  <2>1. CASE r \in W
    <3>1. r.index < MaxAccounts
      <4>1. r.index \in 0..(w.size - 1)  BY <1>15, <2>1
      <4> QED BY <1>8, <4>1, AccountBookConstants DEF AccountBookConstants
    <3>2. rec(0) \in c.records /\ rec(0).index = 0 /\ rec(0).vault = r.vault
      BY <1>14, <1>15, <1>16, <1>19, <2>1
    <3>3. r.passkey = NoRoot  BY <1>15, <2>1
    <3> HIDE DEF rec
    <3> QED BY <3>1, <3>2, <3>3
  <2>2. CASE r \in b.records  BY <1>16, <2>2 DEF Good, Rooted
  <2> QED BY <1>16, <2>1, <2>2
<1>23. k \in RootsOf(c) /\ RootsOf(b) \subseteq RootsOf(c) /\ k \notin RootsOf(b)
  <2>1. k \in RootsOf(c)
    <3>1. rec(0) \in c.records /\ rec(0).index = 0 /\ rec(0).vault.root = k
      BY <1>2, <1>14, <1>16, <1>19
    <3> HIDE DEF rec
    <3> QED BY <3>1 DEF RootsOf, RootRecords
  <2>2. RootsOf(b) \subseteq RootsOf(c)  BY <1>16 DEF RootsOf, RootRecords
  <2>3. k \notin RootsOf(b)  BY <1>2 DEF RootsOf, RootRecords, Of
  <2> QED BY <2>1, <2>2, <2>3
<1>24. b # NoBook => b.access.wallets \subseteq RootsOf(b) \ {Anchor(b)}
  <2>1. CASE b.access # NoAccess  BY <2>1, AnchorIs DEF Good, Owned
  <2>2. CASE b.access = NoAccess  BY <2>2 DEF NoAccess
  <2> QED BY <2>1, <2>2
<1>25. Owned(c)
  <2>1. CASE b = NoBook  BY <1>4, <1>16, <1>23, <2>1 DEF Owned
  <2>2. CASE b # NoBook
    <3>1. access.owner = Anchor(b) /\ access.wallets = b.access.wallets \cup {k}
      BY <1>4, <2>2
    <3> QED BY <1>9, <1>16, <1>23, <1>24, <2>2, <3>1 DEF Owned
  <2> QED BY <2>1, <2>2
<1>26. Gapless(c)
  <2> SUFFICES ASSUME NEW r \in c.records, NEW i \in Nat, i < r.index
               PROVE  \E t \in c.records : t.vault.root = r.vault.root /\ t.index = i
    BY DEF Gapless
  <2>1. CASE r \in W
    <3>1. r.index \in 0..(w.size - 1) /\ r.vault = w.vault  BY <1>15, <2>1
    <3>2. i \in I  BY <1>8, <3>1
    <3>3. rec(i) \in c.records /\ rec(i).index = i /\ rec(i).vault = r.vault
      BY <1>13, <1>14, <1>16, <3>1, <3>2
    <3> HIDE DEF rec
    <3> QED BY <3>3
  <2>2. CASE r \in b.records  BY <1>16, <2>2 DEF Good, Gapless
  <2> QED BY <1>16, <2>1, <2>2
<1>27. \E x \in W : x.pos = c.active
  <2>1. rec(w.selected).pos = p + w.selected  BY <1>14, <1>19
  <2> QED BY <1>16, <1>19, <2>1
<1>28. Good(c) /\ c # NoBook
  <2> HIDE DEF rec, I
  <2>1. W # {}  BY <1>19
  <2> QED BY <1>16, <1>17, <1>18, <1>20, <1>21, <1>22, <1>25, <1>26, <1>27, <2>1, Grown
<1>29. Reported(b) \subseteq Reported(c)
  <2>1. CASE b = NoBook  BY <2>1 DEF NoBook, Reported, Accounts
  <2>2. CASE b # NoBook
    <3>1. access.owner = Anchor(b) /\ b.access.wallets \subseteq access.wallets
      BY <1>4, <2>2
    <3>2. c.access # NoAccess
      BY <1>9, <1>16, <2>2, <3>1, AccountBookConstants DEF NoAccess, AccountBookConstants
    <3>3. Anchor(c) = Anchor(b)  BY <1>16, <1>28, <3>1, <3>2, AnchorIs
    <3> QED BY <1>16, <3>1, <3>3 DEF Reported, Accounts, Opens
  <2> QED BY <2>1, <2>2
<1> QED BY <1>2, <1>4, <1>5, <1>6, <1>28, <1>29

\* A backup acknowledged (ack).
LEMMA Acknowledged ==
  ASSUME NEW b, Good(b), b # NoBook, NEW c,
         c = [b EXCEPT !.records = {IF r.pos = b.active THEN [r EXCEPT !.backed = TRUE] ELSE r : r \in @}]
  PROVE  /\ Good(c) /\ c # NoBook /\ Frame(c) = Frame(b) /\ Anchor(c) = Anchor(b)
         /\ c.access = b.access /\ Cardinality(c.records) <= Cardinality(b.records)
<1> DEFINE f == [r \in b.records |-> IF r.pos = b.active THEN [r EXCEPT !.backed = TRUE] ELSE r]
<1>1. b \in Books /\ b.records \subseteq Records  BY DEF Good, Books
<1>2. \A r \in b.records : /\ f[r] \in Records /\ f[r].vault = r.vault /\ f[r].index = r.index
                           /\ f[r].pos = r.pos /\ f[r].passkey = r.passkey
  BY <1>1 DEF Records
<1>3. f = [r \in b.records |-> f[r]]  OBVIOUS
<1>4. c.records = {f[r] : r \in b.records} /\ c.active = b.active /\ c.access = b.access
  BY <1>1 DEF Books
<1> HIDE DEF f
<1>5. c \in Books
  <2>1. {f[r] : r \in b.records} \subseteq Records  BY <1>2
  <2>2. c = [b EXCEPT !.records = {f[r] : r \in b.records}]  BY <1>1, <1>4 DEF Books
  <2> QED BY <1>1, <2>1, <2>2 DEF Books
<1>6. \A r \in b.records : r.passkey \in {NoRoot, r.vault.root}  BY DEF Good, Rooted
<1>7. \A r \in b.records : /\ f[r].vault.root = r.vault.root /\ f[r].index = r.index
                           /\ f[r].pos = r.pos /\ f[r].passkey \in {NoRoot, r.vault.root}
  BY <1>2, <1>6
<1>8. \A r, s \in b.records : r.vault = s.vault => f[r].vault = f[s].vault  BY <1>2
<1>9. Rewrites(b, c, f)  BY <1>3, <1>4, <1>5, <1>7, <1>8 DEF Rewrites
<1> QED BY <1>9, <1>4, Rewritten

\* The passkey of the anchor, set or removed (setAccessPasskey).
LEMMA PasskeySet ==
  ASSUME NEW b, Good(b), b # NoBook, NEW k, k \in {NoRoot, Anchor(b)},
         NEW c, c = SetAccessPasskey(b, k)
  PROVE  /\ Good(c) /\ c # NoBook /\ Frame(c) = Frame(b) /\ Anchor(c) = Anchor(b)
         /\ c.access = b.access
<1> DEFINE f == [r \in b.records |->
                   IF r.vault.root = Anchor(b) THEN [r EXCEPT !.passkey = k] ELSE r]
<1>1. b \in Books /\ b.records \subseteq Records  BY DEF Good, Books
<1>2. k \in Roots \cup {NoRoot}  BY AnchorIs
<1>3. \A r \in b.records :
        /\ f[r] \in Records /\ f[r].vault = r.vault /\ f[r].index = r.index /\ f[r].pos = r.pos
        /\ f[r].passkey = IF r.vault.root = Anchor(b) THEN k ELSE r.passkey
  BY <1>1, <1>2 DEF Records
<1>4. f = [r \in b.records |-> f[r]]  OBVIOUS
<1>5. c.records = {f[r] : r \in b.records} /\ c.active = b.active /\ c.access = b.access
  BY <1>1 DEF Books, SetAccessPasskey
<1>6. c = [b EXCEPT !.records = {f[r] : r \in b.records}]  BY DEF SetAccessPasskey
<1> HIDE DEF f
<1>7. c \in Books
  <2>1. {f[r] : r \in b.records} \subseteq Records  BY <1>3
  <2> QED BY <1>1, <1>6, <2>1 DEF Books
<1>8. \A r \in b.records : r.passkey \in {NoRoot, r.vault.root}  BY DEF Good, Rooted
<1>9. \A r \in b.records : /\ f[r].vault.root = r.vault.root /\ f[r].index = r.index
                           /\ f[r].pos = r.pos /\ f[r].passkey \in {NoRoot, r.vault.root}
  BY <1>3, <1>8
<1>10. \A r, s \in b.records : r.vault = s.vault => f[r].vault = f[s].vault  BY <1>3
<1>11. Rewrites(b, c, f)  BY <1>4, <1>5, <1>7, <1>9, <1>10 DEF Rewrites
<1> QED BY <1>11, <1>5, Rewritten

\* A root encrypted again, in every account derived from it (unlock, replaceRoot).
LEMMA RootReplaced ==
  ASSUME NEW b, Good(b), b # NoBook, NEW v, v \in Vaults, NEW c, c = ReplaceRoot(b, v)
  PROVE  /\ Good(c) /\ c # NoBook /\ Frame(c) = Frame(b) /\ Anchor(c) = Anchor(b)
         /\ c.access = b.access
<1> DEFINE f == [r \in b.records |->
                   IF r.vault.root = v.root THEN [r EXCEPT !.vault = v] ELSE r]
<1>1. b \in Books /\ b.records \subseteq Records  BY DEF Good, Books
<1>2. \A r \in b.records :
        /\ f[r] \in Records /\ f[r].index = r.index /\ f[r].pos = r.pos /\ f[r].passkey = r.passkey
        /\ f[r].vault = IF r.vault.root = v.root THEN v ELSE r.vault
  BY <1>1 DEF Records
<1>3. f = [r \in b.records |-> f[r]]  OBVIOUS
<1>4. c.records = {f[r] : r \in b.records} /\ c.active = b.active /\ c.access = b.access
  BY <1>1 DEF Books, ReplaceRoot
<1>5. c = [b EXCEPT !.records = {f[r] : r \in b.records}]  BY DEF ReplaceRoot
<1> HIDE DEF f
<1>6. c \in Books
  <2>1. {f[r] : r \in b.records} \subseteq Records  BY <1>2
  <2> QED BY <1>1, <1>5, <2>1 DEF Books
<1>7. \A r \in b.records : r.passkey \in {NoRoot, r.vault.root}  BY DEF Good, Rooted
<1>8. \A r \in b.records : /\ f[r].vault.root = r.vault.root /\ f[r].index = r.index
                           /\ f[r].pos = r.pos /\ f[r].passkey \in {NoRoot, r.vault.root}
  BY <1>2, <1>7
<1>9. \A r, s \in b.records : r.vault = s.vault => f[r].vault = f[s].vault  BY <1>2
<1>10. Rewrites(b, c, f)  BY <1>3, <1>4, <1>6, <1>8, <1>9 DEF Rewrites
<1> QED BY <1>10, <1>4, Rewritten

\* The links of a book are of its other roots.
LEMMA LinksAre ==
  ASSUME NEW b, Good(b), b # NoBook
  PROVE  b.access.wallets \subseteq RootsOf(b) \ {Anchor(b)}
<1>1. CASE b.access # NoAccess  BY <1>1, AnchorIs DEF Good, Owned
<1>2. CASE b.access = NoAccess  BY <1>2 DEF NoAccess
<1> QED BY <1>1, <1>2

\* A wallet linked to the anchor (unlock, migration).
LEMMA Linked ==
  ASSUME NEW b, Good(b), b # NoBook, NEW k \in SUBSET (RootsOf(b) \ {Anchor(b)}),
         NEW c, c = [b EXCEPT !.access = [owner |-> Anchor(b), wallets |-> @.wallets \cup k]]
  PROVE  /\ Good(c) /\ c # NoBook /\ Frame(c) = Frame(b) /\ Anchor(c) = Anchor(b)
         /\ Reported(b) \subseteq Reported(c)
<1>1. b \in Books  BY DEF Good
<1>2. RootsOf(b) \subseteq Roots  BY <1>1 DEF Books, Records, Vaults, RootsOf, RootRecords
<1>3. Anchor(b) \in Roots  BY AnchorIs
<1>4. b.access.wallets \subseteq RootsOf(b) \ {Anchor(b)}  BY LinksAre
<1>5. /\ c.records = b.records /\ c.active = b.active /\ c.access.owner = Anchor(b)
      /\ c.access.wallets = b.access.wallets \cup k
  BY <1>1 DEF Books
<1>6. c \in Books
  <2>1. [owner |-> Anchor(b), wallets |-> b.access.wallets \cup k]
          \in [owner : Roots \cup {NoRoot}, wallets : SUBSET Roots]
    BY <1>2, <1>3, <1>4
  <2> QED BY <1>1, <2>1 DEF Books
<1>7. Relinks(b, c)  BY <1>4, <1>5, <1>6 DEF Relinks
<1> QED BY <1>7, Relinked

\* An unlock links what its password opens and renews the vault of the anchor (unlock).
LEMMA UpgradedIs ==
  ASSUME NEW b, Good(b), b # NoBook, NEW c, c = Upgraded(b)
  PROVE  /\ Good(c) /\ c # NoBook /\ Frame(c) = Frame(b) /\ Anchor(c) = Anchor(b)
         /\ Reported(b) \subseteq Reported(c)
<1>1. PICK auth : auth = AccessRecord(b).vault  OBVIOUS
<1>2. PICK k : k = {r.vault.root : r \in {s \in UnlinkedWallets(b) : s.vault.password = auth.password}}
  OBVIOUS
<1>3. PICK d : d = [b EXCEPT !.access = [owner |-> Anchor(b), wallets |-> @.wallets \cup k]]
  OBVIOUS
<1>4. auth \in Vaults /\ auth.root = Anchor(b)
  <2>1. AccessRecord(b) \in b.records  BY AnchorIs
  <2> QED BY <1>1, <2>1 DEF Good, Books, Records, Anchor
<1>5. PICK v : v = [auth EXCEPT !.version = 2]  OBVIOUS
<1>6. v \in Vaults  BY <1>4, <1>5 DEF Vaults
<1>7. c = ReplaceRoot(d, v)
  BY <1>1, <1>2, <1>3, <1>4, <1>5 DEF Upgraded
<1>8. k \in SUBSET (RootsOf(b) \ {Anchor(b)})  BY <1>2 DEF UnlinkedWallets, RootsOf, Opens
<1>9. /\ Good(d) /\ d # NoBook /\ Frame(d) = Frame(b) /\ Anchor(d) = Anchor(b)
      /\ Reported(b) \subseteq Reported(d)
  BY <1>3, <1>8, Linked
<1>10. /\ Good(c) /\ c # NoBook /\ Frame(c) = Frame(d) /\ Anchor(c) = Anchor(d)
       /\ c.access = d.access
  BY <1>6, <1>7, <1>9, RootReplaced
<1>11. Reported(c) = Reported(d)  BY <1>10, OpensFrame
<1> QED BY <1>9, <1>10, <1>11

\* What a failed unlock or a failed change of the passkey restores opens what it found.
LEMMA UndoneIs ==
  ASSUME NEW b, Good(b), b # NoBook, Good(book), book # NoBook, op.prev = b,
         Frame(book) = Frame(b), Anchor(book) = Anchor(b),
         op.kind \notin {"select", "derive", "add"}, NEW c, c = Undone
  PROVE  Good(c) /\ c # NoBook /\ Reported(c) = Reported(b)
<1>1. PICK auth : auth = AccessRecord(b)  OBVIOUS
<1>2. PICK d : d = ReplaceRoot(book, auth.vault)  OBVIOUS
<1>3. PICK e : e = SetAccessPasskey(d, auth.passkey)  OBVIOUS
<1>4. c = [e EXCEPT !.access = b.access]  BY <1>1, <1>2, <1>3 DEF Undone
<1>5. auth \in b.records /\ auth.vault.root = Anchor(b)  BY <1>1, AnchorIs
<1>6. auth.vault \in Vaults /\ auth.passkey \in {NoRoot, Anchor(b)}
  BY <1>5 DEF Good, Books, Records, Rooted
<1>7. Good(d) /\ d # NoBook /\ Frame(d) = Frame(b) /\ Anchor(d) = Anchor(b)
  BY <1>2, <1>6, RootReplaced
<1>8. Good(e) /\ e # NoBook /\ Frame(e) = Frame(b)
  BY <1>3, <1>6, <1>7, PasskeySet
<1>9. /\ c \in Books /\ c.records = e.records /\ c.active = e.active /\ c.access = b.access
  <2>1. e \in Books /\ b \in Books  BY <1>8 DEF Good
  <2> QED BY <1>4, <2>1 DEF Books
<1>10. Frame(c) = Frame(b) /\ RootsOf(c) = RootsOf(b)
  <2>1. Frame(c) = Frame(e)  BY <1>9 DEF Frame
  <2> QED BY <1>8, <2>1, FrameKeeps
<1>11. c # NoBook /\ c.records # {}
  <2>1. e.records # {}  BY <1>8 DEF Good
  <2>2. NoBook.records = {}  BY DEF NoBook
  <2> QED BY <1>9, <2>1, <2>2
<1>12. Owned(c)  BY <1>9, <1>10 DEF Good, Owned
<1>13. Distinct(c) /\ Rooted(c) /\ Gapless(c)
  BY <1>8, <1>9 DEF Good, Distinct, Rooted, Gapless
<1>14. Good(c)  BY <1>8, <1>9, <1>11, <1>12, <1>13 DEF Good
<1>15. Anchor(c) = Anchor(b)  BY <1>9, <1>10, <1>11, <1>14, AnchorFrame
<1>16. Reported(c) = Reported(b)  BY <1>9, <1>10, <1>15, OpensFrame
<1> QED BY <1>11, <1>14, <1>16

\* With no wallet left to link, every account opens.
LEMMA AllOpen ==
  ASSUME NEW b, Good(b), UnlinkedWallets(b) = {}
  PROVE  Accounts(b) = Reported(b)
<1> SUFFICES ASSUME NEW r \in b.records PROVE Opens(b, Identity(r)[1])
  BY DEF Accounts, Reported
<1>1. r.index \in Nat  BY DEF Good, Books, Records
<1>2. \E s \in RootRecords(b) : s.vault.root = r.vault.root
  <2>1. CASE r.index = 0  BY <2>1 DEF RootRecords
  <2>2. CASE r.index > 0  BY <2>2 DEF Good, Rooted, RootRecords
  <2> QED BY <1>1, <2>1, <2>2
<1>3. Opens(b, r.vault.root)  BY <1>2 DEF UnlinkedWallets
<1> QED BY <1>3 DEF Identity

-----------------------------------------------------------------------------
(* The invariant.  Two writers share the book: the operation that holds keyBusy, and everything else,
   whose saves may be queued on either side of its own.  From its own write on, the queue holds what
   its change opens (OwnOK); before it, at least what was reported (ToldOK); and an operation that
   restores only what it changed finds the records it began with, rewritten (FrameOK). *)
BookKinds == {"none", "select", "derive", "add", "unlock", "link", "passkey", "passkey-set", "reset"}
Framed == {"unlock", "link", "passkey", "passkey-set"}

OpOK ==
  /\ op = [kind |-> op.kind, with |-> op.with, stage |-> op.stage, live |-> op.live, prev |-> op.prev]
  /\ op.kind \in BookKinds /\ op.stage \in {"none", "work", "verify", "saving", "confirm"}
  /\ op.kind = "none" => op.stage = "none"
  /\ op.kind \notin {"none", "add"} => op.prev # NoBook
  /\ op.stage = "verify" => op.kind = "unlock"
  /\ op.stage = "confirm" => op.kind = "link"
  /\ op.kind = "select" /\ op.stage = "work" => op.with \in Accounts(book)
  /\ op.kind = "derive" /\ op.stage = "work" => Cardinality(book.records) < MaxAccounts
  /\ op.kind = "add" =>
       /\ op.with \in [vault : Vaults, created : BOOLEAN, size : 1..MaxAccounts, selected : Nat]
       /\ op.with.selected < op.with.size
  /\ op.kind = "link" => op.with \in RootsOf(op.prev) \ {Anchor(op.prev)}
  /\ op.kind = "passkey-set" => op.with \in {NoRoot, Anchor(op.prev)}
BooksOK ==
  /\ Good(book) /\ Good(disk) /\ Good(op.prev)
  /\ queue \in Seq([book : Books, own : BOOLEAN])
  /\ \A i \in 1..Len(queue) : Good(queue[i].book)
SessionOK ==
  /\ session \in [secret : Roots \cup {NoRoot}, ready : BOOLEAN]
  /\ Unlocked => book # NoBook
  /\ Resetting => ~Unlocked
  /\ op.kind = "add" /\ op.prev = NoBook => ~Unlocked
OwnOK ==
  /\ \A i \in 1..Len(queue) : queue[i].own => op.stage = "saving"
  /\ \A i, j \in 1..Len(queue) : queue[i].own /\ queue[j].own => i = j
  /\ op.stage = "saving" /\ ~Resetting => book # NoBook
  /\ \A i, j \in 1..Len(queue) :
       queue[i].own /\ ~Resetting /\ i <= j => Reported(queue[j].book) = Reported(book)
  /\ op.stage = "confirm" =>
       /\ UnlinkedWallets(book) = {} /\ Reported(disk) = Reported(book)
       /\ \A i \in 1..Len(queue) : Reported(queue[i].book) = Reported(book)
ToldOK ==
  /\ told \subseteq Reported(book) /\ told \subseteq Reported(disk)
  /\ op.kind # "none" => told \subseteq Reported(op.prev)
  /\ \A i \in 1..Len(queue) :
       ~(queue[i].own /\ Resetting) => told \subseteq Reported(queue[i].book)
  /\ Resetting => \A i \in 1..Len(queue) : queue[i].own => queue[i].book = NoBook
FrameOK == op.kind \in Framed => Frame(book) = Frame(op.prev) /\ Anchor(book) = Anchor(op.prev)

BookInv == OpOK /\ BooksOK /\ SessionOK /\ OwnOK /\ ToldOK /\ FrameOK

\* The empty book is one.
LEMMA NoBookGood == Good(NoBook) /\ Reported(NoBook) = {}
<1>1. NoBook \in Books /\ NoBook.records = {} /\ NoBook.access = NoAccess
  BY DEF NoBook, NoAccess, Books
<1>2. IsFiniteSet({}) /\ Cardinality({}) = 0  BY FS_EmptySet
<1>3. Cardinality({}) <= MaxAccounts
  BY <1>2, AccountBookConstants DEF AccountBookConstants
<1>4. Distinct(NoBook) /\ Rooted(NoBook) /\ Gapless(NoBook)
  BY <1>1 DEF Distinct, Rooted, Gapless
<1>5. Owned(NoBook)  BY <1>1 DEF Owned
<1>6. Reported(NoBook) = {}  BY <1>1 DEF Reported, Accounts
<1> QED BY <1>1, <1>2, <1>3, <1>4, <1>5, <1>6 DEF Good

\* What an earlier version left is one too.
LEMMA InstalledGood == ASSUME NEW b \in Installed PROVE Good(b)
<1>1. b \in Books /\ IsFiniteSet(b.records) /\ b.records # {} /\ Loads(b) /\ Restores(b)
  BY BooksFound DEF BooksFound
<1>2. /\ Cardinality(b.records) <= MaxAccounts
      /\ b.records # {} => \E r \in b.records : r.pos = b.active
      /\ Distinct(b) /\ Rooted(b) /\ Owned(b)
  BY <1>1, LoadsIs
<1>3. Gapless(b)  BY <1>1, <1>2, RestoresIs
<1> QED BY <1>1, <1>2, <1>3 DEF Good

\* A book of the invariant loads and restores, as readState() and a backup ask.
LEMMA GoodHolds == ASSUME NEW b, Good(b) PROVE Loads(b) /\ Restores(b)
<1>1. /\ b \in Books /\ IsFiniteSet(b.records) /\ Cardinality(b.records) <= MaxAccounts
      /\ b.records # {} => \E r \in b.records : r.pos = b.active
      /\ Distinct(b) /\ Rooted(b) /\ Owned(b) /\ Gapless(b)
  BY DEF Good
<1>2. Loads(b)  BY <1>1, LoadsIs
<1>3. Restores(b)  BY <1>1, RestoresIs
<1> QED BY <1>2, <1>3

\* save() appends a snapshot.
LEMMA Appended ==
  ASSUME queue \in Seq([book : Books, own : BOOLEAN]), NEW b, b \in Books, NEW own \in BOOLEAN,
         Saves(b, own)
  PROVE  /\ queue' \in Seq([book : Books, own : BOOLEAN])
         /\ Len(queue) \in Nat /\ Len(queue') = Len(queue) + 1
         /\ \A i \in 1..Len(queue) : i \in 1..Len(queue') /\ queue'[i] = queue[i]
         /\ Len(queue') \in 1..Len(queue')
         /\ queue'[Len(queue')].book = b /\ queue'[Len(queue')].own = own
         /\ \A i \in 1..Len(queue') : i \in 1..Len(queue) \/ i = Len(queue')
<1> DEFINE E == [book : Books, own : BOOLEAN]
<1>1. PICK e : e = [book |-> b, own |-> own]  OBVIOUS
<1>2. e \in E /\ e.book = b /\ e.own = own  BY <1>1
<1>3. queue' = Append(queue, e)  BY <1>1 DEF Saves
<1> HIDE DEF E
<1>4. queue \in Seq(E)  BY DEF E
<1>5. queue' \in Seq(E) /\ Len(queue) \in Nat /\ Len(queue') = Len(queue) + 1
  BY <1>2, <1>3, <1>4
<1>6. \A i \in 1..Len(queue) : queue'[i] = queue[i]  BY <1>3, <1>4
<1>7. queue'[Len(queue) + 1] = e  BY <1>3, <1>4
<1>8. /\ \A i \in 1..Len(queue) : i \in 1..Len(queue')
      /\ Len(queue') \in 1..Len(queue')
      /\ \A i \in 1..Len(queue') : i \in 1..Len(queue) \/ i = Len(queue')
  BY <1>5
<1> QED BY <1>2, <1>5, <1>6, <1>7, <1>8 DEF E

\* A write ended: each of the others moves up.
LEMMA Shifted ==
  ASSUME queue \in Seq([book : Books, own : BOOLEAN]), queue # <<>>, queue' = Tail(queue)
  PROVE  /\ queue' \in Seq([book : Books, own : BOOLEAN])
         /\ Len(queue) \in Nat /\ Len(queue) > 0 /\ 1 \in 1..Len(queue)
         /\ Head(queue) = queue[1]
         /\ Len(queue') = Len(queue) - 1
         /\ \A i \in 1..Len(queue') : i + 1 \in 1..Len(queue) /\ queue'[i] = queue[i + 1]
<1> DEFINE E == [book : Books, own : BOOLEAN]
<1> HIDE DEF E
<1>1. queue \in Seq(E)  BY DEF E
<1>2. /\ queue' \in Seq(E) /\ Len(queue) \in Nat /\ Len(queue) > 0
      /\ Head(queue) = queue[1] /\ Len(queue') = Len(queue) - 1
  BY <1>1
<1>3. \A i \in 1..Len(queue') : i + 1 \in 1..Len(queue)  BY <1>2
<1>4. \A i \in 1..Len(queue') : queue'[i] = queue[i + 1]  BY <1>1, <1>2
<1> QED BY <1>2, <1>3, <1>4 DEF E
-----------------------------------------------------------------------------
\* An operation that ends leaves the invariant to the book, the disk and the writes of others.
LEMMA Ended ==
  ASSUME op' = NoOp, Good(book'), Good(disk'),
         queue' \in Seq([book : Books, own : BOOLEAN]),
         \A i \in 1..Len(queue') :
           /\ Good(queue'[i].book) /\ ~queue'[i].own
           /\ told' \subseteq Reported(queue'[i].book),
         told' \subseteq Reported(book'), told' \subseteq Reported(disk'),
         session' \in [secret : Roots \cup {NoRoot}, ready : BOOLEAN],
         Unlocked' => book' # NoBook
  PROVE  BookInv'
<1>1. /\ op'.kind = "none" /\ op'.stage = "none" /\ op'.prev = NoBook
      /\ op' = [kind |-> op'.kind, with |-> op'.with, stage |-> op'.stage,
                live |-> op'.live, prev |-> op'.prev]
  BY DEF NoOp
<1>2. OpOK'  BY <1>1 DEF OpOK, BookKinds
<1>3. BooksOK'  BY <1>1, NoBookGood DEF BooksOK
<1>4. SessionOK'  BY <1>1 DEF SessionOK, Resetting
<1>5. OwnOK'  BY <1>1 DEF OwnOK
<1>6. ToldOK'  BY <1>1 DEF ToldOK
<1>7. FrameOK'  BY <1>1 DEF FrameOK, Framed
<1> QED BY <1>2, <1>3, <1>4, <1>5, <1>6, <1>7 DEF BookInv

\* An operation that begins finds none, and keeps the book it began with.
LEMMA Begun ==
  ASSUME BookInv, NEW k \in BookKinds \ {"none"}, NEW x, Begins(k, x),
         UNCHANGED <<book, disk, queue, told>>,
         (session' = session /\ k # "reset") \/ session' = Locked,
         k # "add" => book # NoBook,
         k = "select" => x \in Accounts(book),
         k = "derive" => Cardinality(book.records) < MaxAccounts,
         k = "add" => /\ x \in [vault : Vaults, created : BOOLEAN, size : 1..MaxAccounts, selected : Nat]
                      /\ x.selected < x.size,
         k = "link" => x \in RootsOf(book) \ {Anchor(book)},
         k = "passkey-set" => x \in {NoRoot, Anchor(book)}
  PROVE  BookInv'
<1>1. /\ op.kind = "none" /\ op.stage = "none"
      /\ op' = [kind |-> k, with |-> x, stage |-> "work", live |-> TRUE, prev |-> book]
  BY DEF Begins, Busy, BookInv, OpOK
<1>2. /\ op'.kind = k /\ op'.with = x /\ op'.stage = "work" /\ op'.prev = book
      /\ op' = [kind |-> op'.kind, with |-> op'.with, stage |-> op'.stage,
                live |-> op'.live, prev |-> op'.prev]
  BY <1>1
<1>3. book' = book /\ disk' = disk /\ queue' = queue /\ told' = told  OBVIOUS
<1>4. \A i \in 1..Len(queue) : ~queue[i].own  BY <1>1 DEF BookInv, OwnOK
<1>5. OpOK'
  <2> HIDE DEF BookKinds
  <2> QED BY <1>2, <1>3 DEF OpOK
<1>6. BooksOK'  BY <1>2, <1>3 DEF BookInv, BooksOK
<1>7. SessionOK'
  <2>1. session \in [secret : Roots \cup {NoRoot}, ready : BOOLEAN] /\ (Unlocked => book # NoBook)
    BY DEF BookInv, SessionOK
  <2>2. Locked \in [secret : Roots \cup {NoRoot}, ready : BOOLEAN] /\ Locked.secret = NoRoot
    BY DEF Locked
  <2>3. session' \in [secret : Roots \cup {NoRoot}, ready : BOOLEAN] /\ (Unlocked' => book' # NoBook)
    BY <1>3, <2>1, <2>2 DEF Unlocked
  <2>4. Resetting' => ~Unlocked'  BY <1>2, <2>2 DEF Resetting, Unlocked
  <2>5. op'.kind = "add" /\ op'.prev = NoBook => ~Unlocked'  BY <1>2, <1>3, <2>3
  <2> QED BY <2>3, <2>4, <2>5 DEF SessionOK
<1>8. OwnOK'  BY <1>2, <1>3, <1>4 DEF OwnOK
<1>9. ToldOK'
  <2>1. told \subseteq Reported(book) /\ told \subseteq Reported(disk)
    BY DEF BookInv, ToldOK
  <2>2. \A i \in 1..Len(queue) : told \subseteq Reported(queue[i].book)
    BY <1>4 DEF BookInv, ToldOK
  <2> QED BY <1>2, <1>3, <1>4, <2>1, <2>2 DEF ToldOK
<1>10. FrameOK'  BY <1>2, <1>3 DEF FrameOK
<1> QED BY <1>5, <1>6, <1>7, <1>8, <1>9, <1>10 DEF BookInv

\* An operation changes the book and queues its own write: what it restores and what others queued
\* still open what was reported, and its own snapshot opens what it now has.
LEMMA ChangedBy ==
  ASSUME BookInv, NEW b, Changes(b), UNCHANGED <<disk, told>>,
         session' = session \/ session' = Locked,
         op.kind \notin {"none", "reset"}, op.stage \in {"work", "verify"},
         Good(b), b # NoBook, Reported(book) \subseteq Reported(b),
         op.kind \in Framed => Frame(b) = Frame(book) /\ Anchor(b) = Anchor(book)
  PROVE  BookInv'
<1>1. /\ op = [kind |-> op.kind, with |-> op.with, stage |-> op.stage, live |-> op.live, prev |-> op.prev]
      /\ op.kind \in BookKinds
  BY DEF BookInv, OpOK
<1>2. /\ op'.kind = op.kind /\ op'.with = op.with /\ op'.stage = "saving" /\ op'.prev = op.prev
      /\ op' = [kind |-> op'.kind, with |-> op'.with, stage |-> op'.stage,
                live |-> op'.live, prev |-> op'.prev]
  BY <1>1 DEF Changes
<1>3. book' = b /\ disk' = disk /\ told' = told /\ Saves(b, TRUE)  BY DEF Changes
<1>4. /\ Good(book) /\ Good(disk) /\ Good(op.prev)
      /\ queue \in Seq([book : Books, own : BOOLEAN])
      /\ \A i \in 1..Len(queue) : Good(queue[i].book)
  BY DEF BookInv, BooksOK
<1>5. /\ queue' \in Seq([book : Books, own : BOOLEAN])
      /\ Len(queue) \in Nat /\ Len(queue') = Len(queue) + 1
      /\ \A i \in 1..Len(queue) : i \in 1..Len(queue') /\ queue'[i] = queue[i]
      /\ Len(queue') \in 1..Len(queue')
      /\ queue'[Len(queue')].book = b /\ queue'[Len(queue')].own = TRUE
      /\ \A i \in 1..Len(queue') : i \in 1..Len(queue) \/ i = Len(queue')
  <2>1. b \in Books /\ TRUE \in BOOLEAN  BY DEF Good
  <2> QED BY <1>3, <1>4, <2>1, Appended
<1>6. \A i \in 1..Len(queue) : ~queue[i].own  BY DEF BookInv, OwnOK
<1>7. OpOK'
  <2> HIDE DEF BookKinds
  <2> QED BY <1>1, <1>2 DEF BookInv, OpOK
<1>8. BooksOK'  BY <1>2, <1>3, <1>4, <1>5 DEF BooksOK
<1>9. SessionOK'
  <2>1. Locked \in [secret : Roots \cup {NoRoot}, ready : BOOLEAN] /\ Locked.secret = NoRoot
    BY DEF Locked
  <2>2. session' \in [secret : Roots \cup {NoRoot}, ready : BOOLEAN] /\ (Unlocked' => Unlocked)
    BY <2>1 DEF BookInv, SessionOK, Unlocked
  <2>3. Resetting' = Resetting  BY <1>2 DEF Resetting
  <2> QED BY <1>2, <1>3, <2>2, <2>3 DEF BookInv, SessionOK
<1>10. OwnOK'
  <2>1. \A i \in 1..Len(queue') : queue'[i].own => i = Len(queue')  BY <1>5, <1>6
  <2>2. \A i, j \in 1..Len(queue') :
          queue'[i].own /\ ~Resetting' /\ i <= j => Reported(queue'[j].book) = Reported(book')
    <3> SUFFICES ASSUME NEW i \in 1..Len(queue'), NEW j \in 1..Len(queue'), queue'[i].own, i <= j
                 PROVE  Reported(queue'[j].book) = Reported(book')
      OBVIOUS
    <3>1. j = Len(queue')  BY <1>5, <2>1
    <3> QED BY <1>3, <1>5, <3>1
  <2> QED BY <1>2, <1>3, <2>1, <2>2 DEF OwnOK
<1>11. ToldOK'
  <2>1. /\ told \subseteq Reported(book) /\ told \subseteq Reported(disk)
        /\ told \subseteq Reported(op.prev)
        /\ \A i \in 1..Len(queue) : told \subseteq Reported(queue[i].book)
    BY <1>6 DEF BookInv, ToldOK
  <2>2. told \subseteq Reported(b)  BY <2>1
  <2>3. \A i \in 1..Len(queue') : told \subseteq Reported(queue'[i].book)
    BY <1>5, <2>1, <2>2
  <2>4. ~Resetting'  BY <1>2 DEF Resetting
  <2> QED BY <1>2, <1>3, <2>1, <2>2, <2>3, <2>4 DEF ToldOK
<1>12. FrameOK'  BY <1>2, <1>3 DEF BookInv, FrameOK
<1> QED BY <1>7, <1>8, <1>9, <1>10, <1>11, <1>12 DEF BookInv

\* A save that is not the operation's takes a snapshot of a book with the same records and links.
LEMMA SavedBy ==
  ASSUME BookInv, NEW b, Good(b), b # NoBook, book # NoBook, Frame(b) = Frame(book),
         Anchor(b) = Anchor(book), b.access = book.access,
         Cardinality(b.records) <= Cardinality(book.records),
         book' = b, Saves(b, FALSE), ~Resetting, UNCHANGED <<disk, session, op, told>>
  PROVE  BookInv'
<1>1. /\ disk' = disk /\ session' = session /\ op' = op /\ told' = told
      /\ op.kind \in BookKinds
  BY DEF BookInv, OpOK
<1>2. /\ Good(book) /\ Good(disk) /\ Good(op.prev)
      /\ queue \in Seq([book : Books, own : BOOLEAN])
      /\ \A i \in 1..Len(queue) : Good(queue[i].book)
  BY DEF BookInv, BooksOK
<1>3. /\ queue' \in Seq([book : Books, own : BOOLEAN])
      /\ Len(queue) \in Nat /\ Len(queue') = Len(queue) + 1
      /\ \A i \in 1..Len(queue) : i \in 1..Len(queue') /\ queue'[i] = queue[i]
      /\ Len(queue') \in 1..Len(queue')
      /\ queue'[Len(queue')].book = b /\ queue'[Len(queue')].own = FALSE
      /\ \A i \in 1..Len(queue') : i \in 1..Len(queue) \/ i = Len(queue')
  <2>1. b \in Books /\ FALSE \in BOOLEAN  BY DEF Good
  <2> QED BY <1>2, <2>1, Appended
<1>4. /\ Reported(b) = Reported(book) /\ Accounts(b) = Accounts(book)
      /\ UnlinkedWallets(b) = {} <=> UnlinkedWallets(book) = {}
  BY OpensFrame, FrameKeeps
<1>5. Resetting' = Resetting  BY <1>1 DEF Resetting
<1>6. OpOK'
  <2>1. Cardinality(book.records) < MaxAccounts => Cardinality(b.records) < MaxAccounts
    <3>1. Cardinality(b.records) \in Nat /\ Cardinality(book.records) \in Nat
      BY <1>2, FS_CardinalityType DEF Good
    <3> QED BY <3>1, AccountBookConstants DEF AccountBookConstants
  <2> HIDE DEF BookKinds
  <2> QED BY <1>1, <1>4, <2>1 DEF BookInv, OpOK
<1>7. BooksOK'  BY <1>1, <1>2, <1>3 DEF BooksOK
<1>8. SessionOK'  BY <1>1, <1>5 DEF BookInv, SessionOK, Unlocked
<1>9. OwnOK'
  <2>1. /\ \A i \in 1..Len(queue) : queue[i].own => op.stage = "saving"
        /\ \A i, j \in 1..Len(queue) : queue[i].own /\ queue[j].own => i = j
        /\ \A i, j \in 1..Len(queue) :
             queue[i].own /\ i <= j => Reported(queue[j].book) = Reported(book)
    BY DEF BookInv, OwnOK
  <2>2. \A i \in 1..Len(queue') : queue'[i].own => i \in 1..Len(queue) /\ queue[i].own
    BY <1>3
  <2>3. \A i \in 1..Len(queue') : queue'[i].own => op'.stage = "saving"  BY <1>1, <2>1, <2>2
  <2>4. \A i, j \in 1..Len(queue') : queue'[i].own /\ queue'[j].own => i = j  BY <2>1, <2>2
  <2>5. \A i, j \in 1..Len(queue') :
          queue'[i].own /\ ~Resetting' /\ i <= j => Reported(queue'[j].book) = Reported(book')
    BY <1>3, <1>4, <2>1, <2>2
  <2>6. ASSUME op.stage = "confirm"
        PROVE  /\ UnlinkedWallets(b) = {} /\ Reported(disk) = Reported(b)
               /\ \A i \in 1..Len(queue') : Reported(queue'[i].book) = Reported(b)
    <3>1. /\ UnlinkedWallets(book) = {} /\ Reported(disk) = Reported(book)
          /\ \A i \in 1..Len(queue) : Reported(queue[i].book) = Reported(book)
      BY <2>6 DEF BookInv, OwnOK
    <3> QED BY <1>3, <1>4, <3>1
  <2> QED BY <1>1, <2>3, <2>4, <2>5, <2>6 DEF OwnOK
<1>10. ToldOK'
  <2>1. /\ told \subseteq Reported(book) /\ told \subseteq Reported(disk)
        /\ op.kind # "none" => told \subseteq Reported(op.prev)
        /\ \A i \in 1..Len(queue) : told \subseteq Reported(queue[i].book)
    BY DEF BookInv, ToldOK
  <2>2. \A i \in 1..Len(queue') : told \subseteq Reported(queue'[i].book)
    BY <1>3, <1>4, <2>1
  <2> QED BY <1>1, <1>4, <1>5, <2>1, <2>2 DEF ToldOK
<1>11. FrameOK'  BY <1>1 DEF BookInv, FrameOK
<1> QED BY <1>6, <1>7, <1>8, <1>9, <1>10, <1>11 DEF BookInv

\* A failed operation restores a book that opens what was reported.
LEMMA Restored ==
  ASSUME BookInv, op.kind \notin {"none", "reset"}, op.stage \in {"verify", "saving"},
         NEW c, c = Undone
  PROVE  Good(c) /\ told \subseteq Reported(c) /\ (Unlocked => c # NoBook)
<1>1. Good(op.prev) /\ told \subseteq Reported(op.prev) /\ op.kind \in BookKinds
  BY DEF BookInv, BooksOK, ToldOK, OpOK
<1>2. CASE op.kind \in {"select", "derive", "add"}
  <2>1. c = op.prev  BY <1>2 DEF Undone
  <2>2. Unlocked => op.prev # NoBook
    <3>1. op.kind # "add" => op.prev # NoBook  BY <1>2 DEF BookInv, OpOK
    <3>2. op.kind = "add" /\ op.prev = NoBook => ~Unlocked  BY DEF BookInv, SessionOK
    <3> QED BY <3>1, <3>2
  <2> QED BY <1>1, <2>1, <2>2
<1>3. CASE op.kind \notin {"select", "derive", "add"}
  <2>1. op.kind \in Framed /\ op.prev # NoBook
    <3>1. op.kind \in Framed  BY <1>1, <1>3 DEF BookKinds, Framed
    <3>2. op.prev # NoBook  BY <1>3 DEF BookInv, OpOK
    <3> QED BY <3>1, <3>2
  <2>2. Frame(book) = Frame(op.prev) /\ Anchor(book) = Anchor(op.prev)
    BY <2>1 DEF BookInv, FrameOK
  <2>3. Good(book) /\ book # NoBook
    <3>1. Good(book)  BY DEF BookInv, BooksOK
    <3>2. op.prev.records # {}  BY <1>1, <2>1 DEF Good
    <3>3. book.records # {}  BY <2>2, <3>2, FrameKeeps
    <3>4. NoBook.records = {}  BY DEF NoBook
    <3> QED BY <3>1, <3>3, <3>4
  <2>4. PICK b : b = op.prev  OBVIOUS
  <2>5. Good(c) /\ c # NoBook /\ Reported(c) = Reported(b)
    BY <1>1, <1>3, <2>1, <2>2, <2>3, <2>4, UndoneIs
  <2> QED BY <1>1, <2>4, <2>5
<1> QED BY <1>2, <1>3

\* An operation that keeps the frame works on a book, of the anchor and the roots it found.
LEMMA FramedBook ==
  ASSUME BookInv, op.kind \in Framed
  PROVE  /\ Good(book) /\ book # NoBook /\ Frame(book) = Frame(op.prev)
         /\ Anchor(book) = Anchor(op.prev) /\ RootsOf(book) = RootsOf(op.prev)
<1>1. Frame(book) = Frame(op.prev) /\ Anchor(book) = Anchor(op.prev)  BY DEF BookInv, FrameOK
<1>2. Good(book) /\ Good(op.prev)  BY DEF BookInv, BooksOK
<1>3. op.prev # NoBook  BY DEF BookInv, OpOK, Framed
<1>4. op.prev.records # {}  BY <1>2, <1>3 DEF Good
<1>5. book.records # {} /\ RootsOf(book) = RootsOf(op.prev)  BY <1>1, <1>4, FrameKeeps
<1>6. NoBook.records = {}  BY DEF NoBook
<1> QED BY <1>1, <1>2, <1>5, <1>6

\* The handlers that begin.
LEMMA BeginKeeps ==
  ASSUME BookInv,
         \/ \E a \in Accounts(book) : SelectAccount(a)
         \/ Derive \/ PasskeyUnlock \/ ResetBegins
         \/ \E root \in Roots, pw \in Passwords, created \in BOOLEAN, size \in 1..MaxAccounts :
              \E selected \in 0..(size - 1) : Add(root, pw, created, size, selected)
         \/ \E pw \in Passwords : Unlock(pw)
         \/ \E pw \in Passwords : \E enroll \in BOOLEAN : SetPasskey(pw, enroll)
  PROVE  BookInv'
<1>0. IsUnlocked => book # NoBook  BY DEF BookInv, SessionOK, IsUnlocked
<1>1. ASSUME NEW a \in Accounts(book), SelectAccount(a) PROVE BookInv'
  <2>1. /\ Begins("select", a) /\ UNCHANGED <<book, disk, queue, told>> /\ session' = session
        /\ book # NoBook
    BY <1>0, <1>1 DEF SelectAccount
  <2> QED BY <2>1, Begun DEF BookKinds
<1>2. CASE Derive
  <2>1. /\ Begins("derive", NoRoot) /\ UNCHANGED <<book, disk, queue, told>> /\ session' = session
        /\ book # NoBook /\ Cardinality(book.records) < MaxAccounts
    BY <1>0, <1>2 DEF Derive
  <2> QED BY <2>1, Begun DEF BookKinds
<1>3. CASE PasskeyUnlock
  <2>1. /\ Begins("passkey", NoRoot) /\ UNCHANGED <<book, disk, queue, told>> /\ session' = session
        /\ book # NoBook
    BY <1>3 DEF PasskeyUnlock
  <2> QED BY <2>1, Begun DEF BookKinds
<1>4. CASE ResetBegins
  <2>1. /\ Begins("reset", NoRoot) /\ UNCHANGED <<book, disk, queue, told>> /\ session' = Locked
        /\ book # NoBook
    BY <1>4 DEF ResetBegins
  <2> QED BY <2>1, Begun DEF BookKinds
<1>5. ASSUME NEW root \in Roots, NEW pw \in Passwords, NEW created \in BOOLEAN,
             NEW size \in 1..MaxAccounts, NEW selected \in 0..(size - 1),
             Add(root, pw, created, size, selected)
      PROVE  BookInv'
  <2>1. PICK w : w = [vault |-> Vault(root, 2, pw), created |-> created, size |-> size,
                      selected |-> selected]
    OBVIOUS
  <2>2. /\ Begins("add", w) /\ UNCHANGED <<book, disk, queue, told>> /\ session' = session
    BY <1>5, <2>1 DEF Add
  <2>3. /\ w \in [vault : Vaults, created : BOOLEAN, size : 1..MaxAccounts, selected : Nat]
        /\ w.selected < w.size
    <3>1. Vault(root, 2, pw) \in Vaults  BY DEF Vault, Vaults
    <3>2. selected \in Nat /\ selected < size
      BY AccountBookConstants DEF AccountBookConstants
    <3> QED BY <2>1, <3>1, <3>2
  <2> QED BY <2>2, <2>3, Begun DEF BookKinds
<1>6. ASSUME NEW pw \in Passwords, Unlock(pw) PROVE BookInv'
  <2>1. UNCHANGED <<book, disk, queue, told>> /\ session' = session /\ book # NoBook
    BY <1>6 DEF Unlock
  <2>2. CASE Unlocked /\ UnlinkedWallets(book) # {}
    <3>1. PICK r \in UnlinkedWallets(book) : Begins("link", r.vault.root)
      BY <1>6, <2>2 DEF Unlock
    <3>2. PICK k : k = r.vault.root  OBVIOUS
    <3>3. k \in RootsOf(book) \ {Anchor(book)}
      BY <3>2 DEF UnlinkedWallets, RootsOf, Opens
    <3>4. Begins("link", k)  BY <3>1, <3>2
    <3> QED BY <2>1, <3>3, <3>4, Begun DEF BookKinds
  <2>3. CASE ~(Unlocked /\ UnlinkedWallets(book) # {})
    <3>1. Begins("unlock", NoRoot)  BY <1>6, <2>3 DEF Unlock
    <3> QED BY <2>1, <3>1, Begun DEF BookKinds
  <2> QED BY <2>2, <2>3
<1>7. ASSUME NEW pw \in Passwords, NEW enroll \in BOOLEAN, SetPasskey(pw, enroll) PROVE BookInv'
  <2>1. PICK k : k = IF enroll THEN Anchor(book) ELSE NoRoot  OBVIOUS
  <2>2. /\ Begins("passkey-set", k) /\ UNCHANGED <<book, disk, queue, told>> /\ session' = session
        /\ book # NoBook
    BY <1>7, <2>1 DEF SetPasskey
  <2>3. k \in {NoRoot, Anchor(book)}  BY <2>1
  <2> QED BY <2>2, <2>3, Begun DEF BookKinds
<1> QED BY <1>1, <1>2, <1>3, <1>4, <1>5, <1>6, <1>7

\* The handlers that change the book.
LEMMA ChangeKeeps ==
  ASSUME BookInv, Switches \/ Adds \/ Links \/ Upgrades \/ Verifies \/ SetsPasskey
  PROVE  BookInv'
<1>0. Good(book) /\ (Unlocked => book # NoBook)  BY DEF BookInv, BooksOK, SessionOK
<1>1. CASE Switches /\ op.kind = "select"
  <2>1. PICK b : b = Select(book, op.with)  OBVIOUS
  <2>2. Changes(b) /\ UNCHANGED <<disk, told>> /\ session' = session /\ op.stage = "work"
    BY <1>1, <2>1 DEF Switches, At
  <2>3. op.with \in Accounts(book)  BY <1>1, <2>2 DEF BookInv, OpOK
  <2>4. Good(b) /\ b # NoBook /\ Reported(b) = Reported(book)
    BY <1>0, <2>1, <2>3, Selected
  <2> QED BY <1>1, <2>2, <2>4, ChangedBy DEF Framed
<1>2. CASE Switches /\ op.kind # "select"
  <2>1. PICK b : b = AddDerived(book)  OBVIOUS
  <2>2. /\ Changes(b) /\ UNCHANGED <<disk, told>> /\ session' = session
        /\ op.kind = "derive" /\ op.stage = "work" /\ NextDerivation(book) < MaxAccounts
        /\ Unlocked
    BY <1>2, <2>1 DEF Switches, At, IsUnlocked
  <2>3. Cardinality(book.records) < MaxAccounts  BY <2>2 DEF BookInv, OpOK
  <2>4. Good(b) /\ b # NoBook /\ Reported(book) \subseteq Reported(b)
    BY <1>0, <2>1, <2>2, <2>3, Derived
  <2> QED BY <2>2, <2>4, ChangedBy DEF Framed
<1>3. CASE Adds
  <2>1. op.kind = "add" /\ op.stage = "work" /\ UNCHANGED <<disk, told>>
    BY <1>3 DEF Adds, At
  <2>2. PICK w : w = op.with  OBVIOUS
  <2>3. PICK access : access = IF book = NoBook THEN [owner |-> w.vault.root, wallets |-> {}]
                ELSE [owner |-> Anchor(book), wallets |-> book.access.wallets \cup {w.vault.root}]
    OBVIOUS
  <2>4. PICK b : b = AddWallet([book EXCEPT !.access = access], w)  OBVIOUS
  <2>5. /\ Changes(b) /\ Of(book, w.vault.root) = {}
        /\ Cardinality(book.records) + w.size <= MaxAccounts
        /\ session' = session \/ session' = Locked
    BY <1>3, <2>2, <2>3, <2>4 DEF Adds
  <2>6. /\ w \in [vault : Vaults, created : BOOLEAN, size : 1..MaxAccounts, selected : Nat]
        /\ w.selected < w.size
    BY <2>1, <2>2 DEF BookInv, OpOK
  <2>7. Good(b) /\ b # NoBook /\ Reported(book) \subseteq Reported(b)
    BY <1>0, <2>3, <2>4, <2>5, <2>6, Added
  <2> QED BY <2>1, <2>5, <2>7, ChangedBy DEF Framed
<1>4. CASE Links
  <2>1. PICK k : k = {op.with}  OBVIOUS
  <2>2. PICK b : b = [book EXCEPT !.access = [owner |-> Anchor(book), wallets |-> @.wallets \cup k]]
    OBVIOUS
  <2>3. /\ Changes(b) /\ UNCHANGED <<disk, told>> /\ session' = session
        /\ op.kind = "link" /\ op.stage = "work"
    BY <1>4, <2>1, <2>2 DEF Links, At
  <2>4. k \in SUBSET (RootsOf(book) \ {Anchor(book)}) /\ book # NoBook
    <3>1. op.with \in RootsOf(op.prev) \ {Anchor(op.prev)}  BY <2>3 DEF BookInv, OpOK
    <3>2. op.kind \in Framed  BY <2>3 DEF Framed
    <3>3. book # NoBook /\ RootsOf(book) = RootsOf(op.prev) /\ Anchor(book) = Anchor(op.prev)
      BY <3>2, FramedBook
    <3> QED BY <2>1, <3>1, <3>3
  <2>5. /\ Good(b) /\ b # NoBook /\ Frame(b) = Frame(book) /\ Anchor(b) = Anchor(book)
        /\ Reported(book) \subseteq Reported(b)
    BY <1>0, <2>2, <2>4, Linked
  <2> QED BY <2>3, <2>5, ChangedBy
<1>5. CASE Upgrades /\ UnlinkedWallets(Upgraded(book)) # {}
  <2>1. PICK b : b = Upgraded(book)  OBVIOUS
  <2>2. /\ Changes(b) /\ UNCHANGED <<disk, told>> /\ session' = session
        /\ op.kind = "unlock" /\ op.stage = "work"
    BY <1>5, <2>1 DEF Upgrades, At
  <2>3. book # NoBook
    <3>1. op.kind \in Framed  BY <2>2 DEF Framed
    <3> QED BY <3>1, FramedBook
  <2>4. /\ Good(b) /\ b # NoBook /\ Frame(b) = Frame(book) /\ Anchor(b) = Anchor(book)
        /\ Reported(book) \subseteq Reported(b)
    BY <1>0, <2>1, <2>3, UpgradedIs
  <2> QED BY <2>2, <2>4, ChangedBy
<1>6. CASE Upgrades /\ UnlinkedWallets(Upgraded(book)) = {}
  <2>1. PICK b : b = Upgraded(book)  OBVIOUS
  <2>2. /\ book' = b /\ op' = [op EXCEPT !.stage = "verify"] /\ queue' = queue
        /\ disk' = disk /\ told' = told /\ session' = session
        /\ op.kind = "unlock" /\ op.stage = "work"
    BY <1>6, <2>1 DEF Upgrades, At
  <2>3. op = [kind |-> op.kind, with |-> op.with, stage |-> op.stage, live |-> op.live, prev |-> op.prev]
    BY DEF BookInv, OpOK
  <2>4. /\ op'.kind = "unlock" /\ op'.stage = "verify" /\ op'.prev = op.prev
        /\ op' = [kind |-> op'.kind, with |-> op'.with, stage |-> op'.stage,
                  live |-> op'.live, prev |-> op'.prev]
    BY <2>2, <2>3
  <2>5. Frame(book) = Frame(op.prev) /\ Anchor(book) = Anchor(op.prev) /\ book # NoBook
    <3>1. op.kind \in Framed  BY <2>2 DEF Framed
    <3> QED BY <3>1, FramedBook
  <2>6. /\ Good(b) /\ b # NoBook /\ Frame(b) = Frame(book) /\ Anchor(b) = Anchor(book)
        /\ Reported(book) \subseteq Reported(b)
    BY <1>0, <2>1, <2>5, UpgradedIs
  <2>7. \A i \in 1..Len(queue) : ~queue[i].own  BY <2>2 DEF BookInv, OwnOK
  <2>8. OpOK'
    <3>1. op.prev # NoBook  BY <2>2 DEF BookInv, OpOK
    <3> QED BY <2>4, <3>1 DEF OpOK, BookKinds
  <2>9. BooksOK'  BY <2>2, <2>4, <2>6 DEF BookInv, BooksOK
  <2>10. SessionOK'  BY <2>2, <2>4, <2>6 DEF BookInv, SessionOK, Resetting, Unlocked
  <2>11. OwnOK'  BY <2>2, <2>4, <2>7 DEF OwnOK
  <2>12. ToldOK'
    <3>1. /\ told \subseteq Reported(book) /\ told \subseteq Reported(disk)
          /\ told \subseteq Reported(op.prev)
          /\ \A i \in 1..Len(queue) : told \subseteq Reported(queue[i].book)
      BY <2>2, <2>7 DEF BookInv, ToldOK
    <3>2. told \subseteq Reported(b)  BY <2>6, <3>1
    <3> QED BY <2>2, <2>4, <2>7, <3>1, <3>2 DEF ToldOK
  <2>13. FrameOK'  BY <2>2, <2>4, <2>5, <2>6 DEF FrameOK
  <2> QED BY <2>8, <2>9, <2>10, <2>11, <2>12, <2>13 DEF BookInv
<1>7. CASE Verifies
  <2>1. PICK b : b = book  OBVIOUS
  <2>2. /\ Changes(b) /\ UNCHANGED <<disk, told>> /\ session' = session
        /\ op.kind = "unlock" /\ op.stage = "verify"
    BY <1>7, <2>1 DEF Verifies, At
  <2>3. book # NoBook
    <3>1. op.kind \in Framed  BY <2>2 DEF Framed
    <3> QED BY <3>1, FramedBook
  <2> QED BY <1>0, <2>1, <2>2, <2>3, ChangedBy
<1>8. CASE SetsPasskey
  <2>1. PICK k : k = op.with  OBVIOUS
  <2>2. PICK b : b = SetAccessPasskey(book, k)  OBVIOUS
  <2>3. /\ Changes(b) /\ UNCHANGED <<disk, told>> /\ session' = session
        /\ op.kind = "passkey-set" /\ op.stage = "work"
    BY <1>8, <2>1, <2>2 DEF SetsPasskey, At
  <2>4. k \in {NoRoot, Anchor(book)} /\ book # NoBook
    <3>1. op.with \in {NoRoot, Anchor(op.prev)}  BY <2>3 DEF BookInv, OpOK
    <3>2. op.kind \in Framed  BY <2>3 DEF Framed
    <3>3. book # NoBook /\ Anchor(book) = Anchor(op.prev)  BY <3>2, FramedBook
    <3> QED BY <2>1, <3>1, <3>3
  <2>5. /\ Good(b) /\ b # NoBook /\ Frame(b) = Frame(book) /\ Anchor(b) = Anchor(book)
        /\ b.access = book.access
    BY <1>0, <2>2, <2>4, PasskeySet
  <2>6. Reported(b) = Reported(book)  BY <2>5, OpensFrame
  <2> QED BY <2>3, <2>5, <2>6, ChangedBy
<1> QED BY <1>1, <1>2, <1>3, <1>4, <1>5, <1>6, <1>7, <1>8

\* installUnlock() holds the secret of the anchor, or nothing new.
LEMMA InstallsType ==
  ASSUME session \in [secret : Roots \cup {NoRoot}, ready : BOOLEAN], Anchor(book) \in Roots, Installs
  PROVE  session' \in [secret : Roots \cup {NoRoot}, ready : BOOLEAN]
<1>1. CASE op.live
  <2>1. PICK y \in BOOLEAN : y = (UnlinkedWallets(book) = {})  OBVIOUS
  <2>2. session' = [secret |-> Anchor(book), ready |-> y]  BY <1>1, <2>1 DEF Installs
  <2> QED BY <2>2
<1>2. CASE ~op.live  BY <1>2 DEF Installs
<1> QED BY <1>1, <1>2

\* The ends that are not a write's.
LEMMA EndKeeps ==
  ASSUME BookInv, PasskeyOpens \/ Completes \/ WorkFails
  PROVE  BookInv'
<1>1. /\ Good(book) /\ Good(disk) /\ queue \in Seq([book : Books, own : BOOLEAN])
      /\ \A i \in 1..Len(queue) : Good(queue[i].book)
      /\ session \in [secret : Roots \cup {NoRoot}, ready : BOOLEAN]
      /\ Unlocked => book # NoBook
  BY DEF BookInv, BooksOK, SessionOK
<1>2. op' = NoOp /\ disk' = disk /\ queue' = queue /\ op.stage \in {"work", "verify", "confirm"}
  BY DEF PasskeyOpens, Completes, WorkFails, OpEnds, At
<1>3. \A i \in 1..Len(queue) : ~queue[i].own  BY <1>2 DEF BookInv, OwnOK
<1>4. /\ told \subseteq Reported(book) /\ told \subseteq Reported(disk)
      /\ \A i \in 1..Len(queue) : told \subseteq Reported(queue[i].book)
  BY <1>3 DEF BookInv, ToldOK
<1>5. Locked \in [secret : Roots \cup {NoRoot}, ready : BOOLEAN] /\ Locked.secret = NoRoot
  BY DEF Locked
<1>6. CASE PasskeyOpens
  <2>1. op.kind = "passkey" /\ book' = book /\ told' = told /\ Installs
    BY <1>6 DEF PasskeyOpens, At
  <2>2. book # NoBook
    <3>1. op.kind \in Framed  BY <2>1 DEF Framed
    <3> QED BY <3>1, FramedBook
  <2>3. Anchor(book) \in Roots  BY <1>1, <2>2, AnchorIs
  <2>4. session' \in [secret : Roots \cup {NoRoot}, ready : BOOLEAN]
    BY <1>1, <2>1, <2>3, InstallsType
  <2> QED BY <1>1, <1>2, <1>3, <1>4, <2>1, <2>2, <2>4, Ended
<1>7. CASE Completes
  <2>1. /\ op.stage = "confirm" /\ book' = book
        /\ session' = session \/ session' = [session EXCEPT !.ready = TRUE]
        /\ told' \subseteq told \cup Accounts(book)
    BY <1>7 DEF Completes, At
  <2>2. /\ UnlinkedWallets(book) = {} /\ Reported(disk) = Reported(book)
        /\ \A i \in 1..Len(queue) : Reported(queue[i].book) = Reported(book)
    BY <2>1 DEF BookInv, OwnOK
  <2>3. Accounts(book) = Reported(book)  BY <1>1, <2>2, AllOpen
  <2>4. /\ told' \subseteq Reported(book') /\ told' \subseteq Reported(disk')
        /\ \A i \in 1..Len(queue) : told' \subseteq Reported(queue[i].book)
    BY <1>2, <1>4, <2>1, <2>2, <2>3
  <2>5. /\ session' \in [secret : Roots \cup {NoRoot}, ready : BOOLEAN]
        /\ session'.secret = session.secret
    BY <1>1, <2>1
  <2>6. Unlocked' => book' # NoBook  BY <1>1, <2>1, <2>5 DEF Unlocked
  <2> QED BY <1>1, <1>2, <1>3, <2>1, <2>4, <2>5, <2>6, Ended
<1>8. CASE WorkFails
  <2>1. /\ op.kind # "none" /\ op.kind # "reset" /\ told' = told
        /\ session' = session \/ session' = Locked
    BY <1>8 DEF WorkFails, Busy, Resetting
  <2>2. /\ session' \in [secret : Roots \cup {NoRoot}, ready : BOOLEAN]
        /\ Unlocked' => Unlocked
    BY <1>1, <1>5, <2>1 DEF Unlocked
  <2>3. CASE op.stage = "verify"
    <3>1. book' = Undone  BY <1>8, <2>3 DEF WorkFails
    <3>2. PICK c : c = Undone  OBVIOUS
    <3>3. Good(c) /\ told \subseteq Reported(c) /\ (Unlocked => c # NoBook)
      BY <2>1, <2>3, <3>2, Restored
    <3>4. /\ Good(book') /\ told' \subseteq Reported(book') /\ (Unlocked' => book' # NoBook)
      BY <2>1, <2>2, <3>1, <3>2, <3>3
    <3> QED BY <1>1, <1>2, <1>3, <1>4, <2>1, <2>2, <3>4, Ended
  <2>4. CASE op.stage # "verify"
    <3>1. book' = book  BY <1>8, <2>4 DEF WorkFails
    <3> QED BY <1>1, <1>2, <1>3, <1>4, <2>1, <2>2, <3>1, Ended
  <2> QED BY <2>3, <2>4
<1> QED BY <1>6, <1>7, <1>8

\* A write that is not the operation's ends.
LEMMA OtherWriteKeeps ==
  ASSUME BookInv, NEW ok \in BOOLEAN, WriteEnds(ok), ~Head(queue).own
  PROVE  BookInv'
<1>1. /\ Good(book) /\ Good(disk) /\ Good(op.prev)
      /\ queue \in Seq([book : Books, own : BOOLEAN])
      /\ \A i \in 1..Len(queue) : Good(queue[i].book)
  BY DEF BookInv, BooksOK
<1>2. /\ queue # <<>> /\ queue' = Tail(queue) /\ book' = book /\ op' = op /\ session' = session
      /\ told' = told /\ (disk' = disk \/ disk' = Head(queue).book)
  BY DEF WriteEnds
<1>3. /\ queue' \in Seq([book : Books, own : BOOLEAN])
      /\ Len(queue) \in Nat /\ Len(queue) > 0 /\ 1 \in 1..Len(queue)
      /\ Head(queue) = queue[1]
      /\ Len(queue') = Len(queue) - 1
      /\ \A i \in 1..Len(queue') : i + 1 \in 1..Len(queue) /\ queue'[i] = queue[i + 1]
  BY <1>1, <1>2, Shifted
<1>4. OpOK'  BY <1>2 DEF BookInv, OpOK
<1>5. BooksOK'  BY <1>1, <1>2, <1>3 DEF BooksOK
<1>6. SessionOK'  BY <1>2 DEF BookInv, SessionOK, Resetting, Unlocked
<1>7. OwnOK'
  <2>1. /\ \A i \in 1..Len(queue) : queue[i].own => op.stage = "saving"
        /\ \A i, j \in 1..Len(queue) : queue[i].own /\ queue[j].own => i = j
        /\ op.stage = "saving" /\ ~Resetting => book # NoBook
        /\ \A i, j \in 1..Len(queue) :
             queue[i].own /\ ~Resetting /\ i <= j => Reported(queue[j].book) = Reported(book)
    BY DEF BookInv, OwnOK
  <2>2. \A i \in 1..Len(queue') : queue'[i].own => op'.stage = "saving"  BY <1>2, <1>3, <2>1
  <2>3. \A i, j \in 1..Len(queue') : queue'[i].own /\ queue'[j].own => i = j
    <3> SUFFICES ASSUME NEW i \in 1..Len(queue'), NEW j \in 1..Len(queue'),
                        queue'[i].own, queue'[j].own
                 PROVE  i = j
      OBVIOUS
    <3>1. i + 1 = j + 1  BY <1>3, <2>1
    <3> QED BY <3>1
  <2>4. Resetting' = Resetting  BY <1>2 DEF Resetting
  <2>5. \A i, j \in 1..Len(queue') :
          queue'[i].own /\ ~Resetting' /\ i <= j => Reported(queue'[j].book) = Reported(book')
    <3> SUFFICES ASSUME NEW i \in 1..Len(queue'), NEW j \in 1..Len(queue'),
                        queue'[i].own, ~Resetting, i <= j
                 PROVE  Reported(queue'[j].book) = Reported(book)
      BY <1>2, <2>4
    <3>1. i + 1 <= j + 1  OBVIOUS
    <3> QED BY <1>3, <2>1, <3>1
  <2>6. ASSUME op.stage = "confirm"
        PROVE  /\ UnlinkedWallets(book) = {} /\ Reported(disk') = Reported(book)
               /\ \A i \in 1..Len(queue') : Reported(queue'[i].book) = Reported(book)
    <3>1. /\ UnlinkedWallets(book) = {} /\ Reported(disk) = Reported(book)
          /\ \A i \in 1..Len(queue) : Reported(queue[i].book) = Reported(book)
      BY <2>6 DEF BookInv, OwnOK
    <3> QED BY <1>2, <1>3, <3>1
  <2> QED BY <1>2, <2>1, <2>2, <2>3, <2>4, <2>5, <2>6 DEF OwnOK
<1>8. ToldOK'
  <2>1. /\ told \subseteq Reported(book) /\ told \subseteq Reported(disk)
        /\ op.kind # "none" => told \subseteq Reported(op.prev)
        /\ \A i \in 1..Len(queue) :
             ~(queue[i].own /\ Resetting) => told \subseteq Reported(queue[i].book)
        /\ Resetting => \A i \in 1..Len(queue) : queue[i].own => queue[i].book = NoBook
    BY DEF BookInv, ToldOK
  <2>2. Resetting' = Resetting  BY <1>2 DEF Resetting
  <2>3. told \subseteq Reported(disk')  BY <1>2, <1>3, <2>1
  <2>4. \A i \in 1..Len(queue') :
          ~(queue'[i].own /\ Resetting) => told \subseteq Reported(queue'[i].book)
    BY <1>3, <2>1
  <2>5. Resetting => \A i \in 1..Len(queue') : queue'[i].own => queue'[i].book = NoBook
    BY <1>3, <2>1
  <2> QED BY <1>2, <2>1, <2>2, <2>3, <2>4, <2>5 DEF ToldOK
<1>9. FrameOK'  BY <1>2 DEF BookInv, FrameOK
<1> QED BY <1>4, <1>5, <1>6, <1>7, <1>8, <1>9 DEF BookInv

\* The write of the operation ends, and its handler answers.
LEMMA OwnWriteKeeps ==
  ASSUME BookInv, NEW ok \in BOOLEAN, WriteEnds(ok), Head(queue).own
  PROVE  BookInv'
<1>1. /\ Good(book) /\ Good(disk) /\ queue \in Seq([book : Books, own : BOOLEAN])
      /\ \A i \in 1..Len(queue) : Good(queue[i].book)
      /\ session \in [secret : Roots \cup {NoRoot}, ready : BOOLEAN]
      /\ Unlocked => book # NoBook
      /\ Resetting => ~Unlocked
  BY DEF BookInv, BooksOK, SessionOK
<1>2. /\ queue # <<>> /\ queue' = Tail(queue) /\ Answers(ok)
      /\ disk' = IF ok THEN Head(queue).book ELSE disk
  BY DEF WriteEnds
<1>3. /\ queue' \in Seq([book : Books, own : BOOLEAN])
      /\ Len(queue) \in Nat /\ Len(queue) > 0 /\ 1 \in 1..Len(queue)
      /\ Head(queue) = queue[1]
      /\ Len(queue') = Len(queue) - 1
      /\ \A i \in 1..Len(queue') : i + 1 \in 1..Len(queue) /\ queue'[i] = queue[i + 1]
  BY <1>1, <1>2, Shifted
<1>4. queue[1].own /\ op.stage = "saving"  BY <1>3 DEF BookInv, OwnOK
<1>5. \A i \in 1..Len(queue') : Good(queue'[i].book) /\ ~queue'[i].own
  <2> SUFFICES ASSUME NEW i \in 1..Len(queue') PROVE Good(queue'[i].book) /\ ~queue'[i].own
    OBVIOUS
  <2>1. i + 1 \in 1..Len(queue) /\ queue'[i] = queue[i + 1] /\ i + 1 # 1  BY <1>3
  <2>2. ~queue[i + 1].own  BY <1>3, <1>4, <2>1 DEF BookInv, OwnOK
  <2> QED BY <1>1, <2>1, <2>2
<1>6. /\ told \subseteq Reported(book) /\ told \subseteq Reported(disk)
      /\ \A i \in 1..Len(queue') : told \subseteq Reported(queue'[i].book)
  <2>1. \A i \in 1..Len(queue') : told \subseteq Reported(queue'[i].book)
    <3> SUFFICES ASSUME NEW i \in 1..Len(queue') PROVE told \subseteq Reported(queue'[i].book)
      OBVIOUS
    <3>1. i + 1 \in 1..Len(queue) /\ queue'[i] = queue[i + 1] /\ ~queue[i + 1].own
      BY <1>3, <1>5
    <3> QED BY <3>1 DEF BookInv, ToldOK
  <2> QED BY <2>1 DEF BookInv, ToldOK
<1>7. op.kind # "none" /\ op.kind \in BookKinds  BY <1>4 DEF BookInv, OpOK
<1>8. Good(disk')  BY <1>1, <1>2, <1>3
<1>9. CASE ~ok
  <2>1. /\ op' = NoOp /\ disk' = disk /\ session' = session /\ told' = told
        /\ book' = IF Resetting THEN book ELSE Undone
    BY <1>2, <1>9 DEF Answers, OpEnds
  <2>2. Good(book') /\ told \subseteq Reported(book') /\ (Unlocked => book' # NoBook)
    <3>1. CASE Resetting  BY <1>1, <1>6, <2>1, <3>1
    <3>2. CASE ~Resetting
      <4>1. PICK c : c = Undone  OBVIOUS
      <4>2. op.kind # "reset"  BY <3>2 DEF Resetting
      <4>3. Good(c) /\ told \subseteq Reported(c) /\ (Unlocked => c # NoBook)
        BY <1>4, <1>7, <4>1, <4>2, Restored
      <4> QED BY <2>1, <3>2, <4>1, <4>3
    <3> QED BY <3>1, <3>2
  <2>3. Unlocked' => book' # NoBook  BY <2>1, <2>2 DEF Unlocked
  <2> QED BY <1>1, <1>3, <1>5, <1>6, <1>8, <2>1, <2>2, <2>3, Ended
<1>10. CASE ok /\ Resetting
  <2>1. op' = NoOp /\ session' = session /\ told' = {} /\ book' = NoBook
    BY <1>2, <1>10 DEF Answers, OpEnds, Resetting
  <2>2. ~Unlocked'  BY <1>1, <1>10, <2>1 DEF Unlocked
  <2>3. Good(book')  BY <2>1, NoBookGood
  <2> QED BY <1>1, <1>3, <1>5, <1>8, <2>1, <2>2, <2>3, Ended
<1>11. CASE ok /\ ~Resetting
  <2>1. /\ book # NoBook /\ disk' = queue[1].book
        /\ \A j \in 1..Len(queue) : Reported(queue[j].book) = Reported(book)
    <3>1. \A j \in 1..Len(queue) : 1 <= j  BY <1>3
    <3> QED BY <1>2, <1>3, <1>4, <1>11, <3>1 DEF BookInv, OwnOK
  <2>2. Reported(disk') = Reported(book)  BY <1>3, <2>1
  <2>3. \A i \in 1..Len(queue') : Reported(queue'[i].book) = Reported(book)  BY <1>3, <2>1
  <2>4. ASSUME op' = NoOp, book' = book, told' \subseteq told \cup Reported(book),
               session' = session \/ Installs
        PROVE  BookInv'
    <3>1. Anchor(book) \in Roots  BY <1>1, <2>1, AnchorIs
    <3>2. session' \in [secret : Roots \cup {NoRoot}, ready : BOOLEAN]
      BY <1>1, <2>4, <3>1, InstallsType
    <3>3. told' \subseteq Reported(book)  BY <1>6, <2>4
    <3>4. /\ told' \subseteq Reported(book') /\ told' \subseteq Reported(disk')
          /\ \A i \in 1..Len(queue') : told' \subseteq Reported(queue'[i].book)
      BY <2>2, <2>3, <2>4, <3>3
    <3> QED BY <1>1, <1>3, <1>5, <1>8, <2>1, <2>4, <3>2, <3>4, Ended
  <2>5. CASE op.kind = "link" /\ op.live /\ UnlinkedWallets(book) = {}
    <3>1. /\ op' = [op EXCEPT !.stage = "confirm"] /\ book' = book /\ session' = session
          /\ told' = told
      BY <1>2, <1>11, <2>5 DEF Answers
    <3>2. op = [kind |-> op.kind, with |-> op.with, stage |-> op.stage, live |-> op.live, prev |-> op.prev]
      BY DEF BookInv, OpOK
    <3>3. /\ op'.kind = "link" /\ op'.stage = "confirm" /\ op'.prev = op.prev /\ op'.with = op.with
          /\ op' = [kind |-> op'.kind, with |-> op'.with, stage |-> op'.stage,
                    live |-> op'.live, prev |-> op'.prev]
      BY <2>5, <3>1, <3>2
    <3>4. OpOK'
      <4>1. op.prev # NoBook /\ op.with \in RootsOf(op.prev) \ {Anchor(op.prev)}
        BY <2>5 DEF BookInv, OpOK
      <4> QED BY <3>3, <4>1 DEF OpOK, BookKinds
    <3>5. BooksOK'
      <4>1. Good(op.prev)  BY DEF BookInv, BooksOK
      <4> QED BY <1>1, <1>3, <1>5, <1>8, <3>1, <3>3, <4>1 DEF BooksOK
    <3>6. SessionOK'  BY <1>1, <3>1, <3>3 DEF SessionOK, Resetting, Unlocked
    <3>7. OwnOK'  BY <1>5, <2>2, <2>3, <2>5, <3>1, <3>3 DEF OwnOK
    <3>8. ToldOK'
      <4>1. told \subseteq Reported(op.prev)  BY <1>7 DEF BookInv, ToldOK
      <4>2. told \subseteq Reported(disk')  BY <1>6, <2>2
      <4> QED BY <1>5, <1>6, <3>1, <3>3, <4>1, <4>2 DEF ToldOK
    <3>9. FrameOK'
      <4>1. op.kind \in Framed  BY <2>5 DEF Framed
      <4>2. Frame(book) = Frame(op.prev) /\ Anchor(book) = Anchor(op.prev)
        BY <4>1, FramedBook
      <4> QED BY <3>1, <3>3, <4>2 DEF FrameOK
    <3> QED BY <3>4, <3>5, <3>6, <3>7, <3>8, <3>9 DEF BookInv
  <2>6. CASE op.kind = "link" /\ ~(op.live /\ UnlinkedWallets(book) = {})
    <3>1. /\ op' = NoOp /\ book' = book /\ session' = session
          /\ told' \subseteq told \cup Reported(book)
      BY <1>2, <1>11, <2>6 DEF Answers, OpEnds
    <3> QED BY <2>4, <3>1
  <2>7. CASE op.kind = "unlock" \/ (op.kind = "add" /\ op.prev = NoBook)
    <3>1. op' = NoOp /\ book' = book /\ Installs /\ told' \subseteq told \cup Reported(book)
      BY <1>2, <1>11, <2>7 DEF Answers, OpEnds
    <3> QED BY <2>4, <3>1
  <2>8. CASE op.kind # "link" /\ ~(op.kind = "unlock" \/ (op.kind = "add" /\ op.prev = NoBook))
    <3>1. op' = NoOp /\ book' = book /\ session' = session /\ told' \subseteq told \cup Reported(book)
      BY <1>2, <1>11, <2>8 DEF Answers, OpEnds
    <3> QED BY <2>4, <3>1
  <2> QED BY <2>5, <2>6, <2>7, <2>8
<1> QED BY <1>9, <1>10, <1>11

\* The saves that are not the operation's: another handler's, or an acknowledgement.
LEMMA SaveKeeps == ASSUME BookInv, OtherSave \/ Ack PROVE BookInv'
<1>1. Good(book) /\ (Resetting => ~Unlocked)  BY DEF BookInv, BooksOK, SessionOK
<1>2. CASE OtherSave
  <2>1. PICK b : b = book  OBVIOUS
  <2>2. /\ Saves(b, FALSE) /\ ~Resetting /\ book # NoBook /\ book' = b
        /\ UNCHANGED <<disk, session, op, told>>
    BY <1>2, <2>1 DEF OtherSave
  <2>3. Cardinality(b.records) <= Cardinality(book.records)
    <3>1. Cardinality(b.records) \in Nat  BY <1>1, <2>1, FS_CardinalityType DEF Good
    <3> QED BY <2>1, <3>1
  <2> QED BY <1>1, <2>1, <2>2, <2>3, SavedBy
<1>3. CASE Ack
  <2>1. PICK b : b = [book EXCEPT !.records =
                        {IF r.pos = book.active THEN [r EXCEPT !.backed = TRUE] ELSE r : r \in @}]
    OBVIOUS
  <2>2. /\ Saves(b, FALSE) /\ book # NoBook /\ book' = b /\ Unlocked
        /\ UNCHANGED <<disk, session, op, told>>
    BY <1>3, <2>1 DEF Ack, IsUnlocked
  <2>3. /\ Good(b) /\ b # NoBook /\ Frame(b) = Frame(book) /\ Anchor(b) = Anchor(book)
        /\ b.access = book.access /\ Cardinality(b.records) <= Cardinality(book.records)
    BY <1>1, <2>1, <2>2, Acknowledged
  <2> QED BY <1>1, <2>2, <2>3, SavedBy
<1> QED BY <1>2, <1>3

\* A lock takes the secret and the epoch, and nothing of the book.
LEMMA LockKeeps == ASSUME BookInv, Lock PROVE BookInv'
<1>1. /\ book' = book /\ disk' = disk /\ queue' = queue /\ told' = told /\ session' = Locked
      /\ op' = op \/ op' = [op EXCEPT !.live = FALSE]
  BY DEF Lock, LockNow
<1>2. op = [kind |-> op.kind, with |-> op.with, stage |-> op.stage, live |-> op.live, prev |-> op.prev]
  BY DEF BookInv, OpOK
<1>3. /\ op'.kind = op.kind /\ op'.with = op.with /\ op'.stage = op.stage /\ op'.prev = op.prev
      /\ op' = [kind |-> op'.kind, with |-> op'.with, stage |-> op'.stage,
                live |-> op'.live, prev |-> op'.prev]
  BY <1>1, <1>2
<1>4. Resetting' = Resetting  BY <1>3 DEF Resetting
<1>5. OpOK'
  <2> HIDE DEF BookKinds
  <2> QED BY <1>1, <1>3 DEF BookInv, OpOK
<1>6. BooksOK'  BY <1>1, <1>3 DEF BookInv, BooksOK
<1>7. SessionOK'
  <2>1. session' \in [secret : Roots \cup {NoRoot}, ready : BOOLEAN] /\ ~Unlocked'
    BY <1>1 DEF Locked, Unlocked
  <2> QED BY <2>1 DEF SessionOK
<1>8. OwnOK'  BY <1>1, <1>3, <1>4 DEF BookInv, OwnOK
<1>9. ToldOK'  BY <1>1, <1>3, <1>4 DEF BookInv, ToldOK
<1>10. FrameOK'  BY <1>1, <1>3 DEF BookInv, FrameOK
<1> QED BY <1>5, <1>6, <1>7, <1>8, <1>9, <1>10 DEF BookInv

\* The write that archives the wallet: no other is queued, and none is until it ends.
LEMMA ResetKeeps == ASSUME BookInv, ResetWrites PROVE BookInv'
<1>1. /\ op.kind = "reset" /\ op.stage = "work" /\ queue = <<>> /\ Saves(NoBook, TRUE)
      /\ op' = [op EXCEPT !.stage = "saving"]
      /\ book' = book /\ disk' = disk /\ session' = session /\ told' = told
  BY DEF ResetWrites, At
<1>2. op = [kind |-> op.kind, with |-> op.with, stage |-> op.stage, live |-> op.live, prev |-> op.prev]
  BY DEF BookInv, OpOK
<1>3. /\ op'.kind = "reset" /\ op'.stage = "saving" /\ op'.prev = op.prev
      /\ op' = [kind |-> op'.kind, with |-> op'.with, stage |-> op'.stage,
                live |-> op'.live, prev |-> op'.prev]
  BY <1>1, <1>2
<1>4. /\ queue' \in Seq([book : Books, own : BOOLEAN])
      /\ \A i \in 1..Len(queue') : i = 1 /\ queue'[i].book = NoBook
  <2>1. queue \in Seq([book : Books, own : BOOLEAN]) /\ Len(queue) = 0
    BY <1>1 DEF BookInv, BooksOK
  <2>2. NoBook \in Books /\ TRUE \in BOOLEAN  BY NoBookGood DEF Good
  <2>3. /\ queue' \in Seq([book : Books, own : BOOLEAN]) /\ Len(queue') = Len(queue) + 1
        /\ queue'[Len(queue')].book = NoBook
    BY <1>1, <2>1, <2>2, Appended
  <2> QED BY <2>1, <2>3
<1>5. Resetting' /\ Resetting  BY <1>1, <1>3 DEF Resetting
<1>6. OpOK'
  <2>1. op.prev # NoBook  BY <1>1 DEF BookInv, OpOK
  <2> QED BY <1>3, <2>1 DEF OpOK, BookKinds
<1>7. BooksOK'
  <2>1. Good(book) /\ Good(disk) /\ Good(op.prev)  BY DEF BookInv, BooksOK
  <2> QED BY <1>1, <1>3, <1>4, <2>1, NoBookGood DEF BooksOK
<1>8. SessionOK'  BY <1>1, <1>3, <1>5 DEF BookInv, SessionOK, Unlocked
<1>9. OwnOK'  BY <1>3, <1>4, <1>5 DEF OwnOK
<1>10. ToldOK'
  <2>1. told \subseteq Reported(book) /\ told \subseteq Reported(disk) /\ told \subseteq Reported(op.prev)
    BY <1>1 DEF BookInv, ToldOK
  <2>2. \A i \in 1..Len(queue') : queue'[i].own
    <3>1. queue' = Append(queue, [book |-> NoBook, own |-> TRUE])  BY <1>1 DEF Saves
    <3>2. queue' = <<[book |-> NoBook, own |-> TRUE]>>  BY <1>1, <3>1
    <3> QED BY <1>4, <3>2
  <2> QED BY <1>1, <1>3, <1>4, <1>5, <2>1, <2>2 DEF ToldOK
<1>11. FrameOK'  BY <1>3 DEF FrameOK, Framed
<1> QED BY <1>6, <1>7, <1>8, <1>9, <1>10, <1>11 DEF BookInv

\* A restart finds the disk, with or without the write under way.
LEMMA RestartKeeps == ASSUME BookInv, Restart PROVE BookInv'
<1>1. PICK landed \in BOOLEAN :
        /\ landed => queue # <<>>
        /\ disk' = (IF landed THEN Head(queue).book ELSE disk) /\ book' = disk'
        /\ told' = (IF book' = NoBook THEN {} ELSE told)
        /\ queue' = <<>> /\ session' = Locked /\ op' = NoOp
  BY DEF Restart
<1>2. /\ Good(disk) /\ queue \in Seq([book : Books, own : BOOLEAN])
      /\ \A i \in 1..Len(queue) : Good(queue[i].book)
      /\ told \subseteq Reported(disk)
      /\ \A i \in 1..Len(queue) :
           ~(queue[i].own /\ Resetting) => told \subseteq Reported(queue[i].book)
      /\ Resetting => \A i \in 1..Len(queue) : queue[i].own => queue[i].book = NoBook
  BY DEF BookInv, BooksOK, ToldOK
<1>3. landed => Head(queue) = queue[1] /\ 1 \in 1..Len(queue)  BY <1>1, <1>2
<1>4. Good(disk') /\ told' \subseteq Reported(disk')
  <2>1. CASE ~landed  BY <1>1, <1>2, <2>1
  <2>2. CASE landed /\ ~(queue[1].own /\ Resetting)  BY <1>1, <1>2, <1>3, <2>2
  <2>3. CASE landed /\ queue[1].own /\ Resetting  BY <1>1, <1>2, <1>3, <2>3
  <2> QED BY <2>1, <2>2, <2>3
<1>5. session' \in [secret : Roots \cup {NoRoot}, ready : BOOLEAN] /\ ~Unlocked'
  BY <1>1 DEF Locked, Unlocked
<1>6. queue' \in Seq([book : Books, own : BOOLEAN]) /\ 1..Len(queue') = {}  BY <1>1
<1> QED BY <1>1, <1>4, <1>5, <1>6, Ended

\* The wallet starts with the book it finds.
LEMMA BookStarts == BookInit => BookInv
<1> SUFFICES ASSUME BookInit PROVE BookInv  OBVIOUS
<1>1. /\ book \in Installed \cup {NoBook} /\ disk = book /\ queue = <<>> /\ session = Locked
      /\ op = NoOp /\ told = {}
  BY DEF BookInit
<1>2. Good(book)  BY <1>1, InstalledGood, NoBookGood
<1>3. /\ op.kind = "none" /\ op.stage = "none" /\ op.prev = NoBook
      /\ op = [kind |-> op.kind, with |-> op.with, stage |-> op.stage,
               live |-> op.live, prev |-> op.prev]
  BY <1>1 DEF NoOp
<1>4. 1..Len(queue) = {} /\ queue \in Seq([book : Books, own : BOOLEAN])  BY <1>1
<1>5. OpOK  BY <1>3 DEF OpOK, BookKinds
<1>6. BooksOK  BY <1>1, <1>2, <1>3, <1>4, NoBookGood DEF BooksOK
<1>7. SessionOK  BY <1>1, <1>3 DEF SessionOK, Resetting, Unlocked, Locked
<1>8. OwnOK  BY <1>3, <1>4 DEF OwnOK
<1>9. ToldOK  BY <1>1, <1>3, <1>4 DEF ToldOK
<1>10. FrameOK  BY <1>3 DEF FrameOK, Framed
<1> QED BY <1>5, <1>6, <1>7, <1>8, <1>9, <1>10 DEF BookInv

\* Every step keeps the invariant.
LEMMA BookSteps == ASSUME BookInv, [BookNext]_bookVars PROVE BookInv'
<1>1. CASE UNCHANGED bookVars
  <2>1. /\ book' = book /\ disk' = disk /\ queue' = queue /\ session' = session /\ op' = op
        /\ told' = told
    BY <1>1 DEF bookVars
  <2>2. OpOK'  BY <2>1 DEF BookInv, OpOK
  <2>3. BooksOK'  BY <2>1 DEF BookInv, BooksOK
  <2>4. SessionOK'  BY <2>1 DEF BookInv, SessionOK, Unlocked, Resetting
  <2>5. OwnOK'  BY <2>1 DEF BookInv, OwnOK, Resetting
  <2>6. ToldOK'  BY <2>1 DEF BookInv, ToldOK, Resetting
  <2>7. FrameOK'  BY <2>1 DEF BookInv, FrameOK
  <2> QED BY <2>2, <2>3, <2>4, <2>5, <2>6, <2>7 DEF BookInv
<1>2. ASSUME NEW ok \in BOOLEAN, WriteEnds(ok) PROVE BookInv'
  <2>1. CASE Head(queue).own  BY <1>2, <2>1, OwnWriteKeeps
  <2>2. CASE ~Head(queue).own  BY <1>2, <2>2, OtherWriteKeeps
  <2> QED BY <2>1, <2>2
<1>3. CASE \/ \E a \in Accounts(book) : SelectAccount(a)
           \/ Derive \/ PasskeyUnlock \/ ResetBegins
           \/ \E root \in Roots, pw \in Passwords, created \in BOOLEAN, size \in 1..MaxAccounts :
                \E selected \in 0..(size - 1) : Add(root, pw, created, size, selected)
           \/ \E pw \in Passwords : Unlock(pw)
           \/ \E pw \in Passwords : \E enroll \in BOOLEAN : SetPasskey(pw, enroll)
  BY <1>3, BeginKeeps
<1>4. CASE Switches \/ Adds \/ Links \/ Upgrades \/ Verifies \/ SetsPasskey
  BY <1>4, ChangeKeeps
<1>5. CASE PasskeyOpens \/ Completes \/ WorkFails  BY <1>5, EndKeeps
<1>6. CASE OtherSave \/ Ack  BY <1>6, SaveKeeps
<1>7. CASE Lock  BY <1>7, LockKeeps
<1>8. CASE ResetWrites  BY <1>8, ResetKeeps
<1>9. CASE Restart  BY <1>9, RestartKeeps
<1> QED BY <1>1, <1>2, <1>3, <1>4, <1>5, <1>6, <1>7, <1>8, <1>9 DEF BookNext

\* The invariant of the account book, for any roots, passwords and books an earlier version left,
\* any number of accounts, saves under way, operations, locks and restarts.
THEOREM BookInvariant == BookSpec => []BookInv
BY BookStarts, BookSteps, PTL DEF BookSpec

\* The wallet in memory and the stored one always load: no interleaving of a handler with other saves,
\* a failed write or a restart makes a book readState() refuses (background.ts:345).
THEOREM BookAlwaysLoads == BookSpec => []BookLoads
<1>1. BookInv => BookLoads
  <2> SUFFICES ASSUME BookInv PROVE BookLoads  OBVIOUS
  <2>1. Good(book) /\ Good(disk)  BY DEF BookInv, BooksOK
  <2> QED BY <2>1, GoodHolds DEF BookLoads
<1> QED BY <1>1, BookInvariant, PTL

\* An account a handler reported, and what opens it, is in memory and stored until a reset, whatever
\* fails or restarts after the answer (background.ts:3112).
THEOREM ReportedAccountsStay == BookSpec => []AddedStay
<1>1. BookInv => AddedStay
  <2> SUFFICES ASSUME BookInv, NEW a \in told, NEW b \in {book, disk}
               PROVE  a \in Accounts(b) /\ Opens(b, a[1])
    BY DEF AddedStay
  <2>1. a \in Reported(b)  BY DEF BookInv, ToldOK
  <2> QED BY <2>1 DEF Reported
<1> QED BY <1>1, BookInvariant, PTL

\* A backup of any root, made in any state, restores: its accounts are numbered without a gap
\* (account-backup.ts:53).
THEOREM EveryBackupRestores == BookSpec => []BackupsRestore
<1>1. BookInv => BackupsRestore
  <2> SUFFICES ASSUME BookInv PROVE BackupsRestore  OBVIOUS
  <2>1. Good(book) /\ Good(disk)  BY DEF BookInv, BooksOK
  <2> QED BY <2>1, GoodHolds DEF BackupsRestore
<1> QED BY <1>1, BookInvariant, PTL
=============================================================================
