------------------------------ MODULE MintSpend ------------------------------
(* What a mint session may spend when the wallet's node lies: the verdicts (classifyAt, classifyExact
   and classify in mint-session.ts), the admission of P5-P8 and the spend accounting of the ledger,
   over a tree of blocks where the payments may run on any fork.

   The two witnesses attest the state of any block; they are honest.  Everything else is the node's
   word: it names any position for a payment, any fate, any nonce, any final block.  A header or body
   it returns is checked against an attested hash, so an ancestry or an inclusion that is proven is true.

   One lot is one unit.  The steps inside a signature, its writes and its stops are MintSession's. *)
EXTENDS Integers, Sequences, FiniteSets, FiniteSetsExt

CONSTANTS
  Lots,                                     \* LOTS: how many lots the token has
  Fee,                                      \* the fee of each (progressiveLotFee)
  Ticket,                                   \* the native charge of one payment (ticketCharge)
  MaxLots, MaxAttempts, MaxFeePerLot, MaxSpend,  \* the approved terms
  Minted,                                   \* how many lots may be minted before the session
  MaxBlocks, MaxEvents, MaxForeign,         \* bounds: blocks, transactions of one, those of others
  None

ASSUME SpendAssumption ==
  /\ Lots \in Nat \ {0} /\ Fee \in [1..Lots -> Nat] /\ Ticket \in Nat
  /\ MaxLots \in Nat \ {0} /\ MaxAttempts \in Nat /\ MaxAttempts >= MaxLots
  /\ MaxFeePerLot \in Nat /\ MaxSpend \in Nat /\ Minted \subseteq 0..Lots - 1
  /\ MaxBlocks \in Nat \ {0} /\ MaxEvents \in Nat /\ MaxForeign \in Nat
  /\ None \notin [block : Nat, index : Nat]

VARIABLES
  blocks,     \* every block of every fork, in the order they were made
  open,       \* whether the last one is still being made
  first,      \* how far the node's first nonce is ahead of the account
  foreign,    \* transactions of others so far, for the bound
  attempts, state   \* the session's record
vars == <<blocks, open, first, foreign, attempts, state>>
world == <<blocks, open, first, foreign>>

Verdict == {"minted", "lost-race", "failed", "anomaly"}
PlaceType == [block : Nat, index : Nat]
RightType == PlaceType \cup {None}
Block ==
  [parent : Nat, line : SUBSET Nat, height : Nat, runs : Seq(Nat), right : RightType,
   minted : Nat, held : Nat, nonce : Nat, won : SUBSET Nat]
Attempt ==
  [birth : Nat, anchor : RightType, lot : Nat, minted : Nat, held : Nat,
   status : {"sent", "included", "dead", "expired", "replaced"} \cup Verdict,
   at : RightType, doubt : BOOLEAN]
TypeOK ==
  /\ blocks \in Seq(Block) /\ blocks # <<>>
  /\ open \in BOOLEAN /\ first \in Nat /\ foreign \in Nat
  /\ attempts \in Seq(Attempt) /\ state \in {"running", "ended"}

Place(b, i) == [block |-> b, index |-> i]

\* A token with `m` lots minted, none of them the owner's, whose current right is older than the tree.
Init ==
  /\ \E m \in Minted :
       blocks = <<[parent |-> 0, line |-> {1}, height |-> 1, runs |-> <<>>,
                   right |-> Place(0, 1), minted |-> m, held |-> 0, nonce |-> 0, won |-> {}]>>
  /\ open = FALSE /\ first \in {0, 1} /\ foreign = 0
  /\ attempts = <<>> /\ state = "running"

Attested == 1..(IF open THEN Len(blocks) - 1 ELSE Len(blocks))
Height(b) == IF b = 0 THEN 0 ELSE blocks[b].height
Indices == DOMAIN attempts
-----------------------------------------------------------------------------
(* The chain.  `line` is the chain of a block down to the root, `won` the payments that minted on it,
   `runs` what its transactions are: a payment's number, or 0 for anybody else's. *)

Tip == blocks[Len(blocks)]
NextBlock ==
  /\ ~open /\ Len(blocks) < MaxBlocks
  /\ \E p \in DOMAIN blocks :
       blocks' = Append(blocks, [blocks[p] EXCEPT !.parent = p, !.line = @ \cup {Len(blocks) + 1},
                                                  !.height = @ + 1, !.runs = <<>>])
  /\ open' = TRUE
  /\ UNCHANGED <<first, foreign, attempts, state>>
EndBlock ==
  /\ open /\ open' = FALSE
  /\ UNCHANGED <<blocks, first, foreign, attempts, state>>

\* A right is used once, and not in the block that made it.
Usable == Tip.right # None /\ Tip.right.block # Len(blocks)
Here == Place(Len(blocks), Len(Tip.runs) + 1)
Used(t) == [t EXCEPT !.right = IF t.minted = Lots THEN None ELSE Here]
Transaction(n, t) ==
  /\ open /\ Len(Tip.runs) < MaxEvents
  /\ blocks' = [blocks EXCEPT ![Len(blocks)] = [t EXCEPT !.runs = Append(Tip.runs, n)]]
  /\ UNCHANGED <<open, first, attempts, state>>

\* Payment n runs where its nonce is next, above its birth on its fork: it mints when the right it was
\* signed for is current, or comes too late, or fails for a reason of its own.
Pays(n) ==
  /\ open /\ Tip.nonce = first + n - 1
  /\ attempts[n].birth \in Tip.line \ {Len(blocks)}
  /\ LET t == [Tip EXCEPT !.nonce = @ + 1] IN
       \/ /\ Usable /\ Tip.right = attempts[n].anchor
          /\ Transaction(n, Used([t EXCEPT !.minted = @ + 1, !.held = @ + 1, !.won = @ \cup {n}]))
       \/ Transaction(n, t)
  /\ UNCHANGED foreign

\* Others, and other installations of the account: a lot bought, a right spent on nothing, a lot that
\* comes to the owner, the owner's own purchase or transfer elsewhere.
Others ==
  /\ open /\ foreign < MaxForeign /\ foreign' = foreign + 1
  /\ \/ Usable /\ Transaction(0, Used([Tip EXCEPT !.minted = @ + 1]))
     \/ Usable /\ Transaction(0, Used(Tip))
     \/ Tip.held < Tip.minted /\ Transaction(0, [Tip EXCEPT !.held = @ + 1])
     \/ Usable /\ Transaction(0, Used([Tip EXCEPT !.minted = @ + 1, !.held = @ + 1, !.nonce = @ + 1]))
     \/ Tip.held > 0 /\ Transaction(0, [Tip EXCEPT !.held = @ - 1, !.nonce = @ + 1])
-----------------------------------------------------------------------------
(* Verdicts. *)

\* classifyAt(): at a block above the payment's, where nothing else decided since.
ShowsLot(p, v) == v.right = p.at /\ v.minted = p.minted + 1 /\ v.held = p.held + 1

\* classifyExact(): from the states of the payment's block x and of its parent y.  What shows a lost
\* race is a right that was used before the payment, and an owner who holds nothing more.
ShowsMint(p, x) == x.right = p.at /\ x.held = p.held + 1 /\ x.minted = p.minted + 1
ShowsAnomaly(p, x) == x.right = p.at /\ x.held = p.held /\ x.minted = p.minted
Between(p, right) ==
  right # None /\ Height(p.birth) < Height(right.block) /\ Height(right.block) < Height(p.at.block)
SoldBefore_AnyLot(p, x, y) == x.minted = Lots
SoldBefore(p, x, y) == x.minted = Lots /\ (p.lot < Lots \/ y.right = None \/ Between(p, y.right))
UsedInBlock(p, x) == x.right # None /\ x.right.block = p.at.block
ShowsLoss(p, x, y) ==
  /\ x.held = p.held
  /\ \/ x.right = None /\ SoldBefore(p, x, y)
     \/ UsedInBlock(p, x) /\ x.right.index < p.at.index
     \/ UsedInBlock(p, x) /\ x.right.index > p.at.index /\ Between(p, y.right)
     \/ ~UsedInBlock(p, x) /\ Between(p, x.right)
ShowsFailure(p, x, y) ==
  /\ x.held = p.held
  /\ IF UsedInBlock(p, x) THEN x.right.index > p.at.index /\ y.right = p.anchor
     ELSE x.right = p.anchor
Exact(p, x, y) ==
  IF ShowsMint(p, x) THEN "minted" ELSE IF ShowsAnomaly(p, x) THEN "anomaly"
  ELSE IF ShowsLoss(p, x, y) THEN "lost-race" ELSE IF ShowsFailure(p, x, y) THEN "failed"
  ELSE "unverified"

\* proveInclusion(): the payment is what the attested chain has at that position.
Proven(n, b) ==
  LET at == attempts[n].at IN
    /\ at.block \in blocks[b].line
    /\ at.index \in DOMAIN blocks[at.block].runs /\ blocks[at.block].runs[at.index] = n

\* classify(), from an attested block b on whose chain the position is.
Outcomes(n, b) ==
  LET p == attempts[n] IN
    IF ~Proven(n, b) THEN {"unverified"}
    ELSE IF ShowsLot(p, blocks[b]) THEN {"minted"}
    ELSE {Exact(p, blocks[p.at.block], blocks[blocks[p.at.block].parent])}
-----------------------------------------------------------------------------
(* The session. *)

Counted(s) == Cardinality({n \in Indices : attempts[n].status = s})
RacesExhausted == Counted("lost-race") > MaxAttempts - MaxLots
Charge(p) == Fee[p.lot] + Ticket
Sum(as, S) == MapThenSumSet(LAMBDA n : Charge(as[n]), S)

\* protocolBound(): the largest charges, one for each lot counted.
Bound ==
  LET could == {n \in Indices : attempts[n].status \in {"minted", "lost-race"}}
  IN Max({Sum(attempts, S) : S \in kSubset(Counted("minted"), could)})

\* P5, P7 and P8 at the attested block b.  The nonce of P9 is the node's word.
Affordable_OneTicket(lot) == Bound + Fee[lot] <= MaxSpend
Affordable(lot) == Bound + Fee[lot] + Ticket <= MaxSpend
Admit(b) ==
  LET n == Len(attempts)
      v == blocks[b]
      lot == v.minted + 1
  IN /\ state = "running" /\ n < MaxAttempts
     /\ n > 0 => /\ attempts[n].status \in {"minted", "lost-race"}
                 /\ v.height > Height(attempts[n].birth)
                 /\ v.held = attempts[1].held + Counted("minted")
     /\ \A m \in Indices : attempts[m].at # None => attempts[m].at.block \in v.line
     /\ Counted("minted") < MaxLots /\ ~RacesExhausted
     /\ v.right # None
     /\ Fee[lot] <= MaxFeePerLot /\ Affordable(lot)
     /\ attempts' = Append(attempts,
          [birth |-> b, anchor |-> v.right, lot |-> lot, minted |-> v.minted, held |-> v.held,
           status |-> "sent", at |-> None, doubt |-> FALSE])
     /\ UNCHANGED <<world, state>>

\* The node names a position in the payment's window, on any fork.
Follows(n) == n = Len(attempts) /\ n > 0 /\ ~attempts[n].doubt
Include(n) ==
  /\ Follows(n) /\ attempts[n].status = "sent"
  /\ \E b \in Attested, i \in 1..MaxEvents :
       /\ Height(b) > Height(attempts[n].birth)
       /\ attempts' = [attempts EXCEPT ![n].status = "included", ![n].at = Place(b, i)]
  /\ UNCHANGED <<world, state>>

\* P6 or the settle task.
Judge(n) ==
  /\ Follows(n) /\ attempts[n].status = "included"
  /\ \E b \in Attested, o \in Verdict \cup {"unverified"} :
       /\ o \in Outcomes(n, b)
       /\ attempts' = IF o = "unverified" THEN attempts ELSE [attempts EXCEPT ![n].status = o]
       /\ state' = IF o \in {"minted", "lost-race"} THEN state ELSE "ended"
  /\ UNCHANGED world

\* A fate that only the node vouches for ends the session, and so does any stop or failed read.
Fate(n) ==
  /\ Follows(n) /\ attempts[n].status = "sent" /\ state = "running"
  /\ \E s \in {"dead", "expired", "replaced"} : attempts' = [attempts EXCEPT ![n].status = s]
  /\ state' = "ended"
  /\ UNCHANGED world
Ends ==
  /\ state = "running" /\ state' = "ended"
  /\ UNCHANGED <<world, attempts>>

\* doubtFrom() and reorg(), on the node's word or history's: a payment and the later ones, or those
\* with a position.
Doubt(S) == [n \in Indices |-> IF n \in S THEN [attempts[n] EXCEPT !.doubt = TRUE] ELSE attempts[n]]
Doubted ==
  /\ \E k \in Indices :
       LET after == {n \in Indices : n >= k} IN
         \/ attempts' = Doubt(after)
         \/ attempts' = Doubt({n \in after : attempts[n].at # None})
  /\ attempts' # attempts
  /\ state' = "ended"
  /\ UNCHANGED world

Next ==
  \/ NextBlock \/ EndBlock \/ Others
  \/ \E n \in Indices : Pays(n)
  \/ \E b \in Attested : Admit(b)
  \/ \E n \in Indices : Include(n) \/ Judge(n) \/ Fate(n)
  \/ Ends \/ Doubted
Spec == Init /\ [][Next]_vars
-----------------------------------------------------------------------------
(* Accounting: what the record shows, and the load check on it. *)

MayCharge(p) == p.status \in {"sent", "included", "failed", "dead", "expired", "replaced"} \/ p.doubt
Spent(as) == Sum(as, {n \in DOMAIN as : ~as[n].doubt /\ as[n].status \in {"minted", "anomaly"}})
Bounded(as) == Sum(as, {n \in DOMAIN as : ~as[n].doubt /\ MayCharge(as[n])})
InDoubt(as) == Sum(as, {n \in DOMAIN as : as[n].doubt})
Reserved_Whole(as) == Bounded(as) + InDoubt(as)
Reserved(as) ==
  LET room == MaxSpend - Spent(as) - Bounded(as)
  IN Bounded(as) + (IF room < 0 THEN 0 ELSE IF InDoubt(as) < room THEN InDoubt(as) ELSE room)
SpendLoads(as) == Spent(as) <= MaxSpend /\ Spent(as) + Reserved(as) <= MaxSpend
-----------------------------------------------------------------------------
(* Properties *)

\* Whatever the node says and whichever fork wins, the session's payments mint at most the approved
\* lots and cost at most the approved spend there (lemma S, mint-session.ts:609 and 1228).
LotsHold == \A b \in DOMAIN blocks : Cardinality(blocks[b].won) <= MaxLots
SpendHolds == \A b \in DOMAIN blocks : Sum(attempts, blocks[b].won) <= MaxSpend
CapsHold == LotsHold /\ SpendHolds

\* A verdict is true of the position it was given for, whatever other buyers, transfers and other
\* installations did in the blocks between (classifyExact, mint-session.ts:664).
VerdictsTrue ==
  \A n \in Indices :
    LET p == attempts[n] IN
      p.status \in Verdict =>
        /\ p.at.index \in DOMAIN blocks[p.at.block].runs /\ blocks[p.at.block].runs[p.at.index] = n
        /\ n \in blocks[p.at.block].won <=> p.status = "minted"

\* The record's spend stays within the cap with its doubts and without them, so no doubt ever makes
\* the load check archive the ledger (checkRecord, mint-session.ts:1885).
SpendStaysLoadable ==
  SpendLoads(attempts) /\ SpendLoads([n \in Indices |-> [attempts[n] EXCEPT !.doubt = FALSE]])
=============================================================================
