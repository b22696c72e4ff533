----------------------------- MODULE TokenReader -----------------------------
(* The token state along the chain a reader follows: NativeIndexer of packages/native/src/protocol.ts
   over the ledger of TokenLedger, and the native chain under it.

   `chain` is the state at the end of every block of the chain the reader follows; while a block is
   `open` its receipts are still applied to the tip (the code does a block in one call, and shows
   nothing of it before).  Each block has the hash `fresh` numbers.  The native part of a block is
   what the pallets hold there: the proposals of the multisigs, the lot tickets created, and, for the
   properties, the purchases and settlements that ran.  It is rolled back with the block. *)
EXTENDS TokenLedger, Sequences

CONSTANTS
  Start,                            \* the activation block
  Policies, Amounts, Expiries, OfferSeqs,  \* what operations may ask
  MaxHeight, MaxOps, MaxRollbacks   \* bounds

Offered == [by : Owners, offer : Terms, seq : Nat, status : {"active", "approved", "closed"}]

ASSUME ReaderConstants ==
  /\ None \notin Offered
  /\ Start \in Nat /\ MaxHeight \in Nat /\ Start <= MaxHeight
  /\ Policies \subseteq {"issuer", "open", "progressive"} /\ Amounts \subseteq Nat
  /\ Expiries \subseteq Nat /\ OfferSeqs \subseteq 0..MaxSeq /\ MaxOps \in Nat /\ MaxRollbacks \in Nat

VARIABLES
  height, chain, open,
  final,          \* finalized
  fresh,
  prepared,       \* the purchases prepareBuy() gave: a proposal and its ticket
  ops, rollbacks  \* what happened so far, for the bounds
vars == <<height, chain, open, final, fresh, prepared, ops, rollbacks>>

NoProposals == [k \in Keys |-> None]
Init ==
  /\ height = Start /\ open = FALSE /\ final = Start /\ fresh = 1
  /\ chain = [h \in {Start} |-> [hash |-> 0, ledger |-> EmptyLedger, proposal |-> NoProposals,
                                 created |-> {}, bought |-> {}, paid |-> [i \in Ids |-> <<>>]]]
  /\ prepared = {} /\ ops = 0 /\ rollbacks = 0

Tip == chain[height]
Ledger == Tip.ledger
At == [height |-> height, hash |-> Tip.hash]
-----------------------------------------------------------------------------
(* Blocks *)

\* apply(): the next block, with the finality it brings; its start releases expired tickets.
NextBlock ==
  /\ ~open /\ height < MaxHeight
  /\ height' = height + 1
  /\ chain' = [h \in Start..height + 1 |->
       IF h <= height THEN chain[h]
       ELSE [Tip EXCEPT !.hash = fresh, !.ledger = BlockStart(Ledger, height + 1)]]
  /\ final' \in final..height + 1
  /\ open' = TRUE /\ fresh' = fresh + 1
  /\ UNCHANGED <<prepared, ops, rollbacks>>

\* The end of apply().
EndBlock ==
  /\ open /\ open' = FALSE
  /\ UNCHANGED <<height, chain, final, fresh, prepared, ops, rollbacks>>

\* rollback(): to a block not below the finalized one.  (A reader restored from a checkpoint has a
\* shorter history and refuses some of these.)
Rollback ==
  /\ ~open /\ rollbacks < MaxRollbacks
  /\ \E h \in Start..height - 1 :
       /\ h >= final
       /\ height' = h
       /\ chain' = [k \in Start..h |-> chain[k]]
  /\ rollbacks' = rollbacks + 1
  /\ UNCHANGED <<open, final, fresh, prepared, ops>>

\* A receipt of the open block leaves the tip b.
Applied(b) ==
  /\ chain' = [chain EXCEPT ![height] = b]
  /\ UNCHANGED <<height, open, final, fresh, prepared, rollbacks>>
Operation(l) ==
  /\ ops < MaxOps /\ ops' = ops + 1
  /\ Applied([Tip EXCEPT !.ledger = l])
-----------------------------------------------------------------------------
(* Operations.  One that is refused changes nothing, except that a proposal stands natively. *)

DeployOp ==
  /\ open
  /\ \E owner \in Owners, policy \in Policies, symbol \in Symbols :
       /\ DeployAllowed(Ledger, owner, symbol)
       /\ Operation(Deploy(Ledger, owner, policy, symbol, At))
InscribeOp ==
  /\ open
  /\ \E owner \in Owners : InscribeAllowed(Ledger, owner) /\ Operation(Inscribe(Ledger, owner))
MintOp ==
  /\ open
  /\ \E owner \in Owners, i \in Deployed(Ledger), n \in Amounts :
       /\ MintAllowed(Ledger, owner, i, n)
       /\ Operation(Mint(Ledger, owner, i, n))
TransferOp ==
  /\ open
  /\ \E owner, to \in Owners, i \in Deployed(Ledger), n \in Amounts :
       /\ TransferAllowed(Ledger, owner, i, n)
       /\ Operation(Transfer(Ledger, owner, i, n, to))

\* A multisig is created natively, once.
CreatePair ==
  /\ open
  /\ \E p \in Pairs \ Ledger.multisigs :
       Applied([Tip EXCEPT !.ledger.multisigs = @ \cup {p}])
  /\ UNCHANGED ops

\* A proposal carries an offer with the sequence it was signed at.
Offers(owner) ==
  [asset : Deployed(Ledger), amount : Amounts, buyer : Owners \ {owner}, expiry : Expiries]
FreeNumber(k) == Tip.proposal[k] = None /\ \A n \in 1..k[2] - 1 : Tip.proposal[<<k[1], n>>] # None
Propose ==
  /\ open
  /\ \E k \in Keys :
       /\ k[1] \in Ledger.multisigs /\ FreeNumber(k)
       /\ \E owner \in Signers[k[1]] :
          \E o \in Offers(owner), seq \in OfferSeqs :
            /\ o.expiry > height
            /\ LET stands == [Tip EXCEPT !.proposal[k] =
                                [by |-> owner, offer |-> o, seq |-> seq, status |-> "active"]]
               IN Applied(IF seq = Ledger.seq[owner] /\ OfferAllowed(Ledger, owner, k, o, height)
                          THEN [stands EXCEPT !.ledger = Offer(Ledger, owner, k, o, height)]
                          ELSE stands)
  /\ UNCHANGED ops

\* The chain closes a proposal, at its proposer's wish or past its expiry.
Active == {k \in Keys : Tip.proposal[k] # None /\ Tip.proposal[k].status = "active"}
Close ==
  /\ open
  /\ \E k \in Active :
       Applied([Tip EXCEPT !.proposal[k].status = "closed", !.ledger = Release(Ledger, k)])
  /\ UNCHANGED ops

\* The second signer approves, which the chain allows once and until the expiry: in the exact batch
\* prepareBuy() returned, which names the call of the proposal, or otherwise.
Approvable(k) == k \in Active /\ height <= Tip.proposal[k].offer.expiry
ApproveAlone ==
  /\ open
  /\ \E k \in Active :
       /\ Approvable(k)
       /\ Applied([Tip EXCEPT !.proposal[k].status = "approved",
                     !.ledger = Approved(Ledger, k, Tip.proposal[k].offer.buyer, FALSE)])
  /\ UNCHANGED ops
SameCall(k, call) == LET x == Tip.proposal[k] IN call = [by |-> x.by, offer |-> x.offer, seq |-> x.seq]
Buy ==
  /\ open
  /\ \E b \in prepared :
       /\ Approvable(b.key) /\ SameCall(b.key, b.call)
       /\ Applied([Tip EXCEPT !.proposal[b.key].status = "approved", !.bought = @ \cup {b.key},
                     !.ledger = Approved(Ledger, b.key, b.call.offer.buyer, TRUE)])
  /\ UNCHANGED ops

\* prepareBuy(): only a locked ticket whose reservation is final.
Buyable_Unfinal(k) == k \in Locked(Ledger) /\ height <= Ledger.ticket[k].offer.expiry
Buyable(k) ==
  /\ k \in Locked(Ledger) /\ Ledger.ticket[k].created <= final
  /\ height <= Ledger.ticket[k].offer.expiry
PrepareBuy ==
  /\ ~open
  /\ \E k \in Keys :
       /\ Buyable(k)
       /\ LET x == Tip.proposal[k] IN
            prepared' = prepared \cup {[key |-> k, call |-> [by |-> x.by, offer |-> x.offer, seq |-> x.seq]]}
  /\ prepared' # prepared
  /\ UNCHANGED <<height, chain, open, final, fresh, ops, rollbacks>>
-----------------------------------------------------------------------------
(* Lots *)

\* A receipt creates these tickets natively, each only once, and pays Qlyphs this much.
Created(signer, tickets, pays) ==
  LET used == UsedRights(Ledger, tickets, Tip.hash) IN
    [Tip EXCEPT !.created = @ \cup tickets, !.ledger = UseRights(Ledger, used, signer, pays, At)]

\* The settlement a reader quoted at a block of this chain: it is signed for that block's chain only.
Settle ==
  /\ open
  /\ \E signer \in Owners, b \in Start..height - 1 :
     \E i \in {i \in Ids : LotQuoted(chain[b].ledger, i)} :
       LET q == QuotedLot(chain[b].ledger, i) IN
         /\ q.ticket \notin Tip.created
         /\ Applied([Created(signer, {q.ticket}, q.fee) EXCEPT !.paid[i] = Append(@, q.fee)])
  /\ UNCHANGED ops

\* Tickets used otherwise: without the payment, with another, or several at once.  A ticket names the
\* hash of the block its right is from, so nobody knows it in that block.
Misuse ==
  /\ open /\ ops < MaxOps /\ ops' = ops + 1
  /\ \E signer \in Owners, b \in Start..height - 1 :
     \E used \in SUBSET {i \in Ids : LotQuoted(chain[b].ledger, i)} :
       LET tickets == {QuotedLot(chain[b].ledger, i).ticket : i \in used} IN
         /\ used # {} /\ tickets \cap Tip.created = {}
         /\ Applied(Created(signer, tickets, None))

Next ==
  \/ NextBlock \/ EndBlock \/ Rollback
  \/ DeployOp \/ InscribeOp \/ MintOp \/ TransferOp
  \/ CreatePair \/ Propose \/ Close \/ ApproveAlone \/ Buy \/ PrepareBuy
  \/ Settle \/ Misuse
Spec == Init /\ [][Next]_vars
-----------------------------------------------------------------------------
(* Properties *)

\* The reader never halts: the state after every receipt of blocks a correct chain makes passes
\* assertInvariants() (protocol.ts:917), with the rights' part at the end of each block.
TokensNeverHalt == AssertInvariants(Ledger, At)

\* A trade is all or nothing: tokens move to the buyer exactly when a prepared purchase ran on this
\* chain, and they are locked exactly while the native proposal of a ticket can still be approved
\* (prepareBuy and the release rules, protocol.ts:1159, 1124).
TradesAreAtomic ==
  /\ \A k \in Tip.bought : Ledger.ticket[k] # None
  /\ \A k \in Keys : Ledger.ticket[k] # None =>
       /\ Ledger.ticket[k].status = "settled" <=> k \in Tip.bought
       /\ Ledger.ticket[k].status = "locked" <=> Approvable(k)

\* Every settlement that ran minted one lot, for the fee of that lot, and nothing else minted one
\* (useRights, protocol.ts:447), so no reorganization leaves a paid settlement without its lot.
LotsArePaid ==
  \A i \in Progressive(Ledger) :
    /\ Ledger.asset[i].minted = Lot * Len(Tip.paid[i])
    /\ \A n \in 1..Len(Tip.paid[i]) : Tip.paid[i][n] = Fee[n]

\* A lot that remains can be bought: whatever was done with earlier tickets, the current right's own
\* has not been created (the next right is anchored at each use, protocol.ts:447).
LotsStayOpen ==
  \A i \in Progressive(Ledger) : Ledger.asset[i].minted < Cap =>
    LotQuoted(Ledger, i) /\ QuotedLot(Ledger, i).ticket \notin Tip.created
=============================================================================
