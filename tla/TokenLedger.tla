----------------------------- MODULE TokenLedger -----------------------------
(* The token state a reader derives from the chain, and how one receipt changes it: applyReceipt()
   and applyOperation() of packages/native/src/protocol.ts, with the lots of progressive-mint.ts.

   An asset is named by its creator and the creator's sequence, as assetId() does.  A multisig is one
   of `Pairs`; a ticket is the native proposal it locks tokens for.  Fees are the subject of
   FeeSchedule: an operation that does not pay its own is refused and changes nothing. *)
EXTENDS Naturals, FiniteSets, FiniteSetsExt

CONSTANTS
  Owners,       \* accounts that sign
  Pairs,        \* multisigs that may be created
  Signers,      \* their signers; every threshold is the number of signers
  Proposals,    \* native proposal numbers of each
  Symbols,
  MaxSeq,       \* bound on an account's operations (MAX_U64)
  Cap, Limit,   \* of every asset that is not an inscription; a progressive one has Cap \div Lot lots
  Lot,          \* units of one lot
  Fee,          \* the fee of each lot (progressiveLotFee)
  None

Lots == 1..(Cap \div Lot)

Ids == Owners \X (0..MaxSeq)
Keys == Pairs \X Proposals

Rights == [height : Nat, hash : Nat]
Assets == [policy : {"issuer", "open", "progressive", "inscription"}, symbol : Symbols \cup {None},
           minted : Nat, right : Rights \cup {None}]
Terms == [asset : Ids, amount : Nat, buyer : Owners, expiry : Nat]
Tickets == [seller : Owners, offer : Terms, created : Nat, status : {"locked", "released", "settled"}]

ASSUME LedgerConstants ==
  /\ MaxSeq \in Nat /\ Cap \in Nat \ {0} /\ Limit \in 1..Cap /\ Lot \in 1..Cap /\ Cap % Lot = 0
  /\ Signers \in [Pairs -> SUBSET Owners] /\ Fee \in [Lots -> Nat] /\ IsFiniteSet(Owners)
  /\ None \notin Nat /\ None \notin Ids /\ None \notin Rights /\ None \notin Assets /\ None \notin Tickets

\* An asset: its policy, what is minted of it, and for a progressive one where the right to the next
\* lot was created.  An inscription has one unit, and a number.
EmptyLedger ==
  [seq |-> [o \in Owners |-> 0], asset |-> [i \in Ids |-> None],
   balance |-> [i \in Ids |-> [o \in Owners |-> 0]], multisigs |-> {},
   ticket |-> [k \in Keys |-> None], symbols |-> [x \in Symbols |-> None],
   inscriptions |-> [i \in Ids |-> 0], next |-> 1]
Asset(policy, symbol, minted, right) ==
  [policy |-> policy, symbol |-> symbol, minted |-> minted, right |-> right]

Deployed(l) == {i \in Ids : l.asset[i] # None}
Progressive(l) == {i \in Deployed(l) : l.asset[i].policy = "progressive"}
CapOf(a) == IF a.policy = "inscription" THEN 1 ELSE Cap
LimitOf(a) == IF a.policy = "progressive" THEN Lot ELSE Limit

\* change(), for an amount the balance allows.
Credit(l, i, owner, n) == [l EXCEPT !.balance[i][owner] = @ + n]
Debit(l, i, owner, n) == [l EXCEPT !.balance[i][owner] = @ - n]
Next1(l, owner) == [l EXCEPT !.seq[owner] = @ + 1]
-----------------------------------------------------------------------------
(* applyOperation(): each operation's checks and effect.  `at` is the height and hash of the block;
   the index of the receipt, the third part of a right's anchor, is left out: the right of an asset
   moves at most once in a block. *)

NewAsset(l, owner) == l.seq[owner] < MaxSeq /\ l.asset[<<owner, l.seq[owner]>>] = None

DeployAllowed_AnySymbol(l, owner, symbol) == NewAsset(l, owner)
DeployAllowed(l, owner, symbol) == NewAsset(l, owner) /\ l.symbols[symbol] = None
Deploy(l, owner, policy, symbol, at) ==
  LET i == <<owner, l.seq[owner]>> IN
    Next1([l EXCEPT !.symbols[symbol] = i,
                    !.asset[i] = Asset(policy, symbol, 0, IF policy = "progressive" THEN at ELSE None)],
          owner)

InscribeAllowed(l, owner) == NewAsset(l, owner)
Inscribe(l, owner) ==
  LET i == <<owner, l.seq[owner]>> IN
    Next1(Credit([l EXCEPT !.asset[i] = Asset("inscription", None, 1, None),
                           !.inscriptions[i] = l.next, !.next = @ + 1], i, owner, 1), owner)

Known(l, owner, i, n) ==
  /\ l.seq[owner] < MaxSeq /\ l.asset[i] # None /\ n > 0
  /\ l.asset[i].policy = "inscription" => n = 1

MintAllowed(l, owner, i, n) ==
  /\ Known(l, owner, i, n) /\ l.asset[i].policy \notin {"inscription", "progressive"}
  /\ l.asset[i].policy = "open" \/ i[1] = owner
  /\ n <= LimitOf(l.asset[i]) /\ l.asset[i].minted + n <= Cap
Mint(l, owner, i, n) == Next1(Credit([l EXCEPT !.asset[i].minted = @ + n], i, owner, n), owner)

TransferAllowed(l, owner, i, n) == Known(l, owner, i, n) /\ n <= l.balance[i][owner]
Transfer(l, owner, i, n, to) == Next1(Credit(Debit(l, i, owner, n), i, to, n), owner)

\* An offer locks tokens under the native proposal that carries it, for the other signer to buy.
Bilateral(l, p, owner, buyer) == p \in l.multisigs /\ Signers[p] = {owner, buyer}
OfferAllowed(l, owner, k, o, height) ==
  /\ Known(l, owner, o.asset, o.amount) /\ o.expiry > height /\ o.buyer # owner
  /\ Bilateral(l, k[1], owner, o.buyer)
  /\ l.ticket[k] = None /\ o.amount <= l.balance[o.asset][owner]
Ticket(owner, o, height) == [seller |-> owner, offer |-> o, created |-> height, status |-> "locked"]
Offer(l, owner, k, o, height) ==
  Next1([Debit(l, o.asset, owner, o.amount) EXCEPT !.ticket[k] = Ticket(owner, o, height)], owner)
-----------------------------------------------------------------------------
(* What native events do to tickets. *)

Locked(l) == {k \in Keys : l.ticket[k] # None /\ l.ticket[k].status = "locked"}

\* release(): the tokens go back to the seller, once.
Release(l, k) ==
  IF k \in Locked(l)
  THEN LET t == l.ticket[k] IN
         [Credit(l, t.offer.asset, t.seller, t.offer.amount) EXCEPT !.ticket[k].status = "released"]
  ELSE l

\* The first approval of the buyer: a purchase when it is the exact batch, else the native proposal
\* is used up and the tokens go back.
Approved(l, k, by, exact) ==
  IF k \notin Locked(l) \/ by # l.ticket[k].offer.buyer THEN l
  ELSE IF ~exact THEN Release(l, k)
  ELSE LET o == l.ticket[k].offer IN
         [Credit(l, o.asset, o.buyer, o.amount) EXCEPT !.ticket[k].status = "settled"]

\* The start of a block: tickets past their expiry are released.
Expired_Early(l, height) == {k \in Locked(l) : height >= l.ticket[k].offer.expiry}
Expired(l, height) == {k \in Locked(l) : height > l.ticket[k].offer.expiry}
BlockStart(l, height) ==
  [l EXCEPT
    !.balance = [i \in Ids |-> [o \in Owners |->
       l.balance[i][o] + MapThenSumSet(LAMBDA k : l.ticket[k].offer.amount,
         {k \in Expired(l, height) : l.ticket[k].seller = o /\ l.ticket[k].offer.asset = i})]],
    !.ticket = [k \in Keys |-> IF k \in Expired(l, height)
                               THEN [l.ticket[k] EXCEPT !.status = "released"] ELSE l.ticket[k]]]
-----------------------------------------------------------------------------
(* Progressive assets: each lot is bought through a right, used once. *)

LotsMinted(a) == a.minted \div Lot

\* progressiveLot(): the next lot, its fee and the multisig only its right can create.
MintTicket(i, a) == [asset |-> i, lot |-> LotsMinted(a) + 1, hash |-> a.right.hash]
LotQuoted(l, i) == i \in Progressive(l) /\ l.asset[i].right # None
QuotedLot(l, i) == [ticket |-> MintTicket(i, l.asset[i]), fee |-> Fee[LotsMinted(l.asset[i]) + 1]]

\* rightsByPair(), usedRight(): the rights from before this block that the created multisigs are of.
UsedRights(l, created, hash) ==
  {i \in Progressive(l) : /\ l.asset[i].right # None /\ l.asset[i].right.hash # hash
                          /\ MintTicket(i, l.asset[i]) \in created}

\* useRights(): the exact settlement of one right mints its lot to the signer; any use ends the right.
Canonical_AnyPayment(l, used, pays) == Cardinality(used) = 1
Canonical(l, used, pays) == Cardinality(used) = 1 /\ \A i \in used : pays = QuotedLot(l, i).fee
Renewed_Kept(a, canonical, at) == IF ~canonical THEN a.right ELSE IF a.minted = Cap THEN None ELSE at
Renewed(a, canonical, at) == IF a.minted = Cap THEN None ELSE at
UseRights(l, used, signer, pays, at) ==
  LET canonical == Canonical(l, used, pays)
      Used(a) == LET b == IF canonical THEN [a EXCEPT !.minted = @ + Lot] ELSE a IN
                   [b EXCEPT !.right = Renewed(b, canonical, at)]
  IN [l EXCEPT
       !.asset = [i \in Ids |-> IF i \in used THEN Used(l.asset[i]) ELSE l.asset[i]],
       !.balance = [i \in Ids |-> IF i \in used /\ canonical
                                  THEN [l.balance[i] EXCEPT ![signer] = @ + Lot] ELSE l.balance[i]]]
-----------------------------------------------------------------------------
(* assertInvariants() and assertProgressiveInvariants(): a state that fails them stops the reader. *)

LockedOf(l, i) == MapThenSumSet(LAMBDA k : l.ticket[k].offer.amount,
                                {k \in Locked(l) : l.ticket[k].offer.asset = i})
SupplyConserved(l) ==
  \A i \in Deployed(l) :
    /\ MapThenSumSet(LAMBDA o : l.balance[i][o], Owners) + LockedOf(l, i) = l.asset[i].minted
    /\ l.asset[i].minted <= CapOf(l.asset[i])
RightsConsistent(l, at) ==
  \A i \in Progressive(l) :
    LET a == l.asset[i] IN
      /\ a.minted % Lot = 0 /\ (a.right = None <=> a.minted = Cap)
      /\ a.right # None => /\ a.right.height <= at.height
                           /\ a.right.height = at.height => a.right.hash = at.hash
NamesConsistent(l) ==
  /\ \A i \in Deployed(l) :
       IF l.asset[i].policy = "inscription"
       THEN l.inscriptions[i] \in 1..(l.next - 1) /\ l.asset[i].minted = 1
       ELSE l.symbols[l.asset[i].symbol] = i
  /\ \A x \in Symbols : l.symbols[x] # None =>
       l.symbols[x] \in Deployed(l) /\ l.asset[l.symbols[x]].symbol = x
  /\ LET inscribed == {i \in Ids : l.inscriptions[i] # 0} IN
       /\ l.next = 1 + Cardinality(inscribed)
       /\ \A i, j \in inscribed : l.inscriptions[i] = l.inscriptions[j] => i = j
AssertInvariants(l, at) == SupplyConserved(l) /\ RightsConsistent(l, at) /\ NamesConsistent(l)
=============================================================================
