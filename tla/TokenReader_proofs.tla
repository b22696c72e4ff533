------------------------- MODULE TokenReader_proofs -------------------------
(***************************************************************************)
(* Theorems about the token reader, for any accounts, multisigs, symbols,  *)
(* caps, fees and numbers of blocks, receipts and rollbacks: it never      *)
(* halts, trades are atomic, a settlement that ran minted its lot, and a   *)
(* lot that remains can be bought.                                         *)
(***************************************************************************)
EXTENDS TokenReader, FiniteSums_proofs

-----------------------------------------------------------------------------
(* The types of a ledger and of a block. *)

Ledgers ==
  [seq : [Owners -> 0..MaxSeq], asset : [Ids -> Assets \cup {None}],
   balance : [Ids -> [Owners -> Nat]], multisigs : SUBSET Pairs,
   ticket : [Keys -> Tickets \cup {None}], symbols : [Symbols -> Ids \cup {None}],
   inscriptions : [Ids -> Nat], next : Nat \ {0}]
LotTickets == [asset : Ids, lot : Nat, hash : Nat]
Blocks ==
  [hash : Nat, ledger : Ledgers, proposal : [Keys -> Offered \cup {None}],
   created : SUBSET LotTickets, bought : SUBSET Keys, paid : [Ids -> Seq(Nat)]]
Calls == [by : Owners, offer : Terms, seq : Nat]

-----------------------------------------------------------------------------
(* The invariant of one block, at its height. *)

\* What is minted of an asset is held or locked, and nothing of one that is not deployed.
Minted(l, i) == IF l.asset[i] = None THEN 0 ELSE l.asset[i].minted
Supplied(l) ==
  /\ IsFiniteSet(Locked(l))
  /\ \A i \in Ids : /\ Total(l.balance[i], Owners) + LockedOf(l, i) = Minted(l, i)
                    /\ l.asset[i] # None => l.asset[i].minted <= CapOf(l.asset[i])

\* An asset has a symbol or a number of its own.
Named(l) ==
  /\ NamesConsistent(l)
  /\ \A i \in Deployed(l) : l.asset[i].policy # "inscription" => l.asset[i].symbol \in Symbols
  /\ \A i \in Ids : l.inscriptions[i] # 0 => i \in Deployed(l) /\ l.asset[i].policy = "inscription"

\* One lot was minted for each settlement; the right to the next is of this block or an earlier one,
\* and its ticket is not created, since a ticket can only be created above the block it names.
Righted(b, h) ==
  /\ \A i \in Ids :
       IF i \in Progressive(b.ledger)
       THEN LET a == b.ledger.asset[i] IN
              /\ a.minted = Lot * Len(b.paid[i]) /\ (a.right = None <=> a.minted = Cap)
              /\ a.right # None =>
                   /\ a.right.height <= h /\ a.right.hash <= b.hash
                   /\ a.right.height = h => a.right.hash = b.hash
                   /\ MintTicket(i, a) \notin b.created
       ELSE b.paid[i] = <<>>
  /\ \A i \in Ids : \A n \in 1..Len(b.paid[i]) : b.paid[i][n] = Fee[n]
  /\ \A t \in b.created : t.hash < b.hash

\* A ticket is of a native proposal with the same terms, and locked while that can be approved.
TradedAt(b, k, h) ==
  LET t == b.ledger.ticket[k]
      x == b.proposal[k]
  IN /\ t # None => /\ t.created <= h /\ x # None /\ t.offer = x.offer
                    /\ t.status = "settled" <=> k \in b.bought
                    /\ t.status = "locked" <=> x.status = "active" /\ h <= x.offer.expiry
     /\ k \in b.bought => t # None
Traded(b, h) == \A k \in Keys : TradedAt(b, k, h)

Good(b, h) == Supplied(b.ledger) /\ Named(b.ledger) /\ Righted(b, h) /\ Traded(b, h)
-----------------------------------------------------------------------------
(* The invariant of the chain. *)

\* What a block b above height g has of a, the block there: every ticket old enough, and every lot quoted
\* there whose ticket was not created since.
Follows(a, b, g) ==
  /\ a.hash < b.hash
  /\ \A k \in Keys : b.ledger.ticket[k] # None /\ b.ledger.ticket[k].created <= g => a.ledger.ticket[k] # None
  /\ \A i \in Ids : LotQuoted(a.ledger, i) /\ MintTicket(i, a.ledger.asset[i]) \notin b.created =>
                      b.ledger.asset[i] = a.ledger.asset[i]

TypeOK ==
  /\ height \in Nat /\ Start <= height /\ chain \in [Start..height -> Blocks] /\ open \in BOOLEAN
  /\ final \in Start..height /\ fresh \in Nat /\ prepared \subseteq [key : Keys, call : Calls]
IInv ==
  /\ TypeOK
  /\ \A h \in Start..height : Good(chain[h], h) /\ chain[h].hash < fresh
  /\ \A h \in Start..height : \A g \in Start..h - 1 : Follows(chain[g], chain[h], g)
  /\ \A b \in prepared, h \in final..height : chain[h].ledger.ticket[b.key] # None

-----------------------------------------------------------------------------
(* Sums. *)

\* A sum grows by what one summand gains.
LEMMA SumGains ==
  ASSUME NEW S, IsFiniteSet(S), NEW f, \A x \in S : f[x] \in Nat, NEW o \in S, NEW n \in Nat,
         NEW g, g[o] = f[o] + n, \A x \in S \ {o} : g[x] = f[x]
  PROVE  Total(g, S) = Total(f, S) + n
<1>1. IsFiniteSet(S \ {o})  BY FS_Subset
<1>2. \A x \in S : g[x] \in Nat  OBVIOUS
<1>3. Total(f, S) = f[o] + Total(f, S \ {o})  BY TotalTakes
<1>4. Total(g, S) = g[o] + Total(g, S \ {o})  BY <1>2, TotalTakes
<1>5. Total(g, S \ {o}) = Total(f, S \ {o})  BY <1>1, TotalSame
<1>6. Total(f, S \ {o}) \in Nat /\ f[o] \in Nat  BY <1>1, TotalType
<1> QED  BY <1>3, <1>4, <1>5, <1>6

\* The sum of sums is the sum.
LEMMA SumAdds ==
  ASSUME NEW S, IsFiniteSet(S), NEW f \in [S -> Nat], NEW h \in [S -> Nat],
         NEW g, \A x \in S : g[x] = f[x] + h[x]
  PROVE  Total(g, S) = Total(f, S) + Total(h, S)
<1> DEFINE B == {T \in SUBSET S : Total(g, T) # Total(f, T) + Total(h, T)}
<1> SUFFICES ASSUME B # {} PROVE FALSE  OBVIOUS
<1>1. PICK T \in B : \A x \in T : T \ {x} \notin B
  <2>1. B \in SUBSET (SUBSET S)  OBVIOUS
  <2> HIDE DEF B
  <2> QED  BY <2>1, SmallestSet
<1>2. IsFiniteSet(T) /\ IsFiniteSet({})  BY FS_Subset, FS_EmptySet
<1>3. T # {}
  <2> SUFFICES ASSUME T = {} PROVE FALSE  OBVIOUS
  <2>1. Total(g, {}) = 0 /\ Total(f, {}) = 0 /\ Total(h, {}) = 0  BY <1>2, TotalStep
  <2> QED  BY <2>1
<1>4. PICK x : x \in T  BY <1>3
<1>5. x \in S /\ T \ {x} \in SUBSET S /\ IsFiniteSet(T \ {x})  BY <1>2, <1>4, FS_Subset
<1>6. Total(g, T \ {x}) = Total(f, T \ {x}) + Total(h, T \ {x})  BY <1>1, <1>4, <1>5
<1>7. \A y \in T : f[y] \in Nat /\ h[y] \in Nat /\ g[y] = f[y] + h[y] /\ g[y] \in Nat  OBVIOUS
<1> HIDE DEF B
<1>8. /\ Total(f, T) = f[x] + Total(f, T \ {x})
      /\ Total(h, T) = h[x] + Total(h, T \ {x})
      /\ Total(g, T) = g[x] + Total(g, T \ {x})
  BY <1>2, <1>4, <1>7, TotalTakes
<1>9. Total(f, T \ {x}) \in Nat /\ Total(h, T \ {x}) \in Nat  BY <1>5, <1>7, TotalType
<1>10. Total(g, T) = Total(f, T) + Total(h, T)  BY <1>4, <1>6, <1>7, <1>8, <1>9
<1> QED  BY <1>10 DEF B

\* A sum over E is the sum, over those its members belong to, of the sum of theirs.
LEMMA SumParts ==
  ASSUME NEW S, IsFiniteSet(S), NEW E, IsFiniteSet(E), NEW a, \A k \in E : a[k] \in Nat,
         NEW w, \A k \in E : w[k] \in S,
         NEW D, \A o \in S : \A k : k \in D[o] <=> k \in E /\ w[k] = o,
         NEW p, \A o \in S : p[o] = Total(a, D[o])
  PROVE  /\ \A o \in S : p[o] \in Nat
         /\ Total(p, S) = Total(a, E)
<1> DEFINE Of(T) == {k \in E : w[k] \in T}
           B == {T \in SUBSET S : Total(p, T) # Total(a, Of(T))}
<1>0. \A o \in S : p[o] \in Nat
  <2> TAKE o \in S
  <2>1. IsFiniteSet(D[o]) /\ \A k \in D[o] : a[k] \in Nat  BY FS_Subset
  <2> QED  BY <2>1, TotalType
<1>a. Of(S) = E  OBVIOUS
<1> SUFFICES ASSUME B # {} PROVE FALSE  BY <1>0, <1>a
<1>1. PICK T \in B : \A x \in T : T \ {x} \notin B
  <2>1. B \in SUBSET (SUBSET S)  OBVIOUS
  <2> HIDE DEF B
  <2> QED  BY <2>1, SmallestSet
<1>2. IsFiniteSet(T) /\ IsFiniteSet({})  BY FS_Subset, FS_EmptySet
<1>3. T # {}
  <2> SUFFICES ASSUME T = {} PROVE FALSE  OBVIOUS
  <2>1. Of({}) = {}  OBVIOUS
  <2>2. Total(p, {}) = 0 /\ Total(a, {}) = 0  BY <1>2, TotalStep
  <2> QED  BY <2>1, <2>2
<1>4. PICK o : o \in T  BY <1>3
<1>5. o \in S /\ T \ {o} \in SUBSET S  BY <1>4
<1>6. Total(p, T \ {o}) = Total(a, Of(T \ {o}))  BY <1>1, <1>4, <1>5
<1> DEFINE F == Of(T \ {o})
<1>7. D[o] \cup F = Of(T) /\ D[o] \cap F = {} /\ D[o] \subseteq E /\ F \subseteq E  BY <1>4, <1>5
<1>8. p[o] = Total(a, D[o])  BY <1>5
<1>9. T \subseteq S /\ Total(p, T) # Total(a, Of(T))  OBVIOUS
<1> HIDE DEF B, Of, F
<1>10. IsFiniteSet(D[o]) /\ IsFiniteSet(F)  BY <1>7, FS_Subset
<1>11. Total(a, D[o] \cup F) = Total(a, D[o]) + Total(a, F)  BY <1>7, <1>10, TotalUnion
<1>12. Total(p, T) = p[o] + Total(p, T \ {o})  BY <1>0, <1>2, <1>4, <1>9, TotalTakes
<1> QED  BY <1>6, <1>7, <1>8, <1>9, <1>11, <1>12 DEF F

-----------------------------------------------------------------------------
(* The locked amounts. *)

Amount(t) == [k \in Keys |-> t[k].offer.amount]
Held(t, i) == {k \in Keys : t[k] # None /\ t[k].status = "locked" /\ t[k].offer.asset = i}

\* The fold over tickets is the sum of their amounts.
LEMMA OffersSum ==
  ASSUME NEW l, NEW S \in SUBSET Keys, IsFiniteSet(S)
  PROVE  MapThenSumSet(LAMBDA k : l.ticket[k].offer.amount, S) = Total(Amount(l.ticket), S)
<1> DEFINE F == Amount(l.ticket)
           i == CHOOSE i : i = [s \in SUBSET S |->
                  IF s = {} THEN 0
                  ELSE LET x == CHOOSE x \in s : TRUE IN l.ticket[x].offer.amount + i[s \ {x}]]
<1>1. MapThenSumSet(LAMBDA k : l.ticket[k].offer.amount, S) = i[S]
  BY DEF MapThenSumSet, MapThenFoldSet
<1>2. PICK g : AddsUp(g, F, SUBSET S)  BY FoldExists
<1>3. \A s \in SUBSET S : s # {} => F[Chosen(s)] = l.ticket[Chosen(s)].offer.amount
  BY Taken DEF Amount
<1> HIDE DEF F
<1>4. g = [s \in SUBSET S |->
             IF s = {} THEN 0
             ELSE LET x == CHOOSE x \in s : TRUE IN l.ticket[x].offer.amount + g[s \ {x}]]
  <2>1. g = [s \in SUBSET S |-> IF s = {} THEN 0 ELSE F[Chosen(s)] + g[s \ {Chosen(s)}]]
    BY <1>2 DEF AddsUp
  <2>2. g = [s \in SUBSET S |->
               IF s = {} THEN 0 ELSE l.ticket[Chosen(s)].offer.amount + g[s \ {Chosen(s)}]]
    BY <1>3, <2>1
  <2> QED  BY <2>2 DEF Chosen
<1>5. i = [s \in SUBSET S |->
             IF s = {} THEN 0
             ELSE LET x == CHOOSE x \in s : TRUE IN l.ticket[x].offer.amount + i[s \ {x}]]
  BY <1>4
<1> HIDE DEF i
<1>6. PICK j : j = i  OBVIOUS
<1>7. AddsUp(j, F, SUBSET S)
  <2>1. j = [s \in SUBSET S |->
               IF s = {} THEN 0 ELSE l.ticket[Chosen(s)].offer.amount + j[s \ {Chosen(s)}]]
    BY <1>5, <1>6 DEF Chosen
  <2>2. j = [s \in SUBSET S |-> IF s = {} THEN 0 ELSE F[Chosen(s)] + j[s \ {Chosen(s)}]]
    BY <1>3, <2>1
  <2> QED  BY <2>2 DEF AddsUp
<1>8. S \in SUBSET S  OBVIOUS
<1>9. Total(F, S) = j[S]  BY <1>7, <1>8, TotalIs
<1> QED  BY <1>1, <1>6, <1>9 DEF F

\* What is locked of an asset is the sum of the offers held, a finite set of the locked ones.
LEMMA HeldIs ==
  ASSUME NEW l \in Ledgers, IsFiniteSet(Locked(l)), NEW i
  PROVE  /\ Held(l.ticket, i) \in SUBSET Locked(l) /\ IsFiniteSet(Held(l.ticket, i))
         /\ \A k \in Locked(l) : Amount(l.ticket)[k] \in Nat
         /\ LockedOf(l, i) = Total(Amount(l.ticket), Held(l.ticket, i)) /\ LockedOf(l, i) \in Nat
<1>1. Held(l.ticket, i) = {k \in Locked(l) : l.ticket[k].offer.asset = i}  BY DEF Held, Locked
<1>2. Held(l.ticket, i) \in SUBSET Locked(l) /\ Locked(l) \subseteq Keys  BY <1>1 DEF Locked
<1>3. IsFiniteSet(Held(l.ticket, i))  BY <1>2, FS_Subset
<1>4. \A k \in Locked(l) : Amount(l.ticket)[k] \in Nat
  <2> TAKE k \in Locked(l)
  <2>1. k \in Keys /\ l.ticket[k] \in Tickets  BY DEF Locked, Ledgers
  <2> QED  BY <2>1 DEF Amount, Tickets, Terms
<1>5. LockedOf(l, i) = Total(Amount(l.ticket), Held(l.ticket, i))
  <2> DEFINE S == {k \in Locked(l) : l.ticket[k].offer.asset = i}
  <2>1. S \in SUBSET Keys /\ IsFiniteSet(S)  BY <1>1, <1>2, <1>3
  <2>2. LockedOf(l, i) = MapThenSumSet(LAMBDA k : l.ticket[k].offer.amount, S)  BY DEF LockedOf
  <2>3. S = Held(l.ticket, i)  BY <1>1
  <2> HIDE DEF S
  <2>4. MapThenSumSet(LAMBDA k : l.ticket[k].offer.amount, S) = Total(Amount(l.ticket), S)
    BY <2>1, OffersSum
  <2> QED  BY <2>2, <2>3, <2>4
<1>6. Total(Amount(l.ticket), Held(l.ticket, i)) \in Nat  BY <1>2, <1>3, <1>4, TotalType
<1> QED  BY <1>2, <1>3, <1>4, <1>5, <1>6

\* It depends on the tickets alone.
LEMMA HeldSame ==
  ASSUME NEW l \in Ledgers, NEW m \in Ledgers, IsFiniteSet(Locked(l)), m.ticket = l.ticket, NEW i
  PROVE  Locked(m) = Locked(l) /\ LockedOf(m, i) = LockedOf(l, i)
<1>1. Locked(m) = Locked(l)  BY DEF Locked
<1>2. LockedOf(l, i) = Total(Amount(l.ticket), Held(l.ticket, i))  BY HeldIs
<1>3. LockedOf(m, i) = Total(Amount(m.ticket), Held(m.ticket, i))  BY <1>1, HeldIs
<1> QED  BY <1>1, <1>2, <1>3

\* Between two ledgers of which one locks k and the other does not.
Part(t, i) == IF t.offer.asset = i THEN t.offer.amount ELSE 0
Frees(l, m, k, i) == LockedOf(l, i) = LockedOf(m, i) + Part(l.ticket[k], i)
AlikeBut(k, l, m) == \A j \in Keys \ {k} : m.ticket[j] = l.ticket[j]
\* A ledger that frees k locks as much less of its asset.
LEMMA HeldFrees ==
  ASSUME NEW l \in Ledgers, NEW m \in Ledgers, IsFiniteSet(Locked(l)), NEW k \in Locked(l), k \notin Locked(m),
         AlikeBut(k, l, m), NEW i \in Ids
  PROVE  /\ Locked(m) = Locked(l) \ {k}
         /\ Frees(l, m, k, i)
<1> DEFINE A == Amount(l.ticket)
           D == Amount(m.ticket)
           H == Held(l.ticket, i)
           G == Held(m.ticket, i)
<1>1. k \in Keys /\ Locked(m) = Locked(l) \ {k}  BY DEF Locked, AlikeBut
<1>2. IsFiniteSet(Locked(m))  BY <1>1, FS_Subset
<1>3. G = H \ {k}
  <2>1. k \notin G  BY <1>1 DEF Locked, Held
  <2>2. \A j \in Keys \ {k} : j \in G <=> j \in H  BY DEF Held, AlikeBut
  <2>3. G \subseteq Keys /\ H \subseteq Keys  BY DEF Held
  <2> QED  BY <2>1, <2>2, <2>3
<1>4. k \in H <=> l.ticket[k].offer.asset = i  BY <1>1 DEF Held, Locked
<1>5. \A j \in G : A[j] = D[j]
  <2>1. G \subseteq Keys \ {k}  BY <1>3 DEF Held
  <2> QED  BY <2>1 DEF Amount, AlikeBut
<1>6. A[k] = l.ticket[k].offer.amount  BY <1>1 DEF Amount
<1>7. /\ H \subseteq Locked(l) /\ IsFiniteSet(H) /\ IsFiniteSet(G) /\ \A j \in Locked(l) : A[j] \in Nat
      /\ LockedOf(l, i) = Total(A, H) /\ LockedOf(m, i) = Total(D, G) /\ LockedOf(m, i) \in Nat
  BY <1>2, HeldIs
<1> HIDE DEF A, D, H, G
<1>8. Total(A, G) = Total(D, G)  BY <1>5, <1>7, TotalSame
<1>9. CASE k \in H
  <2>1. Total(A, H) = A[k] + Total(A, H \ {k})  BY <1>7, <1>9, TotalTakes
  <2>2. A[k] \in Nat  BY <1>7, <1>9
  <2> QED  BY <1>1, <1>3, <1>4, <1>6, <1>7, <1>8, <1>9, <2>1, <2>2 DEF Part, Frees
<1>10. CASE k \notin H
  <2>1. G = H  BY <1>3, <1>10
  <2> QED  BY <1>1, <1>4, <1>7, <1>8, <1>10, <2>1 DEF Part, Frees
<1> QED  BY <1>9, <1>10

\* The start of a block pays each seller back what of theirs has expired, and nothing else.
LEMMA BlockStartIs ==
  ASSUME NEW l \in Ledgers, IsFiniteSet(Locked(l)), NEW h
  PROVE  /\ BlockStart(l, h) \in Ledgers /\ Locked(BlockStart(l, h)) = Locked(l) \ Expired(l, h)
         /\ BlockStart(l, h).ticket = [k \in Keys |-> IF k \in Expired(l, h)
                                         THEN [l.ticket[k] EXCEPT !.status = "released"] ELSE l.ticket[k]]
         /\ \A i \in Ids : Total(BlockStart(l, h).balance[i], Owners) + LockedOf(BlockStart(l, h), i) =
                             Total(l.balance[i], Owners) + LockedOf(l, i)
         /\ BlockStart(l, h).asset = l.asset /\ BlockStart(l, h).symbols = l.symbols
         /\ BlockStart(l, h).inscriptions = l.inscriptions /\ BlockStart(l, h).next = l.next
<1> DEFINE E == Expired(l, h)
           A == Amount(l.ticket)
           Of(i) == {k \in E : l.ticket[k].offer.asset = i}
           p(i) == [o \in Owners |-> Total(A, {k \in Of(i) : l.ticket[k].seller = o})]
           w == [k \in Keys |-> l.ticket[k].seller]
<1>0. PICK m : m = BlockStart(l, h)  OBVIOUS
<1>1. /\ E \subseteq Locked(l) /\ E \subseteq Keys /\ IsFiniteSet(E) /\ \A k \in E : l.ticket[k] \in Tickets
      /\ \A k \in E : A[k] \in Nat
  <2>1. E \subseteq Locked(l) /\ Locked(l) \subseteq Keys  BY DEF Expired, Locked
  <2>2. IsFiniteSet(E)  BY <2>1, FS_Subset
  <2>3. \A k \in E : l.ticket[k] \in Tickets  BY <2>1 DEF Locked, Ledgers
  <2> QED  BY <2>1, <2>2, <2>3, HeldIs
<1>2. \A i : Of(i) \in SUBSET Keys /\ Of(i) \subseteq E /\ IsFiniteSet(Of(i))
  BY <1>1, FS_Subset
<1>3. \A i \in Ids : /\ \A o \in Owners : p(i)[o] \in Nat
                     /\ Total(p(i), Owners) = Total(A, Of(i))
  <2> TAKE i \in Ids
  <2>1. \A k \in Of(i) : A[k] \in Nat /\ w[k] \in Owners /\ w[k] = l.ticket[k].seller
    BY <1>1 DEF Tickets
  <2>2. \A o \in Owners : p(i)[o] = Total(A, {k \in Of(i) : w[k] = o})
    <3> TAKE o \in Owners
    <3>1. {k \in Of(i) : l.ticket[k].seller = o} = {k \in Of(i) : w[k] = o}  BY <2>1
    <3> HIDE DEF A, Of, w
    <3> QED  BY <3>1
  <2>3. IsFiniteSet(Owners)  BY LedgerConstants
  <2>4. PICK D, q : D = Of(i) /\ q = p(i)  OBVIOUS
  <2>5. IsFiniteSet(D)  BY <1>2, <2>4
  <2> HIDE DEF A, Of, w, p
  <2>6. \A k \in D : A[k] \in Nat /\ w[k] \in Owners  BY <2>1, <2>4
  <2>7. PICK C : C = [o \in Owners |-> {k \in D : w[k] = o}]  OBVIOUS
  <2>8. \A o \in Owners : \A k : k \in C[o] <=> k \in D /\ w[k] = o  BY <2>7
  <2>9. \A o \in Owners : q[o] = Total(A, C[o])
    <3> TAKE o \in Owners
    <3>1. C[o] = {k \in Of(i) : w[k] = o}  BY <2>4, <2>7
    <3> QED  BY <2>2, <2>4, <3>1
  <2>10. (\A o \in Owners : q[o] \in Nat) /\ Total(q, Owners) = Total(A, D)
    BY <2>3, <2>5, <2>6, <2>8, <2>9, SumParts
  <2> QED  BY <2>4, <2>10
<1>4. \A i \in Ids, o \in Owners : m.balance[i][o] = l.balance[i][o] + p(i)[o]
  <2> TAKE i \in Ids, o \in Owners
  <2> DEFINE S == {k \in Expired(l, h) : l.ticket[k].seller = o /\ l.ticket[k].offer.asset = i}
  <2>1. S = {k \in Of(i) : l.ticket[k].seller = o}  OBVIOUS
  <2>2. S \in SUBSET Keys /\ IsFiniteSet(S)
    <3>1. S \subseteq E  OBVIOUS
    <3> HIDE DEF S
    <3> QED  BY <1>1, <3>1, FS_Subset
  <2>3. m.balance = [j \in Ids |-> [q \in Owners |->
             l.balance[j][q] + MapThenSumSet(LAMBDA k : l.ticket[k].offer.amount,
               {k \in Expired(l, h) : l.ticket[k].seller = q /\ l.ticket[k].offer.asset = j})]]
    BY <1>0 DEF BlockStart, Ledgers
  <2>4. m.balance[i][o] = l.balance[i][o] + MapThenSumSet(LAMBDA k : l.ticket[k].offer.amount, S)
    BY <2>3
  <2> HIDE DEF S
  <2>5. MapThenSumSet(LAMBDA k : l.ticket[k].offer.amount, S) = Total(A, S)  BY <2>2, OffersSum
  <2> QED  BY <2>1, <2>4, <2>5
<1>5. m.ticket = [k \in Keys |-> IF k \in E THEN [l.ticket[k] EXCEPT !.status = "released"] ELSE l.ticket[k]]
  BY <1>0 DEF BlockStart, Ledgers
<1>6. /\ m.asset = l.asset /\ m.symbols = l.symbols /\ m.inscriptions = l.inscriptions /\ m.next = l.next
      /\ m.seq = l.seq /\ m.multisigs = l.multisigs
  BY <1>0 DEF BlockStart, Ledgers
<1>7. /\ m.ticket \in [Keys -> Tickets \cup {None}]
      /\ \A k \in Keys : m.ticket[k] # None => l.ticket[k] # None
      /\ \A k \in E : m.ticket[k] # None /\ m.ticket[k].status = "released"
      /\ \A k \in Keys \ E : m.ticket[k] = l.ticket[k]
  <2>1. \A k \in E : m.ticket[k] = [l.ticket[k] EXCEPT !.status = "released"]  BY <1>1, <1>5
  <2>2. \A k \in E : m.ticket[k] \in Tickets /\ m.ticket[k].status = "released"  BY <1>1, <2>1 DEF Tickets
  <2>3. \A k \in Keys \ E : m.ticket[k] = l.ticket[k]  BY <1>5
  <2>4. \A k \in Keys : l.ticket[k] \in Tickets \cup {None}  BY DEF Ledgers
  <2>5. \A k \in E : l.ticket[k] # None  BY <1>1 DEF Locked
  <2>6. \A k \in E : m.ticket[k] # None  BY <2>2, LedgerConstants
  <2>7. \A k \in Keys : m.ticket[k] \in Tickets \cup {None}  BY <2>2, <2>3, <2>4
  <2> HIDE DEF E
  <2> QED  BY <1>5, <2>2, <2>3, <2>5, <2>6, <2>7
<1>8. m \in Ledgers
  <2>1. \A i \in Ids, o \in Owners : l.balance[i][o] \in Nat  BY DEF Ledgers
  <2>2. m.balance = [i \in Ids |-> [o \in Owners |-> m.balance[i][o]]]  BY <1>0 DEF BlockStart, Ledgers
  <2>3. \A i \in Ids, o \in Owners : m.balance[i][o] \in Nat
    <3> TAKE i \in Ids, o \in Owners
    <3>1. m.balance[i][o] = l.balance[i][o] + p(i)[o]  BY <1>4
    <3>2. p(i)[o] \in Nat  BY <1>3
    <3> HIDE DEF p
    <3> QED  BY <2>1, <3>1, <3>2
  <2>4. m.balance \in [Ids -> [Owners -> Nat]]  BY <2>2, <2>3
  <2>5. m = [seq |-> m.seq, asset |-> m.asset, balance |-> m.balance, multisigs |-> m.multisigs,
             ticket |-> m.ticket, symbols |-> m.symbols, inscriptions |-> m.inscriptions, next |-> m.next]
    BY <1>0 DEF BlockStart, Ledgers
  <2> HIDE DEF E, p
  <2> QED  BY <1>6, <1>7, <2>4, <2>5 DEF Ledgers
<1>9. Locked(m) = Locked(l) \ E
  <2>1. \A k \in E : k \notin Locked(m)  BY <1>7 DEF Locked
  <2>2. \A k \in Keys \ E : k \in Locked(m) <=> k \in Locked(l)  BY <1>7 DEF Locked
  <2>3. Locked(m) \subseteq Keys /\ Locked(l) \subseteq Keys  BY DEF Locked
  <2> HIDE DEF E
  <2> QED  BY <1>1, <2>1, <2>2, <2>3
<1>10. \A i \in Ids : Total(m.balance[i], Owners) + LockedOf(m, i) = Total(l.balance[i], Owners) + LockedOf(l, i)
  <2> TAKE i \in Ids
  <2> DEFINE H == Held(l.ticket, i)
             G == Held(m.ticket, i)
             D == Amount(m.ticket)
  <2>1. Total(m.balance[i], Owners) = Total(l.balance[i], Owners) + Total(A, Of(i))
    <3>1. l.balance[i] \in [Owners -> Nat] /\ p(i) \in [Owners -> Nat]  BY <1>3 DEF Ledgers
    <3>2. IsFiniteSet(Owners)  BY LedgerConstants
    <3> HIDE DEF A, Of, p
    <3> QED  BY <1>3, <1>4, <3>1, <3>2, SumAdds
  <2>2. IsFiniteSet(Locked(m))  BY <1>9, FS_Subset
  <2>3. /\ IsFiniteSet(H) /\ H \subseteq Locked(l) /\ LockedOf(l, i) = Total(A, H)
        /\ IsFiniteSet(G) /\ LockedOf(m, i) = Total(D, G) /\ LockedOf(m, i) \in Nat
        /\ \A k \in Locked(l) : A[k] \in Nat
    BY <1>8, <2>2, HeldIs
  <2>4. G \cap Of(i) = {} /\ G \cup Of(i) = H /\ \A k \in G : D[k] = A[k]
    <3>1. \A k \in E : k \notin G /\ (k \in H <=> k \in Of(i))
      BY <1>1, <1>7 DEF Held, Locked
    <3>2. \A k \in Keys \ E : (k \in G <=> k \in H) /\ k \notin Of(i) /\ D[k] = A[k]
      BY <1>7 DEF Held, Amount
    <3>3. G \subseteq Keys /\ H \subseteq Keys  BY DEF Held
    <3> HIDE DEF E, G, H, D, A, Of
    <3> QED  BY <1>2, <3>1, <3>2, <3>3
  <2>5. IsFiniteSet(Of(i))  BY <1>2
  <2>6. Total(l.balance[i], Owners) \in Nat
    <3>1. \A o \in Owners : l.balance[i][o] \in Nat  BY DEF Ledgers
    <3> QED  BY <3>1, TotalType, LedgerConstants
  <2> HIDE DEF A, D, G, H, Of
  <2>7. \A k \in G \cup Of(i) : A[k] \in Nat  BY <2>3, <2>4
  <2>8. Total(A, G \cup Of(i)) = Total(A, G) + Total(A, Of(i))  BY <2>3, <2>4, <2>5, <2>7, TotalUnion
  <2>9. Total(A, G) = Total(D, G)  BY <2>3, <2>4, TotalSame
  <2>10. Total(A, G) \in Nat /\ Total(A, Of(i)) \in Nat  BY <2>3, <2>5, <2>7, TotalType
  <2>11. LockedOf(l, i) = LockedOf(m, i) + Total(A, Of(i))  BY <2>3, <2>4, <2>8, <2>9
  <2> QED  BY <2>1, <2>3, <2>6, <2>10, <2>11
<1> HIDE DEF E
<1>11. E = Expired(l, h)  BY DEF E
<1> QED  BY <1>0, <1>5, <1>6, <1>8, <1>9, <1>10, <1>11

-----------------------------------------------------------------------------
(* Operations: each leaves a ledger that is sound, with the same tickets. *)

\* Holdings, their sums and what is minted are numbers.
LEMMA HoldingType ==
  ASSUME NEW l \in Ledgers, NEW i \in Ids
  PROVE  /\ \A o \in Owners : l.balance[i][o] \in Nat
         /\ Total(l.balance[i], Owners) \in Nat /\ Minted(l, i) \in Nat
<1>1. l.balance[i] \in [Owners -> Nat] /\ l.asset[i] \in Assets \cup {None}  BY DEF Ledgers
<1>2. \A o \in Owners : l.balance[i][o] \in Nat  BY <1>1
<1>3. Total(l.balance[i], Owners) \in Nat  BY <1>2, TotalType, LedgerConstants
<1>4. Minted(l, i) \in Nat  BY <1>1 DEF Minted, Assets
<1> QED  BY <1>2, <1>3, <1>4

\* With the same tickets, supply is kept where the holdings grow as what is minted does.
LEMMA SupplyKeeps ==
  ASSUME NEW l \in Ledgers, NEW m \in Ledgers, Supplied(l), m.ticket = l.ticket,
         \A i \in Ids : /\ Total(m.balance[i], Owners) + Minted(l, i) = Total(l.balance[i], Owners) + Minted(m, i)
                        /\ m.asset[i] # None => m.asset[i].minted <= CapOf(m.asset[i])
  PROVE  Supplied(m)
<1>1. IsFiniteSet(Locked(l)) /\ IsFiniteSet(Locked(m))  BY HeldSame DEF Supplied
<1>2. ASSUME NEW i \in Ids PROVE Total(m.balance[i], Owners) + LockedOf(m, i) = Minted(m, i)
  <2>1. /\ Total(m.balance[i], Owners) + Minted(l, i) = Total(l.balance[i], Owners) + Minted(m, i)
        /\ Total(l.balance[i], Owners) + LockedOf(l, i) = Minted(l, i)
    BY DEF Supplied
  <2>2. /\ Total(m.balance[i], Owners) \in Nat /\ Minted(l, i) \in Nat
        /\ Total(l.balance[i], Owners) \in Nat /\ Minted(m, i) \in Nat
    BY HoldingType
  <2>3. LockedOf(m, i) = LockedOf(l, i) /\ LockedOf(l, i) \in Nat  BY <1>1, HeldSame, HeldIs
  <2> QED  BY <2>1, <2>2, <2>3
<1> QED  BY <1>1, <1>2 DEF Supplied

\* What an operation does to the assets: it leaves one alone, or none of it is sold in lots, unless it
\* was just deployed.
Kept(l, m, at) ==
  /\ m.ticket = l.ticket
  /\ \A j \in Ids : \/ m.asset[j] = l.asset[j]
                    \/ /\ j \notin Progressive(l)
                       /\ j \in Progressive(m) => m.asset[j].minted = 0 /\ m.asset[j].right = at

\* An account's next sequence changes nothing else.
LEMMA Next1Is ==
  ASSUME NEW l \in Ledgers, NEW owner \in Owners, l.seq[owner] + 1 \in 0..MaxSeq
  PROVE  LET m == Next1(l, owner)
         IN /\ m \in Ledgers /\ m.symbols = l.symbols /\ m.asset = l.asset /\ m.balance = l.balance
            /\ m.ticket = l.ticket /\ m.inscriptions = l.inscriptions /\ m.next = l.next
            /\ m.multisigs = l.multisigs
BY DEF Next1, Ledgers

\* A new asset has a symbol nobody had, and nothing is minted of it.
LEMMA DeployIs ==
  ASSUME NEW l \in Ledgers, Supplied(l), Named(l), NEW owner \in Owners, NEW policy \in Policies,
         NEW symbol \in Symbols, NEW at \in Rights, DeployAllowed(l, owner, symbol)
  PROVE  LET m == Deploy(l, owner, policy, symbol, at)
         IN m \in Ledgers /\ Supplied(m) /\ Named(m) /\ Kept(l, m, at)
<1> DEFINE i == <<owner, l.seq[owner]>>
           a == Asset(policy, symbol, 0, IF policy = "progressive" THEN at ELSE None)
<1>0. PICK m : m = Deploy(l, owner, policy, symbol, at)  OBVIOUS
<1>1. /\ i \in Ids /\ l.asset[i] = None /\ l.symbols[symbol] = None /\ l.seq[owner] + 1 \in 0..MaxSeq
  <2>1. l.seq[owner] \in 0..MaxSeq  BY DEF Ledgers
  <2> QED  BY <2>1, LedgerConstants DEF DeployAllowed, NewAsset, Ids
<1>2. a \in Assets /\ a # None /\ a.minted = 0 /\ a.policy = policy /\ a.symbol = symbol
      /\ (policy = "progressive" => a.right = at) /\ policy # "inscription"
  <2>1. a \in Assets  BY ReaderConstants DEF Assets, Asset
  <2> QED  BY <2>1, LedgerConstants, ReaderConstants DEF Asset
<1> HIDE DEF a
<1>3. /\ m \in Ledgers /\ m.symbols = [l.symbols EXCEPT ![symbol] = i] /\ m.asset = [l.asset EXCEPT ![i] = a]
      /\ m.balance = l.balance /\ m.ticket = l.ticket /\ m.inscriptions = l.inscriptions /\ m.next = l.next
  <2>1. PICK n : n = [l EXCEPT !.symbols[symbol] = i, !.asset[i] = a]  OBVIOUS
  <2> HIDE DEF i
  <2>2. /\ n \in Ledgers /\ n.symbols = [l.symbols EXCEPT ![symbol] = i] /\ n.asset = [l.asset EXCEPT ![i] = a]
        /\ n.balance = l.balance /\ n.ticket = l.ticket /\ n.inscriptions = l.inscriptions /\ n.next = l.next
        /\ n.seq = l.seq
    BY <1>1, <1>2, <2>1 DEF Ledgers
  <2>3. m = Next1(n, owner)  BY <1>0, <2>1 DEF Deploy, a, i
  <2> QED  BY <1>1, <2>2, <2>3, Next1Is
<1> HIDE DEF i
<1>4. \A j \in Ids : m.asset[j] = IF j = i THEN a ELSE l.asset[j]  BY <1>1, <1>3 DEF Ledgers
<1>5. \A x \in Symbols : m.symbols[x] = IF x = symbol THEN i ELSE l.symbols[x]  BY <1>3 DEF Ledgers
<1>6. Supplied(m)
  <2>1. ASSUME NEW j \in Ids
        PROVE  /\ Minted(m, j) = Minted(l, j)
               /\ m.asset[j] # None => m.asset[j].minted <= CapOf(m.asset[j])
    BY <1>1, <1>2, <1>4, LedgerConstants DEF Minted, Supplied, CapOf
  <2>2. \A j \in Ids : Total(m.balance[j], Owners) + Minted(l, j) = Total(l.balance[j], Owners) + Minted(m, j)
    BY <1>3, <2>1
  <2> QED  BY <1>3, <2>1, <2>2, SupplyKeeps
<1>7. Deployed(m) = Deployed(l) \cup {i} /\ i \notin Deployed(l)  BY <1>1, <1>2, <1>4 DEF Deployed
<1>8. Named(m)
  <2>1. \A j \in Deployed(m) :
          IF m.asset[j].policy = "inscription"
          THEN m.inscriptions[j] \in 1..(m.next - 1) /\ m.asset[j].minted = 1
          ELSE m.symbols[m.asset[j].symbol] = j /\ m.asset[j].symbol \in Symbols
    <3> TAKE j \in Deployed(m)
    <3>1. CASE j = i  BY <1>1, <1>2, <1>4, <1>5, <3>1
    <3>2. CASE j # i
      <4>1. j \in Deployed(l) /\ j \in Ids /\ m.asset[j] = l.asset[j]  BY <1>4, <1>7, <3>2 DEF Deployed
      <4>2. CASE l.asset[j].policy = "inscription"
        BY <1>3, <4>1, <4>2 DEF Named, NamesConsistent
      <4>3. CASE l.asset[j].policy # "inscription"
        <5>1. l.symbols[l.asset[j].symbol] = j /\ l.asset[j].symbol \in Symbols
          BY <4>1, <4>3 DEF Named, NamesConsistent
        <5>2. l.asset[j].symbol # symbol  BY <1>1, <4>1, <5>1, LedgerConstants
        <5> QED  BY <1>5, <4>1, <4>3, <5>1, <5>2
      <4> QED  BY <4>2, <4>3
    <3> QED  BY <3>1, <3>2
  <2>2. \A x \in Symbols : m.symbols[x] # None =>
          m.symbols[x] \in Deployed(m) /\ m.asset[m.symbols[x]].symbol = x
    <3> TAKE x \in Symbols
    <3>1. CASE x = symbol  BY <1>1, <1>2, <1>4, <1>5, <1>7, <3>1
    <3>2. CASE x # symbol
      <4>1. m.symbols[x] = l.symbols[x]  BY <1>5, <3>2
      <4>2. SUFFICES ASSUME l.symbols[x] # None
                     PROVE  l.symbols[x] \in Deployed(m) /\ m.asset[l.symbols[x]].symbol = x
        BY <4>1
      <4>3. l.symbols[x] \in Deployed(l) /\ l.asset[l.symbols[x]].symbol = x
        BY <4>2 DEF Named, NamesConsistent
      <4>4. l.symbols[x] \in Ids /\ l.symbols[x] # i  BY <1>7, <4>3 DEF Deployed
      <4> QED  BY <1>4, <1>7, <4>3, <4>4
    <3> QED  BY <3>1, <3>2
  <2>3. \A j \in Ids : m.inscriptions[j] # 0 => j \in Deployed(m) /\ m.asset[j].policy = "inscription"
    BY <1>1, <1>3, <1>4, <1>7 DEF Named
  <2>4. LET inscribed == {j \in Ids : m.inscriptions[j] # 0}
        IN /\ m.next = 1 + Cardinality(inscribed)
           /\ \A j, k \in inscribed : m.inscriptions[j] = m.inscriptions[k] => j = k
    BY <1>3 DEF Named, NamesConsistent
  <2> QED  BY <2>1, <2>2, <2>3, <2>4 DEF Named, NamesConsistent
<1>9. Kept(l, m, at)  BY <1>1, <1>2, <1>3, <1>4 DEF Kept, Progressive, Deployed
<1> QED  BY <1>0, <1>3, <1>6, <1>8, <1>9

\* The fields but the balance, the tickets and the numbering of operations.
SameNames(l, m) ==
  /\ m.symbols = l.symbols /\ m.asset = l.asset /\ m.inscriptions = l.inscriptions /\ m.next = l.next

\* Tokens added to one account.
LEMMA CreditIs ==
  ASSUME NEW l \in Ledgers, NEW i \in Ids, NEW owner \in Owners, NEW n \in Nat
  PROVE  LET m == Credit(l, i, owner, n)
         IN /\ m \in Ledgers /\ SameNames(l, m) /\ m.ticket = l.ticket /\ m.seq = l.seq
            /\ \A j \in Ids : Total(m.balance[j], Owners) = Total(l.balance[j], Owners) + (IF j = i THEN n ELSE 0)
<1>0. PICK m : m = Credit(l, i, owner, n)  OBVIOUS
<1>1. l.balance \in [Ids -> [Owners -> Nat]] /\ l.balance[i][owner] \in Nat  BY DEF Ledgers
<1>2. PICK f : f = [l.balance[i] EXCEPT ![owner] = l.balance[i][owner] + n]  OBVIOUS
<1>3. f \in [Owners -> Nat] /\ f[owner] = l.balance[i][owner] + n /\ \A o \in Owners \ {owner} : f[o] = l.balance[i][o]
  BY <1>1, <1>2
<1>4. m = [l EXCEPT !.balance = [l.balance EXCEPT ![i] = f]]  BY <1>0, <1>2 DEF Credit
<1>5. /\ m \in Ledgers /\ SameNames(l, m) /\ m.ticket = l.ticket /\ m.seq = l.seq
      /\ m.balance = [l.balance EXCEPT ![i] = f]
  BY <1>1, <1>3, <1>4 DEF Ledgers, SameNames
<1>6. ASSUME NEW j \in Ids
      PROVE  Total(m.balance[j], Owners) = Total(l.balance[j], Owners) + (IF j = i THEN n ELSE 0)
  <2>1. CASE j = i
    <3>1. m.balance[j] = f  BY <1>1, <1>5, <2>1
    <3>2. PICK g : g = l.balance[i]  OBVIOUS
    <3>3. IsFiniteSet(Owners) /\ \A o \in Owners : g[o] \in Nat  BY <3>2, HoldingType, LedgerConstants
    <3>4. f[owner] = g[owner] + n /\ \A o \in Owners \ {owner} : f[o] = g[o]  BY <1>3, <3>2
    <3>5. Total(f, Owners) = Total(g, Owners) + n  BY <3>3, <3>4, SumGains
    <3> QED  BY <2>1, <3>1, <3>2, <3>5
  <2>2. CASE j # i
    <3>1. m.balance[j] = l.balance[j]  BY <1>1, <1>5, <2>2
    <3> QED  BY <2>2, <3>1, HoldingType
  <2> QED  BY <2>1, <2>2
<1> QED  BY <1>0, <1>5, <1>6

\* Tokens taken from an account that has them.
LEMMA DebitIs ==
  ASSUME NEW l \in Ledgers, NEW i \in Ids, NEW owner \in Owners, NEW n \in Nat, n <= l.balance[i][owner]
  PROVE  LET m == Debit(l, i, owner, n)
         IN /\ m \in Ledgers /\ SameNames(l, m) /\ m.ticket = l.ticket /\ m.seq = l.seq
            /\ \A j \in Ids : Total(l.balance[j], Owners) = Total(m.balance[j], Owners) + (IF j = i THEN n ELSE 0)
<1>0. PICK m : m = Debit(l, i, owner, n)  OBVIOUS
<1>1. l.balance \in [Ids -> [Owners -> Nat]] /\ l.balance[i][owner] \in Nat  BY DEF Ledgers
<1>2. PICK f : f = [l.balance[i] EXCEPT ![owner] = l.balance[i][owner] - n]  OBVIOUS
<1>a. l.balance[i][owner] - n \in Nat  BY <1>1
<1>3. f \in [Owners -> Nat] /\ l.balance[i][owner] = f[owner] + n /\ \A o \in Owners \ {owner} : l.balance[i][o] = f[o]
  BY <1>1, <1>2, <1>a
<1>4. m = [l EXCEPT !.balance = [l.balance EXCEPT ![i] = f]]  BY <1>0, <1>2 DEF Debit
<1>5. /\ m \in Ledgers /\ SameNames(l, m) /\ m.ticket = l.ticket /\ m.seq = l.seq
      /\ m.balance = [l.balance EXCEPT ![i] = f]
  BY <1>1, <1>3, <1>4 DEF Ledgers, SameNames
<1>6. ASSUME NEW j \in Ids
      PROVE  Total(l.balance[j], Owners) = Total(m.balance[j], Owners) + (IF j = i THEN n ELSE 0)
  <2>1. CASE j = i
    <3>1. m.balance[j] = f  BY <1>1, <1>5, <2>1
    <3>2. PICK g : g = l.balance[i]  OBVIOUS
    <3>3. IsFiniteSet(Owners) /\ \A o \in Owners : f[o] \in Nat  BY <1>3, LedgerConstants
    <3>4. g[owner] = f[owner] + n /\ \A o \in Owners \ {owner} : g[o] = f[o]  BY <1>3, <3>2
    <3>5. Total(g, Owners) = Total(f, Owners) + n  BY <3>3, <3>4, SumGains
    <3> QED  BY <2>1, <3>1, <3>2, <3>5
  <2>2. CASE j # i
    <3>1. m.balance[j] = l.balance[j]  BY <1>1, <1>5, <2>2
    <3> QED  BY <1>5, <2>2, <3>1, HoldingType
  <2> QED  BY <2>1, <2>2
<1> QED  BY <1>0, <1>5, <1>6

\* Assets that keep their names keep them consistent.
LEMMA NamesKeep ==
  ASSUME NEW l \in Ledgers, NEW m \in Ledgers, Named(l), SameNames(l, m)
  PROVE  Named(m)
<1>1. Deployed(m) = Deployed(l)  BY DEF Deployed, SameNames
<1> QED  BY <1>1 DEF Named, NamesConsistent, SameNames

\* A transfer keeps the sum of the balances.
LEMMA TransferIs ==
  ASSUME NEW l \in Ledgers, Supplied(l), Named(l), NEW owner \in Owners, NEW to \in Owners,
         NEW i \in Deployed(l), NEW n \in Amounts, NEW at, TransferAllowed(l, owner, i, n)
  PROVE  LET m == Transfer(l, owner, i, n, to)
         IN m \in Ledgers /\ Supplied(m) /\ Named(m) /\ Kept(l, m, at)
<1>1. i \in Ids /\ n \in Nat /\ n <= l.balance[i][owner]
  BY ReaderConstants DEF Deployed, TransferAllowed
<1>2. PICK d : d = Debit(l, i, owner, n)  OBVIOUS
<1>3. PICK c : c = Credit(d, i, to, n)  OBVIOUS
<1>4. PICK m : m = Next1(c, owner)  OBVIOUS
<1>5. /\ d \in Ledgers /\ SameNames(l, d) /\ d.ticket = l.ticket /\ d.seq = l.seq
      /\ \A j \in Ids : Total(l.balance[j], Owners) = Total(d.balance[j], Owners) + (IF j = i THEN n ELSE 0)
  BY <1>1, <1>2, DebitIs
<1>6. /\ c \in Ledgers /\ SameNames(d, c) /\ c.ticket = d.ticket /\ c.seq = d.seq
      /\ \A j \in Ids : Total(c.balance[j], Owners) = Total(d.balance[j], Owners) + (IF j = i THEN n ELSE 0)
  BY <1>1, <1>3, <1>5, CreditIs
<1>7. c.seq[owner] + 1 \in 0..MaxSeq
  BY <1>5, <1>6, LedgerConstants DEF TransferAllowed, Known, Ledgers
<1>8. m \in Ledgers /\ SameNames(l, m) /\ m.ticket = l.ticket /\ m.balance = c.balance
  BY <1>4, <1>5, <1>6, <1>7, Next1Is DEF SameNames
<1>9. \A j \in Ids : /\ Total(m.balance[j], Owners) + Minted(l, j) = Total(l.balance[j], Owners) + Minted(m, j)
                     /\ m.asset[j] # None => m.asset[j].minted <= CapOf(m.asset[j])
  <2> TAKE j \in Ids
  <2>1. Minted(m, j) = Minted(l, j)  BY <1>8 DEF Minted, SameNames
  <2>2. Total(m.balance[j], Owners) = Total(l.balance[j], Owners)  BY <1>5, <1>6, <1>8
  <2> QED  BY <1>8, <2>1, <2>2 DEF Supplied, SameNames
<1>10. Supplied(m) /\ Named(m)  BY <1>8, <1>9, SupplyKeeps, NamesKeep
<1>11. Kept(l, m, at)  BY <1>8 DEF Kept, SameNames
<1> QED  BY <1>2, <1>3, <1>4, <1>8, <1>10, <1>11 DEF Transfer

\* A mint adds as much to the supply as to its owner, within the cap.
LEMMA MintIs ==
  ASSUME NEW l \in Ledgers, Supplied(l), Named(l), NEW owner \in Owners,
         NEW i \in Deployed(l), NEW n \in Amounts, NEW at, MintAllowed(l, owner, i, n)
  PROVE  LET m == Mint(l, owner, i, n)
         IN m \in Ledgers /\ Supplied(m) /\ Named(m) /\ Kept(l, m, at)
<1>1. /\ i \in Ids /\ n \in Nat /\ l.asset[i] \in Assets /\ l.asset[i] # None
      /\ l.asset[i].policy \notin {"inscription", "progressive"} /\ l.asset[i].minted + n <= Cap
  BY ReaderConstants DEF Deployed, MintAllowed, Ledgers
<1>2. PICK a : a = [l.asset[i] EXCEPT !.minted = l.asset[i].minted + n]  OBVIOUS
<1>3. /\ a \in Assets /\ a # None /\ a.minted = l.asset[i].minted + n /\ l.asset[i].minted \in Nat
      /\ a.policy = l.asset[i].policy /\ a.symbol = l.asset[i].symbol
  <2>1. a \in Assets /\ l.asset[i].minted \in Nat  BY <1>1, <1>2 DEF Assets
  <2> QED  BY <1>1, <1>2, <2>1, LedgerConstants DEF Assets
<1>4. PICK d : d = [l EXCEPT !.asset = [l.asset EXCEPT ![i] = a]]  OBVIOUS
<1>5. PICK c : c = Credit(d, i, owner, n)  OBVIOUS
<1>6. PICK m : m = Next1(c, owner)  OBVIOUS
<1>7. /\ d \in Ledgers /\ d.asset = [l.asset EXCEPT ![i] = a] /\ d.symbols = l.symbols /\ d.ticket = l.ticket
      /\ d.inscriptions = l.inscriptions /\ d.next = l.next /\ d.seq = l.seq /\ d.balance = l.balance
  BY <1>1, <1>3, <1>4 DEF Ledgers
<1>8. /\ c \in Ledgers /\ SameNames(d, c) /\ c.ticket = d.ticket /\ c.seq = d.seq
      /\ \A j \in Ids : Total(c.balance[j], Owners) = Total(d.balance[j], Owners) + (IF j = i THEN n ELSE 0)
  BY <1>1, <1>5, <1>7, CreditIs
<1>9. c.seq[owner] + 1 \in 0..MaxSeq
  BY <1>7, <1>8, LedgerConstants DEF MintAllowed, Known, Ledgers
<1>10. m \in Ledgers /\ SameNames(d, m) /\ m.ticket = l.ticket /\ m.balance = c.balance
  BY <1>6, <1>7, <1>8, <1>9, Next1Is DEF SameNames
<1>11. m = Mint(l, owner, i, n)  BY <1>2, <1>4, <1>5, <1>6 DEF Mint
<1>12. \A j \in Ids : m.asset[j] = IF j = i THEN a ELSE l.asset[j]
  BY <1>1, <1>7, <1>10 DEF Ledgers, SameNames
<1>13. Supplied(m)
  <2>1. \A j \in Ids : m.asset[j] # None => m.asset[j].minted <= CapOf(m.asset[j])
    BY <1>1, <1>3, <1>12 DEF Supplied, CapOf
  <2>2. \A j \in Ids : Total(m.balance[j], Owners) + Minted(l, j) = Total(l.balance[j], Owners) + Minted(m, j)
    <3> TAKE j \in Ids
    <3>1. Minted(m, j) = Minted(l, j) + (IF j = i THEN n ELSE 0)
      <4>1. Minted(l, j) \in Nat  BY HoldingType
      <4> QED  BY <1>1, <1>3, <1>12, <4>1 DEF Minted
    <3>2. Total(m.balance[j], Owners) = Total(l.balance[j], Owners) + (IF j = i THEN n ELSE 0)
      BY <1>7, <1>8, <1>10
    <3>3. Total(l.balance[j], Owners) \in Nat /\ Minted(l, j) \in Nat  BY HoldingType
    <3> QED  BY <1>1, <3>1, <3>2, <3>3
  <2> QED  BY <1>10, <2>1, <2>2, SupplyKeeps
<1>14. Named(m)
  <2>1. Deployed(m) = Deployed(l)  BY <1>1, <1>3, <1>12 DEF Deployed
  <2>2. \A j \in Ids : m.asset[j].policy = l.asset[j].policy /\ m.asset[j].symbol = l.asset[j].symbol
    BY <1>3, <1>12
  <2>3. \A j \in Deployed(l) : l.asset[j].policy = "inscription" => m.asset[j].minted = l.asset[j].minted
    BY <1>1, <1>12 DEF Deployed
  <2>4. m.symbols = l.symbols /\ m.inscriptions = l.inscriptions /\ m.next = l.next
    BY <1>7, <1>10 DEF SameNames
  <2>5. \A j \in Deployed(m) :
          IF m.asset[j].policy = "inscription"
          THEN m.inscriptions[j] \in 1..(m.next - 1) /\ m.asset[j].minted = 1
          ELSE m.symbols[m.asset[j].symbol] = j /\ m.asset[j].symbol \in Symbols
    BY <2>1, <2>2, <2>3, <2>4 DEF Named, NamesConsistent, Deployed
  <2>6. \A x \in Symbols : m.symbols[x] # None =>
          m.symbols[x] \in Deployed(m) /\ m.asset[m.symbols[x]].symbol = x
    BY <2>1, <2>2, <2>4 DEF Named, NamesConsistent, Deployed
  <2>7. \A j \in Ids : m.inscriptions[j] # 0 => j \in Deployed(m) /\ m.asset[j].policy = "inscription"
    BY <2>1, <2>2, <2>4 DEF Named
  <2>8. LET inscribed == {j \in Ids : m.inscriptions[j] # 0}
        IN /\ m.next = 1 + Cardinality(inscribed)
           /\ \A j, k \in inscribed : m.inscriptions[j] = m.inscriptions[k] => j = k
    BY <2>4 DEF Named, NamesConsistent
  <2> QED  BY <2>5, <2>6, <2>7, <2>8 DEF Named, NamesConsistent
<1>15. Kept(l, m, at)
  BY <1>1, <1>3, <1>10, <1>12 DEF Kept, Progressive, Deployed
<1> QED  BY <1>10, <1>11, <1>13, <1>14, <1>15

\* An inscription takes the next number, one unit, and its creator holds it.
LEMMA InscribeIs ==
  ASSUME NEW l \in Ledgers, Supplied(l), Named(l), NEW owner \in Owners, NEW at, InscribeAllowed(l, owner)
  PROVE  LET m == Inscribe(l, owner)
         IN m \in Ledgers /\ Supplied(m) /\ Named(m) /\ Kept(l, m, at)
<1>1. PICK i : i = <<owner, l.seq[owner]>>  OBVIOUS
<1>2. PICK a : a = Asset("inscription", None, 1, None)  OBVIOUS
<1>3. i \in Ids /\ l.asset[i] = None /\ l.seq[owner] + 1 \in 0..MaxSeq
  <2>1. l.seq[owner] \in 0..MaxSeq  BY DEF Ledgers
  <2> QED  BY <1>1, <2>1, LedgerConstants DEF InscribeAllowed, NewAsset, Ids
<1>4. a \in Assets /\ a # None /\ a.minted = 1 /\ a.policy = "inscription"
  <2>1. a \in Assets  BY <1>2 DEF Assets, Asset
  <2> QED  BY <1>2, <2>1, LedgerConstants DEF Asset
<1>n. l.next \in Nat \ {0} /\ l.next + 1 \in Nat \ {0}
  <2>1. l.next \in Nat \ {0}  BY DEF Ledgers
  <2> QED  BY <2>1
<1>5. PICK d : d = [l EXCEPT !.asset = [l.asset EXCEPT ![i] = a],
                             !.inscriptions = [l.inscriptions EXCEPT ![i] = l.next], !.next = l.next + 1]
  OBVIOUS
<1>6. PICK c : c = Credit(d, i, owner, 1)  OBVIOUS
<1>7. PICK m : m = Next1(c, owner)  OBVIOUS
<1>8. /\ d \in Ledgers /\ d.asset = [l.asset EXCEPT ![i] = a] /\ d.symbols = l.symbols /\ d.ticket = l.ticket
      /\ d.inscriptions = [l.inscriptions EXCEPT ![i] = l.next] /\ d.next = l.next + 1 /\ d.seq = l.seq
      /\ d.balance = l.balance
  <2>1. /\ [l.asset EXCEPT ![i] = a] \in [Ids -> Assets \cup {None}]
        /\ [l.inscriptions EXCEPT ![i] = l.next] \in [Ids -> Nat]
    BY <1>3, <1>4, <1>n DEF Ledgers
  <2> QED  BY <1>5, <1>n, <2>1 DEF Ledgers
<1>9. /\ c \in Ledgers /\ SameNames(d, c) /\ c.ticket = d.ticket /\ c.seq = d.seq
      /\ \A j \in Ids : Total(c.balance[j], Owners) = Total(d.balance[j], Owners) + (IF j = i THEN 1 ELSE 0)
  BY <1>3, <1>6, <1>8, CreditIs
<1>10. m \in Ledgers /\ SameNames(d, m) /\ m.ticket = l.ticket /\ m.balance = c.balance
  BY <1>3, <1>7, <1>8, <1>9, Next1Is DEF SameNames
<1>11. m = Inscribe(l, owner)  BY <1>1, <1>2, <1>5, <1>6, <1>7 DEF Inscribe
<1>12. /\ \A j \in Ids : m.asset[j] = IF j = i THEN a ELSE l.asset[j]
       /\ \A j \in Ids : m.inscriptions[j] = IF j = i THEN l.next ELSE l.inscriptions[j]
       /\ m.next = l.next + 1 /\ m.symbols = l.symbols
  BY <1>3, <1>8, <1>10 DEF Ledgers, SameNames
<1>13. Supplied(m)
  <2>1. \A j \in Ids : m.asset[j] # None => m.asset[j].minted <= CapOf(m.asset[j])
    BY <1>3, <1>4, <1>12 DEF Supplied, CapOf
  <2>2. \A j \in Ids : Total(m.balance[j], Owners) + Minted(l, j) = Total(l.balance[j], Owners) + Minted(m, j)
    <3> TAKE j \in Ids
    <3>1. Minted(m, j) = Minted(l, j) + (IF j = i THEN 1 ELSE 0)
      <4>1. Minted(l, j) \in Nat  BY HoldingType
      <4> QED  BY <1>3, <1>4, <1>12, <4>1 DEF Minted
    <3>2. Total(m.balance[j], Owners) = Total(l.balance[j], Owners) + (IF j = i THEN 1 ELSE 0)
      BY <1>8, <1>9, <1>10
    <3>3. Total(l.balance[j], Owners) \in Nat /\ Minted(l, j) \in Nat  BY HoldingType
    <3> QED  BY <3>1, <3>2, <3>3
  <2> QED  BY <1>10, <2>1, <2>2, SupplyKeeps
<1>14. Deployed(m) = Deployed(l) \cup {i} /\ i \notin Deployed(l)  BY <1>3, <1>4, <1>12 DEF Deployed
<1>16. Named(m)
  <2>1. \A j \in Deployed(m) :
          IF m.asset[j].policy = "inscription"
          THEN m.inscriptions[j] \in 1..(m.next - 1) /\ m.asset[j].minted = 1
          ELSE m.symbols[m.asset[j].symbol] = j /\ m.asset[j].symbol \in Symbols
    <3> TAKE j \in Deployed(m)
    <3>1. CASE j = i  BY <1>3, <1>4, <1>12, <1>n, <3>1
    <3>2. CASE j # i
      <4>1. /\ j \in Deployed(l) /\ j \in Ids /\ m.asset[j] = l.asset[j]
            /\ m.inscriptions[j] = l.inscriptions[j]
        BY <1>12, <1>14, <3>2 DEF Deployed
      <4>2. CASE l.asset[j].policy = "inscription"
        <5>1. l.inscriptions[j] \in 1..(l.next - 1) /\ l.asset[j].minted = 1
          BY <4>1, <4>2 DEF Named, NamesConsistent
        <5> QED  BY <1>12, <1>n, <4>1, <4>2, <5>1
      <4>3. CASE l.asset[j].policy # "inscription"
        <5>1. l.symbols[l.asset[j].symbol] = j /\ l.asset[j].symbol \in Symbols
          BY <4>1, <4>3 DEF Named, NamesConsistent
        <5> QED  BY <1>12, <4>1, <4>3, <5>1
      <4> QED  BY <4>2, <4>3
    <3> QED  BY <3>1, <3>2
  <2>2. \A x \in Symbols : m.symbols[x] # None =>
          m.symbols[x] \in Deployed(m) /\ m.asset[m.symbols[x]].symbol = x
    <3> TAKE x \in Symbols
    <3>1. SUFFICES ASSUME l.symbols[x] # None
                   PROVE  l.symbols[x] \in Deployed(m) /\ m.asset[l.symbols[x]].symbol = x
      BY <1>12
    <3>2. l.symbols[x] \in Deployed(l) /\ l.asset[l.symbols[x]].symbol = x
      BY <3>1 DEF Named, NamesConsistent
    <3>3. l.symbols[x] \in Ids /\ l.symbols[x] # i  BY <1>14, <3>2 DEF Deployed
    <3> QED  BY <1>12, <1>14, <3>2, <3>3
  <2>3. \A j \in Ids : m.inscriptions[j] # 0 => j \in Deployed(m) /\ m.asset[j].policy = "inscription"
    <3> TAKE j \in Ids
    <3>1. CASE j = i  BY <1>4, <1>12, <1>14, <3>1
    <3>2. CASE j # i  BY <1>12, <1>14, <3>2 DEF Named
    <3> QED  BY <3>1, <3>2
  <2>4. LET inscribed == {j \in Ids : m.inscriptions[j] # 0}
        IN /\ m.next = 1 + Cardinality(inscribed)
           /\ \A j, k \in inscribed : m.inscriptions[j] = m.inscriptions[k] => j = k
    <3> DEFINE L == {j \in Ids : l.inscriptions[j] # 0}
               M == {j \in Ids : m.inscriptions[j] # 0}
    <3>1. M = L \cup {i} /\ i \notin L
      <4>1. i \notin L  BY <1>14 DEF Named
      <4> QED  BY <1>3, <1>12, <1>n, <4>1
    <3>2. IsFiniteSet(L)
      <4>1. IsFiniteSet(0..MaxSeq)
        <5>1. 0 \in Int /\ MaxSeq \in Int  BY LedgerConstants
        <5> QED  BY <5>1, FS_Interval
      <4>2. IsFiniteSet(Ids)  BY <4>1, FS_Product, LedgerConstants DEF Ids
      <4> QED  BY <4>2, FS_Subset
    <3>3. l.next = 1 + Cardinality(L)  BY DEF Named, NamesConsistent
    <3>4. \A j \in L : l.inscriptions[j] \in Nat /\ l.inscriptions[j] < l.next
      <4> TAKE j \in L
      <4>1. j \in Deployed(l) /\ l.asset[j].policy = "inscription"  BY DEF Named
      <4>2. l.inscriptions[j] \in 1..(l.next - 1)  BY <4>1 DEF Named, NamesConsistent
      <4> QED  BY <1>n, <4>2
    <3>5. \A j, k \in M : m.inscriptions[j] = m.inscriptions[k] => j = k
      <4> TAKE j, k \in M
      <4>1. SUFFICES ASSUME m.inscriptions[j] = m.inscriptions[k] PROVE j = k  OBVIOUS
      <4>2. CASE j \in L /\ k \in L
        <5>1. l.inscriptions[j] = l.inscriptions[k]  BY <1>12, <3>1, <4>1, <4>2
        <5> QED  BY <4>2, <5>1 DEF Named, NamesConsistent
      <4>3. CASE j \notin L /\ k \notin L
        <5> HIDE DEF L, M
        <5> QED  BY <3>1, <4>3
      <4>4. CASE j \in L /\ k \notin L
        <5>1. k = i
          <6> HIDE DEF L, M
          <6> QED  BY <3>1, <4>4
        <5>2. m.inscriptions[j] = l.inscriptions[j] /\ m.inscriptions[k] = l.next
          BY <1>12, <3>1, <4>4, <5>1
        <5>3. l.inscriptions[j] = l.next  BY <4>1, <5>2
        <5>4. l.inscriptions[j] < l.next  BY <3>4, <4>4
        <5> QED  BY <1>n, <5>3, <5>4
      <4>5. CASE j \notin L /\ k \in L
        <5>1. j = i
          <6> HIDE DEF L, M
          <6> QED  BY <3>1, <4>5
        <5>2. m.inscriptions[k] = l.inscriptions[k] /\ m.inscriptions[j] = l.next
          BY <1>12, <3>1, <4>5, <5>1
        <5>3. l.inscriptions[k] = l.next  BY <4>1, <5>2
        <5>4. l.inscriptions[k] < l.next  BY <3>4, <4>5
        <5> QED  BY <1>n, <5>3, <5>4
      <4> QED  BY <4>2, <4>3, <4>4, <4>5
    <3> HIDE DEF L
    <3>6. Cardinality(L \cup {i}) = Cardinality(L) + 1 /\ Cardinality(L) \in Nat
      BY <3>1, <3>2, FS_AddElement, FS_CardinalityType
    <3>7. m.next = 1 + Cardinality(M)  BY <1>12, <3>1, <3>3, <3>6
    <3> QED  BY <3>5, <3>7
  <2> QED  BY <2>1, <2>2, <2>3, <2>4 DEF Named, NamesConsistent
<1>17. Kept(l, m, at)
  BY <1>3, <1>4, <1>8, <1>9, <1>10, <1>12 DEF Kept, Progressive, Deployed
<1> QED  BY <1>10, <1>11, <1>13, <1>16, <1>17

-----------------------------------------------------------------------------
(* What changes tickets: each leaves a ledger that is sound, with the same assets. *)

\* An offer locks what it takes from the seller.
LEMMA OfferIs ==
  ASSUME NEW l \in Ledgers, Supplied(l), Named(l), NEW owner \in Owners, NEW k \in Keys, NEW o \in Terms,
         NEW h \in Nat, OfferAllowed(l, owner, k, o, h)
  PROVE  LET m == Offer(l, owner, k, o, h)
         IN /\ m \in Ledgers /\ Supplied(m) /\ Named(m) /\ m.asset = l.asset
            /\ l.ticket[k] = None /\ m.ticket[k] = Ticket(owner, o, h) /\ Ticket(owner, o, h) \in Tickets
            /\ \A j \in Keys \ {k} : m.ticket[j] = l.ticket[j]
<1>1. /\ o.asset \in Ids /\ o.amount \in Nat /\ o.amount <= l.balance[o.asset][owner] /\ l.ticket[k] = None
      /\ l.seq[owner] + 1 \in 0..MaxSeq
  <2>1. l.seq[owner] \in 0..MaxSeq  BY DEF Ledgers
  <2> QED  BY <2>1, LedgerConstants DEF OfferAllowed, Known, Terms
<1>2. PICK t : t = Ticket(owner, o, h)  OBVIOUS
<1>3. t \in Tickets /\ t # None /\ t.status = "locked" /\ t.offer = o
  <2>1. t \in Tickets  BY <1>2 DEF Ticket, Tickets
  <2> QED  BY <1>2, <2>1, LedgerConstants DEF Ticket
<1>4. PICK d : d = Debit(l, o.asset, owner, o.amount)  OBVIOUS
<1>5. PICK e : e = [d EXCEPT !.ticket = [d.ticket EXCEPT ![k] = t]]  OBVIOUS
<1>6. PICK m : m = Next1(e, owner)  OBVIOUS
<1>7. /\ d \in Ledgers /\ SameNames(l, d) /\ d.ticket = l.ticket /\ d.seq = l.seq
      /\ \A j \in Ids : Total(l.balance[j], Owners) =
                          Total(d.balance[j], Owners) + (IF j = o.asset THEN o.amount ELSE 0)
  BY <1>1, <1>4, DebitIs
<1>8. /\ e \in Ledgers /\ SameNames(d, e) /\ e.seq = d.seq /\ e.balance = d.balance
      /\ e.ticket = [d.ticket EXCEPT ![k] = t]
  BY <1>3, <1>5, <1>7 DEF Ledgers, SameNames
<1>9. /\ m \in Ledgers /\ SameNames(l, m) /\ m.ticket = [l.ticket EXCEPT ![k] = t] /\ m.balance = d.balance
  BY <1>1, <1>6, <1>7, <1>8, Next1Is DEF SameNames
<1>10. m = Offer(l, owner, k, o, h)  BY <1>2, <1>4, <1>5, <1>6 DEF Offer
<1>11. m.ticket[k] = t /\ \A j \in Keys \ {k} : m.ticket[j] = l.ticket[j]  BY <1>9 DEF Ledgers
<1>12. k \in Locked(m) /\ k \notin Locked(l)  BY <1>1, <1>3, <1>11 DEF Locked
<1>13. IsFiniteSet(Locked(m))
  <2>1. Locked(m) = Locked(l) \cup {k}  BY <1>11, <1>12 DEF Locked
  <2> QED  BY <2>1, FS_AddElement DEF Supplied
<1>14. Supplied(m)
  <2>1. ASSUME NEW i \in Ids PROVE Total(m.balance[i], Owners) + LockedOf(m, i) = Minted(m, i)
    <3>1. LockedOf(m, i) = LockedOf(l, i) + (IF t.offer.asset = i THEN t.offer.amount ELSE 0)
      <4>1. AlikeBut(k, m, l)  BY <1>11 DEF AlikeBut
      <4>2. Frees(m, l, k, i)
        BY <1>9, <1>12, <1>13, <4>1, HeldFrees
      <4> QED  BY <1>11, <4>2 DEF Part, Frees
    <3>2. Total(l.balance[i], Owners) =
            Total(m.balance[i], Owners) + (IF i = o.asset THEN o.amount ELSE 0)
      BY <1>7, <1>9
    <3>3. Total(l.balance[i], Owners) + LockedOf(l, i) = Minted(l, i) /\ Minted(m, i) = Minted(l, i)
      BY <1>9 DEF Supplied, Minted, SameNames
    <3>4. LockedOf(l, i) \in Nat /\ Total(m.balance[i], Owners) \in Nat
      BY <1>9, HeldIs, HoldingType DEF Supplied
    <3> QED  BY <1>1, <1>3, <3>1, <3>2, <3>3, <3>4
  <2>2. \A i \in Ids : m.asset[i] # None => m.asset[i].minted <= CapOf(m.asset[i])
    BY <1>9 DEF Supplied, SameNames
  <2> QED  BY <1>13, <2>1, <2>2 DEF Supplied
<1>15. Named(m)  BY <1>9, NamesKeep
<1> QED  BY <1>1, <1>2, <1>3, <1>9, <1>10, <1>11, <1>14, <1>15 DEF SameNames

\* The ledger in which a ticket's tokens went to an account, once.
Freed(l, k, to, s) ==
  [Credit(l, l.ticket[k].offer.asset, to, l.ticket[k].offer.amount) EXCEPT !.ticket[k].status = s]
\* The ledger stays sound, and only that ticket changes.
LEMMA FreedIs ==
  ASSUME NEW l \in Ledgers, Supplied(l), Named(l), NEW k \in Locked(l), NEW to \in Owners,
         NEW s \in {"released", "settled"},
         NEW m, m = Freed(l, k, to, s)
  PROVE  /\ m \in Ledgers /\ Supplied(m) /\ Named(m) /\ m.asset = l.asset
         /\ m.ticket[k] \in Tickets /\ m.ticket[k] # None /\ m.ticket[k].status = s
         /\ m.ticket[k].created = l.ticket[k].created /\ m.ticket[k].offer = l.ticket[k].offer
         /\ \A j \in Keys \ {k} : m.ticket[j] = l.ticket[j]
<1>1. k \in Keys /\ l.ticket[k] \in Tickets  BY DEF Locked, Ledgers
<1>2. PICK i : i = l.ticket[k].offer.asset  OBVIOUS
<1>3. PICK n : n = l.ticket[k].offer.amount  OBVIOUS
<1>4. i \in Ids /\ n \in Nat  BY <1>1, <1>2, <1>3 DEF Tickets, Terms
<1>5. PICK t : t = [l.ticket[k] EXCEPT !.status = s]  OBVIOUS
<1>6. t \in Tickets /\ t # None /\ t.status = s /\ t.created = l.ticket[k].created /\ t.offer = l.ticket[k].offer
  <2>1. t \in Tickets /\ t.status = s /\ t.created = l.ticket[k].created /\ t.offer = l.ticket[k].offer
    BY <1>1, <1>5 DEF Tickets
  <2> QED  BY <2>1, LedgerConstants
<1>7. PICK c : c = Credit(l, i, to, n)  OBVIOUS
<1>8. /\ c \in Ledgers /\ SameNames(l, c) /\ c.ticket = l.ticket
      /\ \A j \in Ids : Total(c.balance[j], Owners) = Total(l.balance[j], Owners) + (IF j = i THEN n ELSE 0)
  BY <1>4, <1>7, CreditIs
<1>9. m = [c EXCEPT !.ticket = [c.ticket EXCEPT ![k] = t]]
  <2>1. m = [c EXCEPT !.ticket[k].status = s]  BY <1>2, <1>3, <1>7 DEF Freed
  <2> QED  BY <1>5, <1>8, <2>1
<1>10. m \in Ledgers /\ SameNames(l, m) /\ m.balance = c.balance /\ m.ticket = [l.ticket EXCEPT ![k] = t]
  <2>1. [c.ticket EXCEPT ![k] = t] \in [Keys -> Tickets \cup {None}]  BY <1>1, <1>6, <1>8 DEF Ledgers
  <2> QED  BY <1>8, <1>9, <2>1 DEF Ledgers, SameNames
<1>11. m.ticket[k] = t /\ \A j \in Keys \ {k} : m.ticket[j] = l.ticket[j]  BY <1>1, <1>10 DEF Ledgers
<1>12. k \notin Locked(m) /\ AlikeBut(k, l, m)  BY <1>6, <1>11 DEF Locked, AlikeBut
<1>13. IsFiniteSet(Locked(l))  BY DEF Supplied
<1>14. Locked(m) = Locked(l) \ {k} /\ IsFiniteSet(Locked(m))
  <2>2. Locked(m) = Locked(l) \ {k}  BY <1>4, <1>10, <1>11, <1>12, <1>13, HeldFrees
  <2> QED  BY <1>13, <2>2, FS_Subset
<1>15. Supplied(m)
  <2>1. ASSUME NEW j \in Ids PROVE Total(m.balance[j], Owners) + LockedOf(m, j) = Minted(m, j)
    <3>1. LockedOf(l, j) = LockedOf(m, j) + (IF j = i THEN n ELSE 0)
      <4>1. Frees(l, m, k, j)
        BY <1>10, <1>11, <1>12, <1>13, HeldFrees
      <4> QED  BY <1>2, <1>3, <4>1 DEF Part, Frees
    <3>2. Total(m.balance[j], Owners) = Total(l.balance[j], Owners) + (IF j = i THEN n ELSE 0)
      BY <1>8, <1>10
    <3>3. Total(l.balance[j], Owners) + LockedOf(l, j) = Minted(l, j) /\ Minted(m, j) = Minted(l, j)
      BY <1>10 DEF Supplied, Minted, SameNames
    <3>4. LockedOf(m, j) \in Nat /\ Total(l.balance[j], Owners) \in Nat
      BY <1>10, <1>14, HeldIs, HoldingType
    <3>5. PICK g \in Nat : g = IF j = i THEN n ELSE 0  BY <1>4
    <3>6. LockedOf(l, j) = LockedOf(m, j) + g /\ Total(m.balance[j], Owners) = Total(l.balance[j], Owners) + g
      BY <3>1, <3>2, <3>5
    <3>7. PICK x \in Nat, y \in Nat : x = Total(l.balance[j], Owners) /\ y = LockedOf(m, j)  BY <3>4
    <3>8. LockedOf(l, j) = y + g /\ Total(m.balance[j], Owners) = x + g  BY <3>6, <3>7
    <3>9. x + (y + g) = Minted(m, j)  BY <3>3, <3>7, <3>8
    <3>10. (x + g) + y = x + (y + g)  OBVIOUS
    <3> QED  BY <3>7, <3>8, <3>9, <3>10
  <2>2. \A j \in Ids : m.asset[j] # None => m.asset[j].minted <= CapOf(m.asset[j])
    BY <1>10 DEF Supplied, SameNames
  <2> QED  BY <1>14, <2>1, <2>2 DEF Supplied
<1>16. Named(m)  BY <1>10, NamesKeep
<1> QED  BY <1>5, <1>6, <1>10, <1>11, <1>15, <1>16 DEF SameNames

\* A block that starts leaves the ledger sound.
LEMMA BlockStartSound ==
  ASSUME NEW l \in Ledgers, Supplied(l), Named(l), NEW h
  PROVE  Supplied(BlockStart(l, h)) /\ Named(BlockStart(l, h))
<1>1. PICK m : m = BlockStart(l, h)  OBVIOUS
<1>2. IsFiniteSet(Locked(l))  BY DEF Supplied
<1>3. /\ m \in Ledgers /\ Locked(m) = Locked(l) \ Expired(l, h) /\ SameNames(l, m)
      /\ \A i \in Ids : Total(m.balance[i], Owners) + LockedOf(m, i) = Total(l.balance[i], Owners) + LockedOf(l, i)
  BY <1>1, <1>2, BlockStartIs DEF SameNames
<1>4. IsFiniteSet(Locked(m))  BY <1>2, <1>3, FS_Subset
<1>5. Supplied(m)  BY <1>3, <1>4 DEF Supplied, SameNames, Minted
<1>6. Named(m)  BY <1>3, NamesKeep
<1> QED  BY <1>1, <1>5, <1>6

-----------------------------------------------------------------------------
(* Lots. *)

\* Lots of the same size: how many make an amount, and that below the cap one more fits.
LEMMA LotFacts ==
  ASSUME NEW n \in Nat
  PROVE  /\ Lot * n \in Nat /\ (Lot * n) \div Lot = n /\ (Lot * n) % Lot = 0 /\ Lot * n + Lot = Lot * (n + 1)
         /\ Lot * n <= Cap /\ Lot * n # Cap => n + 1 \in Lots /\ Lot * n + Lot <= Cap
<1>1. Lot \in Nat \ {0} /\ Cap \in Nat /\ Cap % Lot = 0  BY LedgerConstants
<1>2. PICK c : c = Cap \div Lot  OBVIOUS
<1>3. c \in Nat /\ Cap = Lot * c  BY <1>1, <1>2
<1>4. Lot * n \in Nat /\ (Lot * n) \div Lot = n  BY <1>1
<1>5. (Lot * n) % Lot = 0  BY <1>1
<1>6. Lot * n + Lot = Lot * (n + 1)  BY <1>1
<1>7. ASSUME Lot * n <= Cap, Lot * n # Cap PROVE n + 1 \in Lots /\ Lot * n + Lot <= Cap
  <2>1. Lot * n < Lot * c  BY <1>1, <1>3, <1>4, <1>7
  <2>2. n + 1 <= c  BY <1>1, <1>3, <2>1
  <2>3. Lot * n + Lot <= Lot * c  BY <1>1, <1>3, <2>2
  <2>4. n + 1 \in 1..c  BY <1>3, <2>2
  <2> QED  BY <1>2, <1>3, <2>3, <2>4 DEF Lots
<1> QED  BY <1>4, <1>5, <1>6, <1>7

\* What is minted in lots is a number of them, and the right to the next is there until the cap.
Parcelled(l) ==
  \A i \in Progressive(l) : /\ \E n \in Nat : l.asset[i].minted = Lot * n
                            /\ l.asset[i].minted <= Cap
                            /\ l.asset[i].right = None <=> l.asset[i].minted = Cap

\* An asset whose right was used.
Used(a, b, canonical, at) ==
  /\ b.policy = a.policy /\ b.symbol = a.symbol
  /\ b.minted = a.minted + (IF canonical THEN Lot ELSE 0)
  /\ b.right = IF b.minted = Cap THEN None ELSE at

\* A use of rights: the used ones move, and a canonical use mints its lot to the signer.
LEMMA UseRightsIs ==
  ASSUME NEW l \in Ledgers, Supplied(l), Named(l), Parcelled(l), NEW signer \in Owners, NEW at \in Rights, NEW pays,
         NEW used, \A i \in used : i \in Progressive(l) /\ l.asset[i].right # None
  PROVE  LET m == UseRights(l, used, signer, pays, at)
         IN /\ m \in Ledgers /\ Supplied(m) /\ Named(m) /\ m.ticket = l.ticket
            /\ \A i \in Ids : IF i \in used THEN /\ m.asset[i] \in Assets /\ m.asset[i] # None
                                                 /\ Used(l.asset[i], m.asset[i], Canonical(l, used, pays), at)
                              ELSE m.asset[i] = l.asset[i]
<1>1. PICK m : m = UseRights(l, used, signer, pays, at)  OBVIOUS
<1>2. PICK canonical \in BOOLEAN : canonical <=> Canonical(l, used, pays)  OBVIOUS
<1>3. PICK next : next = [i \in Ids |->
          IF i \in used
          THEN [[l.asset[i] EXCEPT !.minted = @ + (IF canonical THEN Lot ELSE 0)] EXCEPT
                  !.right = IF l.asset[i].minted + (IF canonical THEN Lot ELSE 0) = Cap THEN None ELSE at]
          ELSE l.asset[i]]
  OBVIOUS
<1>4. \A i \in used : /\ i \in Ids /\ l.asset[i] \in Assets /\ l.asset[i] # None
                      /\ l.asset[i].minted \in Nat /\ l.asset[i].policy = "progressive"
                      /\ l.asset[i].minted <= Cap /\ l.asset[i].minted + Lot <= Cap
  <2> TAKE i \in used
  <2>1. i \in Progressive(l) /\ l.asset[i].right # None  OBVIOUS
  <2>2. i \in Ids /\ l.asset[i] # None /\ l.asset[i].policy = "progressive" /\ l.asset[i] \in Assets
    BY <2>1 DEF Progressive, Deployed, Ledgers
  <2>3. PICK n \in Nat : l.asset[i].minted = Lot * n  BY <2>1 DEF Parcelled
  <2>4. Lot * n <= Cap /\ Lot * n # Cap  BY <2>1, <2>3 DEF Parcelled
  <2> QED  BY <2>2, <2>3, <2>4, LotFacts
<1>5. Lot \in Nat  BY LedgerConstants
<1>6. \A i \in used : next[i] \in Assets /\ next[i] # None /\ Used(l.asset[i], next[i], canonical, at)
  <2> TAKE i \in used
  <2>1. i \in Ids /\ l.asset[i] \in Assets /\ l.asset[i].minted \in Nat  BY <1>4
  <2>2. PICK g \in Nat : g = IF canonical THEN Lot ELSE 0  BY <1>5
  <2>3. PICK w : w = IF l.asset[i].minted + g = Cap THEN None ELSE at  OBVIOUS
  <2>4. next[i] = [[l.asset[i] EXCEPT !.minted = @ + g] EXCEPT !.right = w]  BY <1>3, <2>1, <2>2, <2>3
  <2>5. /\ next[i].policy = l.asset[i].policy /\ next[i].symbol = l.asset[i].symbol
        /\ next[i].minted = l.asset[i].minted + g /\ next[i].right = w /\ w \in Rights \cup {None}
    BY <2>1, <2>3, <2>4 DEF Assets
  <2>6. next[i] \in Assets
    <3>1. PICK a \in Assets : a = l.asset[i]  BY <2>1
    <3>2. PICK n \in Nat : n = a.minted + g  BY <2>1, <3>1
    <3>3. next[i] = [[a EXCEPT !.minted = n] EXCEPT !.right = w]  BY <2>4, <3>1, <3>2
    <3>4. w \in Rights \cup {None}  BY <2>5
    <3> QED  BY <3>1, <3>3, <3>4 DEF Assets
  <2> QED  BY <2>2, <2>3, <2>5, <2>6, LedgerConstants DEF Used
<1>7. next \in [Ids -> Assets \cup {None}]
  <2>1. \A i \in Ids : next[i] \in Assets \cup {None}  BY <1>3, <1>6 DEF Ledgers
  <2> QED  BY <1>3, <2>1
<1>8. m.asset = next
  <2>1. CASE canonical
    <3>1. \A i \in used : next[i] = [[l.asset[i] EXCEPT !.minted = @ + Lot] EXCEPT
                                       !.right = IF l.asset[i].minted + Lot = Cap THEN None ELSE at]
      BY <1>3, <1>4, <2>1
    <3>2. \A i \in used : [l.asset[i] EXCEPT !.minted = @ + Lot].minted = l.asset[i].minted + Lot
      BY <1>4 DEF Assets
    <3>3. m.asset = [i \in Ids |->
                       IF i \in used
                       THEN [[l.asset[i] EXCEPT !.minted = @ + Lot] EXCEPT
                               !.right = IF [l.asset[i] EXCEPT !.minted = @ + Lot].minted = Cap THEN None ELSE at]
                       ELSE l.asset[i]]
      BY <1>1, <1>2, <2>1 DEF UseRights, Renewed, Ledgers
    <3>4. \A i \in Ids : m.asset[i] = next[i]  BY <1>3, <3>1, <3>2, <3>3
    <3> QED  BY <1>3, <3>3, <3>4
  <2>2. CASE ~canonical
    <3>1. \A i \in used : next[i] = [l.asset[i] EXCEPT !.right = IF l.asset[i].minted = Cap THEN None ELSE at]
      <4> TAKE i \in used
      <4>1. l.asset[i].minted + 0 = l.asset[i].minted /\ l.asset[i] \in Assets /\ i \in Ids  BY <1>4
      <4> QED  BY <1>3, <2>2, <4>1 DEF Assets
    <3> QED  BY <1>1, <1>2, <1>3, <2>2, <3>1 DEF UseRights, Renewed, Ledgers
  <2> QED  BY <2>1, <2>2
<1>9. /\ m.ticket = l.ticket /\ m.symbols = l.symbols /\ m.inscriptions = l.inscriptions /\ m.next = l.next
      /\ m.seq = l.seq /\ m.multisigs = l.multisigs
      /\ m.balance = [i \in Ids |-> IF i \in used /\ canonical
                                    THEN [l.balance[i] EXCEPT ![signer] = @ + Lot] ELSE l.balance[i]]
  BY <1>1, <1>2 DEF UseRights, Ledgers
<1>10. ASSUME NEW i \in Ids
       PROVE  /\ m.balance[i] \in [Owners -> Nat]
              /\ Total(m.balance[i], Owners) =
                   Total(l.balance[i], Owners) + (IF i \in used /\ canonical THEN Lot ELSE 0)
  <2>1. l.balance[i] \in [Owners -> Nat]  BY DEF Ledgers
  <2>2. CASE i \in used /\ canonical
    <3>1. m.balance[i] = [l.balance[i] EXCEPT ![signer] = l.balance[i][signer] + Lot]  BY <1>9, <2>2
    <3>2. /\ m.balance[i] \in [Owners -> Nat] /\ m.balance[i][signer] = l.balance[i][signer] + Lot
          /\ \A o \in Owners \ {signer} : m.balance[i][o] = l.balance[i][o]
      BY <1>5, <2>1, <3>1
    <3>3. PICK f, g : f = l.balance[i] /\ g = m.balance[i]  OBVIOUS
    <3>4. IsFiniteSet(Owners) /\ \A o \in Owners : f[o] \in Nat  BY <3>3, HoldingType, LedgerConstants
    <3>5. g[signer] = f[signer] + Lot /\ \A o \in Owners \ {signer} : g[o] = f[o]  BY <3>2, <3>3
    <3>6. Total(g, Owners) = Total(f, Owners) + Lot  BY <1>5, <3>4, <3>5, SumGains
    <3> QED  BY <2>2, <3>2, <3>3, <3>6
  <2>3. CASE ~(i \in used /\ canonical)
    <3>1. m.balance[i] = l.balance[i]  BY <1>9, <2>3
    <3> QED  BY <2>1, <2>3, <3>1, HoldingType
  <2> QED  BY <2>2, <2>3
<1>11. m \in Ledgers
  <2>1. m.balance \in [Ids -> [Owners -> Nat]]  BY <1>9, <1>10
  <2>2. m = [seq |-> m.seq, asset |-> m.asset, balance |-> m.balance, multisigs |-> m.multisigs,
             ticket |-> m.ticket, symbols |-> m.symbols, inscriptions |-> m.inscriptions, next |-> m.next]
    BY <1>1 DEF UseRights, Ledgers
  <2> QED  BY <1>7, <1>8, <1>9, <2>1, <2>2 DEF Ledgers
<1>12. \A i \in Ids : IF i \in used THEN /\ m.asset[i] \in Assets /\ m.asset[i] # None
                                         /\ Used(l.asset[i], m.asset[i], canonical, at)
                      ELSE m.asset[i] = l.asset[i]
  BY <1>3, <1>6, <1>8
<1>13. Supplied(m)
  <2>1. \A i \in Ids : m.asset[i] # None => m.asset[i].minted <= CapOf(m.asset[i])
    <3> TAKE i \in Ids
    <3>1. CASE i \in used
      BY <1>4, <1>5, <1>12, <3>1 DEF Used, CapOf
    <3>2. CASE i \notin used  BY <1>12, <3>2 DEF Supplied
    <3> QED  BY <3>1, <3>2
  <2>2. \A i \in Ids : Total(m.balance[i], Owners) + Minted(l, i) = Total(l.balance[i], Owners) + Minted(m, i)
    <3> TAKE i \in Ids
    <3>1. PICK g \in Nat : g = IF i \in used /\ canonical THEN Lot ELSE 0  BY <1>5
    <3>2. Minted(m, i) = Minted(l, i) + g
      <4>1. Minted(l, i) \in Nat  BY HoldingType
      <4> QED  BY <1>4, <1>12, <3>1, <4>1 DEF Minted, Used
    <3>3. Total(m.balance[i], Owners) = Total(l.balance[i], Owners) + g  BY <1>10, <3>1
    <3>4. PICK x \in Nat, y \in Nat : x = Total(l.balance[i], Owners) /\ y = Minted(l, i)  BY HoldingType
    <3>5. (x + g) + y = x + (y + g)  OBVIOUS
    <3> QED  BY <3>2, <3>3, <3>4, <3>5
  <2> QED  BY <1>9, <1>11, <2>1, <2>2, SupplyKeeps
<1>14. Named(m)
  <2>1. Deployed(m) = Deployed(l)  BY <1>4, <1>12 DEF Deployed
  <2>2. \A j \in Ids : m.asset[j].policy = l.asset[j].policy /\ m.asset[j].symbol = l.asset[j].symbol
    BY <1>12 DEF Used
  <2>3. \A j \in Deployed(l) : l.asset[j].policy = "inscription" => m.asset[j].minted = l.asset[j].minted
    BY <1>4, <1>12 DEF Deployed
  <2>5. \A j \in Deployed(m) :
          IF m.asset[j].policy = "inscription"
          THEN m.inscriptions[j] \in 1..(m.next - 1) /\ m.asset[j].minted = 1
          ELSE m.symbols[m.asset[j].symbol] = j /\ m.asset[j].symbol \in Symbols
    BY <1>9, <2>1, <2>2, <2>3 DEF Named, NamesConsistent, Deployed
  <2>6. \A x \in Symbols : m.symbols[x] # None =>
          m.symbols[x] \in Deployed(m) /\ m.asset[m.symbols[x]].symbol = x
    BY <1>9, <2>1, <2>2 DEF Named, NamesConsistent, Deployed
  <2>7. \A j \in Ids : m.inscriptions[j] # 0 => j \in Deployed(m) /\ m.asset[j].policy = "inscription"
    BY <1>9, <2>1, <2>2 DEF Named
  <2>8. LET inscribed == {j \in Ids : m.inscriptions[j] # 0}
        IN /\ m.next = 1 + Cardinality(inscribed)
           /\ \A j, k \in inscribed : m.inscriptions[j] = m.inscriptions[k] => j = k
    BY <1>9 DEF Named, NamesConsistent
  <2> QED  BY <2>5, <2>6, <2>7, <2>8 DEF Named, NamesConsistent
<1>15. \A i \in Ids : IF i \in used THEN /\ m.asset[i] \in Assets /\ m.asset[i] # None
                                         /\ Used(l.asset[i], m.asset[i], Canonical(l, used, pays), at)
                      ELSE m.asset[i] = l.asset[i]
  BY <1>2, <1>12 DEF Used
<1> QED  BY <1>1, <1>9, <1>11, <1>13, <1>14, <1>15

-----------------------------------------------------------------------------
(* What a receipt may do to its block. *)

\* Tickets stay, a new one is of this height, and a quoted lot is as it was unless its ticket was created.
Stays(a, b, k, h) ==
  /\ a.ledger.ticket[k] # None => /\ b.ledger.ticket[k] # None
                                  /\ b.ledger.ticket[k].created = a.ledger.ticket[k].created
  /\ a.ledger.ticket[k] = None /\ b.ledger.ticket[k] # None => b.ledger.ticket[k].created = h
Moves(a, b, h) ==
  /\ b.hash = a.hash /\ a.created \subseteq b.created
  /\ \A k \in Keys : Stays(a, b, k, h)
  /\ \A i \in Ids : LotQuoted(a.ledger, i) /\ MintTicket(i, a.ledger.asset[i]) \notin b.created =>
                      b.ledger.asset[i] = a.ledger.asset[i]

\* What a block has of an earlier one, it has after each of its receipts.
LEMMA FollowsMoves ==
  ASSUME NEW c, NEW a, NEW b, NEW g \in Nat, NEW h \in Nat, g < h, Follows(c, a, g), Moves(a, b, h)
  PROVE  Follows(c, b, g)
<1>1. c.hash < b.hash  BY DEF Follows, Moves
<1>2. ASSUME NEW k \in Keys, b.ledger.ticket[k] # None, b.ledger.ticket[k].created <= g
      PROVE  c.ledger.ticket[k] # None
  <2>1. Stays(a, b, k, h)  BY DEF Moves
  <2>2. a.ledger.ticket[k] # None
    <3> SUFFICES ASSUME a.ledger.ticket[k] = None PROVE FALSE  OBVIOUS
    <3>1. b.ledger.ticket[k].created = h  BY <1>2, <2>1 DEF Stays
    <3> QED  BY <1>2, <3>1
  <2>3. a.ledger.ticket[k].created <= g  BY <1>2, <2>1, <2>2 DEF Stays
  <2> QED  BY <2>2, <2>3 DEF Follows
<1>3. ASSUME NEW i \in Ids, LotQuoted(c.ledger, i), MintTicket(i, c.ledger.asset[i]) \notin b.created
      PROVE  b.ledger.asset[i] = c.ledger.asset[i]
  <2>1. a.ledger.asset[i] = c.ledger.asset[i]  BY <1>3 DEF Follows, Moves
  <2>2. LotQuoted(a.ledger, i)  BY <1>3, <2>1 DEF LotQuoted, Progressive, Deployed
  <2> QED  BY <1>3, <2>1, <2>2 DEF Moves
<1> QED  BY <1>1, <1>2, <1>3 DEF Follows

\* A receipt that leaves its block sound leaves the chain so.
LEMMA AppliedKeeps ==
  ASSUME IInv, NEW b \in Blocks, Good(b, height), Moves(Tip, b, height), Applied(b)
  PROVE  IInv'
<1>1. /\ height' = height /\ open' = open /\ final' = final /\ fresh' = fresh /\ prepared' = prepared
      /\ chain' = [chain EXCEPT ![height] = b]
  BY DEF Applied
<1>2. /\ height \in Nat /\ Start \in Nat /\ height \in Start..height /\ chain \in [Start..height -> Blocks]
      /\ final \in Start..height
  BY ReaderConstants DEF IInv, TypeOK
<1>3. /\ chain' \in [Start..height -> Blocks] /\ chain'[height] = b
      /\ \A h \in Start..height : h # height => chain'[h] = chain[h]
  BY <1>1, <1>2
<1>4. TypeOK'  BY <1>1, <1>3 DEF IInv, TypeOK
<1>5. \A h \in Start..height : Good(chain'[h], h) /\ chain'[h].hash < fresh
  <2> TAKE h \in Start..height
  <2>1. CASE h = height
    <3>1. chain'[h] = b /\ b.hash = chain[height].hash  BY <1>3, <2>1 DEF Moves, Tip
    <3>2. chain[height].hash < fresh  BY <1>2 DEF IInv
    <3> QED  BY <2>1, <3>1, <3>2
  <2>2. CASE h # height
    <3>1. chain'[h] = chain[h]  BY <1>3, <2>2
    <3> QED  BY <3>1 DEF IInv
  <2> QED  BY <2>1, <2>2
<1>6. \A h \in Start..height : \A g \in Start..h - 1 : Follows(chain'[g], chain'[h], g)
  <2> TAKE h \in Start..height
  <2> TAKE g \in Start..h - 1
  <2>1. g \in Nat /\ g \in Start..height /\ g # height /\ h \in Nat /\ g < h  BY <1>2
  <2>2. chain'[g] = chain[g] /\ Follows(chain[g], chain[h], g)  BY <1>3, <2>1 DEF IInv
  <2>3. CASE h = height  BY <1>2, <1>3, <2>1, <2>2, <2>3, FollowsMoves DEF Tip
  <2>4. CASE h # height  BY <1>3, <2>2, <2>4
  <2> QED  BY <2>3, <2>4
<1>7. \A p \in prepared, h \in final..height : chain'[h].ledger.ticket[p.key] # None
  <2> TAKE p \in prepared, h \in final..height
  <2>1. h \in Start..height /\ p.key \in Keys  BY <1>2 DEF IInv, TypeOK
  <2>2. chain[h].ledger.ticket[p.key] # None  BY DEF IInv
  <2>3. CASE h = height
    <3>1. Stays(Tip, b, p.key, height)  BY <2>1 DEF Moves
    <3> QED  BY <1>3, <2>2, <2>3, <3>1 DEF Stays, Tip
  <2>4. CASE h # height  BY <1>3, <2>1, <2>2, <2>4
  <2> QED  BY <2>3, <2>4
<1> HIDE DEF IInv
<1> QED  BY <1>1, <1>4, <1>5, <1>6, <1>7 DEF IInv

\* An operation: the ledger is sound, its tickets are the same and its lots are kept.
LEMMA LedgerMoves ==
  ASSUME NEW b \in Blocks, NEW h \in Nat, Good(b, h), NEW m \in Ledgers, Supplied(m), Named(m),
         Kept(b.ledger, m, [height |-> h, hash |-> b.hash]), NEW c, c = [b EXCEPT !.ledger = m]
  PROVE  c \in Blocks /\ Good(c, h) /\ Moves(b, c, h)
<1>1. /\ c \in Blocks /\ c.ledger = m /\ c.hash = b.hash /\ c.proposal = b.proposal /\ c.created = b.created
      /\ c.bought = b.bought /\ c.paid = b.paid
  BY DEF Blocks
<1>2. m.ticket = b.ledger.ticket  BY DEF Kept
<1>3. Traded(c, h) /\ \A k \in Keys : Stays(b, c, k, h)
  BY <1>1, <1>2 DEF Good, Traded, TradedAt, Stays
<1>4. ASSUME NEW i \in Ids
      PROVE  IF i \in Progressive(m)
             THEN LET a == m.asset[i] IN
                    /\ a.minted = Lot * Len(c.paid[i]) /\ (a.right = None <=> a.minted = Cap)
                    /\ a.right # None =>
                         /\ a.right.height <= h /\ a.right.hash <= c.hash
                         /\ a.right.height = h => a.right.hash = c.hash
                         /\ MintTicket(i, a) \notin c.created
             ELSE c.paid[i] = <<>>
  <2>1. CASE m.asset[i] = b.ledger.asset[i]
    <3>1. i \in Progressive(m) <=> i \in Progressive(b.ledger)  BY <2>1 DEF Progressive, Deployed
    <3> QED  BY <1>1, <2>1, <3>1 DEF Good, Righted
  <2>2. CASE /\ i \notin Progressive(b.ledger)
             /\ i \in Progressive(m) => m.asset[i].minted = 0 /\ m.asset[i].right = [height |-> h, hash |-> b.hash]
    <3>1. c.paid[i] = <<>>  BY <1>1, <2>2 DEF Good, Righted
    <3>2. ASSUME i \in Progressive(m)
          PROVE  /\ m.asset[i].minted = Lot * Len(c.paid[i])
                 /\ m.asset[i].right # None /\ m.asset[i].minted # Cap
                 /\ m.asset[i].right.height = h /\ m.asset[i].right.hash = c.hash
                 /\ MintTicket(i, m.asset[i]) \notin c.created
      <4>1. m.asset[i].minted = 0 /\ m.asset[i].right = [height |-> h, hash |-> b.hash]  BY <2>2, <3>2
      <4>2. Len(<<>>) = 0 /\ Lot * 0 = 0 /\ Cap # 0  BY LedgerConstants
      <4>3. b.hash \in Nat  BY DEF Blocks
      <4>4. [height |-> h, hash |-> b.hash] \in Rights  BY <4>3 DEF Rights
      <4>5. MintTicket(i, m.asset[i]).hash = b.hash  BY <4>1 DEF MintTicket
      <4>6. \A t \in b.created : t.hash \in Nat /\ t.hash < b.hash  BY DEF Good, Righted, Blocks, LotTickets
      <4>7. MintTicket(i, m.asset[i]) \notin b.created  BY <4>3, <4>5, <4>6
      <4> QED  BY <1>1, <3>1, <4>1, <4>2, <4>4, <4>7, LedgerConstants
    <3>3. c.hash \in Nat  BY <1>1 DEF Blocks
    <3> QED  BY <3>1, <3>2, <3>3
  <2> QED  BY <2>1, <2>2 DEF Kept
<1>5. Righted(c, h)  BY <1>1, <1>4 DEF Good, Righted
<1>6. \A i \in Ids : LotQuoted(b.ledger, i) => m.asset[i] = b.ledger.asset[i]
  BY DEF Kept, LotQuoted
<1>7. Moves(b, c, h)  BY <1>1, <1>3, <1>6 DEF Moves
<1> QED  BY <1>1, <1>3, <1>5, <1>7 DEF Good

\* The tip of a sound chain.
LEMMA TipIs ==
  ASSUME IInv
  PROVE  /\ height \in Nat /\ Start \in Nat /\ height \in Start..height /\ chain \in [Start..height -> Blocks]
         /\ final \in Start..height /\ fresh \in Nat
         /\ Tip \in Blocks /\ Good(Tip, height) /\ Ledger \in Ledgers /\ Supplied(Ledger) /\ Named(Ledger)
         /\ At \in Rights /\ At = [height |-> height, hash |-> Tip.hash] /\ Tip.hash < fresh /\ Tip.hash \in Nat
<1>1. /\ height \in Nat /\ Start \in Nat /\ height \in Start..height /\ chain \in [Start..height -> Blocks]
      /\ final \in Start..height /\ fresh \in Nat
  BY ReaderConstants DEF IInv, TypeOK
<1>2. Tip \in Blocks /\ Good(Tip, height) /\ Tip.hash < fresh  BY <1>1 DEF Tip, IInv
<1>3. Ledger \in Ledgers /\ Tip.hash \in Nat  BY <1>2 DEF Ledger, Blocks
<1> QED  BY <1>1, <1>2, <1>3 DEF At, Rights, Good, Ledger

\* An operation whose ledger is sound keeps the chain sound.
LEMMA OperationKeeps ==
  ASSUME IInv, NEW m \in Ledgers, Supplied(m), Named(m), Kept(Ledger, m, At), Operation(m)
  PROVE  IInv'
<1>1. PICK c : c = [Tip EXCEPT !.ledger = m]  OBVIOUS
<1>2. Kept(Tip.ledger, m, [height |-> height, hash |-> Tip.hash])  BY DEF At, Ledger
<1>3. c \in Blocks /\ Good(c, height) /\ Moves(Tip, c, height)  BY <1>1, <1>2, TipIs, LedgerMoves
<1>4. Applied(c)  BY <1>1 DEF Operation
<1> QED  BY <1>3, <1>4, AppliedKeeps

\* Each of the operations is one.
LEMMA OperationsKeep ==
  ASSUME IInv, DeployOp \/ InscribeOp \/ MintOp \/ TransferOp
  PROVE  IInv'
<1>1. CASE DeployOp
  <2>1. PICK owner \in Owners, policy \in Policies, symbol \in Symbols :
          /\ DeployAllowed(Ledger, owner, symbol)
          /\ Operation(Deploy(Ledger, owner, policy, symbol, At))
    BY <1>1 DEF DeployOp
  <2>2. PICK m : m = Deploy(Ledger, owner, policy, symbol, At)  OBVIOUS
  <2>3. m \in Ledgers /\ Supplied(m) /\ Named(m) /\ Kept(Ledger, m, At)  BY <2>1, <2>2, TipIs, DeployIs
  <2> QED  BY <2>1, <2>2, <2>3, OperationKeeps
<1>2. CASE InscribeOp
  <2>1. PICK owner \in Owners : InscribeAllowed(Ledger, owner) /\ Operation(Inscribe(Ledger, owner))
    BY <1>2 DEF InscribeOp
  <2>2. PICK m : m = Inscribe(Ledger, owner)  OBVIOUS
  <2>3. m \in Ledgers /\ Supplied(m) /\ Named(m) /\ Kept(Ledger, m, At)  BY <2>1, <2>2, TipIs, InscribeIs
  <2> QED  BY <2>1, <2>2, <2>3, OperationKeeps
<1>3. CASE MintOp
  <2>1. PICK owner \in Owners, i \in Deployed(Ledger), n \in Amounts :
          MintAllowed(Ledger, owner, i, n) /\ Operation(Mint(Ledger, owner, i, n))
    BY <1>3 DEF MintOp
  <2>2. PICK m : m = Mint(Ledger, owner, i, n)  OBVIOUS
  <2>3. m \in Ledgers /\ Supplied(m) /\ Named(m) /\ Kept(Ledger, m, At)  BY <2>1, <2>2, TipIs, MintIs
  <2> QED  BY <2>1, <2>2, <2>3, OperationKeeps
<1>4. CASE TransferOp
  <2>1. PICK owner \in Owners, to \in Owners, i \in Deployed(Ledger), n \in Amounts :
          TransferAllowed(Ledger, owner, i, n) /\ Operation(Transfer(Ledger, owner, i, n, to))
    BY <1>4 DEF TransferOp
  <2>2. PICK m : m = Transfer(Ledger, owner, i, n, to)  OBVIOUS
  <2>3. m \in Ledgers /\ Supplied(m) /\ Named(m) /\ Kept(Ledger, m, At)  BY <2>1, <2>2, TipIs, TransferIs
  <2> QED  BY <2>1, <2>2, <2>3, OperationKeeps
<1> QED  BY <1>1, <1>2, <1>3, <1>4

\* A multisig that is created changes no supply, name, ticket or lot.
LEMMA CreatePairKeeps == ASSUME IInv, CreatePair PROVE IInv'
<1>1. PICK p \in Pairs : Applied([Tip EXCEPT !.ledger.multisigs = @ \cup {p}])  BY DEF CreatePair
<1>2. PICK m : m = [Ledger EXCEPT !.multisigs = Ledger.multisigs \cup {p}]  OBVIOUS
<1>3. m \in Ledgers /\ SameNames(Ledger, m) /\ m.ticket = Ledger.ticket /\ m.balance = Ledger.balance
  <2>1. Ledger \in Ledgers  BY TipIs
  <2>2. Ledger.multisigs \cup {p} \in SUBSET Pairs  BY <2>1 DEF Ledgers
  <2> QED  BY <1>2, <2>1, <2>2 DEF Ledgers, SameNames
<1>4. Named(m)  BY <1>3, TipIs, NamesKeep
<1>5. Supplied(m)
  <2>1. Ledger \in Ledgers /\ Supplied(Ledger)  BY TipIs
  <2>2. \A i \in Ids : /\ Total(m.balance[i], Owners) + Minted(Ledger, i) =
                            Total(Ledger.balance[i], Owners) + Minted(m, i)
                       /\ m.asset[i] # None => m.asset[i].minted <= CapOf(m.asset[i])
    BY <1>3, <2>1 DEF Minted, SameNames, Supplied
  <2> QED  BY <1>3, <2>1, <2>2, SupplyKeeps
<1>6. Kept(Tip.ledger, m, [height |-> height, hash |-> Tip.hash])  BY <1>3 DEF Kept, SameNames, Ledger
<1>7. PICK c : c = [Tip EXCEPT !.ledger = m]  OBVIOUS
<1>8. c \in Blocks /\ Good(c, height) /\ Moves(Tip, c, height)
  BY <1>3, <1>4, <1>5, <1>6, <1>7, TipIs, LedgerMoves
<1>9. c = [Tip EXCEPT !.ledger.multisigs = @ \cup {p}]  BY <1>2, <1>7 DEF Ledger
<1> QED  BY <1>1, <1>8, <1>9, AppliedKeeps

-----------------------------------------------------------------------------
(* Offers, purchases and the end of proposals. *)

\* A block in which only the ticket and the proposal k changed.
LEMMA TradeMoves ==
  ASSUME NEW b \in Blocks, NEW h \in Nat, Good(b, h), NEW c \in Blocks, NEW k \in Keys,
         Supplied(c.ledger), Named(c.ledger), c.ledger.asset = b.ledger.asset,
         c.hash = b.hash, c.created = b.created, c.paid = b.paid,
         \A j \in Keys \ {k} : /\ c.ledger.ticket[j] = b.ledger.ticket[j] /\ c.proposal[j] = b.proposal[j]
                               /\ j \in c.bought <=> j \in b.bought,
         TradedAt(c, k, h), Stays(b, c, k, h)
  PROVE  Good(c, h) /\ Moves(b, c, h)
<1>1. Progressive(c.ledger) = Progressive(b.ledger)  BY DEF Progressive, Deployed
<1>2. Righted(c, h)  BY <1>1 DEF Good, Righted
<1>3. ASSUME NEW j \in Keys, j # k PROVE TradedAt(c, j, h) /\ Stays(b, c, j, h)
  <2>1. TradedAt(b, j, h)  BY DEF Good, Traded
  <2>2. /\ c.ledger.ticket[j] = b.ledger.ticket[j] /\ c.proposal[j] = b.proposal[j]
        /\ j \in c.bought <=> j \in b.bought
    BY <1>3
  <2> QED  BY <2>1, <2>2 DEF TradedAt, Stays
<1>4. \A j \in Keys : TradedAt(c, j, h) /\ Stays(b, c, j, h)  BY <1>3
<1>5. Good(c, h)  BY <1>2, <1>4 DEF Good, Traded
<1>6. Moves(b, c, h)  BY <1>4 DEF Moves
<1> QED  BY <1>5, <1>6

\* The ticket and the proposal of k at the tip.
LEMMA TipTraded ==
  ASSUME IInv, NEW k \in Keys
  PROVE  /\ TradedAt(Tip, k, height) /\ Ledger.ticket[k] \in Tickets \cup {None}
         /\ Tip.proposal[k] \in Offered \cup {None}
<1>1. Tip \in Blocks /\ Good(Tip, height) /\ Ledger \in Ledgers  BY TipIs
<1> QED  BY <1>1 DEF Good, Traded, Ledgers, Blocks

\* A proposal that carries an offer in turn locks its tokens; any other only stands.
LEMMA ProposeKeeps == ASSUME IInv, Propose PROVE IInv'
<1>1. PICK k \in Keys :
          /\ FreeNumber(k)
          /\ \E owner \in Signers[k[1]] : \E o \in Offers(owner), seq \in OfferSeqs :
               /\ o.expiry > height
               /\ LET stands == [Tip EXCEPT !.proposal[k] =
                                   [by |-> owner, offer |-> o, seq |-> seq, status |-> "active"]]
                  IN Applied(IF seq = Ledger.seq[owner] /\ OfferAllowed(Ledger, owner, k, o, height)
                             THEN [stands EXCEPT !.ledger = Offer(Ledger, owner, k, o, height)]
                             ELSE stands)
  BY DEF Propose
<1>2. PICK owner \in Signers[k[1]] : \E o \in Offers(owner), seq \in OfferSeqs :
            /\ o.expiry > height
            /\ LET stands == [Tip EXCEPT !.proposal[k] =
                                [by |-> owner, offer |-> o, seq |-> seq, status |-> "active"]]
               IN Applied(IF seq = Ledger.seq[owner] /\ OfferAllowed(Ledger, owner, k, o, height)
                          THEN [stands EXCEPT !.ledger = Offer(Ledger, owner, k, o, height)]
                          ELSE stands)
  BY <1>1
<1>3. PICK o \in Offers(owner), seq \in OfferSeqs :
            /\ o.expiry > height
            /\ LET stands == [Tip EXCEPT !.proposal[k] =
                                [by |-> owner, offer |-> o, seq |-> seq, status |-> "active"]]
               IN Applied(IF seq = Ledger.seq[owner] /\ OfferAllowed(Ledger, owner, k, o, height)
                          THEN [stands EXCEPT !.ledger = Offer(Ledger, owner, k, o, height)]
                          ELSE stands)
  BY <1>2
<1>4. owner \in Owners /\ o \in Terms /\ seq \in Nat
  <2>1. k[1] \in Pairs  BY DEF Keys
  <2>2. owner \in Owners  BY <2>1, LedgerConstants
  <2>3. Deployed(Ledger) \subseteq Ids  BY DEF Deployed
  <2>4. o \in Terms  BY <2>3, ReaderConstants DEF Offers, Terms
  <2>5. OfferSeqs \subseteq Nat  BY ReaderConstants, LedgerConstants
  <2> QED  BY <2>2, <2>4, <2>5
<1>5. PICK x : x = [by |-> owner, offer |-> o, seq |-> seq, status |-> "active"]  OBVIOUS
<1>6. x \in Offered /\ x # None /\ x.offer = o /\ x.status = "active"
  <2>1. x \in Offered  BY <1>4, <1>5 DEF Offered
  <2> QED  BY <1>5, <2>1, ReaderConstants
<1>7. PICK stands : stands = [Tip EXCEPT !.proposal = [Tip.proposal EXCEPT ![k] = x]]  OBVIOUS
<1>8. /\ stands \in Blocks /\ stands.ledger = Ledger /\ stands.hash = Tip.hash /\ stands.created = Tip.created
      /\ stands.bought = Tip.bought /\ stands.paid = Tip.paid /\ stands.proposal[k] = x
      /\ \A j \in Keys \ {k} : stands.proposal[j] = Tip.proposal[j]
  <2>1. Tip \in Blocks  BY TipIs
  <2>2. Tip.proposal \in [Keys -> Offered \cup {None}]  BY <2>1 DEF Blocks
  <2>3. PICK q : q = [Tip.proposal EXCEPT ![k] = x]  OBVIOUS
  <2>4. q \in [Keys -> Offered \cup {None}] /\ q[k] = x /\ \A j \in Keys \ {k} : q[j] = Tip.proposal[j]
    BY <1>6, <2>2, <2>3
  <2> QED  BY <1>7, <2>1, <2>3, <2>4 DEF Blocks, Ledger
<1>9. Ledger.ticket[k] = None /\ k \notin Tip.bought
  <2>1. Tip.proposal[k] = None  BY <1>1 DEF FreeNumber
  <2> QED  BY <2>1, TipTraded DEF TradedAt, Ledger
<1>10. CASE seq = Ledger.seq[owner] /\ OfferAllowed(Ledger, owner, k, o, height)
  <2>1. PICK m : m = Offer(Ledger, owner, k, o, height)  OBVIOUS
  <2>2. PICK c : c = [stands EXCEPT !.ledger = m]  OBVIOUS
  <2>3. /\ m \in Ledgers /\ Supplied(m) /\ Named(m) /\ m.asset = Ledger.asset
        /\ m.ticket[k] = Ticket(owner, o, height) /\ m.ticket[k] \in Tickets
        /\ \A j \in Keys \ {k} : m.ticket[j] = Ledger.ticket[j]
    BY <1>4, <1>10, <2>1, TipIs, OfferIs
  <2>4. /\ c \in Blocks /\ c.ledger = m /\ c.hash = Tip.hash /\ c.created = Tip.created
        /\ c.bought = Tip.bought /\ c.paid = Tip.paid /\ c.proposal = stands.proposal
    BY <1>8, <2>2, <2>3 DEF Blocks
  <2>5. TradedAt(c, k, height)
    <3>1. /\ m.ticket[k].created = height /\ m.ticket[k].offer = o /\ m.ticket[k].status = "locked"
          /\ m.ticket[k] # None
      BY <2>3, LedgerConstants DEF Ticket
    <3>2. height \in Nat /\ height <= o.expiry
      <4>1. height \in Nat /\ o.expiry \in Nat  BY <1>4, TipIs DEF Terms
      <4> QED  BY <1>3, <4>1
    <3> QED  BY <1>6, <1>8, <1>9, <2>4, <3>1, <3>2 DEF TradedAt
  <2>6. Stays(Tip, c, k, height)
    <3>1. m.ticket[k].created = height  BY <2>3 DEF Ticket
    <3> QED  BY <1>9, <2>4, <3>1 DEF Stays, Ledger
  <2>7. Good(c, height) /\ Moves(Tip, c, height)
    BY <1>8, <2>3, <2>4, <2>5, <2>6, TipIs, TradeMoves DEF Ledger
  <2>8. Applied(c)  BY <1>3, <1>5, <1>7, <1>10, <2>1, <2>2
  <2> QED  BY <2>4, <2>7, <2>8, AppliedKeeps
<1>11. CASE ~(seq = Ledger.seq[owner] /\ OfferAllowed(Ledger, owner, k, o, height))
  <2>1. TradedAt(stands, k, height)  BY <1>8, <1>9 DEF TradedAt
  <2>2. Stays(Tip, stands, k, height)  BY <1>8, <1>9 DEF Stays, Ledger
  <2>3. Good(stands, height) /\ Moves(Tip, stands, height)
    BY <1>8, <2>1, <2>2, TipIs, TradeMoves DEF Ledger
  <2>4. Applied(stands)  BY <1>3, <1>5, <1>7, <1>11
  <2> QED  BY <1>8, <2>3, <2>4, AppliedKeeps
<1> QED  BY <1>10, <1>11

\* A block with another status of the proposal k.
Ended(b, k, s, B, m) == [b EXCEPT !.proposal[k].status = s, !.bought = B, !.ledger = m]
\* It is a block that differs in that proposal, the purchases and the ledger.
LEMMA StatusIs ==
  ASSUME NEW b \in Blocks, NEW k \in Keys, b.proposal[k] # None, NEW s \in {"closed", "approved"},
         NEW m \in Ledgers, NEW B \in SUBSET Keys,
         NEW c, c = Ended(b, k, s, B, m)
  PROVE  /\ c \in Blocks /\ c.ledger = m /\ c.hash = b.hash /\ c.created = b.created /\ c.bought = B
         /\ c.paid = b.paid /\ c.proposal[k] # None /\ c.proposal[k].offer = b.proposal[k].offer
         /\ c.proposal[k].status = s /\ \A j \in Keys \ {k} : c.proposal[j] = b.proposal[j]
<1>1. b.proposal \in [Keys -> Offered \cup {None}] /\ b.proposal[k] \in Offered  BY DEF Blocks
<1>2. PICK x : x = [b.proposal[k] EXCEPT !.status = s]  OBVIOUS
<1>3. x \in Offered /\ x.offer = b.proposal[k].offer /\ x.status = s  BY <1>1, <1>2 DEF Offered
<1>4. PICK q : q = [b.proposal EXCEPT ![k] = x]  OBVIOUS
<1>5. q \in [Keys -> Offered \cup {None}] /\ q[k] = x /\ \A j \in Keys \ {k} : q[j] = b.proposal[j]
  BY <1>1, <1>3, <1>4
<1>6. c = [b EXCEPT !.proposal = q, !.bought = B, !.ledger = m]  BY <1>2, <1>4 DEF Ended
<1>7. /\ c \in Blocks /\ c.ledger = m /\ c.hash = b.hash /\ c.created = b.created /\ c.bought = B
      /\ c.paid = b.paid /\ c.proposal = q
  BY <1>5, <1>6 DEF Blocks
<1> QED  BY <1>3, <1>5, <1>7, ReaderConstants

\* A proposal that ends without a purchase: its ticket, if locked, is released.
LEMMA EndKeeps ==
  ASSUME IInv, NEW k \in Active, NEW s \in {"closed", "approved"},
         Applied([Tip EXCEPT !.proposal[k].status = s, !.ledger = Release(Ledger, k)])
  PROVE  IInv'
<1>1. Tip \in Blocks /\ Ledger \in Ledgers /\ Supplied(Ledger) /\ Named(Ledger) /\ Good(Tip, height) /\ height \in Nat
  BY TipIs
<1>2. k \in Keys /\ Tip.proposal[k] # None /\ Tip.proposal[k].status = "active"  BY DEF Active
<1>3. PICK m : m = Release(Ledger, k)  OBVIOUS
<1>4. TradedAt(Tip, k, height) /\ Ledger.ticket[k] \in Tickets \cup {None}  BY <1>2, TipTraded
<1>5. /\ m \in Ledgers /\ Supplied(m) /\ Named(m) /\ m.asset = Ledger.asset
      /\ \A j \in Keys \ {k} : m.ticket[j] = Ledger.ticket[j]
      /\ k \notin Locked(Ledger) => m.ticket[k] = Ledger.ticket[k]
      /\ k \in Locked(Ledger) => /\ m.ticket[k] # None /\ m.ticket[k].status = "released"
                                 /\ m.ticket[k].created = Ledger.ticket[k].created
                                 /\ m.ticket[k].offer = Ledger.ticket[k].offer
  <2>1. CASE k \in Locked(Ledger)
    <3>1. Ledger.ticket[k] \in Tickets  BY <1>4, <2>1 DEF Locked
    <3>2. Ledger.ticket[k].seller \in Owners  BY <3>1 DEF Tickets
    <3>3. m = Freed(Ledger, k, Ledger.ticket[k].seller, "released")  BY <1>3, <2>1 DEF Release, Freed
    <3> QED  BY <1>1, <2>1, <3>2, <3>3, FreedIs
  <2>2. CASE k \notin Locked(Ledger)
    <3>1. m = Ledger  BY <1>3, <2>2 DEF Release
    <3> QED  BY <1>1, <2>2, <3>1
  <2> QED  BY <2>1, <2>2
<1>6. PICK c : c = Ended(Tip, k, s, Tip.bought, m)  OBVIOUS
<1>7. Tip.bought \in SUBSET Keys  BY <1>1 DEF Blocks
<1>8. /\ c \in Blocks /\ c.ledger = m /\ c.hash = Tip.hash /\ c.created = Tip.created /\ c.bought = Tip.bought
      /\ c.paid = Tip.paid /\ c.proposal[k] # None /\ c.proposal[k].offer = Tip.proposal[k].offer
      /\ c.proposal[k].status = s /\ \A j \in Keys \ {k} : c.proposal[j] = Tip.proposal[j]
  BY <1>1, <1>2, <1>5, <1>6, <1>7, StatusIs
<1>9. Applied(c)
  <2>1. [Tip EXCEPT !.proposal[k].status = s, !.ledger = m] = c  BY <1>1, <1>6 DEF Blocks, Ended
  <2> QED  BY <1>3, <2>1
<1>10. ASSUME Ledger.ticket[k] # None
       PROVE  /\ m.ticket[k] # None /\ m.ticket[k].created = Ledger.ticket[k].created
              /\ m.ticket[k].offer = Ledger.ticket[k].offer /\ m.ticket[k].status # "locked"
              /\ m.ticket[k].status = "settled" <=> Ledger.ticket[k].status = "settled"
  <2>1. CASE k \in Locked(Ledger)
    <3>1. Ledger.ticket[k] \in Tickets /\ Ledger.ticket[k].status = "locked"  BY <1>4, <2>1 DEF Locked
    <3> QED  BY <1>5, <2>1, <3>1
  <2>2. CASE k \notin Locked(Ledger)
    <3>1. m.ticket[k] = Ledger.ticket[k]  BY <1>5, <2>2
    <3>2. Ledger.ticket[k].status # "locked"  BY <1>2, <1>10, <2>2 DEF Locked
    <3> QED  BY <1>10, <3>1, <3>2
  <2> QED  BY <2>1, <2>2
<1>11. Ledger.ticket[k] = None => m.ticket[k] = None  BY <1>5 DEF Locked
<1>12. TradedAt(c, k, height)  BY <1>4, <1>8, <1>10, <1>11 DEF TradedAt, Ledger
<1>13. Stays(Tip, c, k, height)  BY <1>8, <1>10, <1>11 DEF Stays, Ledger
<1>14. Good(c, height) /\ Moves(Tip, c, height)
  BY <1>1, <1>2, <1>5, <1>8, <1>12, <1>13, TradeMoves DEF Ledger
<1> QED  BY <1>8, <1>9, <1>14, AppliedKeeps

\* The chain closes a proposal, or its second signer approves it otherwise than by the exact batch.
LEMMA EndsKeep == ASSUME IInv, Close \/ ApproveAlone PROVE IInv'
<1>1. CASE Close
  <2>1. PICK k \in Active : Applied([Tip EXCEPT !.proposal[k].status = "closed", !.ledger = Release(Ledger, k)])
    BY <1>1 DEF Close
  <2> QED  BY <2>1, EndKeeps
<1>2. CASE ApproveAlone
  <2>1. PICK k \in Active :
          Applied([Tip EXCEPT !.proposal[k].status = "approved",
                     !.ledger = Approved(Ledger, k, Tip.proposal[k].offer.buyer, FALSE)])
    BY <1>2 DEF ApproveAlone
  <2>2. k \in Keys  BY DEF Active
  <2>3. Ledger.ticket[k] # None => Ledger.ticket[k].offer = Tip.proposal[k].offer
    BY <2>2, TipTraded DEF TradedAt, Ledger
  <2>4. Approved(Ledger, k, Tip.proposal[k].offer.buyer, FALSE) = Release(Ledger, k)
    BY <2>3 DEF Approved, Release, Locked
  <2> QED  BY <2>1, <2>4, EndKeeps
<1> QED  BY <1>1, <1>2

\* A prepared purchase settles its ticket: the proposal it names can be approved, so the tokens are locked.
LEMMA BuyKeeps == ASSUME IInv, Buy PROVE IInv'
<1>1. PICK p \in prepared :
        /\ Approvable(p.key) /\ SameCall(p.key, p.call)
        /\ Applied([Tip EXCEPT !.proposal[p.key].status = "approved", !.bought = @ \cup {p.key},
                      !.ledger = Approved(Ledger, p.key, p.call.offer.buyer, TRUE)])
  BY DEF Buy
<1>2. PICK k : k = p.key  OBVIOUS
<1>3. Tip \in Blocks /\ Ledger \in Ledgers /\ Supplied(Ledger) /\ Named(Ledger) /\ Good(Tip, height) /\ height \in Nat
  BY TipIs
<1>4. k \in Keys /\ Tip.proposal[k] # None /\ Tip.proposal[k].status = "active" /\ height <= Tip.proposal[k].offer.expiry
  BY <1>1, <1>2 DEF Approvable, Active
<1>5. TradedAt(Tip, k, height) /\ Ledger.ticket[k] \in Tickets \cup {None}  BY <1>4, TipTraded
<1>6. Ledger.ticket[k] # None
  <2>1. height \in final..height  BY TipIs
  <2>2. chain[height].ledger.ticket[k] # None  BY <1>2, <2>1 DEF IInv
  <2> QED  BY <2>2 DEF Ledger, Tip
<1>7. /\ k \in Locked(Ledger) /\ Ledger.ticket[k] \in Tickets
      /\ Ledger.ticket[k].offer = Tip.proposal[k].offer
  BY <1>4, <1>5, <1>6 DEF TradedAt, Ledger, Locked
<1>8. PICK t : t = Ledger.ticket[k]  OBVIOUS
<1>9. p.call.offer = t.offer  BY <1>1, <1>2, <1>7, <1>8 DEF SameCall
<1>10. PICK m : m = Freed(Ledger, k, t.offer.buyer, "settled")  OBVIOUS
<1>11. Approved(Ledger, p.key, p.call.offer.buyer, TRUE) = m  BY <1>2, <1>7, <1>8, <1>9, <1>10 DEF Approved, Freed
<1>12. /\ m \in Ledgers /\ Supplied(m) /\ Named(m) /\ m.asset = Ledger.asset
       /\ m.ticket[k] # None /\ m.ticket[k].created = t.created /\ m.ticket[k].offer = t.offer
       /\ m.ticket[k].status = "settled"
       /\ \A j \in Keys \ {k} : m.ticket[j] = Ledger.ticket[j]
  <2>1. t.offer.buyer \in Owners  BY <1>7, <1>8 DEF Tickets, Terms
  <2> QED  BY <1>3, <1>7, <1>8, <1>10, <2>1, FreedIs
<1>13. PICK B : B = Tip.bought \cup {k}  OBVIOUS
<1>14. B \in SUBSET Keys /\ k \in B /\ \A j \in Keys \ {k} : j \in B <=> j \in Tip.bought
  BY <1>3, <1>4, <1>13 DEF Blocks
<1>15. PICK c : c = Ended(Tip, k, "approved", B, m)  OBVIOUS
<1>16. /\ c \in Blocks /\ c.ledger = m /\ c.hash = Tip.hash /\ c.created = Tip.created /\ c.bought = B
       /\ c.paid = Tip.paid /\ c.proposal[k] # None /\ c.proposal[k].offer = Tip.proposal[k].offer
       /\ c.proposal[k].status = "approved" /\ \A j \in Keys \ {k} : c.proposal[j] = Tip.proposal[j]
  BY <1>3, <1>4, <1>12, <1>14, <1>15, StatusIs
<1>17. Applied(c)
  <2>1. [Tip EXCEPT !.proposal[k].status = "approved", !.bought = @ \cup {k}, !.ledger = m] = c
    BY <1>3, <1>13, <1>15 DEF Blocks, Ended
  <2> QED  BY <1>1, <1>2, <1>11, <2>1
<1>19. TradedAt(c, k, height)  BY <1>5, <1>6, <1>8, <1>12, <1>14, <1>16 DEF TradedAt, Ledger
<1>20. Stays(Tip, c, k, height)  BY <1>6, <1>8, <1>12, <1>16 DEF Stays, Ledger
<1>21. Good(c, height) /\ Moves(Tip, c, height)
  BY <1>3, <1>4, <1>12, <1>14, <1>16, <1>19, <1>20, TradeMoves DEF Ledger
<1> QED  BY <1>16, <1>17, <1>21, AppliedKeeps

\* A purchase is prepared for a ticket that is final, and so in every block from the finalized one.
LEMMA PrepareBuyKeeps == ASSUME IInv, PrepareBuy PROVE IInv'
<1>1. PICK k \in Keys :
        /\ Buyable(k)
        /\ LET x == Tip.proposal[k] IN
             prepared' = prepared \cup {[key |-> k, call |-> [by |-> x.by, offer |-> x.offer, seq |-> x.seq]]}
  BY DEF PrepareBuy
<1>2. PICK x : x = Tip.proposal[k]  OBVIOUS
<1>3. PICK p : p = [key |-> k, call |-> [by |-> x.by, offer |-> x.offer, seq |-> x.seq]]  OBVIOUS
<1>4. prepared' = prepared \cup {p} /\ p.key = k  BY <1>1, <1>2, <1>3
<1>5. height' = height /\ chain' = chain /\ open' = open /\ final' = final /\ fresh' = fresh  BY DEF PrepareBuy
<1>6. Ledger.ticket[k] # None /\ Ledger.ticket[k].created <= final  BY <1>1 DEF Buyable, Locked
<1>7. p \in [key : Keys, call : Calls]
  <2>1. x \in Offered  BY <1>2, <1>6, TipTraded DEF TradedAt, Ledger
  <2> QED  BY <1>3, <2>1 DEF Calls, Offered
<1>8. \A h \in final..height : chain[h].ledger.ticket[k] # None
  <2> TAKE h \in final..height
  <2>1. height \in Nat /\ final \in Start..height /\ height \in Start..height /\ Start \in Nat  BY TipIs
  <2>2. CASE h = height  BY <1>6, <2>2 DEF Ledger, Tip
  <2>3. CASE h # height
    <3>1. h \in Start..height - 1  BY <2>1, <2>3
    <3>2. Follows(chain[h], chain[height], h)  BY <2>1, <3>1 DEF IInv
    <3>3. Ledger.ticket[k] \in Tickets  BY <1>6, TipTraded
    <3>4. Ledger.ticket[k].created <= h  BY <1>6, <2>1, <3>1, <3>3 DEF Tickets
    <3> QED  BY <1>6, <3>2, <3>4 DEF Follows, Ledger, Tip
  <2> QED  BY <2>2, <2>3
<1>9. TypeOK'  BY <1>4, <1>5, <1>7 DEF IInv, TypeOK
<1>10. \A b \in prepared', h \in final..height : chain[h].ledger.ticket[b.key] # None
  BY <1>4, <1>8 DEF IInv
<1> QED  BY <1>5, <1>9, <1>10 DEF IInv

-----------------------------------------------------------------------------
(* Blocks. *)

\* What the start of a block does to a ticket.
Aged(t, u, h) ==
  IF t = None THEN u = None
  ELSE /\ u # None /\ u.created = t.created /\ u.offer = t.offer
       /\ u.status = IF t.status = "locked" /\ h > t.offer.expiry THEN "released" ELSE t.status
\* A ticket that is locked past its expiry is released, any other is as it was.
LEMMA TicketsAge ==
  ASSUME NEW l \in Ledgers, IsFiniteSet(Locked(l)), NEW h, NEW k \in Keys
  PROVE  Aged(l.ticket[k], BlockStart(l, h).ticket[k], h)
<1>1. PICK m : m = BlockStart(l, h)  OBVIOUS
<1>2. m.ticket[k] = IF k \in Expired(l, h) THEN [l.ticket[k] EXCEPT !.status = "released"] ELSE l.ticket[k]
  <2>1. BlockStart(l, h).ticket = [j \in Keys |-> IF j \in Expired(l, h)
                                     THEN [l.ticket[j] EXCEPT !.status = "released"] ELSE l.ticket[j]]
    BY BlockStartIs, Zenon
  <2> QED  BY <1>1, <2>1
<1>3. l.ticket[k] \in Tickets \cup {None}  BY DEF Ledgers
<1>4. k \in Expired(l, h) <=> l.ticket[k] # None /\ l.ticket[k].status = "locked" /\ h > l.ticket[k].offer.expiry
  BY DEF Expired, Locked
<1>5. CASE k \in Expired(l, h)
  <2>1. PICK t : t = l.ticket[k]  OBVIOUS
  <2>2. PICK u : u = m.ticket[k]  OBVIOUS
  <2>3. t \in Tickets /\ u = [t EXCEPT !.status = "released"]  BY <1>2, <1>3, <1>4, <1>5, <2>1, <2>2
  <2>4. u \in Tickets /\ u.created = t.created /\ u.offer = t.offer /\ u.status = "released"
    BY <2>3 DEF Tickets
  <2>5. u # None  BY <2>4, LedgerConstants
  <2> QED  BY <1>1, <1>4, <1>5, <2>1, <2>2, <2>4, <2>5 DEF Aged
<1>6. CASE k \notin Expired(l, h)  BY <1>1, <1>2, <1>4, <1>6 DEF Aged
<1> QED  BY <1>5, <1>6

\* The block after the tip, when its start has been applied.
Fresh(m) == [Tip EXCEPT !.hash = fresh, !.ledger = m]
\* It is sound at its height, and follows every block below.
LEMMA FreshIs ==
  ASSUME IInv, NEW m, m = BlockStart(Ledger, height + 1), NEW c, c = Fresh(m)
  PROVE  /\ c \in Blocks /\ Good(c, height + 1) /\ c.hash = fresh
         /\ \A g \in Start..height : Follows(chain[g], c, g)
         /\ \A k \in Keys : Ledger.ticket[k] # None => c.ledger.ticket[k] # None
<1>1. /\ Tip \in Blocks /\ Ledger \in Ledgers /\ Supplied(Ledger) /\ Named(Ledger) /\ Good(Tip, height)
      /\ height \in Nat /\ Start \in Nat /\ fresh \in Nat /\ Tip.hash < fresh /\ Tip.hash \in Nat
      /\ height \in Start..height
  BY TipIs
<1>2. IsFiniteSet(Locked(Ledger))  BY <1>1 DEF Supplied
<1>3. m \in Ledgers /\ m.asset = Ledger.asset /\ Supplied(m) /\ Named(m)
  BY <1>1, <1>2, BlockStartIs, BlockStartSound
<1>4. /\ c \in Blocks /\ c.hash = fresh /\ c.ledger = m /\ c.proposal = Tip.proposal
      /\ c.created = Tip.created /\ c.bought = Tip.bought /\ c.paid = Tip.paid
  BY <1>1, <1>3 DEF Blocks, Fresh
<1>5. \A k \in Keys : Aged(Ledger.ticket[k], m.ticket[k], height + 1)  BY <1>1, <1>2, TicketsAge
<1>6. Righted(c, height + 1)
  <2>1. Progressive(m) = Progressive(Ledger)  BY <1>3 DEF Progressive, Deployed
  <2>2. ASSUME NEW i \in Progressive(Ledger), Ledger.asset[i].right # None
        PROVE  /\ Ledger.asset[i].right.height <= height + 1 /\ Ledger.asset[i].right.hash <= fresh
               /\ Ledger.asset[i].right.height # height + 1
    <3>1. i \in Ids  BY DEF Progressive, Deployed
    <3>2. Ledger.asset[i].right.height <= height /\ Ledger.asset[i].right.hash <= Tip.hash
      BY <1>1, <2>2, <3>1 DEF Good, Righted, Ledger
    <3>3. Ledger.asset[i] \in Assets  BY <1>1, <3>1 DEF Progressive, Deployed, Ledgers
    <3>4. Ledger.asset[i].right \in Rights  BY <2>2, <3>3 DEF Assets
    <3>5. Ledger.asset[i].right.height \in Nat /\ Ledger.asset[i].right.hash \in Nat  BY <3>4 DEF Rights
    <3> QED  BY <1>1, <3>2, <3>5
  <2>3. \A t \in c.created : t.hash < c.hash
    <3> TAKE t \in c.created
    <3>1. t.hash \in Nat /\ t.hash < Tip.hash  BY <1>1, <1>4 DEF Blocks, LotTickets, Good, Righted
    <3> QED  BY <1>1, <1>4, <3>1
  <2>4. \A i \in Ids : \A n \in 1..Len(c.paid[i]) : c.paid[i][n] = Fee[n]  BY <1>1, <1>4 DEF Good, Righted
  <2>5. ASSUME NEW i \in Ids
        PROVE  IF i \in Progressive(m)
               THEN LET a == m.asset[i] IN
                      /\ a.minted = Lot * Len(c.paid[i]) /\ (a.right = None <=> a.minted = Cap)
                      /\ a.right # None =>
                           /\ a.right.height <= height + 1 /\ a.right.hash <= c.hash
                           /\ a.right.height = height + 1 => a.right.hash = c.hash
                           /\ MintTicket(i, a) \notin c.created
               ELSE c.paid[i] = <<>>
    <3>1. CASE i \in Progressive(Ledger)
      <4>1. PICK a : a = Ledger.asset[i]  OBVIOUS
      <4>2. m.asset[i] = a /\ i \in Progressive(m)  BY <1>3, <2>1, <3>1, <4>1
      <4>3. /\ a.minted = Lot * Len(Tip.paid[i]) /\ (a.right = None <=> a.minted = Cap)
            /\ a.right # None => MintTicket(i, a) \notin Tip.created
        BY <1>1, <3>1, <4>1 DEF Good, Righted, Ledger
      <4>4. a.right # None => /\ a.right.height <= height + 1 /\ a.right.hash <= fresh
                              /\ a.right.height # height + 1
        <5> SUFFICES ASSUME a.right # None
                     PROVE  a.right.height <= height + 1 /\ a.right.hash <= fresh /\ a.right.height # height + 1
          OBVIOUS
        <5> QED  BY <2>2, <3>1, <4>1
      <4> QED  BY <1>4, <4>2, <4>3, <4>4
    <3>2. CASE i \notin Progressive(Ledger)
      BY <1>1, <1>4, <2>1, <3>2 DEF Good, Righted, Ledger
    <3> QED  BY <3>1, <3>2
  <2> QED  BY <1>4, <2>3, <2>4, <2>5 DEF Righted
<1>7. ASSUME NEW k \in Keys PROVE TradedAt(c, k, height + 1)
  <2>1. PICK t : t = Ledger.ticket[k]  OBVIOUS
  <2>2. PICK u : u = m.ticket[k]  OBVIOUS
  <2>3. PICK x : x = Tip.proposal[k]  OBVIOUS
  <2>4. t \in Tickets \cup {None} /\ x \in Offered \cup {None} /\ TradedAt(Tip, k, height)
    BY <2>1, <2>3, TipTraded
  <2>5. Aged(t, u, height + 1)  BY <1>5, <2>1, <2>2
  <2>6. CASE t = None
    BY <1>4, <2>1, <2>2, <2>4, <2>5, <2>6 DEF TradedAt, Aged, Ledger
  <2>7. CASE t # None
    <3>1. /\ t.created <= height /\ x # None /\ t.offer = x.offer
          /\ t.status = "settled" <=> k \in Tip.bought
          /\ t.status = "locked" <=> x.status = "active" /\ height <= x.offer.expiry
      BY <2>1, <2>3, <2>4, <2>7 DEF TradedAt, Ledger
    <3>2. t.created \in Nat /\ x.offer.expiry \in Nat  BY <2>4, <2>7, <3>1 DEF Tickets, Offered, Terms
    <3>3. /\ u # None /\ u.created = t.created /\ u.offer = t.offer
          /\ u.status = IF t.status = "locked" /\ height + 1 > t.offer.expiry THEN "released" ELSE t.status
      BY <2>5, <2>7 DEF Aged
    <3>4. u.created <= height + 1  BY <1>1, <3>1, <3>2, <3>3
    <3>5. u.status = "settled" <=> k \in Tip.bought  BY <3>1, <3>3
    <3>6. u.status = "locked" <=> x.status = "active" /\ height + 1 <= x.offer.expiry
      <4>1. PICK e \in Nat : e = x.offer.expiry  BY <3>2
      <4>2. CASE t.status = "locked"
        <5>1. u.status = "locked" <=> ~(height + 1 > e)  BY <3>1, <3>3, <4>1, <4>2
        <5>2. ~(height + 1 > e) <=> height + 1 <= e  BY <1>1
        <5> QED  BY <3>1, <4>1, <4>2, <5>1, <5>2
      <4>3. CASE t.status # "locked"
        <5>1. u.status # "locked"  BY <3>3, <4>3
        <5>2. height + 1 <= e => height <= e  BY <1>1
        <5> QED  BY <3>1, <4>1, <4>3, <5>1, <5>2
      <4> QED  BY <4>2, <4>3
    <3> QED  BY <1>4, <2>2, <2>3, <3>1, <3>3, <3>4, <3>5, <3>6 DEF TradedAt
  <2> QED  BY <2>6, <2>7
<1>8. Good(c, height + 1)  BY <1>3, <1>4, <1>6, <1>7 DEF Good, Traded
<1>9. \A k \in Keys : Ledger.ticket[k] # None => c.ledger.ticket[k] # None  BY <1>4, <1>5 DEF Aged
<1>10. ASSUME NEW g \in Start..height PROVE Follows(chain[g], c, g)
  <2>1. g = height \/ Follows(chain[g], Tip, g)
    <3>1. g = height \/ g \in Start..height - 1  BY <1>1
    <3> QED  BY <1>1, <3>1 DEF IInv, Tip
  <2>2. chain[g].hash < c.hash
    <3>1. chain[g].hash < fresh  BY DEF IInv
    <3> QED  BY <1>4, <3>1
  <2>3. ASSUME NEW k \in Keys, c.ledger.ticket[k] # None, c.ledger.ticket[k].created <= g
        PROVE  chain[g].ledger.ticket[k] # None
    <3>1. Aged(Ledger.ticket[k], c.ledger.ticket[k], height + 1)  BY <1>4, <1>5
    <3>2. Tip.ledger.ticket[k] # None /\ Tip.ledger.ticket[k].created <= g  BY <2>3, <3>1 DEF Aged, Ledger
    <3> QED  BY <2>1, <3>2 DEF Follows, Tip
  <2>4. ASSUME NEW i \in Ids, LotQuoted(chain[g].ledger, i),
               MintTicket(i, chain[g].ledger.asset[i]) \notin c.created
        PROVE  c.ledger.asset[i] = chain[g].ledger.asset[i]
    BY <1>3, <1>4, <2>1, <2>4 DEF Follows, Tip, Ledger
  <2> QED  BY <2>2, <2>3, <2>4 DEF Follows
<1> QED  BY <1>4, <1>8, <1>9, <1>10

\* The next block.
LEMMA NextBlockKeeps == ASSUME IInv, NextBlock PROVE IInv'
<1>1. PICK m : m = BlockStart(Ledger, height + 1)  OBVIOUS
<1>2. PICK c : c = Fresh(m)  OBVIOUS
<1>3. PICK H : H = height + 1  OBVIOUS
<1>4. /\ c \in Blocks /\ Good(c, H) /\ c.hash = fresh
      /\ \A g \in Start..height : Follows(chain[g], c, g)
      /\ \A k \in Keys : Ledger.ticket[k] # None => c.ledger.ticket[k] # None
  BY <1>1, <1>2, <1>3, FreshIs
<1>5. /\ height \in Nat /\ Start \in Nat /\ height \in Start..height /\ chain \in [Start..height -> Blocks]
      /\ final \in Start..height /\ fresh \in Nat
  BY TipIs
<1>6. chain' = [h \in Start..H |-> IF h <= height THEN chain[h] ELSE c]  BY <1>1, <1>2, <1>3 DEF NextBlock, Fresh
<1>7. height' = H /\ fresh' = fresh + 1 /\ open' = TRUE /\ prepared' = prepared /\ final' \in final..H
  BY <1>3 DEF NextBlock
<1>8. H \in Nat /\ H \in Start..H /\ \A h \in Start..H : h = H \/ (h \in Start..height /\ h <= height)
  BY <1>3, <1>5
<1>9. chain'[H] = c /\ \A h \in Start..height : chain'[h] = chain[h]
  BY <1>3, <1>5, <1>6, <1>8
<1>10. chain' \in [Start..H -> Blocks]
  <2>1. \A h \in Start..H : (IF h <= height THEN chain[h] ELSE c) \in Blocks  BY <1>4, <1>5, <1>8
  <2> QED  BY <1>6, <2>1
<1>11. TypeOK'
  <2>1. final' \in Start..H /\ Start <= H  BY <1>3, <1>5, <1>7
  <2>2. fresh + 1 \in Nat  BY <1>5
  <2> QED  BY <1>7, <1>8, <1>10, <2>1, <2>2 DEF IInv, TypeOK
<1>12. \A h \in Start..H : Good(chain'[h], h) /\ chain'[h].hash < fresh + 1
  <2> TAKE h \in Start..H
  <2>1. CASE h = H
    <3>1. chain'[h] = c  BY <1>9, <2>1
    <3> QED  BY <1>4, <1>5, <2>1, <3>1
  <2>2. CASE h # H
    <3>1. h \in Start..height /\ chain'[h] = chain[h]  BY <1>8, <1>9, <2>2
    <3>2. Good(chain[h], h) /\ chain[h].hash < fresh /\ chain[h] \in Blocks  BY <1>5, <3>1 DEF IInv
    <3>3. chain[h].hash \in Nat  BY <3>2 DEF Blocks
    <3> QED  BY <1>5, <3>1, <3>2, <3>3
  <2> QED  BY <2>1, <2>2
<1>13. \A h \in Start..H : \A g \in Start..h - 1 : Follows(chain'[g], chain'[h], g)
  <2> TAKE h \in Start..H
  <2> TAKE g \in Start..h - 1
  <2>1. g \in Start..height  BY <1>3, <1>5
  <2>2. CASE h = H
    <3>1. chain'[h] = c /\ chain'[g] = chain[g]  BY <1>9, <2>1, <2>2
    <3> QED  BY <1>4, <2>1, <3>1
  <2>3. CASE h # H
    <3>1. h \in Start..height /\ chain'[h] = chain[h] /\ chain'[g] = chain[g]  BY <1>8, <1>9, <2>1, <2>3
    <3> QED  BY <3>1 DEF IInv
  <2> QED  BY <2>2, <2>3
<1>14. \A b \in prepared, h \in final'..H : chain'[h].ledger.ticket[b.key] # None
  <2> TAKE b \in prepared, h \in final'..H
  <2>1. h \in Start..H /\ final <= h /\ b.key \in Keys  BY <1>3, <1>5, <1>7 DEF IInv, TypeOK
  <2>2. CASE h = H
    <3>1. height \in final..height  BY <1>5
    <3>2. Ledger.ticket[b.key] # None  BY <3>1 DEF IInv, Ledger, Tip
    <3> QED  BY <1>4, <1>9, <2>1, <2>2, <3>2
  <2>3. CASE h # H
    <3>1. h \in Start..height /\ h \in final..height  BY <1>5, <1>8, <2>1, <2>3
    <3> QED  BY <1>9, <3>1 DEF IInv
  <2> QED  BY <2>2, <2>3
<1> HIDE DEF IInv
<1> QED  BY <1>7, <1>11, <1>12, <1>13, <1>14 DEF IInv

\* The end of a block changes no block.
LEMMA EndBlockKeeps == ASSUME IInv, EndBlock PROVE IInv'
BY DEF EndBlock, IInv, TypeOK

\* A rollback keeps every block up to one that is not below the finalized.
LEMMA RollbackKeeps == ASSUME IInv, Rollback PROVE IInv'
<1>1. PICK h \in Start..height - 1 : /\ h >= final /\ height' = h
                                     /\ chain' = [k \in Start..h |-> chain[k]]
  BY DEF Rollback
<1>2. open' = open /\ final' = final /\ fresh' = fresh /\ prepared' = prepared  BY DEF Rollback
<1>3. /\ height \in Nat /\ Start \in Nat /\ chain \in [Start..height -> Blocks] /\ final \in Start..height
  BY TipIs
<1>4. h \in Nat /\ Start <= h /\ final \in Start..h /\ \A k \in Start..h : k \in Start..height  BY <1>1, <1>3
<1>5. chain' \in [Start..h -> Blocks] /\ \A k \in Start..h : chain'[k] = chain[k]  BY <1>1, <1>3, <1>4
<1>6. TypeOK'  BY <1>1, <1>2, <1>4, <1>5 DEF IInv, TypeOK
<1>7. \A k \in Start..h : Good(chain'[k], k) /\ chain'[k].hash < fresh  BY <1>4, <1>5 DEF IInv
<1>8. \A k \in Start..h : \A g \in Start..k - 1 : Follows(chain'[g], chain'[k], g)
  <2> TAKE k \in Start..h
  <2> TAKE g \in Start..k - 1
  <2>1. g \in Start..h /\ k \in Start..height  BY <1>1, <1>3, <1>4
  <2> QED  BY <1>5, <2>1 DEF IInv
<1>9. \A b \in prepared, k \in final..h : chain'[k].ledger.ticket[b.key] # None
  <2> TAKE b \in prepared, k \in final..h
  <2>1. k \in Start..h /\ k \in final..height  BY <1>1, <1>3, <1>4
  <2> QED  BY <1>5, <2>1 DEF IInv
<1> HIDE DEF IInv
<1> QED  BY <1>1, <1>2, <1>6, <1>7, <1>8, <1>9 DEF IInv

-----------------------------------------------------------------------------
(* Settlements, and other uses of lot tickets. *)

\* A sound block sells its lots in parcels.
LEMMA GoodParcelled ==
  ASSUME NEW b \in Blocks, NEW h, Good(b, h)
  PROVE  /\ Parcelled(b.ledger)
         /\ \A i \in Progressive(b.ledger) :
              Len(b.paid[i]) \in Nat /\ b.ledger.asset[i].minted = Lot * Len(b.paid[i])
<1>1. b.ledger \in Ledgers /\ b.paid \in [Ids -> Seq(Nat)] /\ Lot \in Nat  BY LedgerConstants DEF Blocks
<1>2. ASSUME NEW i \in Progressive(b.ledger)
      PROVE  /\ Len(b.paid[i]) \in Nat /\ b.ledger.asset[i].minted = Lot * Len(b.paid[i])
             /\ b.ledger.asset[i].minted <= Cap
             /\ b.ledger.asset[i].right = None <=> b.ledger.asset[i].minted = Cap
  <2>1. i \in Ids /\ b.ledger.asset[i] # None /\ b.ledger.asset[i].policy = "progressive"
    BY DEF Progressive, Deployed
  <2>2. Len(b.paid[i]) \in Nat
    <3>1. b.paid[i] \in Seq(Nat)  BY <1>1, <2>1
    <3> QED  BY <3>1
  <2>3. b.ledger.asset[i].minted <= Cap  BY <2>1 DEF Good, Supplied, CapOf
  <2> QED  BY <2>1, <2>2, <2>3 DEF Good, Righted
<1> QED  BY <1>2 DEF Parcelled

\* A lot quoted at a sound block: the ticket of a right not above it, and the fee of the lot.
LEMMA QuotedIs ==
  ASSUME NEW b \in Blocks, NEW h, Good(b, h), NEW i \in Ids, LotQuoted(b.ledger, i),
         NEW q, q = QuotedLot(b.ledger, i)
  PROVE  /\ q.ticket = MintTicket(i, b.ledger.asset[i]) /\ q.ticket \in LotTickets
         /\ q.ticket.asset = i /\ q.ticket.hash <= b.hash
         /\ q.fee = Fee[Len(b.paid[i]) + 1] /\ q.fee \in Nat
<1>1. PICK a : a = b.ledger.asset[i]  OBVIOUS
<1>2. i \in Progressive(b.ledger) /\ a.right # None  BY <1>1 DEF LotQuoted
<1>3. a \in Assets
  <2>1. b.ledger \in Ledgers  BY DEF Blocks
  <2> QED  BY <1>1, <1>2, <2>1 DEF Ledgers, Progressive, Deployed
<1>4. PICK n \in Nat : n = Len(b.paid[i]) /\ a.minted = Lot * n  BY <1>1, <1>2, GoodParcelled
<1>5. LotsMinted(a) = n /\ n + 1 \in Lots /\ n + 1 \in Nat
  <2>1. Lot * n <= Cap /\ Lot * n # Cap  BY <1>1, <1>2, <1>4, GoodParcelled DEF Parcelled
  <2>2. (Lot * n) \div Lot = n /\ n + 1 \in Lots  BY <2>1, LotFacts
  <2>3. LotsMinted(a) = n  BY <1>4, <2>2 DEF LotsMinted
  <2> QED  BY <2>2, <2>3
<1>6. a.right \in Rights /\ a.right.hash \in Nat  BY <1>2, <1>3 DEF Assets, Rights
<1>7. q.ticket = [asset |-> i, lot |-> n + 1, hash |-> a.right.hash] /\ q.fee = Fee[n + 1]
  BY <1>1, <1>5 DEF QuotedLot, MintTicket
<1>8. q.ticket \in LotTickets /\ q.ticket.asset = i /\ q.ticket.hash = a.right.hash
  BY <1>5, <1>6, <1>7 DEF LotTickets
<1>9. a.right.hash <= b.hash  BY <1>1, <1>2 DEF Good, Righted
<1>10. q.ticket = MintTicket(i, b.ledger.asset[i])  BY <1>1, <1>5, <1>7 DEF MintTicket
<1>11. Fee[n + 1] \in Nat  BY <1>5, LedgerConstants
<1> QED  BY <1>4, <1>7, <1>8, <1>9, <1>10, <1>11

\* Who paid for a lot: the one use of a right that is canonical.
Pays(l, used, pays, old, new) ==
  \A i \in Ids : new[i] = IF i \in used /\ Canonical(l, used, pays)
                          THEN Append(old[i], Fee[Len(old[i]) + 1]) ELSE old[i]

\* Tickets of earlier blocks are created: their rights move, and a canonical use mints its lot.
LEMMA UseMoves ==
  ASSUME IInv, NEW signer \in Owners, NEW pays,
         NEW tickets \in SUBSET LotTickets, \A t \in tickets : t.hash < Tip.hash,
         NEW used, used = UsedRights(Ledger, tickets, Tip.hash),
         NEW m, m = UseRights(Ledger, used, signer, pays, At),
         NEW paid \in [Ids -> Seq(Nat)], Pays(Ledger, used, pays, Tip.paid, paid),
         NEW c, c = [Tip EXCEPT !.created = Tip.created \cup tickets, !.ledger = m, !.paid = paid],
         Applied(c)
  PROVE  IInv'
<1>1. /\ Tip \in Blocks /\ Ledger \in Ledgers /\ Supplied(Ledger) /\ Named(Ledger) /\ Good(Tip, height)
      /\ height \in Nat /\ At \in Rights /\ At = [height |-> height, hash |-> Tip.hash] /\ Tip.hash \in Nat
  BY TipIs
<1>2. At # None /\ At.height = height /\ At.hash = Tip.hash  BY <1>1, LedgerConstants
<1>3. /\ Parcelled(Ledger)
      /\ \A i \in Progressive(Ledger) :
           Len(Tip.paid[i]) \in Nat /\ Ledger.asset[i].minted = Lot * Len(Tip.paid[i])
  BY <1>1, GoodParcelled DEF Ledger
<1>4. \A i \in used : i \in Progressive(Ledger) /\ Ledger.asset[i].right # None  BY DEF UsedRights
<1>5. PICK canonical \in BOOLEAN : canonical <=> Canonical(Ledger, used, pays)  OBVIOUS
<1>6. /\ m \in Ledgers /\ Supplied(m) /\ Named(m) /\ m.ticket = Ledger.ticket
      /\ \A i \in Ids : IF i \in used THEN /\ m.asset[i] \in Assets /\ m.asset[i] # None
                                           /\ Used(Ledger.asset[i], m.asset[i], Canonical(Ledger, used, pays), At)
                        ELSE m.asset[i] = Ledger.asset[i]
  BY <1>1, <1>3, <1>4, UseRightsIs
<1>7. Tip.created \cup tickets \in SUBSET LotTickets  BY <1>1 DEF Blocks
<1>8. /\ c \in Blocks /\ c.ledger = m /\ c.hash = Tip.hash /\ c.proposal = Tip.proposal
      /\ c.created = Tip.created \cup tickets /\ c.bought = Tip.bought /\ c.paid = paid
  BY <1>1, <1>6, <1>7 DEF Blocks
<1>9. \A t \in c.created : t.hash \in Nat /\ t.hash < c.hash
  BY <1>1, <1>7, <1>8 DEF LotTickets, Good, Righted
<1>10. Progressive(m) = Progressive(Ledger)
  <2>1. \A i \in Ids : i \in Progressive(m) <=> i \in Progressive(Ledger)
    BY <1>4, <1>6 DEF Progressive, Deployed, Used
  <2> QED  BY <2>1 DEF Progressive, Deployed
<1>11. ASSUME NEW i \in Ids, i \in used
       PROVE  LET a == m.asset[i] IN
                /\ a.minted = Lot * Len(c.paid[i]) /\ (a.right = None <=> a.minted = Cap)
                /\ a.right # None => a.right = At /\ MintTicket(i, a) \notin c.created
  <2>1. PICK a : a = m.asset[i]  OBVIOUS
  <2>2. PICK n \in Nat : n = Len(Tip.paid[i]) /\ Ledger.asset[i].minted = Lot * n  BY <1>3, <1>4, <1>11
  <2>3. Used(Ledger.asset[i], a, canonical, At)  BY <1>5, <1>6, <1>11, <2>1 DEF Used
  <2>4. paid[i] = IF canonical THEN Append(Tip.paid[i], Fee[Len(Tip.paid[i]) + 1]) ELSE Tip.paid[i]
    BY <1>5, <1>11 DEF Pays
  <2>5. a.minted = Lot * Len(paid[i])
    <3>1. Tip.paid[i] \in Seq(Nat)  BY <1>1 DEF Blocks
    <3>2. CASE canonical
      <4>1. Len(paid[i]) = n + 1  BY <2>2, <2>4, <3>1, <3>2
      <4>2. a.minted = Lot * n + Lot  BY <2>2, <2>3, <3>2 DEF Used
      <4> QED  BY <4>1, <4>2, LotFacts
    <3>3. CASE ~canonical
      <4>1. Len(paid[i]) = n  BY <2>2, <2>4, <3>3
      <4>2. a.minted = Lot * n + 0 /\ Lot * n \in Nat  BY <2>2, <2>3, <3>3, LotFacts DEF Used
      <4> QED  BY <4>1, <4>2
    <3> QED  BY <3>2, <3>3
  <2>6. a.right = IF a.minted = Cap THEN None ELSE At  BY <2>3 DEF Used
  <2>7. a.right # None => MintTicket(i, a).hash = Tip.hash  BY <1>2, <2>6 DEF MintTicket
  <2>8. a.right # None => MintTicket(i, a) \notin c.created
    <3> SUFFICES ASSUME a.right # None, MintTicket(i, a) \in c.created PROVE FALSE  OBVIOUS
    <3>1. MintTicket(i, a).hash \in Nat /\ MintTicket(i, a).hash < Tip.hash  BY <1>8, <1>9
    <3> QED  BY <1>1, <2>7, <3>1
  <2> QED  BY <1>2, <1>8, <2>1, <2>5, <2>6, <2>8
<1>12. ASSUME NEW i \in Ids, i \notin used
       PROVE  m.asset[i] = Ledger.asset[i] /\ c.paid[i] = Tip.paid[i]
  BY <1>6, <1>8, <1>12 DEF Pays
<1>13. ASSUME NEW i \in Progressive(Ledger), i \notin used, Ledger.asset[i].right # None
       PROVE  MintTicket(i, Ledger.asset[i]) \notin c.created
  <2>1. PICK a : a = Ledger.asset[i]  OBVIOUS
  <2>2. i \in Ids  BY DEF Progressive, Deployed
  <2>3. MintTicket(i, a) \notin Tip.created  BY <1>1, <1>13, <2>1, <2>2 DEF Good, Righted, Ledger
  <2>4. MintTicket(i, a) \notin tickets
    <3> SUFFICES ASSUME MintTicket(i, a) \in tickets PROVE FALSE  OBVIOUS
    <3>1. a.right.hash = Tip.hash  BY <1>13, <2>1 DEF UsedRights
    <3>2. MintTicket(i, a).hash = Tip.hash  BY <3>1 DEF MintTicket
    <3>3. MintTicket(i, a).hash < Tip.hash  OBVIOUS
    <3> QED  BY <1>1, <3>2, <3>3
  <2> QED  BY <1>8, <2>1, <2>3, <2>4
<1>14. Righted(c, height)
  <2>1. ASSUME NEW i \in Ids
        PROVE  IF i \in Progressive(c.ledger)
               THEN LET a == c.ledger.asset[i] IN
                      /\ a.minted = Lot * Len(c.paid[i]) /\ (a.right = None <=> a.minted = Cap)
                      /\ a.right # None =>
                           /\ a.right.height <= height /\ a.right.hash <= c.hash
                           /\ a.right.height = height => a.right.hash = c.hash
                           /\ MintTicket(i, a) \notin c.created
               ELSE c.paid[i] = <<>>
    <3>1. CASE i \in used
      <4>1. i \in Progressive(c.ledger)  BY <1>4, <1>8, <1>10, <3>1
      <4>2. At.height <= height /\ At.hash <= c.hash /\ At.hash = c.hash  BY <1>1, <1>2, <1>8
      <4> QED  BY <1>8, <1>11, <3>1, <4>1, <4>2
    <3>2. CASE i \notin used /\ i \in Progressive(Ledger)
      <4>1. PICK a : a = Ledger.asset[i]  OBVIOUS
      <4>2. c.ledger.asset[i] = a /\ c.paid[i] = Tip.paid[i] /\ i \in Progressive(c.ledger)
        BY <1>8, <1>10, <1>12, <3>2, <4>1
      <4>3. /\ a.minted = Lot * Len(Tip.paid[i]) /\ (a.right = None <=> a.minted = Cap)
            /\ a.right # None => /\ a.right.height <= height /\ a.right.hash <= Tip.hash
                                 /\ a.right.height = height => a.right.hash = Tip.hash
        BY <1>1, <3>2, <4>1 DEF Good, Righted, Ledger
      <4>4. a.right # None => MintTicket(i, a) \notin c.created  BY <1>13, <3>2, <4>1
      <4> QED  BY <1>8, <4>2, <4>3, <4>4
    <3>3. CASE i \notin used /\ i \notin Progressive(Ledger)
      <4>1. Tip.paid[i] = <<>>  BY <1>1, <3>3 DEF Good, Righted, Ledger
      <4> QED  BY <1>8, <1>10, <1>12, <3>3, <4>1
    <3> QED  BY <3>1, <3>2, <3>3
  <2>2. ASSUME NEW i \in Ids, NEW n \in 1..Len(c.paid[i]) PROVE c.paid[i][n] = Fee[n]
    <3>1. Tip.paid[i] \in Seq(Nat) /\ \A k \in 1..Len(Tip.paid[i]) : Tip.paid[i][k] = Fee[k]
      BY <1>1 DEF Blocks, Good, Righted
    <3>2. CASE c.paid[i] = Tip.paid[i]  BY <3>1, <3>2
    <3>3. CASE c.paid[i] = Append(Tip.paid[i], Fee[Len(Tip.paid[i]) + 1])
      <4>1. PICK s \in Seq(Nat) : s = Tip.paid[i]  BY <3>1
      <4>2. PICK f : f = Fee[Len(s) + 1]  OBVIOUS
      <4>3. c.paid[i] = Append(s, f)  BY <3>3, <4>1, <4>2
      <4>4. n \in 1..Len(s) + 1 /\ Append(s, f)[Len(s) + 1] = f /\ \A k \in 1..Len(s) : Append(s, f)[k] = s[k]
        BY <4>3
      <4>5. n = Len(s) + 1 \/ n \in 1..Len(s)  BY <4>4
      <4> QED  BY <3>1, <4>1, <4>2, <4>3, <4>4, <4>5
    <3> QED  BY <1>8, <3>2, <3>3 DEF Pays
  <2> QED  BY <1>9, <2>1, <2>2 DEF Righted
<1>15. Traded(c, height) /\ \A k \in Keys : Stays(Tip, c, k, height)
  <2>1. c.ledger.ticket = Tip.ledger.ticket /\ c.proposal = Tip.proposal /\ c.bought = Tip.bought
    BY <1>6, <1>8 DEF Ledger
  <2>2. \A k \in Keys : TradedAt(c, k, height)  BY <1>1, <2>1 DEF Good, Traded, TradedAt
  <2>3. \A k \in Keys : Stays(Tip, c, k, height)  BY <2>1 DEF Stays
  <2> QED  BY <2>2, <2>3 DEF Traded
<1>16. Good(c, height)  BY <1>6, <1>8, <1>14, <1>15 DEF Good
<1>17. ASSUME NEW i \in Ids, LotQuoted(Tip.ledger, i), MintTicket(i, Tip.ledger.asset[i]) \notin c.created
       PROVE  c.ledger.asset[i] = Tip.ledger.asset[i]
  <2>1. i \notin used  BY <1>8, <1>17 DEF UsedRights, Ledger
  <2> QED  BY <1>8, <1>12, <2>1 DEF Ledger
<1>18. Moves(Tip, c, height)  BY <1>8, <1>15, <1>17 DEF Moves
<1> QED  BY <1>8, <1>16, <1>18, AppliedKeeps

\* A lot quoted at an earlier block, and not bought since, is the next of the tip.
LEMMA SettleKeeps == ASSUME IInv, Settle PROVE IInv'
<1>1. PICK signer \in Owners, g \in Start..height - 1 :
        \E i \in {i \in Ids : LotQuoted(chain[g].ledger, i)} :
          LET q == QuotedLot(chain[g].ledger, i) IN
            /\ q.ticket \notin Tip.created
            /\ Applied([Created(signer, {q.ticket}, q.fee) EXCEPT !.paid[i] = Append(@, q.fee)])
  BY DEF Settle
<1>2. PICK i \in Ids :
        /\ LotQuoted(chain[g].ledger, i)
        /\ LET q == QuotedLot(chain[g].ledger, i) IN
             /\ q.ticket \notin Tip.created
             /\ Applied([Created(signer, {q.ticket}, q.fee) EXCEPT !.paid[i] = Append(@, q.fee)])
  BY <1>1
<1>3. PICK q : q = QuotedLot(chain[g].ledger, i)  OBVIOUS
<1>4. q.ticket \notin Tip.created /\ Applied([Created(signer, {q.ticket}, q.fee) EXCEPT !.paid[i] = Append(@, q.fee)])
  BY <1>2, <1>3
<1>5. Tip \in Blocks /\ Ledger \in Ledgers /\ Good(Tip, height) /\ Tip.hash \in Nat  BY TipIs
<1>6. chain[g] \in Blocks /\ Good(chain[g], g) /\ Follows(chain[g], Tip, g) /\ chain[g].hash \in Nat
  <2>1. height \in Nat /\ Start \in Nat /\ height \in Start..height /\ chain \in [Start..height -> Blocks]
    BY TipIs
  <2>2. g \in Start..height  BY <2>1
  <2>3. chain[g] \in Blocks  BY <2>1, <2>2
  <2>4. Good(chain[g], g) /\ Follows(chain[g], Tip, g)  BY <2>1, <2>2 DEF IInv, Tip
  <2> QED  BY <2>3, <2>4 DEF Blocks
<1>7. /\ q.ticket = MintTicket(i, chain[g].ledger.asset[i]) /\ q.ticket \in LotTickets
      /\ q.ticket.hash <= chain[g].hash /\ q.ticket.asset = i
  <2>1. PICK b \in Blocks : b = chain[g]  BY <1>6
  <2>2. Good(b, g) /\ LotQuoted(b.ledger, i) /\ q = QuotedLot(b.ledger, i)  BY <1>2, <1>3, <1>6, <2>1
  <2>3. /\ q.ticket = MintTicket(i, b.ledger.asset[i]) /\ q.ticket \in LotTickets
        /\ q.ticket.hash <= b.hash /\ q.ticket.asset = i
    BY <2>2, QuotedIs
  <2> QED  BY <2>1, <2>3
<1>8. Ledger.asset[i] = chain[g].ledger.asset[i]  BY <1>2, <1>4, <1>6, <1>7 DEF Follows, Ledger
<1>9. LotQuoted(Ledger, i) /\ q = QuotedLot(Ledger, i)
  BY <1>2, <1>3, <1>8 DEF LotQuoted, QuotedLot, Progressive, Deployed
<1>10. q.ticket.hash < Tip.hash
  <2>1. q.ticket.hash \in Nat /\ chain[g].hash < Tip.hash  BY <1>6, <1>7 DEF LotTickets, Follows
  <2> QED  BY <1>5, <1>6, <1>7, <2>1
<1>11. PICK used : used = UsedRights(Ledger, {q.ticket}, Tip.hash)  OBVIOUS
<1>12. used = {i}
  <2>1. i \in used
    <3>1. i \in Progressive(Ledger) /\ Ledger.asset[i].right # None  BY <1>9 DEF LotQuoted
    <3>2. MintTicket(i, Ledger.asset[i]) = q.ticket  BY <1>7, <1>8
    <3>3. Ledger.asset[i].right.hash = q.ticket.hash  BY <3>2 DEF MintTicket
    <3>4. Ledger.asset[i].right.hash # Tip.hash
      <4>1. q.ticket.hash \in Nat  BY <1>7 DEF LotTickets
      <4> QED  BY <1>5, <1>10, <3>3, <4>1
    <3> QED  BY <1>11, <3>1, <3>2, <3>4 DEF UsedRights
  <2>2. \A j \in used : j = i
    <3> TAKE j \in used
    <3>1. MintTicket(j, Ledger.asset[j]) = q.ticket  BY <1>11 DEF UsedRights
    <3>2. MintTicket(j, Ledger.asset[j]).asset = j  BY DEF MintTicket
    <3> QED  BY <1>7, <3>1, <3>2
  <2> QED  BY <2>1, <2>2
<1>13. Canonical(Ledger, used, q.fee)
  <2>1. Cardinality(used) = 1  BY <1>12, FS_Singleton
  <2> QED  BY <1>9, <1>12, <2>1 DEF Canonical
<1>14. PICK m : m = UseRights(Ledger, used, signer, q.fee, At)  OBVIOUS
<1>15. Tip.paid \in [Ids -> Seq(Nat)] /\ q.fee = Fee[Len(Tip.paid[i]) + 1] /\ q.fee \in Nat
  <2>1. Tip.paid \in [Ids -> Seq(Nat)]  BY <1>5 DEF Blocks
  <2>2. LotQuoted(Tip.ledger, i) /\ q = QuotedLot(Tip.ledger, i)  BY <1>9 DEF Ledger
  <2> QED  BY <1>5, <2>1, <2>2, QuotedIs
<1>16. PICK paid : paid = [Tip.paid EXCEPT ![i] = Append(Tip.paid[i], q.fee)]  OBVIOUS
<1>17. paid \in [Ids -> Seq(Nat)]
  <2>1. Tip.paid[i] \in Seq(Nat)  BY <1>15
  <2>2. Append(Tip.paid[i], q.fee) \in Seq(Nat)  BY <1>15, <2>1
  <2> QED  BY <1>15, <1>16, <2>2
<1>18. Pays(Ledger, used, q.fee, Tip.paid, paid)
  <2>1. paid[i] = Append(Tip.paid[i], Fee[Len(Tip.paid[i]) + 1])  BY <1>15, <1>16
  <2>2. \A j \in Ids : j # i => paid[j] = Tip.paid[j]  BY <1>15, <1>16
  <2> QED  BY <1>12, <1>13, <2>1, <2>2 DEF Pays
<1>19. PICK c : c = [Tip EXCEPT !.created = Tip.created \cup {q.ticket}, !.ledger = m, !.paid = paid]  OBVIOUS
<1>20. Applied(c)
  <2>1. PICK d : d = Created(signer, {q.ticket}, q.fee)  OBVIOUS
  <2>2. d = [Tip EXCEPT !.created = Tip.created \cup {q.ticket}, !.ledger = m]
    BY <1>11, <1>14, <2>1 DEF Created
  <2>3. Applied([d EXCEPT !.paid[i] = Append(@, q.fee)])  BY <1>4, <2>1
  <2>4. [d EXCEPT !.paid[i] = Append(@, q.fee)] = c  BY <1>5, <1>16, <1>19, <2>2 DEF Blocks
  <2> QED  BY <2>3, <2>4
<1>21. {q.ticket} \in SUBSET LotTickets /\ \A t \in {q.ticket} : t.hash < Tip.hash  BY <1>7, <1>10
<1> QED  BY <1>11, <1>14, <1>17, <1>18, <1>19, <1>20, <1>21, UseMoves

\* Tickets used otherwise mint nothing.
LEMMA MisuseKeeps == ASSUME IInv, Misuse PROVE IInv'
<1>1. PICK signer \in Owners, g \in Start..height - 1 :
        \E S \in SUBSET {i \in Ids : LotQuoted(chain[g].ledger, i)} :
          Applied(Created(signer, {QuotedLot(chain[g].ledger, i).ticket : i \in S}, None))
  BY DEF Misuse
<1>2. PICK S \in SUBSET {i \in Ids : LotQuoted(chain[g].ledger, i)} :
        Applied(Created(signer, {QuotedLot(chain[g].ledger, i).ticket : i \in S}, None))
  BY <1>1
<1>3. PICK tickets : tickets = {QuotedLot(chain[g].ledger, i).ticket : i \in S}  OBVIOUS
<1>4. Tip \in Blocks /\ Ledger \in Ledgers /\ Good(Tip, height) /\ Tip.hash \in Nat  BY TipIs
<1>5. chain[g] \in Blocks /\ Good(chain[g], g) /\ chain[g].hash < Tip.hash /\ chain[g].hash \in Nat
  <2>1. height \in Nat /\ Start \in Nat /\ height \in Start..height /\ chain \in [Start..height -> Blocks]
    BY TipIs
  <2>2. g \in Start..height  BY <2>1
  <2>3. chain[g] \in Blocks  BY <2>1, <2>2
  <2>4. Good(chain[g], g) /\ Follows(chain[g], Tip, g)  BY <2>1, <2>2 DEF IInv, Tip
  <2> QED  BY <2>3, <2>4 DEF Blocks, Follows
<1>6. \A t \in tickets : t \in LotTickets /\ t.hash < Tip.hash
  <2> TAKE t \in tickets
  <2>1. PICK i \in S : t = QuotedLot(chain[g].ledger, i).ticket  BY <1>3
  <2>2. PICK q : q = QuotedLot(chain[g].ledger, i)  OBVIOUS
  <2>3. i \in Ids /\ LotQuoted(chain[g].ledger, i)  OBVIOUS
  <2>4. q.ticket \in LotTickets /\ q.ticket.hash <= chain[g].hash  BY <1>5, <2>2, <2>3, QuotedIs
  <2>5. t = q.ticket /\ t.hash \in Nat  BY <2>1, <2>2, <2>4 DEF LotTickets
  <2> QED  BY <1>4, <1>5, <2>4, <2>5
<1>7. PICK used : used = UsedRights(Ledger, tickets, Tip.hash)  OBVIOUS
<1>8. ~Canonical(Ledger, used, None)
  <2> SUFFICES ASSUME Cardinality(used) = 1, \A i \in used : None = QuotedLot(Ledger, i).fee PROVE FALSE
    BY DEF Canonical
  <2>1. used # {}  BY FS_EmptySet
  <2>2. PICK i : i \in used  BY <2>1
  <2>3. i \in Ids /\ LotQuoted(Tip.ledger, i)
    BY <1>7, <2>2 DEF UsedRights, LotQuoted, Progressive, Deployed, Ledger
  <2>4. PICK q : q = QuotedLot(Tip.ledger, i)  OBVIOUS
  <2>5. q.fee \in Nat  BY <1>4, <2>3, <2>4, QuotedIs
  <2>6. None = q.fee  BY <2>2, <2>4 DEF Ledger
  <2> QED  BY <2>5, <2>6, LedgerConstants
<1>9. PICK m : m = UseRights(Ledger, used, signer, None, At)  OBVIOUS
<1>10. PICK c : c = [Tip EXCEPT !.created = Tip.created \cup tickets, !.ledger = m, !.paid = Tip.paid]  OBVIOUS
<1>11. Applied(c)
  <2>1. Created(signer, tickets, None) = [Tip EXCEPT !.created = Tip.created \cup tickets, !.ledger = m]
    BY <1>7, <1>9 DEF Created
  <2>2. [Tip EXCEPT !.created = Tip.created \cup tickets, !.ledger = m] = c  BY <1>4, <1>10 DEF Blocks
  <2> QED  BY <1>2, <1>3, <2>1, <2>2
<1>12. Tip.paid \in [Ids -> Seq(Nat)] /\ Pays(Ledger, used, None, Tip.paid, Tip.paid)  BY <1>4, <1>8 DEF Blocks, Pays
<1>13. tickets \in SUBSET LotTickets /\ \A t \in tickets : t.hash < Tip.hash  BY <1>6
<1> QED  BY <1>7, <1>9, <1>10, <1>11, <1>12, <1>13, UseMoves

-----------------------------------------------------------------------------
(* The theorems. *)

\* A sum of nothing is nothing.
LEMMA NoTotal ==
  ASSUME NEW S, IsFiniteSet(S), NEW f, f = [x \in S |-> 0]
  PROVE  Total(f, S) = 0
<1>1. f \in [S -> Nat] /\ \A x \in S : f[x] = f[x] + f[x]  OBVIOUS
<1>2. Total(f, S) = Total(f, S) + Total(f, S)  BY <1>1, SumAdds
<1>3. PICK t \in Nat : t = Total(f, S)  BY <1>1, TotalType
<1>4. t = t + t  BY <1>2, <1>3
<1>5. t = 0  BY <1>4
<1> QED  BY <1>3, <1>5

\* The ledger a reader starts with.
LEMMA EmptyIs == EmptyLedger \in Ledgers /\ Supplied(EmptyLedger) /\ Named(EmptyLedger)
<1>1. PICK l : l = EmptyLedger  OBVIOUS
<1>2. /\ l.seq = [o \in Owners |-> 0] /\ l.asset = [i \in Ids |-> None]
      /\ l.balance = [i \in Ids |-> [o \in Owners |-> 0]] /\ l.multisigs = {}
      /\ l.ticket = [k \in Keys |-> None] /\ l.symbols = [x \in Symbols |-> None]
      /\ l.inscriptions = [i \in Ids |-> 0] /\ l.next = 1
  BY <1>1 DEF EmptyLedger
<1>3. l \in Ledgers
  <2>1. 0 \in 0..MaxSeq  BY LedgerConstants
  <2> QED  BY <1>1, <2>1 DEF EmptyLedger, Ledgers
<1>4. Supplied(l)
  <2>1. Locked(l) = {} /\ IsFiniteSet(Locked(l))  BY <1>2, FS_EmptySet DEF Locked
  <2>2. ASSUME NEW i \in Ids PROVE Total(l.balance[i], Owners) + LockedOf(l, i) = Minted(l, i)
    <3>1. l.balance[i] = [o \in Owners |-> 0]  BY <1>2
    <3>2. Total(l.balance[i], Owners) = 0  BY <3>1, NoTotal, LedgerConstants
    <3>3. Held(l.ticket, i) = {}  BY <1>2 DEF Held
    <3>4. LockedOf(l, i) = Total(Amount(l.ticket), Held(l.ticket, i))  BY <1>3, <2>1, HeldIs
    <3>5. LockedOf(l, i) = 0  BY <3>3, <3>4, TotalStep, FS_EmptySet
    <3>6. Minted(l, i) = 0  BY <1>2 DEF Minted
    <3> QED  BY <3>2, <3>5, <3>6
  <2>3. \A i \in Ids : l.asset[i] = None  BY <1>2
  <2> QED  BY <2>1, <2>2, <2>3 DEF Supplied
<1>5. Named(l)
  <2>1. Deployed(l) = {}  BY <1>2 DEF Deployed
  <2>2. \A x \in Symbols : l.symbols[x] = None  BY <1>2
  <2>3. \A i \in Ids : l.inscriptions[i] = 0  BY <1>2
  <2>4. {i \in Ids : l.inscriptions[i] # 0} = {}  BY <2>3
  <2>5. l.next = 1 + Cardinality({})  BY <1>2, FS_EmptySet
  <2> QED  BY <2>1, <2>2, <2>3, <2>4, <2>5 DEF Named, NamesConsistent
<1> QED  BY <1>1, <1>3, <1>4, <1>5

\* The first state of a reader.
LEMMA InitIs == Init => IInv
<1> SUFFICES ASSUME Init PROVE IInv  OBVIOUS
<1>1. PICK b : b = [hash |-> 0, ledger |-> EmptyLedger, proposal |-> NoProposals,
                    created |-> {}, bought |-> {}, paid |-> [i \in Ids |-> <<>>]]
  OBVIOUS
<1>2. /\ height = Start /\ open = FALSE /\ final = Start /\ fresh = 1 /\ prepared = {}
      /\ chain = [h \in {Start} |-> b]
  BY <1>1 DEF Init
<1>3. /\ b.hash = 0 /\ b.ledger = EmptyLedger /\ b.proposal = NoProposals
      /\ b.created = {} /\ b.bought = {} /\ b.paid = [i \in Ids |-> <<>>]
  BY <1>1
<1>4. b \in Blocks
  <2>1. EmptyLedger \in Ledgers  BY EmptyIs
  <2>2. NoProposals \in [Keys -> Offered \cup {None}]  BY DEF NoProposals
  <2>3. [i \in Ids |-> <<>>] \in [Ids -> Seq(Nat)]  OBVIOUS
  <2> QED  BY <1>1, <2>1, <2>2, <2>3 DEF Blocks
<1>5. \A i \in Ids : EmptyLedger.asset[i] = None  BY DEF EmptyLedger
<1>6. \A k \in Keys : EmptyLedger.ticket[k] = None  BY DEF EmptyLedger
<1>7. Righted(b, Start)
  <2>1. Progressive(EmptyLedger) = {}  BY <1>5 DEF Progressive, Deployed
  <2>2. \A i \in Ids : b.paid[i] = <<>> /\ 1..Len(b.paid[i]) = {}  BY <1>3
  <2> QED  BY <1>3, <2>1, <2>2 DEF Righted
<1>8. Traded(b, Start)  BY <1>3, <1>6 DEF Traded, TradedAt
<1>9. Good(b, Start)  BY <1>3, <1>7, <1>8, EmptyIs DEF Good
<1>10. Start \in Nat /\ Start..Start = {Start} /\ Start..Start - 1 = {}  BY ReaderConstants
<1>11. TypeOK
  <2>1. chain \in [Start..height -> Blocks]
    <3>1. [h \in {Start} |-> b] \in [{Start} -> Blocks]  BY <1>4
    <3> QED  BY <1>2, <1>10, <3>1
  <2>2. open \in BOOLEAN  BY <1>2
  <2>3. height \in Nat /\ Start <= height /\ final \in Start..height /\ fresh \in Nat  BY <1>2, <1>10
  <2>4. prepared \subseteq [key : Keys, call : Calls]  BY <1>2
  <2> QED  BY <2>1, <2>2, <2>3, <2>4 DEF TypeOK
<1> QED  BY <1>2, <1>3, <1>9, <1>10, <1>11 DEF IInv

\* Every step leaves a sound chain sound.
LEMMA Inductive == IInv /\ [Next]_vars => IInv'
<1> SUFFICES ASSUME IInv, [Next]_vars PROVE IInv'  OBVIOUS
<1>1. CASE NextBlock  BY <1>1, NextBlockKeeps
<1>2. CASE EndBlock  BY <1>2, EndBlockKeeps
<1>3. CASE Rollback  BY <1>3, RollbackKeeps
<1>4. CASE DeployOp \/ InscribeOp \/ MintOp \/ TransferOp  BY <1>4, OperationsKeep
<1>5. CASE CreatePair  BY <1>5, CreatePairKeeps
<1>6. CASE Propose  BY <1>6, ProposeKeeps
<1>7. CASE Close \/ ApproveAlone  BY <1>7, EndsKeep
<1>8. CASE Buy  BY <1>8, BuyKeeps
<1>9. CASE PrepareBuy  BY <1>9, PrepareBuyKeeps
<1>10. CASE Settle  BY <1>10, SettleKeeps
<1>11. CASE Misuse  BY <1>11, MisuseKeeps
<1>12. CASE UNCHANGED vars
  BY <1>12 DEF vars, IInv, TypeOK
<1> QED  BY <1>1, <1>2, <1>3, <1>4, <1>5, <1>6, <1>7, <1>8, <1>9, <1>10, <1>11, <1>12 DEF Next

\* The chain a reader follows stays sound, block by block, over operations, trades, settlements, reorganizations.
THEOREM ChainTheorem == Spec => []IInv
<1> QED  BY InitIs, Inductive, PTL DEF Spec

\* A sound tip passes the reader's own assertions.
LEMMA Asserts == IInv => TokensNeverHalt
<1> SUFFICES ASSUME IInv PROVE AssertInvariants(Ledger, At)  BY DEF TokensNeverHalt
<1>1. /\ Tip \in Blocks /\ Ledger \in Ledgers /\ Supplied(Ledger) /\ Named(Ledger) /\ Good(Tip, height)
      /\ At = [height |-> height, hash |-> Tip.hash]
  BY TipIs
<1>2. SupplyConserved(Ledger)
  <2>1. ASSUME NEW i \in Deployed(Ledger)
        PROVE  /\ MapThenSumSet(LAMBDA o : Ledger.balance[i][o], Owners) + LockedOf(Ledger, i) = Ledger.asset[i].minted
               /\ Ledger.asset[i].minted <= CapOf(Ledger.asset[i])
    <3>1. i \in Ids /\ Ledger.asset[i] # None  BY DEF Deployed
    <3>2. Total(Ledger.balance[i], Owners) + LockedOf(Ledger, i) = Ledger.asset[i].minted
      BY <1>1, <3>1 DEF Supplied, Minted
    <3>3. Total(Ledger.balance[i], Owners) = MapThenSumSet(LAMBDA o : Ledger.balance[i][o], Owners)
      BY DEF Total
    <3>4. Ledger.asset[i].minted <= CapOf(Ledger.asset[i])  BY <1>1, <3>1 DEF Supplied
    <3> QED  BY <3>2, <3>3, <3>4
  <2> QED  BY <2>1 DEF SupplyConserved
<1>3. RightsConsistent(Ledger, At)
  <2>1. At.height = height /\ At.hash = Tip.hash  BY <1>1
  <2>2. ASSUME NEW i \in Progressive(Ledger)
        PROVE  LET a == Ledger.asset[i] IN
                 /\ a.minted % Lot = 0 /\ (a.right = None <=> a.minted = Cap)
                 /\ a.right # None => /\ a.right.height <= At.height
                                      /\ a.right.height = At.height => a.right.hash = At.hash
    <3>1. i \in Ids  BY DEF Progressive, Deployed
    <3>2. PICK a : a = Ledger.asset[i]  OBVIOUS
    <3>3. PICK n \in Nat : a.minted = Lot * n  BY <1>1, <3>2, GoodParcelled DEF Ledger
    <3>4. a.minted % Lot = 0  BY <3>3, LotFacts
    <3>5. /\ a.right = None <=> a.minted = Cap
          /\ a.right # None => /\ a.right.height <= height
                               /\ a.right.height = height => a.right.hash = Tip.hash
      BY <1>1, <3>1, <3>2 DEF Good, Righted, Ledger
    <3> QED  BY <2>1, <3>2, <3>4, <3>5
  <2> QED  BY <2>2 DEF RightsConsistent
<1>4. NamesConsistent(Ledger)  BY <1>1 DEF Named
<1> QED  BY <1>2, <1>3, <1>4 DEF AssertInvariants

\* assertInvariants() (protocol.ts:917) never stops the reader: supply is conserved and within its cap,
\* the rights are those of this chain, and symbols and numbers name one asset each.
THEOREM NeverHaltsTheorem == Spec => []TokensNeverHalt
<1> QED  BY ChainTheorem, Asserts, PTL

\* A sound tip has its trades whole.
LEMMA Atomic == IInv => TradesAreAtomic
<1> SUFFICES ASSUME IInv PROVE TradesAreAtomic  OBVIOUS
<1>1. \A k \in Keys : TradedAt(Tip, k, height)  BY TipTraded
<1>2. Tip.bought \subseteq Keys  BY TipIs DEF Blocks
<1>3. \A k \in Tip.bought : Ledger.ticket[k] # None  BY <1>1, <1>2 DEF TradedAt, Ledger
<1>4. ASSUME NEW k \in Keys, Ledger.ticket[k] # None
      PROVE  /\ Ledger.ticket[k].status = "settled" <=> k \in Tip.bought
             /\ Ledger.ticket[k].status = "locked" <=> Approvable(k)
  BY <1>1, <1>4 DEF TradedAt, Ledger, Approvable, Active
<1> QED  BY <1>3, <1>4 DEF TradesAreAtomic

\* Whatever is proposed, approved, closed, expired or rolled back, tokens are the buyer's exactly when a
\* prepared purchase ran, and locked exactly while their proposal can be approved (protocol.ts:1124, 1159).
THEOREM AtomicTheorem == Spec => []TradesAreAtomic
<1> QED  BY ChainTheorem, Atomic, PTL

\* At a sound tip each lot has its payment, and the next can be bought.
LEMMA LotsSound == IInv => LotsArePaid /\ LotsStayOpen
<1> SUFFICES ASSUME IInv PROVE LotsArePaid /\ LotsStayOpen  OBVIOUS
<1>1. Tip \in Blocks /\ Good(Tip, height)  BY TipIs
<1>2. LotsArePaid
  <2>1. ASSUME NEW i \in Progressive(Ledger)
        PROVE  /\ Ledger.asset[i].minted = Lot * Len(Tip.paid[i])
               /\ \A n \in 1..Len(Tip.paid[i]) : Tip.paid[i][n] = Fee[n]
    <3>1. i \in Ids  BY DEF Progressive, Deployed
    <3> QED  BY <1>1, <3>1 DEF Good, Righted, Ledger
  <2> QED  BY <2>1 DEF LotsArePaid
<1>3. LotsStayOpen
  <2>1. ASSUME NEW i \in Progressive(Ledger), Ledger.asset[i].minted < Cap
        PROVE  LotQuoted(Ledger, i) /\ QuotedLot(Ledger, i).ticket \notin Tip.created
    <3>1. i \in Ids  BY DEF Progressive, Deployed
    <3>2. Ledger.asset[i].minted # Cap  BY <2>1, LedgerConstants
    <3>3. Ledger.asset[i].right # None /\ MintTicket(i, Ledger.asset[i]) \notin Tip.created
      BY <1>1, <3>1, <3>2 DEF Good, Righted, Ledger
    <3> QED  BY <3>3 DEF LotQuoted, QuotedLot
  <2> QED  BY <2>1 DEF LotsStayOpen
<1> QED  BY <1>2, <1>3

\* On any chain a reader follows, each settlement that ran minted one lot for that lot's fee, and nothing
\* else minted one (useRights, protocol.ts:447).
THEOREM PaidTheorem == Spec => []LotsArePaid
<1> QED  BY ChainTheorem, LotsSound, PTL

\* A lot that remains can always be bought: the ticket of the current right has not been created, whatever
\* was done with earlier ones (protocol.ts:447).
THEOREM StaysOpenTheorem == Spec => []LotsStayOpen
<1> QED  BY ChainTheorem, LotsSound, PTL

=============================================================================
