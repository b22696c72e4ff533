-------------------------- MODULE MintSpend_proofs --------------------------
(* Proofs about MintSpend, for every number of lots, fee, term, fork and payment: a verdict is true of
   the payment it was given for, no fork mints more lots than approved or costs more than approved, and
   the record's own accounts stay within the approved spend. *)
EXTENDS MintSpend, FiniteSums_proofs

-----------------------------------------------------------------------------
(* The inductive invariant *)

\* A block's line holds the block and, with each of its ancestors, the line of that ancestor; heights
\* and nonces grow along it.
Ancestry ==
  /\ open => Len(blocks) > 1
  /\ \A v \in DOMAIN blocks :
       /\ v \in blocks[v].line
       /\ v > 1 => blocks[v].parent \in 1..v - 1
       /\ \A u \in blocks[v].line :
            /\ u \in 1..v
            /\ blocks[u].line \subseteq blocks[v].line
            /\ blocks[u].height <= blocks[v].height
            /\ blocks[u].nonce <= blocks[v].nonce

\* A right is a place of the block's line, or older than the tree; a block that did not use it has
\* its parent's; and it determines how many lots were minted.
Rights ==
  \A v \in DOMAIN blocks :
    blocks[v].right # None =>
      /\ blocks[v].right.block \in blocks[v].line \cup {0}
      /\ v > 1 /\ blocks[v].right.block # v => blocks[v].right = blocks[blocks[v].parent].right
      /\ \A u \in DOMAIN blocks : blocks[u].right = blocks[v].right => blocks[u].minted = blocks[v].minted

\* What runs is a payment of the record, after which the account's nonce is past its own.
Runs ==
  \A v \in DOMAIN blocks, i \in Nat :
    i \in DOMAIN blocks[v].runs =>
      /\ v > 1
      /\ blocks[v].runs[i] \in 0..Len(attempts)
      /\ blocks[v].runs[i] > 0 => blocks[v].nonce >= first + blocks[v].runs[i]

\* A right that a payment made is of a payment that minted, one lot above the right it used.
Made ==
  \A v \in DOMAIN blocks :
    blocks[v].right # None /\ blocks[v].right.block > 0 =>
      LET c == blocks[v].right.block
          i == blocks[v].right.index
      IN /\ i \in DOMAIN blocks[c].runs
         /\ blocks[c].runs[i] > 0 =>
              /\ blocks[c].runs[i] \in blocks[c].won
              /\ blocks[v].minted = attempts[blocks[c].runs[i]].minted + 1

\* A payment that minted on a block's line did so above its birth, where it ran on that line.
Won ==
  \A v \in DOMAIN blocks :
    /\ blocks[v].won # {} => \E k \in blocks[v].won : blocks[v].won \subseteq 1..k
    /\ \A n \in blocks[v].won :
         /\ n \in 1..Len(attempts)
         /\ blocks[v].nonce >= first + n
         /\ attempts[n].birth \in blocks[v].line
         /\ \A u \in blocks[v].line, i \in Nat :
              i \in DOMAIN blocks[u].runs /\ blocks[u].runs[i] = n => n \in blocks[u].won

\* And where it ran, it used its parent's right, which was its own, and made the next if there is one.
Mints ==
  \A v \in DOMAIN blocks, i \in Nat :
    i \in DOMAIN blocks[v].runs /\ blocks[v].runs[i] \in blocks[v].won =>
      /\ blocks[blocks[v].parent].right = attempts[blocks[v].runs[i]].anchor
      /\ \/ blocks[v].right = Place(v, i)
         \/ blocks[v].right = None /\ attempts[blocks[v].runs[i]].lot = Lots

\* A payment is born on an attested block, whose right and counts it was signed for.
Born ==
  \A n \in 1..Len(attempts) :
    LET p == attempts[n] IN
      /\ p.birth \in Attested
      /\ p.anchor # None /\ p.anchor = blocks[p.birth].right
      /\ p.minted = blocks[p.birth].minted /\ p.lot = p.minted + 1

\* A recorded position is of an attested block, and every payment signed before another has a verdict
\* at a position on the line that one was born on.
MintedBefore(n) == {m \in 1..n - 1 : attempts[m].status = "minted"}
Placed ==
  \A n \in 1..Len(attempts) :
    LET p == attempts[n] IN
      /\ p.at # None => p.at.block \in Attested
      /\ p.status \in Verdict \cup {"included"} => p.at # None
      /\ \A m \in 1..n - 1 :
           /\ attempts[m].status \in {"minted", "lost-race"}
           /\ attempts[m].at # None => attempts[m].at.block \in blocks[p.birth].line
      /\ Cardinality(MintedBefore(n)) < MaxLots

IInv ==
  /\ TypeOK
  /\ Ancestry /\ Rights /\ Runs /\ Made /\ Won /\ Mints /\ Born /\ Placed
  /\ VerdictsTrue
-----------------------------------------------------------------------------
(* Steps of the chain *)

\* What any transaction does: the tip becomes e, where payment n ran, or somebody else's transaction.
Runs1(n, e) ==
  /\ open /\ n \in 0..Len(attempts) /\ e \in Block
  /\ blocks' = [blocks EXCEPT ![Len(blocks)] = e]
  /\ e.parent = Tip.parent /\ e.line = Tip.line /\ e.height = Tip.height
  /\ e.runs = Append(Tip.runs, n) /\ e.nonce >= Tip.nonce
  /\ n > 0 => Tip.nonce = first + n - 1 /\ e.nonce = Tip.nonce + 1 /\ attempts[n].birth \in Tip.line
  /\ UNCHANGED <<open, first, attempts, state>>
Keeps(e) == e.right = Tip.right /\ e.minted = Tip.minted /\ e.won = Tip.won
Uses(n, e) ==
  /\ Usable /\ e.right \in {Here, None}
  /\ e.minted \in {Tip.minted, Tip.minted + 1} /\ (e.right # None => e.minted # Lots)
  /\ n = 0 => e.won = Tip.won
  /\ n > 0 => /\ e.won = Tip.won \cup {n} /\ Tip.right = attempts[n].anchor
              /\ e.minted = Tip.minted + 1 /\ (e.right = None => e.minted = Lots)
ChainStep(n, e) == Runs1(n, e) /\ (Keeps(e) \/ Uses(n, e))

\* Its fields have their types.
LEMMA TipType == ASSUME TypeOK PROVE Len(blocks) \in 1..Len(blocks) /\ Tip \in Block /\ Here \in PlaceType
<1>1. Len(blocks) \in Nat /\ Len(blocks) > 0 /\ \A v \in 1..Len(blocks) : blocks[v] \in Block
  BY DEF TypeOK
<1>2. Tip \in Block BY <1>1 DEF Tip
<1>3. Len(Tip.runs) \in Nat BY <1>2 DEF Block
<1> QED BY <1>1, <1>2, <1>3 DEF Here, Place, PlaceType

\* A change of one field keeps the others and the type.
LEMMA SetMinted ==
  ASSUME NEW t \in Block, NEW m \in Nat
  PROVE  LET u == [t EXCEPT !.minted = m] IN
      /\ u \in Block
      /\ u.parent = t.parent /\ u.line = t.line /\ u.height = t.height /\ u.runs = t.runs
      /\ u.right = t.right /\ u.minted = m /\ u.held = t.held /\ u.nonce = t.nonce /\ u.won = t.won
BY DEF Block

\* The same, for what the owner holds.
LEMMA SetHeld ==
  ASSUME NEW t \in Block, NEW h \in Nat
  PROVE  LET u == [t EXCEPT !.held = h] IN
      /\ u \in Block
      /\ u.parent = t.parent /\ u.line = t.line /\ u.height = t.height /\ u.runs = t.runs
      /\ u.right = t.right /\ u.minted = t.minted /\ u.held = h /\ u.nonce = t.nonce /\ u.won = t.won
BY DEF Block

\* The same, for the nonce.
LEMMA SetNonce ==
  ASSUME NEW t \in Block, NEW k \in Nat
  PROVE  LET u == [t EXCEPT !.nonce = k] IN
      /\ u \in Block
      /\ u.parent = t.parent /\ u.line = t.line /\ u.height = t.height /\ u.runs = t.runs
      /\ u.right = t.right /\ u.minted = t.minted /\ u.held = t.held /\ u.nonce = k /\ u.won = t.won
BY DEF Block

\* The same, for the payments that minted.
LEMMA SetWon ==
  ASSUME NEW t \in Block, NEW w \in SUBSET Nat
  PROVE  LET u == [t EXCEPT !.won = w] IN
      /\ u \in Block
      /\ u.parent = t.parent /\ u.line = t.line /\ u.height = t.height /\ u.runs = t.runs
      /\ u.right = t.right /\ u.minted = t.minted /\ u.held = t.held /\ u.nonce = t.nonce /\ u.won = w
BY DEF Block

\* The same, for the transactions.
LEMMA SetRuns ==
  ASSUME NEW t \in Block, NEW r \in Seq(Nat)
  PROVE  LET u == [t EXCEPT !.runs = r] IN
      /\ u \in Block
      /\ u.parent = t.parent /\ u.line = t.line /\ u.height = t.height /\ u.runs = r
      /\ u.right = t.right /\ u.minted = t.minted /\ u.held = t.held /\ u.nonce = t.nonce /\ u.won = t.won
BY DEF Block

\* A used right is replaced by the place of its use, or by none, and nothing else changes.
LEMMA UsedShape ==
  ASSUME TypeOK, NEW t \in Block
  PROVE  /\ Used(t) \in Block /\ Used(t).right \in {Here, None}
         /\ Used(t).right = None => t.minted = Lots \/ Here = None
         /\ Used(t).right # None => t.minted # Lots
         /\ Used(t).parent = t.parent /\ Used(t).line = t.line /\ Used(t).height = t.height
         /\ Used(t).runs = t.runs /\ Used(t).minted = t.minted /\ Used(t).nonce = t.nonce
         /\ Used(t).won = t.won
<1> DEFINE r == IF t.minted = Lots THEN None ELSE Here
<1>1. r \in RightType BY TipType DEF RightType
<1>2. Used(t) = [t EXCEPT !.right = r] BY DEF Used
<1> HIDE DEF r
<1>3. /\ [t EXCEPT !.right = r] \in Block /\ [t EXCEPT !.right = r].right = r
      /\ [t EXCEPT !.right = r].parent = t.parent /\ [t EXCEPT !.right = r].line = t.line
      /\ [t EXCEPT !.right = r].height = t.height /\ [t EXCEPT !.right = r].runs = t.runs
      /\ [t EXCEPT !.right = r].minted = t.minted /\ [t EXCEPT !.right = r].nonce = t.nonce
      /\ [t EXCEPT !.right = r].won = t.won
  BY <1>1 DEF Block
<1>4. /\ r \in {Here, None} /\ (r = None => t.minted = Lots \/ Here = None)
      /\ r # None => t.minted # Lots
  BY DEF r
<1> QED BY <1>2, <1>3, <1>4

\* A transaction of anybody else is a step of that shape.
Foreign(t) ==
  /\ t \in Block
  /\ t.parent = Tip.parent /\ t.line = Tip.line /\ t.height = Tip.height
  /\ t.nonce >= Tip.nonce /\ t.won = Tip.won
  /\ \/ t.right = Tip.right /\ t.minted = Tip.minted
     \/ /\ Usable /\ t.right \in {Here, None}
        /\ t.minted \in {Tip.minted, Tip.minted + 1} /\ (t.right # None => t.minted # Lots)
LEMMA OthersShape == ASSUME TypeOK, Others PROVE \E e : ChainStep(0, e)
<1> USE TipType
<1>0. /\ Tip \in Block /\ Tip.nonce \in Nat /\ Tip.minted + 1 \in Nat /\ Tip.held \in Nat
      /\ Tip.held + 1 \in Nat /\ Tip.nonce + 1 \in Nat /\ Tip.nonce + 1 >= Tip.nonce
      /\ Append(Tip.runs, 0) \in Seq(Nat)
  BY DEF Block
<1>1. PICK t : Transaction(0, t) /\ Foreign(t)
  <2>1. ASSUME NEW t \in Block, Usable, Transaction(0, Used(t)), t.parent = Tip.parent, t.line = Tip.line,
               t.height = Tip.height, t.nonce >= Tip.nonce, t.won = Tip.won,
               t.minted \in {Tip.minted, Tip.minted + 1}
        PROVE  Foreign(Used(t))
    BY <2>1, UsedShape DEF Foreign
  <2>2. CASE Usable /\ Transaction(0, Used([Tip EXCEPT !.minted = @ + 1]))
    <3> DEFINE t == [Tip EXCEPT !.minted = @ + 1]
    <3>1. /\ t \in Block /\ t.parent = Tip.parent /\ t.line = Tip.line /\ t.height = Tip.height
          /\ t.nonce >= Tip.nonce /\ t.won = Tip.won /\ t.minted \in {Tip.minted, Tip.minted + 1}
      BY <1>0, SetMinted
    <3> QED BY <2>1, <2>2, <3>1
  <2>3. CASE Usable /\ Transaction(0, Used(Tip))
    <3>1. Tip.nonce >= Tip.nonce BY <1>0
    <3> QED BY <2>1, <2>3, <3>1
  <2>4. CASE Tip.held < Tip.minted /\ Transaction(0, [Tip EXCEPT !.held = @ + 1])
    <3>1. Foreign([Tip EXCEPT !.held = @ + 1]) BY <1>0, SetHeld DEF Foreign
    <3> QED BY <2>4, <3>1
  <2>5. CASE Usable /\ Transaction(0, Used([Tip EXCEPT !.minted = @ + 1, !.held = @ + 1, !.nonce = @ + 1]))
    <3> DEFINE t == [Tip EXCEPT !.minted = @ + 1, !.held = @ + 1, !.nonce = @ + 1]
    <3>1. /\ t \in Block /\ t.parent = Tip.parent /\ t.line = Tip.line /\ t.height = Tip.height
          /\ t.nonce >= Tip.nonce /\ t.won = Tip.won /\ t.minted \in {Tip.minted, Tip.minted + 1}
      <4> DEFINE a == [Tip EXCEPT !.minted = @ + 1]
                 b == [a EXCEPT !.held = @ + 1]
      <4>1. /\ a \in Block /\ a.parent = Tip.parent /\ a.line = Tip.line /\ a.height = Tip.height
            /\ a.held = Tip.held /\ a.nonce = Tip.nonce /\ a.won = Tip.won /\ a.minted = Tip.minted + 1
        BY <1>0, SetMinted
      <4> HIDE DEF a
      <4>2. /\ b \in Block /\ b.parent = Tip.parent /\ b.line = Tip.line /\ b.height = Tip.height
            /\ b.nonce = Tip.nonce /\ b.won = Tip.won /\ b.minted = Tip.minted + 1
        BY <1>0, <4>1, SetHeld
      <4>3. t = [b EXCEPT !.nonce = @ + 1] BY DEF a
      <4> HIDE DEF b
      <4>4. /\ [b EXCEPT !.nonce = @ + 1] \in Block
            /\ LET c == [b EXCEPT !.nonce = @ + 1] IN
                 /\ c.parent = Tip.parent /\ c.line = Tip.line /\ c.height = Tip.height
                 /\ c.nonce >= Tip.nonce /\ c.won = Tip.won /\ c.minted = Tip.minted + 1
        BY <1>0, <4>2, SetNonce
      <4> QED BY <4>3, <4>4
    <3> QED BY <2>1, <2>5, <3>1
  <2>6. CASE Tip.held > 0 /\ Transaction(0, [Tip EXCEPT !.held = @ - 1, !.nonce = @ + 1])
    <3>1. Tip.held - 1 \in Nat BY <1>0, <2>6
    <3>2. Foreign([Tip EXCEPT !.held = @ - 1, !.nonce = @ + 1])
      <4> DEFINE a == [Tip EXCEPT !.held = @ - 1]
      <4>1. /\ a \in Block /\ a.parent = Tip.parent /\ a.line = Tip.line /\ a.height = Tip.height
            /\ a.nonce = Tip.nonce /\ a.won = Tip.won /\ a.right = Tip.right /\ a.minted = Tip.minted
        BY <1>0, <3>1, SetHeld
      <4> HIDE DEF a
      <4>2. Foreign([a EXCEPT !.nonce = @ + 1]) BY <1>0, <4>1, SetNonce DEF Foreign
      <4> QED BY <4>2 DEF a
    <3> QED BY <2>6, <3>2
  <2> QED BY <2>2, <2>3, <2>4, <2>5, <2>6 DEF Others
<1> DEFINE e == [t EXCEPT !.runs = Append(Tip.runs, 0)]
<1>2. /\ e \in Block /\ e.runs = Append(Tip.runs, 0)
      /\ e.parent = t.parent /\ e.line = t.line /\ e.height = t.height /\ e.right = t.right
      /\ e.minted = t.minted /\ e.nonce = t.nonce /\ e.won = t.won
  <2>1. PICK r \in Seq(Nat) : r = Append(Tip.runs, 0)  BY <1>0
  <2>2. t \in Block  BY <1>1 DEF Foreign
  <2>3. /\ [t EXCEPT !.runs = r] \in Block /\ [t EXCEPT !.runs = r].runs = r
        /\ [t EXCEPT !.runs = r].parent = t.parent /\ [t EXCEPT !.runs = r].line = t.line
        /\ [t EXCEPT !.runs = r].height = t.height /\ [t EXCEPT !.runs = r].right = t.right
        /\ [t EXCEPT !.runs = r].minted = t.minted /\ [t EXCEPT !.runs = r].nonce = t.nonce
        /\ [t EXCEPT !.runs = r].won = t.won
    BY <2>2 DEF Block
  <2> QED BY <2>1, <2>3
<1>3. Runs1(0, e)
  <2>1. Len(attempts) \in Nat /\ 0 \in 0..Len(attempts) BY DEF TypeOK
  <2> QED BY <1>1, <1>2, <2>1 DEF Runs1, Transaction, Foreign
<1>4. Keeps(e) \/ Uses(0, e)
  BY <1>1, <1>2 DEF Keeps, Uses, Foreign
<1> QED BY <1>3, <1>4 DEF ChainStep

\* So is a payment's.
LEMMA PaysShape == ASSUME TypeOK, NEW n \in Indices, Pays(n) PROVE \E e : ChainStep(n, e)
<1> USE TipType
<1> DEFINE t == [Tip EXCEPT !.nonce = @ + 1]
           u == [t EXCEPT !.minted = @ + 1, !.held = @ + 1, !.won = @ \cup {n}]
           v == Used(u)
<1>0. /\ Tip \in Block /\ Tip.nonce + 1 \in Nat /\ Tip.minted + 1 \in Nat /\ Tip.held + 1 \in Nat
      /\ Tip.runs \in Seq(Nat) /\ Tip.won \in SUBSET Nat
  BY DEF Block
<1>1. n \in 0..Len(attempts) /\ n > 0 /\ n \in Nat BY DEF TypeOK, Indices
<1>2. /\ t \in Block /\ t.parent = Tip.parent /\ t.line = Tip.line /\ t.height = Tip.height
      /\ t.nonce = Tip.nonce + 1 /\ t.won = Tip.won /\ t.minted = Tip.minted /\ t.right = Tip.right
      /\ t.held = Tip.held
  BY <1>0, SetNonce
<1>3. /\ u \in Block /\ u.parent = Tip.parent /\ u.line = Tip.line /\ u.height = Tip.height
      /\ u.nonce = Tip.nonce + 1 /\ u.won = Tip.won \cup {n} /\ u.minted = Tip.minted + 1
  <2> HIDE DEF t
  <2> DEFINE a == [t EXCEPT !.minted = @ + 1]
             b == [a EXCEPT !.held = @ + 1]
  <2>1. /\ a \in Block /\ a.parent = Tip.parent /\ a.line = Tip.line /\ a.height = Tip.height
        /\ a.held = Tip.held /\ a.nonce = Tip.nonce + 1 /\ a.won = Tip.won /\ a.minted = Tip.minted + 1
    BY <1>0, <1>2, SetMinted
  <2>2. u = [b EXCEPT !.won = @ \cup {n}] BY DEF a
  <2> HIDE DEF a
  <2>3. /\ b \in Block /\ b.parent = Tip.parent /\ b.line = Tip.line /\ b.height = Tip.height
        /\ b.nonce = Tip.nonce + 1 /\ b.won = Tip.won /\ b.minted = Tip.minted + 1
    BY <1>0, <2>1, SetHeld
  <2> HIDE DEF b
  <2>4. LET c == [b EXCEPT !.won = @ \cup {n}] IN
          /\ c \in Block /\ c.parent = Tip.parent /\ c.line = Tip.line /\ c.height = Tip.height
          /\ c.nonce = Tip.nonce + 1 /\ c.won = Tip.won \cup {n} /\ c.minted = Tip.minted + 1
    <3>1. PICK w \in SUBSET Nat : w = Tip.won \cup {n} BY <1>0, <1>1
    <3>2. [b EXCEPT !.won = @ \cup {n}] = [b EXCEPT !.won = w] BY <2>3, <3>1
    <3>3. /\ [b EXCEPT !.won = w] \in Block /\ [b EXCEPT !.won = w].won = w
          /\ [b EXCEPT !.won = w].parent = b.parent /\ [b EXCEPT !.won = w].line = b.line
          /\ [b EXCEPT !.won = w].height = b.height /\ [b EXCEPT !.won = w].nonce = b.nonce
          /\ [b EXCEPT !.won = w].minted = b.minted
      BY <2>3 DEF Block
    <3> QED BY <2>3, <3>1, <3>2, <3>3
  <2> QED BY <2>2, <2>4
<1>4. PICK w : /\ Transaction(n, w)
               /\ w = t \/ (w = v /\ Usable /\ Tip.right = attempts[n].anchor)
  BY DEF Pays
<1> HIDE DEF t, u
<1> DEFINE e == [w EXCEPT !.runs = Append(Tip.runs, n)]
<1>5. w \in Block BY <1>2, <1>3, <1>4, UsedShape
<1>6. /\ e \in Block /\ e.runs = Append(Tip.runs, n)
      /\ e.parent = w.parent /\ e.line = w.line /\ e.height = w.height /\ e.right = w.right
      /\ e.minted = w.minted /\ e.nonce = w.nonce /\ e.won = w.won
  <2>1. Append(Tip.runs, n) \in Seq(Nat) BY <1>0, <1>1
  <2> QED BY <1>5, <2>1, SetRuns
<1>7. /\ w.parent = Tip.parent /\ w.line = Tip.line /\ w.height = Tip.height /\ w.nonce = Tip.nonce + 1
  BY <1>2, <1>3, <1>4, UsedShape
<1>8. Tip.nonce = first + n - 1 /\ attempts[n].birth \in Tip.line BY DEF Pays
<1>9. Runs1(n, e)
  <2>1. Tip.nonce + 1 >= Tip.nonce BY DEF Block
  <2> QED BY <1>1, <1>4, <1>6, <1>7, <1>8, <2>1 DEF Runs1, Transaction
<1>10. CASE w = t
  BY <1>1, <1>2, <1>6, <1>9, <1>10 DEF Keeps, ChainStep
<1>11. CASE w = v /\ Usable /\ Tip.right = attempts[n].anchor
  <2>1. Here # None BY SpendAssumption DEF PlaceType
  <2>2. Uses(n, e)
    BY <1>1, <1>3, <1>6, <1>11, <2>1, UsedShape DEF Uses
  <2> QED BY <1>9, <2>2 DEF ChainStep
<1> QED BY <1>4, <1>10, <1>11

\* What a step of that shape leaves alone.
LEMMA ChainFacts ==
  ASSUME TypeOK, NEW n, NEW e, Runs1(n, e)
  PROVE  /\ Len(blocks') = Len(blocks) /\ DOMAIN blocks = 1..Len(blocks) /\ DOMAIN blocks' = 1..Len(blocks)
         /\ blocks'[Len(blocks)] = e /\ Tip = blocks[Len(blocks)]
         /\ \A v \in 1..Len(blocks) : v # Len(blocks) => blocks'[v] = blocks[v]
         /\ blocks' \in Seq(Block) /\ blocks' # <<>>
         /\ Len(blocks) \in Nat /\ Len(blocks) > 0
         /\ open /\ open' = open /\ first' = first /\ attempts' = attempts /\ state' = state
BY DEF TypeOK, Runs1, Tip

\* A new block continues any block, and no other changes.
LEMMA NextFacts ==
  ASSUME TypeOK, NextBlock
  PROVE  \E p \in 1..Len(blocks), e \in Block :
           /\ blocks' = Append(blocks, e)
           /\ e.parent = p /\ e.line = blocks[p].line \cup {Len(blocks) + 1}
           /\ e.height = blocks[p].height + 1 /\ e.runs = <<>>
           /\ e.right = blocks[p].right /\ e.minted = blocks[p].minted
           /\ e.nonce = blocks[p].nonce /\ e.won = blocks[p].won
           /\ Len(blocks') = Len(blocks) + 1 /\ DOMAIN blocks = 1..Len(blocks)
           /\ DOMAIN blocks' = 1..Len(blocks) + 1
           /\ blocks'[Len(blocks) + 1] = e /\ \A v \in 1..Len(blocks) : blocks'[v] = blocks[v]
           /\ blocks' \in Seq(Block) /\ blocks' # <<>>
           /\ Len(blocks) \in Nat /\ Len(blocks) > 0
           /\ ~open /\ open' /\ first' = first /\ attempts' = attempts
<1>1. PICK p \in DOMAIN blocks :
        blocks' = Append(blocks, [blocks[p] EXCEPT !.parent = p, !.line = @ \cup {Len(blocks) + 1},
                                                    !.height = @ + 1, !.runs = <<>>])
  BY DEF NextBlock
<1>2. /\ Len(blocks) \in Nat /\ Len(blocks) > 0 /\ DOMAIN blocks = 1..Len(blocks) /\ p \in Nat
      /\ blocks[p] \in Block
  BY DEF TypeOK
<1> DEFINE f1 == [blocks[p] EXCEPT !.parent = p]
           f2 == [f1 EXCEPT !.line = @ \cup {Len(blocks) + 1}]
           f3 == [f2 EXCEPT !.height = @ + 1]
           e == [f3 EXCEPT !.runs = <<>>]
<1>3. /\ f1 \in Block /\ f1.parent = p /\ f1.line = blocks[p].line /\ f1.height = blocks[p].height
      /\ f1.right = blocks[p].right /\ f1.minted = blocks[p].minted /\ f1.nonce = blocks[p].nonce
      /\ f1.won = blocks[p].won
  BY <1>2 DEF Block
<1>4. blocks' = Append(blocks, e) BY <1>1
<1> HIDE DEF f1
<1>5. f1.line \cup {Len(blocks) + 1} \in SUBSET Nat BY <1>2, <1>3 DEF Block
<1>6. /\ f2 \in Block /\ f2.parent = p /\ f2.line = blocks[p].line \cup {Len(blocks) + 1}
      /\ f2.height = blocks[p].height /\ f2.right = blocks[p].right /\ f2.minted = blocks[p].minted
      /\ f2.nonce = blocks[p].nonce /\ f2.won = blocks[p].won
  <2> DEFINE w == f1.line \cup {Len(blocks) + 1}
  <2>1. w \in SUBSET Nat /\ f2 = [f1 EXCEPT !.line = w] /\ w = blocks[p].line \cup {Len(blocks) + 1}
    BY <1>3, <1>5
  <2> HIDE DEF f2, w
  <2> QED BY <1>3, <2>1 DEF Block
<1> HIDE DEF f2
<1>7. /\ f3 \in Block /\ f3.parent = p /\ f3.line = blocks[p].line \cup {Len(blocks) + 1}
      /\ f3.height = blocks[p].height + 1 /\ f3.right = blocks[p].right /\ f3.minted = blocks[p].minted
      /\ f3.nonce = blocks[p].nonce /\ f3.won = blocks[p].won
  <2> DEFINE h == f2.height + 1
  <2>1. h \in Nat /\ f3 = [f2 EXCEPT !.height = h] /\ h = blocks[p].height + 1
    BY <1>6 DEF Block
  <2> HIDE DEF f3, h
  <2> QED BY <1>6, <2>1 DEF Block
<1> HIDE DEF f3
<1>8. <<>> \in Seq(Nat) OBVIOUS
<1>9. /\ e \in Block /\ e.parent = p /\ e.line = blocks[p].line \cup {Len(blocks) + 1}
      /\ e.height = blocks[p].height + 1 /\ e.right = blocks[p].right /\ e.minted = blocks[p].minted
      /\ e.nonce = blocks[p].nonce /\ e.won = blocks[p].won /\ e.runs = <<>>
  <2>1. PICK r \in Seq(Nat) : r = <<>>  BY <1>8
  <2>2. /\ [f3 EXCEPT !.runs = r] \in Block /\ [f3 EXCEPT !.runs = r].runs = r
        /\ [f3 EXCEPT !.runs = r].parent = f3.parent /\ [f3 EXCEPT !.runs = r].line = f3.line
        /\ [f3 EXCEPT !.runs = r].height = f3.height /\ [f3 EXCEPT !.runs = r].right = f3.right
        /\ [f3 EXCEPT !.runs = r].minted = f3.minted /\ [f3 EXCEPT !.runs = r].nonce = f3.nonce
        /\ [f3 EXCEPT !.runs = r].won = f3.won
    BY <1>7 DEF Block
  <2> QED BY <1>7, <2>1, <2>2
<1> HIDE DEF e
<1>10. /\ Len(blocks') = Len(blocks) + 1 /\ DOMAIN blocks' = 1..Len(blocks) + 1
       /\ blocks'[Len(blocks) + 1] = e /\ \A v \in 1..Len(blocks) : blocks'[v] = blocks[v]
       /\ blocks' \in Seq(Block) /\ blocks' # <<>>
  BY <1>2, <1>4, <1>9 DEF TypeOK
<1> QED BY <1>2, <1>4, <1>9, <1>10 DEF NextBlock

\* The payments' terms never change, and no block does.
Kept ==
  /\ blocks' = blocks /\ first' = first /\ attempts' \in Seq(Attempt) /\ Len(attempts') >= Len(attempts)
  /\ \A m \in 1..Len(attempts) :
       /\ attempts'[m].birth = attempts[m].birth /\ attempts'[m].anchor = attempts[m].anchor
       /\ attempts'[m].lot = attempts[m].lot /\ attempts'[m].minted = attempts[m].minted
-----------------------------------------------------------------------------
(* Steps of the chain, part by part *)

\* A transaction keeps the shape of the tree.
LEMMA AncestryRuns ==
  ASSUME IInv, NEW n, NEW e, ChainStep(n, e) PROVE Ancestry'
<1> USE DEF IInv
<1>1. Runs1(n, e) BY DEF ChainStep
<1>2. /\ e.line = blocks[Len(blocks)].line /\ e.parent = blocks[Len(blocks)].parent
      /\ e.height = blocks[Len(blocks)].height /\ e.nonce >= blocks[Len(blocks)].nonce
  BY <1>1 DEF Runs1, Tip
<1>3. \A v \in 1..Len(blocks) : /\ blocks'[v].line = blocks[v].line /\ blocks'[v].parent = blocks[v].parent
                                /\ blocks'[v].height = blocks[v].height
                                /\ v # Len(blocks) => blocks'[v].nonce = blocks[v].nonce
  BY <1>1, <1>2, ChainFacts
<1>4. \A v \in 1..Len(blocks) : blocks[v].nonce \in Nat /\ blocks'[v].nonce \in Nat
  <2>1. \A v \in 1..Len(blocks) : blocks[v] \in Block /\ blocks'[v] \in Block
    BY <1>1, ChainFacts DEF TypeOK
  <2> QED BY <2>1 DEF Block
<1>5. \A v \in 1..Len(blocks) : \A u \in blocks[v].line : blocks'[u].nonce <= blocks'[v].nonce
  <2> TAKE v \in 1..Len(blocks)
  <2> TAKE u \in blocks[v].line
  <2>1. u \in 1..v /\ u \in 1..Len(blocks) /\ blocks[u].nonce <= blocks[v].nonce
    BY <1>1, ChainFacts DEF Ancestry
  <2>2. CASE v = Len(blocks) /\ u # v
    BY <1>1, <1>2, <1>3, <1>4, <2>1, <2>2, ChainFacts
  <2>3. CASE u = v BY <1>4, <2>1, <2>3
  <2>4. CASE v # Len(blocks) BY <1>3, <2>1, <2>4
  <2> QED BY <2>2, <2>3, <2>4
<1>6. /\ open' => Len(blocks') > 1
      /\ DOMAIN blocks' = 1..Len(blocks) /\ DOMAIN blocks = 1..Len(blocks)
  BY <1>1, ChainFacts DEF Ancestry
<1>7. ASSUME NEW v \in 1..Len(blocks)
      PROVE  /\ v \in blocks'[v].line
             /\ v > 1 => blocks'[v].parent \in 1..v - 1
             /\ \A u \in blocks'[v].line : u \in 1..v
  BY <1>3, <1>6, <1>7 DEF Ancestry
<1>8. ASSUME NEW v \in 1..Len(blocks), NEW u \in blocks'[v].line
      PROVE  /\ blocks'[u].line \subseteq blocks'[v].line
             /\ blocks'[u].height <= blocks'[v].height
             /\ blocks'[u].nonce <= blocks'[v].nonce
  <2>1. u \in blocks[v].line  BY <1>3
  <2>2. u \in 1..Len(blocks)
    <3>1. Len(blocks) \in Nat  BY <1>1, ChainFacts
    <3>2. u \in 1..v  BY <1>6, <2>1 DEF Ancestry
    <3> QED BY <3>1, <3>2
  <2>3. blocks[u].line \subseteq blocks[v].line /\ blocks[u].height <= blocks[v].height
    BY <1>6, <2>1 DEF Ancestry
  <2>4. blocks'[u].line = blocks[u].line /\ blocks'[u].height = blocks[u].height
    BY <1>3, <2>2
  <2>5. blocks'[v].line = blocks[v].line /\ blocks'[v].height = blocks[v].height
    BY <1>3
  <2> QED BY <1>5, <2>1, <2>3, <2>4, <2>5
<1> QED BY <1>6, <1>7, <1>8 DEF Ancestry

\* A transaction keeps what is known of the rights.
LEMMA RightsRuns ==
  ASSUME IInv, NEW n, NEW e, ChainStep(n, e) PROVE Rights'
<1> USE DEF IInv
<1> DEFINE L == Len(blocks)
<1>1. Runs1(n, e) BY DEF ChainStep
<1>2. e.line = blocks[L].line /\ e.parent = blocks[L].parent BY <1>1 DEF Runs1, Tip
<1>3. \A v \in 1..L : /\ blocks'[v].line = blocks[v].line /\ blocks'[v].parent = blocks[v].parent
                      /\ v # L => blocks'[v] = blocks[v]
  BY <1>1, <1>2, ChainFacts
<1>4. L > 1 /\ L \in Nat /\ DOMAIN blocks = 1..L /\ DOMAIN blocks' = 1..L /\ blocks'[L] = e
  BY <1>1, ChainFacts DEF Ancestry
<1>5. /\ L \in blocks[L].line /\ blocks[L].parent \in 1..L - 1
      /\ \A v \in 1..L : \A u \in blocks[v].line : u \in 1..v
      /\ \A v \in 1..L : v > 1 => blocks[v].parent \in 1..v - 1
  BY <1>4 DEF Ancestry
<1>6. ASSUME NEW v \in 1..L, v # L, blocks[v].right # None
      PROVE  blocks[v].right.block \in blocks[v].line \cup {0} /\ blocks[v].right.block # L
  <2>1. blocks[v].right.block \in blocks[v].line \cup {0} BY <1>4, <1>6 DEF Rights
  <2>2. 0 # L  BY <1>4
  <2>3. ASSUME NEW u \in blocks[v].line PROVE u # L
    <3>1. u \in 1..v /\ v \in 1..L  BY <1>5
    <3> HIDE DEF L, IInv
    <3>2. v \in Nat /\ v < L  BY <1>4, <1>6, <3>1
    <3>3. u \in Nat /\ u <= v  BY <3>1, <3>2
    <3> QED BY <1>4, <3>2, <3>3
  <2> QED BY <2>1, <2>2, <2>3
<1>7. CASE Keeps(e)
  <2>1. \A v \in 1..L : blocks'[v].right = blocks[v].right /\ blocks'[v].minted = blocks[v].minted
    BY <1>3, <1>4, <1>7 DEF Keeps, Tip
  <2>2. \A v \in 1..L : v > 1 => blocks[v].parent \in 1..L BY <1>5
  <2> SUFFICES ASSUME NEW v \in 1..L, blocks[v].right # None
               PROVE  /\ blocks'[v].right.block \in blocks'[v].line \cup {0}
                      /\ v > 1 /\ blocks'[v].right.block # v =>
                           blocks'[v].right = blocks'[blocks'[v].parent].right
                      /\ \A u \in 1..L : blocks'[u].right = blocks'[v].right => blocks'[u].minted = blocks'[v].minted
    BY <1>4, <2>1 DEF Rights
  <2>3. /\ blocks[v].right.block \in blocks[v].line \cup {0}
        /\ v > 1 /\ blocks[v].right.block # v => blocks[v].right = blocks[blocks[v].parent].right
        /\ \A u \in 1..L : blocks[u].right = blocks[v].right => blocks[u].minted = blocks[v].minted
    BY <1>4 DEF Rights
  <2> QED BY <1>3, <2>1, <2>2, <2>3
<1>8. CASE Uses(n, e)
  <2>1. e.right = None \/ (e.right = Here /\ Here.block = L)
    BY <1>8 DEF Uses, Here, Place
  <2> SUFFICES ASSUME NEW v \in 1..L, blocks'[v].right # None
               PROVE  /\ blocks'[v].right.block \in blocks'[v].line \cup {0}
                      /\ v > 1 /\ blocks'[v].right.block # v =>
                           blocks'[v].right = blocks'[blocks'[v].parent].right
                      /\ \A u \in 1..L : blocks'[u].right = blocks'[v].right => blocks'[u].minted = blocks'[v].minted
    BY <1>4 DEF Rights
  <2>2. CASE v = L
    <3>1. blocks'[v].right = Here BY <1>4, <2>1, <2>2
    <3>2. \A u \in 1..L : u # L => blocks'[u].right # Here
      <4> SUFFICES ASSUME NEW u \in 1..L, u # L, blocks[u].right = Here PROVE FALSE
        BY <1>3
      <4>1. blocks[u].right # None /\ Here.block = L BY <2>1, <2>2, <3>1, <1>4 DEF Here, Place
      <4> QED BY <1>6, <4>1
    <3> QED BY <1>2, <1>4, <1>5, <2>1, <2>2, <3>1, <3>2
  <2>3. CASE v # L
    <3>1. blocks'[v] = blocks[v] /\ blocks[v].right.block # L BY <1>3, <1>6, <2>3
    <3>2. /\ blocks[v].right.block \in blocks[v].line \cup {0}
          /\ v > 1 /\ blocks[v].right.block # v => blocks[v].right = blocks[blocks[v].parent].right
          /\ \A u \in 1..L : blocks[u].right = blocks[v].right => blocks[u].minted = blocks[v].minted
      BY <1>4, <3>1 DEF Rights
    <3>3. v > 1 => blocks'[blocks[v].parent] = blocks[blocks[v].parent] BY <1>3, <1>5, <2>3
    <3>4. blocks'[L].right # blocks[v].right BY <1>4, <2>1, <3>1
    <3> QED BY <1>3, <3>1, <3>2, <3>3, <3>4
  <2> QED BY <2>2, <2>3
<1> QED BY <1>7, <1>8 DEF ChainStep

\* The facts the other parts need of such a step: the frame, the tree, the transactions and nonces.
Frame(L, e) ==
  /\ L \in Nat /\ L > 1 /\ DOMAIN blocks = 1..L /\ DOMAIN blocks' = 1..L /\ blocks'[L] = e
  /\ Tip = blocks[L] /\ attempts' = attempts /\ first' = first
  /\ \A v \in 1..L : v # L => blocks'[v] = blocks[v]
Tree(L, e) ==
  /\ e.line = blocks[L].line /\ e.parent = blocks[L].parent /\ L \in blocks[L].line
  /\ \A v \in 1..L : v > 1 => blocks[v].parent \in 1..v - 1
  /\ \A v \in 1..L : \A u \in blocks[v].line : u \in 1..v
Grown(L, n, e) ==
  /\ Here = Place(L, Here.index) /\ Here.block = L
  /\ Here.index \in DOMAIN e.runs /\ e.runs[Here.index] = n
  /\ \A i : i \in DOMAIN e.runs <=> i \in DOMAIN blocks[L].runs \cup {Here.index}
  /\ \A i \in DOMAIN blocks[L].runs : e.runs[i] = blocks[L].runs[i]
  /\ \A v \in 1..L : DOMAIN blocks[v].runs \subseteq Nat
Nonces(L, n, e) ==
  /\ n \in Nat /\ n \in 0..Len(attempts) /\ first \in Nat /\ Len(attempts) \in Nat
  /\ \A v \in 1..L : blocks[v].nonce \in Nat
  /\ e.nonce \in Nat /\ e.nonce >= blocks[L].nonce
  /\ n > 0 => blocks[L].nonce = first + n - 1 /\ e.nonce = blocks[L].nonce + 1
LEMMA TipFacts ==
  ASSUME IInv, NEW n, NEW e, ChainStep(n, e)
  PROVE  \E L : L = Len(blocks) /\ Frame(L, e) /\ Tree(L, e) /\ Grown(L, n, e) /\ Nonces(L, n, e)
<1> DEFINE L == Len(blocks)
<1>1. Runs1(n, e) /\ TypeOK /\ Ancestry BY DEF ChainStep, IInv
<1>2. /\ L \in Nat /\ L > 1 /\ DOMAIN blocks = 1..L /\ DOMAIN blocks' = 1..L /\ blocks'[L] = e
      /\ Tip = blocks[L]
  BY <1>1, ChainFacts DEF Ancestry
<1>3. Frame(L, e) BY <1>1, <1>2, ChainFacts DEF Frame
<1>4. Tree(L, e)
  <2>1. e.line = blocks[L].line /\ e.parent = blocks[L].parent  BY <1>1, <1>2 DEF Runs1
  <2>2. \A v \in 1..L : /\ v \in blocks[v].line /\ (v > 1 => blocks[v].parent \in 1..v - 1)
                         /\ \A u \in blocks[v].line : u \in 1..v
    BY <1>1, <1>2 DEF Ancestry
  <2>3. L \in 1..L  BY <1>2
  <2> QED BY <2>1, <2>2, <2>3 DEF Tree
<1>5. e \in Block /\ \A v \in 1..L : blocks[v] \in Block BY <1>1, <1>2 DEF Runs1, TypeOK
<1>6. /\ e.nonce \in Nat /\ \A v \in 1..L : blocks[v].runs \in Seq(Nat) /\ blocks[v].nonce \in Nat
      /\ blocks[L].runs \in Seq(Nat)
  <2>1. ASSUME NEW b \in Block PROVE b.nonce \in Nat /\ b.runs \in Seq(Nat) BY DEF Block
  <2>2. L \in 1..L BY <1>2
  <2> QED BY <1>5, <2>1, <2>2
<1>7. Len(attempts) \in Nat /\ first \in Nat BY <1>1 DEF TypeOK
<1>8. /\ n \in 0..Len(attempts) /\ e.runs = Append(blocks[L].runs, n) /\ e.nonce >= blocks[L].nonce
      /\ n > 0 => blocks[L].nonce = first + n - 1 /\ e.nonce = blocks[L].nonce + 1
  BY <1>1, <1>2 DEF Runs1
<1>9. Nonces(L, n, e) BY <1>6, <1>7, <1>8 DEF Nonces
<1>10. Here.block = L /\ Here.index = Len(blocks[L].runs) + 1 /\ Here = Place(L, Here.index)
  BY <1>2 DEF Here, Place
<1>11. Grown(L, n, e)
  <2> DEFINE s == blocks[L].runs
  <2>1. s \in Seq(Nat) /\ e.runs = Append(s, n) /\ Here.index = Len(s) + 1
    BY <1>6, <1>8, <1>10
  <2>2. \A v \in 1..L : DOMAIN blocks[v].runs \subseteq Nat
    <3> TAKE v \in 1..L
    <3> DEFINE q == blocks[v].runs
    <3>1. q \in Seq(Nat) BY <1>6
    <3> HIDE DEF q
    <3>2. DOMAIN q \subseteq Nat BY <3>1
    <3> QED BY <3>2 DEF q
  <2> HIDE DEF s
  <2>3. /\ Here.index \in DOMAIN e.runs /\ e.runs[Here.index] = n
        /\ \A i : i \in DOMAIN e.runs <=> i \in DOMAIN s \cup {Here.index}
        /\ \A i \in DOMAIN s : e.runs[i] = s[i]
    BY <2>1
  <2> QED BY <1>10, <2>2, <2>3 DEF Grown, s
<1> QED BY <1>3, <1>4, <1>9, <1>11

\* The new transaction is a payment of the record at its nonce, or nobody's.
LEMMA RunsRuns ==
  ASSUME IInv, NEW n, NEW e, ChainStep(n, e) PROVE Runs'
<1>f. PICK L : Frame(L, e) /\ Tree(L, e) /\ Grown(L, n, e) /\ Nonces(L, n, e) BY TipFacts
<1> SUFFICES ASSUME NEW v \in 1..L, NEW i \in Nat, i \in DOMAIN blocks'[v].runs
             PROVE  /\ v > 1 /\ blocks'[v].runs[i] \in 0..Len(attempts)
                    /\ blocks'[v].runs[i] > 0 => blocks'[v].nonce >= first + blocks'[v].runs[i]
  BY <1>f DEF Runs, Frame
<1>1. i \in DOMAIN blocks[v].runs =>
        /\ v > 1 /\ blocks[v].runs[i] \in 0..Len(attempts)
        /\ blocks[v].runs[i] > 0 => blocks[v].nonce >= first + blocks[v].runs[i]
  BY <1>f DEF IInv, Runs, Frame
<1>2. CASE v # L
  BY <1>f, <1>1, <1>2 DEF Frame
<1>3. CASE v = L /\ i \in DOMAIN blocks[L].runs
  <2>1. blocks'[L].runs[i] = blocks[L].runs[i] /\ L > 1 /\ blocks'[L].nonce = e.nonce
    BY <1>f, <1>3 DEF Grown, Frame
  <2> QED BY <1>f, <1>1, <1>3, <2>1 DEF Nonces
<1>4. CASE v = L /\ i \notin DOMAIN blocks[L].runs
  <2>1. blocks'[L].runs[i] = n /\ L > 1 /\ blocks'[L].nonce = e.nonce
    BY <1>f, <1>4 DEF Grown, Frame
  <2> QED BY <1>f, <1>4, <2>1 DEF Nonces
<1> QED BY <1>2, <1>3, <1>4

\* A right that is used was a right its payment was signed for, at the same count of lots.
LEMMA AnchorCount ==
  ASSUME IInv, NEW n \in 1..Len(attempts), NEW v \in DOMAIN blocks, blocks[v].right = attempts[n].anchor
  PROVE  blocks[v].right # None /\ blocks[v].minted = attempts[n].minted
<1>1. /\ attempts[n].birth \in Attested /\ attempts[n].anchor # None
      /\ attempts[n].anchor = blocks[attempts[n].birth].right
      /\ attempts[n].minted = blocks[attempts[n].birth].minted
  BY DEF IInv, Born
<1>2. attempts[n].birth \in DOMAIN blocks BY <1>1 DEF Attested, IInv, TypeOK
<1> QED BY <1>1, <1>2 DEF IInv, Rights

\* The new right, if any, is of the payment that minted, one lot above.
LEMMA MadeRuns ==
  ASSUME IInv, NEW n, NEW e, ChainStep(n, e) PROVE Made'
<1>f. PICK L : Frame(L, e) /\ Tree(L, e) /\ Grown(L, n, e) /\ Nonces(L, n, e) BY TipFacts
<1> DEFINE Sound(v, c, i) ==
      /\ i \in DOMAIN blocks'[c].runs
      /\ blocks'[c].runs[i] > 0 =>
           /\ blocks'[c].runs[i] \in blocks'[c].won
           /\ blocks'[v].minted = attempts[blocks'[c].runs[i]].minted + 1
<1> SUFFICES ASSUME NEW v \in 1..L, blocks'[v].right # None, blocks'[v].right.block > 0
             PROVE  Sound(v, blocks'[v].right.block, blocks'[v].right.index)
  BY <1>f DEF Made, Frame
<1>0. \A u \in 1..L : blocks[u].won \subseteq blocks'[u].won
  <2>1. blocks[L].won \subseteq e.won BY <1>f DEF ChainStep, Keeps, Uses, Nonces, Frame
  <2> QED BY <1>f, <2>1 DEF Frame
<1>1. ASSUME blocks'[v].right = blocks[v].right, blocks'[v].minted = blocks[v].minted
      PROVE  Sound(v, blocks'[v].right.block, blocks'[v].right.index)
  <2> DEFINE c == blocks[v].right.block
             i == blocks[v].right.index
  <2>1. /\ i \in DOMAIN blocks[c].runs
        /\ blocks[c].runs[i] > 0 => /\ blocks[c].runs[i] \in blocks[c].won
                                    /\ blocks[v].minted = attempts[blocks[c].runs[i]].minted + 1
    BY <1>1, <1>f DEF IInv, Made, Frame
  <2>2. c \in blocks[v].line BY <1>1, <1>f DEF IInv, Rights, Frame
  <2>3. c \in 1..L BY <1>f, <2>2 DEF Tree, Frame
  <2> HIDE DEF c, i
  <2>4. i \in DOMAIN blocks'[c].runs /\ blocks'[c].runs[i] = blocks[c].runs[i]
    BY <1>f, <2>1, <2>3 DEF Frame, Grown
  <2>5. Sound(v, c, i) BY <1>0, <1>1, <2>1, <2>3, <2>4
  <2> QED BY <1>1, <2>5 DEF c, i
<1>2. CASE v # L
  BY <1>f, <1>1, <1>2 DEF Frame
<1>3. CASE v = L /\ Keeps(e)
  BY <1>f, <1>1, <1>3 DEF Keeps, Frame
<1>4. CASE v = L /\ Uses(n, e)
  <2>1. e.right = Here /\ blocks'[v].right = Here BY <1>f, <1>4 DEF Uses, Frame
  <2>2. n > 0 => n \in e.won /\ e.minted = attempts[n].minted + 1
    <3>1. n > 0 => n \in 1..Len(attempts) BY <1>f DEF Nonces
    <3>2. n > 0 => blocks[L].right = attempts[n].anchor /\ L \in DOMAIN blocks
      BY <1>f, <1>4 DEF Uses, Frame
    <3>3. n > 0 => blocks[L].minted = attempts[n].minted BY <3>1, <3>2, AnchorCount
    <3> QED BY <1>f, <1>4, <3>3 DEF Uses, Frame
  <2>3. blocks'[v] = e BY <1>f, <1>4 DEF Frame
  <2>4. blocks'[Here.block] = e /\ Here.index \in DOMAIN e.runs /\ e.runs[Here.index] = n
    BY <1>f DEF Frame, Grown
  <2>5. Sound(v, Here.block, Here.index) BY <2>2, <2>3, <2>4
  <2> QED BY <2>1, <2>5
<1> QED BY <1>2, <1>3, <1>4 DEF ChainStep

\* A payment that minted runs nowhere else on its line: its nonce is past.
LEMMA WonRuns ==
  ASSUME IInv, NEW n, NEW e, ChainStep(n, e) PROVE Won'
<1>f. PICK L : Frame(L, e) /\ Tree(L, e) /\ Grown(L, n, e) /\ Nonces(L, n, e) BY TipFacts
<1>1. \A v \in 1..L : \A m \in blocks[v].won :
        /\ m \in 1..Len(attempts) /\ blocks[v].nonce >= first + m /\ attempts[m].birth \in blocks[v].line
        /\ \A u \in blocks[v].line, i \in Nat :
             i \in DOMAIN blocks[u].runs /\ blocks[u].runs[i] = m => m \in blocks[u].won
  BY <1>f DEF IInv, Won, Frame
<1>2. \A v \in 1..L : blocks[v].won # {} => \E k \in blocks[v].won : blocks[v].won \subseteq 1..k
  BY <1>f DEF IInv, Won, Frame
<1>3. L \in 1..L BY <1>f DEF Frame
<1> DEFINE Top(v) == blocks'[v].won # {} => \E k \in blocks'[v].won : blocks'[v].won \subseteq 1..k
           Once(v, m) ==
             /\ m \in 1..Len(attempts) /\ blocks'[v].nonce >= first + m
             /\ attempts[m].birth \in blocks'[v].line
             /\ \A u \in blocks'[v].line, i \in Nat :
                  i \in DOMAIN blocks'[u].runs /\ blocks'[u].runs[i] = m => m \in blocks'[u].won
<1>4. ASSUME NEW v \in 1..L, v # L PROVE Top(v) /\ \A m \in blocks'[v].won : Once(v, m)
  <2>1. blocks'[v] = blocks[v] BY <1>f, <1>4 DEF Frame
  <2>2. \A u \in blocks[v].line : blocks'[u] = blocks[u]
    <3>1. \A u \in blocks[v].line : u \in 1..L /\ u # L BY <1>f, <1>4 DEF Frame, Tree
    <3> QED BY <1>f, <3>1 DEF Frame
  <2> QED BY <1>1, <1>2, <2>1, <2>2
<1>5. e.won = blocks[L].won \/ (n > 0 /\ e.won = blocks[L].won \cup {n})
  BY <1>f DEF ChainStep, Keeps, Uses, Frame, Nonces
<1>6. \A m \in blocks[L].won : n > 0 => m \in 1..n
  <2> TAKE m \in blocks[L].won
  <2>1. m \in 1..Len(attempts) /\ blocks[L].nonce >= first + m BY <1>1, <1>3
  <2> QED BY <1>f, <2>1 DEF Nonces
<1>7. e.won # {} => \E k \in e.won : e.won \subseteq 1..k
  <2>1. CASE e.won = blocks[L].won BY <1>2, <1>3, <2>1
  <2>2. CASE n > 0 /\ e.won = blocks[L].won \cup {n}
    <3>1. n \in e.won /\ n \in 1..n BY <2>2, <1>f DEF Nonces
    <3>2. e.won \subseteq 1..n BY <2>2, <1>6, <3>1
    <3> QED BY <3>1, <3>2
  <2> QED BY <1>5, <2>1, <2>2
<1>8. ASSUME NEW m \in e.won
      PROVE  /\ m \in 1..Len(attempts) /\ e.nonce >= first + m /\ attempts[m].birth \in blocks[L].line
  <2>1. CASE m \in blocks[L].won
    <3>1. /\ m \in 1..Len(attempts) /\ blocks[L].nonce >= first + m
          /\ attempts[m].birth \in blocks[L].line
      BY <1>1, <1>3, <2>1
    <3> QED BY <1>f, <1>3, <3>1 DEF Nonces
  <2>2. CASE m = n /\ n > 0
    <3>1. attempts[n].birth \in blocks[L].line BY <1>f, <2>2 DEF ChainStep, Runs1, Frame
    <3> QED BY <1>f, <1>3, <2>2, <3>1 DEF Nonces
  <2> QED BY <1>5, <1>8, <2>1, <2>2
<1>9. ASSUME NEW m \in e.won, NEW u \in blocks[L].line, NEW i \in Nat,
             i \in DOMAIN blocks'[u].runs, blocks'[u].runs[i] = m
      PROVE  m \in blocks'[u].won
  <2>1. CASE u = L BY <1>f, <1>9, <2>1 DEF Frame
  <2>2. CASE u # L
    <3>1. blocks'[u] = blocks[u] /\ u \in 1..L BY <1>f, <1>3, <2>2 DEF Frame, Tree
    <3>2. CASE m \in blocks[L].won BY <1>1, <1>3, <1>9, <3>1, <3>2
    <3>3. CASE m = n /\ n > 0
      <4>1. blocks[u].nonce >= first + n
        BY <1>f, <1>9, <3>1, <3>3 DEF IInv, Runs, Frame
      <4>2. blocks[u].nonce <= blocks[L].nonce BY <1>f, <1>3, <1>9 DEF IInv, Ancestry, Frame
      <4> QED BY <1>f, <1>3, <3>1, <3>3, <4>1, <4>2 DEF Nonces
    <3> QED BY <1>5, <1>9, <3>2, <3>3
  <2> QED BY <2>1, <2>2
<1>10. Top(L) /\ \A m \in blocks'[L].won : Once(L, m)
  <2>1. blocks'[L] = e /\ blocks'[L].line = blocks[L].line BY <1>f DEF Frame, Tree
  <2> QED BY <1>7, <1>8, <1>9, <2>1
<1>11. \A v \in 1..L : Top(v) /\ \A m \in blocks'[v].won : Once(v, m) BY <1>4, <1>10
<1> QED BY <1>f, <1>11 DEF Won, Frame

\* The payment that ran last either kept everything, or it used its parent's right and made the next.
LEMMA MintsRuns ==
  ASSUME IInv, NEW n, NEW e, ChainStep(n, e) PROVE Mints'
<1>f. PICK L : Frame(L, e) /\ Tree(L, e) /\ Grown(L, n, e) /\ Nonces(L, n, e) BY TipFacts
<1> DEFINE Shown(v, i, m) ==
      /\ blocks'[blocks'[v].parent].right = attempts[m].anchor
      /\ \/ blocks'[v].right = Place(v, i)
         \/ blocks'[v].right = None /\ attempts[m].lot = Lots
<1> SUFFICES ASSUME NEW v \in 1..L, NEW i \in Nat, i \in DOMAIN blocks'[v].runs,
                    blocks'[v].runs[i] \in blocks'[v].won
             PROVE  Shown(v, i, blocks'[v].runs[i])
  BY <1>f DEF Mints, Frame
<1>0. L \in 1..L /\ L \in DOMAIN blocks BY <1>f DEF Frame
<1>1. i \in DOMAIN blocks[v].runs /\ blocks[v].runs[i] \in blocks[v].won =>
        /\ blocks[blocks[v].parent].right = attempts[blocks[v].runs[i]].anchor
        /\ \/ blocks[v].right = Place(v, i)
           \/ blocks[v].right = None /\ attempts[blocks[v].runs[i]].lot = Lots
  BY <1>f DEF IInv, Mints, Frame
<1>2. blocks'[v].parent = blocks[v].parent /\ (v > 1 => blocks'[blocks[v].parent] = blocks[blocks[v].parent])
  BY <1>f DEF Frame, Tree
<1>3. v > 1
  <2>1. CASE v = L BY <1>f, <2>1 DEF Frame
  <2>2. CASE v # L
    <3>1. i \in DOMAIN blocks[v].runs BY <1>f, <2>2 DEF Frame
    <3> QED BY <1>f, <3>1 DEF IInv, Runs, Frame
  <2> QED BY <2>1, <2>2
<1>4. \A m \in blocks[L].won : m \in 1..Len(attempts) /\ blocks[L].nonce >= first + m
  BY <1>f, <1>0 DEF IInv, Won
<1>5. n \notin blocks[L].won BY <1>f, <1>4 DEF Nonces
<1>6. \A j \in DOMAIN blocks[L].runs : n > 0 => blocks[L].runs[j] # n
  <2> TAKE j \in DOMAIN blocks[L].runs
  <2>1. j \in Nat BY <1>f, <1>0 DEF Grown
  <2>2. /\ blocks[L].runs[j] \in 0..Len(attempts)
        /\ blocks[L].runs[j] > 0 => blocks[L].nonce >= first + blocks[L].runs[j]
    BY <1>f, <1>0, <2>1 DEF IInv, Runs
  <2> QED BY <1>f, <2>2 DEF Nonces
<1>7. CASE v # L
  BY <1>f, <1>1, <1>2, <1>3, <1>7 DEF Frame
<1>8. CASE v = L /\ Keeps(e)
  <2>1. /\ blocks'[L].won = blocks[L].won /\ blocks'[L].right = blocks[L].right
        /\ blocks'[L].runs = e.runs
    BY <1>f, <1>8 DEF Keeps, Frame
  <2>2. i \in DOMAIN blocks[L].runs
    <3>1. i \in DOMAIN blocks[L].runs \/ i = Here.index BY <1>f, <1>8, <2>1 DEF Grown
    <3>2. i # Here.index BY <1>f, <1>5, <1>8, <2>1 DEF Grown
    <3> QED BY <3>1, <3>2
  <2>3. blocks'[L].runs[i] = blocks[L].runs[i] BY <1>f, <2>1, <2>2 DEF Grown
  <2> QED BY <1>1, <1>2, <1>3, <1>8, <2>1, <2>2, <2>3
<1>9. CASE v = L /\ Uses(n, e)
  <2>1. blocks[L].right # None /\ blocks[L].right.block # L BY <1>f, <1>9 DEF Uses, Usable, Frame
  <2>2. i \notin DOMAIN blocks[L].runs
    <3> SUFFICES ASSUME i \in DOMAIN blocks[L].runs PROVE FALSE OBVIOUS
    <3>1. blocks'[L].runs[i] = blocks[L].runs[i] BY <1>f DEF Grown, Frame
    <3>2. blocks[L].runs[i] \in blocks[L].won
      <4>1. n > 0 => blocks[L].runs[i] # n BY <1>6
      <4>2. blocks[L].runs[i] \in e.won BY <1>f, <1>9, <3>1 DEF Frame
      <4> QED BY <1>f, <1>9, <4>1, <4>2 DEF Uses, Frame, Nonces
    <3> QED BY <1>1, <1>9, <2>1, <3>2 DEF Place
  <2>3. i = Here.index /\ blocks'[L].runs[i] = n /\ blocks'[L] = e /\ Here = Place(L, i)
    BY <1>f, <1>9, <2>2 DEF Grown, Frame
  <2>4. n > 0 /\ n \in 1..Len(attempts)
    <3>1. n \in e.won BY <1>9, <2>3
    <3>2. n # 0 BY <1>f, <1>5, <1>9, <3>1 DEF Uses, Frame
    <3> QED BY <1>f, <3>2 DEF Nonces
  <2>5. /\ blocks[L].right = attempts[n].anchor /\ e.minted = blocks[L].minted + 1
        /\ e.right \in {Here, None} /\ (e.right = None => e.minted = Lots)
    BY <1>f, <1>9, <2>4 DEF Uses, Frame
  <2>6. blocks[L].right = blocks[blocks[L].parent].right
    BY <1>0, <1>3, <1>9, <2>1 DEF IInv, Rights
  <2>7. attempts[n].lot = blocks[L].minted + 1
    BY <1>0, <2>4, <2>5, AnchorCount DEF IInv, Born
  <2> QED BY <1>2, <1>3, <1>9, <2>3, <2>5, <2>6, <2>7
<1> QED BY <1>7, <1>8, <1>9 DEF ChainStep

\* What the record says is about attested blocks, which are not the tip.
LEMMA RecordRuns ==
  ASSUME IInv, NEW n, NEW e, ChainStep(n, e) PROVE Born' /\ Placed' /\ VerdictsTrue'
<1>f. PICK L : L = Len(blocks) /\ Frame(L, e) /\ Tree(L, e) /\ Grown(L, n, e) /\ Nonces(L, n, e)
  BY TipFacts
<1>1. Attested = 1..L - 1 /\ Attested' = 1..L - 1
  <2>1. open /\ open' /\ Len(blocks') = Len(blocks) BY ChainFacts DEF ChainStep, IInv
  <2> QED BY <1>f, <2>1 DEF Attested
<1>2. \A v \in Attested : blocks'[v] = blocks[v] BY <1>f, <1>1 DEF Frame
<1>3. Born' BY <1>f, <1>1, <1>2 DEF IInv, Born, Frame
<1>4. Placed'
  <2>1. \A m \in 1..Len(attempts) : blocks'[attempts[m].birth] = blocks[attempts[m].birth]
    BY <1>2 DEF IInv, Born
  <2> QED BY <1>f, <1>1, <2>1 DEF IInv, Placed, MintedBefore, Frame
<1>5. VerdictsTrue'
  <2> SUFFICES ASSUME NEW m \in Indices, attempts[m].status \in Verdict
               PROVE  LET p == attempts[m] IN
                        /\ p.at.index \in DOMAIN blocks'[p.at.block].runs /\ blocks'[p.at.block].runs[p.at.index] = m
                        /\ m \in blocks'[p.at.block].won <=> p.status = "minted"
    BY <1>f DEF VerdictsTrue, Indices, Frame
  <2>1. attempts[m].at.block \in Attested
    BY DEF IInv, Placed, Indices, TypeOK
  <2> QED BY <1>2, <2>1 DEF IInv, VerdictsTrue
<1> QED BY <1>3, <1>4, <1>5

\* A transaction keeps the whole invariant.
LEMMA ChainKeeps == ASSUME IInv, NEW n, NEW e, ChainStep(n, e), foreign' \in Nat PROVE IInv'
<1>1. TypeOK' BY ChainFacts DEF ChainStep, IInv, TypeOK
<1> QED BY <1>1, AncestryRuns, RightsRuns, RunsRuns, MadeRuns, WonRuns, MintsRuns, RecordRuns DEF IInv
-----------------------------------------------------------------------------
(* The next block *)

\* A new block has no transaction, and what it says its parent said.
LEMMA NextBlockKeeps == ASSUME IInv, NextBlock PROVE IInv'
<1> DEFINE L == Len(blocks)
<1>f. PICK p \in 1..L, e \in Block :
        /\ e.parent = p /\ e.line = blocks[p].line \cup {L + 1}
        /\ e.height = blocks[p].height + 1 /\ e.runs = <<>>
        /\ e.right = blocks[p].right /\ e.minted = blocks[p].minted
        /\ e.nonce = blocks[p].nonce /\ e.won = blocks[p].won
        /\ Len(blocks') = L + 1 /\ DOMAIN blocks = 1..L /\ DOMAIN blocks' = 1..L + 1
        /\ blocks'[L + 1] = e /\ \A v \in 1..L : blocks'[v] = blocks[v]
        /\ blocks' \in Seq(Block) /\ blocks' # <<>>
        /\ L \in Nat /\ L > 0
        /\ ~open /\ open' /\ first' = first /\ attempts' = attempts
  BY NextFacts DEF IInv
<1>l. Len(blocks') = L + 1 BY <1>f
<1> HIDE DEF L
<1>t. /\ DOMAIN e.runs = {} /\ e.nonce \in Nat /\ e.height \in Nat
      /\ \A v \in 1..L : blocks[v].nonce \in Nat /\ blocks[v].height \in Nat
  <2>1. ASSUME NEW b \in Block PROVE b.nonce \in Nat /\ b.height \in Nat BY DEF Block
  <2>2. \A v \in 1..L : blocks[v] \in Block BY <1>f DEF IInv, TypeOK
  <2> QED BY <1>f, <2>1, <2>2
<1>a. /\ \A v \in 1..L : v \in blocks[v].line /\ (v > 1 => blocks[v].parent \in 1..v - 1)
      /\ \A v \in 1..L : \A u \in blocks[v].line :
           /\ u \in 1..v /\ blocks[u].line \subseteq blocks[v].line
           /\ blocks[u].height <= blocks[v].height /\ blocks[u].nonce <= blocks[v].nonce
  BY <1>f DEF IInv, Ancestry
<1>1. TypeOK' BY <1>f DEF IInv, TypeOK, NextBlock
<1>2. Ancestry'
  <2>1. \A u \in e.line : /\ u \in 1..L + 1 /\ blocks'[u].line \subseteq e.line
                          /\ blocks'[u].height <= e.height /\ blocks'[u].nonce <= e.nonce
    <3> TAKE u \in e.line
    <3>1. CASE u = L + 1 BY <1>f, <1>t, <3>1
    <3>2. CASE u \in blocks[p].line
      <4>1. /\ u \in 1..p /\ u \in 1..L /\ blocks'[u] = blocks[u] /\ blocks[u].line \subseteq blocks[p].line
            /\ blocks[u].height <= blocks[p].height /\ blocks[u].nonce <= blocks[p].nonce
        BY <1>a, <1>f, <3>2
      <4> QED BY <1>f, <1>t, <4>1
    <3> QED BY <1>f, <3>1, <3>2
  <2>2. \A v \in 1..L : \A u \in blocks[v].line : u \in 1..L /\ blocks'[u] = blocks[u]
    BY <1>a, <1>f
  <2>3. L + 1 > 1 /\ p \in 1..L /\ L + 1 \in e.line BY <1>f
  <2>4. ASSUME NEW v \in 1..L + 1
        PROVE  /\ v \in blocks'[v].line /\ (v > 1 => blocks'[v].parent \in 1..v - 1)
               /\ \A u \in blocks'[v].line :
                    /\ u \in 1..v /\ blocks'[u].line \subseteq blocks'[v].line
                    /\ blocks'[u].height <= blocks'[v].height /\ blocks'[u].nonce <= blocks'[v].nonce
    <3>1. CASE v = L + 1 BY <1>f, <2>1, <2>3, <3>1
    <3>2. CASE v \in 1..L
      <4>1. blocks'[v] = blocks[v] BY <1>f, <3>2
      <4> QED BY <1>a, <2>2, <3>2, <4>1
    <3> QED BY <1>f, <3>1, <3>2
  <2> QED BY <1>f, <1>l, <2>3, <2>4 DEF Ancestry
<1>3. Rights'
  <2> SUFFICES ASSUME NEW v \in 1..L + 1, blocks'[v].right # None
               PROVE  /\ blocks'[v].right.block \in blocks'[v].line \cup {0}
                      /\ v > 1 /\ blocks'[v].right.block # v =>
                           blocks'[v].right = blocks'[blocks'[v].parent].right
                      /\ \A u \in 1..L + 1 : blocks'[u].right = blocks'[v].right =>
                           blocks'[u].minted = blocks'[v].minted
    BY <1>f DEF Rights
  <2>1. \A u \in 1..L : blocks[u].right # None =>
          /\ blocks[u].right.block \in blocks[u].line \cup {0}
          /\ u > 1 /\ blocks[u].right.block # u => blocks[u].right = blocks[blocks[u].parent].right
          /\ \A w \in 1..L : blocks[w].right = blocks[u].right => blocks[w].minted = blocks[u].minted
    BY <1>f DEF IInv, Rights
  <2>2. CASE v = L + 1 BY <1>f, <2>1, <2>2
  <2>3. CASE v \in 1..L
    <3>1. v > 1 => blocks[v].parent \in 1..L BY <1>a, <1>f, <2>3
    <3> QED BY <1>f, <2>1, <2>3, <3>1
  <2> QED BY <1>f, <2>2, <2>3
<1>4. Runs'
  <2>1. \A v \in 1..L, i \in Nat : i \in DOMAIN blocks[v].runs =>
          /\ v > 1 /\ blocks[v].runs[i] \in 0..Len(attempts)
          /\ blocks[v].runs[i] > 0 => blocks[v].nonce >= first + blocks[v].runs[i]
    BY <1>f DEF IInv, Runs
  <2>2. \A v \in 1..L + 1 : v = L + 1 \/ v \in 1..L BY <1>f
  <2> QED BY <1>f, <1>t, <2>1, <2>2 DEF Runs
<1>5. Made'
  <2> DEFINE Sound(v, c, i) ==
        /\ i \in DOMAIN blocks[c].runs
        /\ blocks[c].runs[i] > 0 =>
             /\ blocks[c].runs[i] \in blocks[c].won
             /\ blocks[v].minted = attempts[blocks[c].runs[i]].minted + 1
  <2>1. ASSUME NEW v \in 1..L, blocks[v].right # None, blocks[v].right.block > 0
        PROVE  Sound(v, blocks[v].right.block, blocks[v].right.index) /\ blocks[v].right.block \in 1..L
    <3>1. Sound(v, blocks[v].right.block, blocks[v].right.index) BY <1>f, <2>1 DEF IInv, Made
    <3>2. blocks[v].right.block \in blocks[v].line BY <1>f, <2>1 DEF IInv, Rights
    <3>3. \A u \in 1..v : u \in 1..L BY <1>f
    <3> QED BY <1>a, <3>1, <3>2, <3>3
  <2>2. ASSUME NEW v \in 1..L + 1, blocks'[v].right # None, blocks'[v].right.block > 0
        PROVE  \E w \in 1..L : blocks'[v].right = blocks[w].right /\ blocks'[v].minted = blocks[w].minted
    <3>1. CASE v = L + 1 BY <1>f, <3>1
    <3>2. CASE v \in 1..L BY <1>f, <3>2
    <3> QED BY <1>f, <3>1, <3>2
  <2> HIDE DEF Sound
  <2>3. ASSUME NEW v \in 1..L + 1, blocks'[v].right # None, blocks'[v].right.block > 0
        PROVE  LET c == blocks'[v].right.block
                   i == blocks'[v].right.index
               IN /\ i \in DOMAIN blocks'[c].runs
                  /\ blocks'[c].runs[i] > 0 =>
                       /\ blocks'[c].runs[i] \in blocks'[c].won
                       /\ blocks'[v].minted = attempts[blocks'[c].runs[i]].minted + 1
    <3>1. PICK w \in 1..L : blocks'[v].right = blocks[w].right /\ blocks'[v].minted = blocks[w].minted
      BY <2>2, <2>3
    <3>2. Sound(w, blocks[w].right.block, blocks[w].right.index) /\ blocks[w].right.block \in 1..L
      BY <2>1, <2>3, <3>1
    <3>3. blocks'[blocks[w].right.block] = blocks[blocks[w].right.block] BY <1>f, <3>2
    <3> QED BY <3>1, <3>2, <3>3 DEF Sound
  <2> QED BY <1>f, <2>3 DEF Made
<1>6. Won'
  <2> DEFINE Once(v, m) ==
        /\ m \in 1..Len(attempts) /\ blocks'[v].nonce >= first + m
        /\ attempts[m].birth \in blocks'[v].line
        /\ \A u \in blocks'[v].line, i \in Nat :
             i \in DOMAIN blocks'[u].runs /\ blocks'[u].runs[i] = m => m \in blocks'[u].won
  <2>1. ASSUME NEW v \in 1..L
        PROVE  /\ blocks[v].won # {} => \E k \in blocks[v].won : blocks[v].won \subseteq 1..k
               /\ \A m \in blocks[v].won :
                    /\ m \in 1..Len(attempts) /\ blocks[v].nonce >= first + m
                    /\ attempts[m].birth \in blocks[v].line
                    /\ \A u \in blocks[v].line, i \in Nat :
                         i \in DOMAIN blocks'[u].runs /\ blocks'[u].runs[i] = m => m \in blocks'[u].won
    <3>1. \A u \in blocks[v].line : blocks'[u] = blocks[u] BY <1>a, <1>f
    <3> QED BY <1>f, <3>1 DEF IInv, Won
  <2>2. ASSUME NEW v \in 1..L + 1
        PROVE  /\ blocks'[v].won # {} => \E k \in blocks'[v].won : blocks'[v].won \subseteq 1..k
               /\ \A m \in blocks'[v].won : Once(v, m)
    <3>1. CASE v \in 1..L BY <1>f, <2>1, <3>1
    <3>2. CASE v = L + 1
      <4>1. /\ blocks'[v].won = blocks[p].won /\ p \in 1..L /\ blocks'[v].nonce = blocks[p].nonce
            /\ blocks'[v].line = blocks[p].line \cup {v} /\ DOMAIN blocks'[v].runs = {}
        BY <1>f, <1>t, <3>2
      <4>2. blocks'[v].won # {} => \E k \in blocks'[v].won : blocks'[v].won \subseteq 1..k
        BY <2>1, <4>1
      <4>3. ASSUME NEW m \in blocks'[v].won PROVE Once(v, m)
        <5>1. m \in blocks[p].won  BY <4>1
        <5>2. /\ m \in 1..Len(attempts) /\ blocks'[v].nonce >= first + m
              /\ attempts[m].birth \in blocks'[v].line
          BY <2>1, <4>1, <5>1
        <5>3. ASSUME NEW u \in blocks'[v].line, NEW i \in Nat,
                     i \in DOMAIN blocks'[u].runs, blocks'[u].runs[i] = m
              PROVE  m \in blocks'[u].won
          BY <2>1, <4>1, <5>1, <5>3
        <5> QED BY <5>2, <5>3
      <4> HIDE DEF Once
      <4> QED BY <4>2, <4>3
    <3> QED BY <1>f, <3>1, <3>2
  <2> QED BY <1>f, <2>2 DEF Won
<1>7. Mints'
  <2> SUFFICES ASSUME NEW v \in 1..L + 1, NEW i \in Nat, i \in DOMAIN blocks'[v].runs,
                      blocks'[v].runs[i] \in blocks'[v].won
               PROVE  /\ blocks'[blocks'[v].parent].right = attempts[blocks'[v].runs[i]].anchor
                      /\ \/ blocks'[v].right = Place(v, i)
                         \/ blocks'[v].right = None /\ attempts[blocks'[v].runs[i]].lot = Lots
    BY <1>f DEF Mints
  <2>1. v \in 1..L /\ blocks'[v] = blocks[v] BY <1>f, <1>t
  <2>2. v > 1 BY <1>f, <2>1 DEF IInv, Runs
  <2>3. blocks'[blocks[v].parent] = blocks[blocks[v].parent] BY <1>a, <1>f, <2>1, <2>2
  <2> QED BY <1>f, <2>1, <2>3 DEF IInv, Mints
<1>8. Attested = 1..L /\ Attested' = 1..L BY <1>f, <1>l DEF Attested, L
<1>9. Born' BY <1>f, <1>8 DEF IInv, Born
<1>10. Placed'
  <2>1. \A m \in 1..Len(attempts) : blocks'[attempts[m].birth] = blocks[attempts[m].birth]
    BY <1>f, <1>8 DEF IInv, Born
  <2> QED BY <1>f, <1>8, <2>1 DEF IInv, Placed, MintedBefore
<1>11. VerdictsTrue'
  <2> SUFFICES ASSUME NEW m \in Indices, attempts[m].status \in Verdict
               PROVE  LET p0 == attempts[m] IN
                        /\ p0.at.index \in DOMAIN blocks'[p0.at.block].runs /\ blocks'[p0.at.block].runs[p0.at.index] = m
                        /\ m \in blocks'[p0.at.block].won <=> p0.status = "minted"
    BY <1>f DEF VerdictsTrue, Indices
  <2>1. attempts[m].at.block \in Attested BY DEF IInv, Placed, Indices, TypeOK
  <2>2. blocks'[attempts[m].at.block] = blocks[attempts[m].at.block] BY <1>8, <1>f, <2>1
  <2> QED BY <2>2 DEF IInv, VerdictsTrue
<1> QED BY <1>1, <1>2, <1>3, <1>4, <1>5, <1>6, <1>7, <1>9, <1>10, <1>11 DEF IInv

\* The end of a block makes it one that can be attested.
LEMMA EndBlockKeeps == ASSUME IInv, EndBlock PROVE IInv'
<1>1. /\ blocks' = blocks /\ attempts' = attempts /\ first' = first /\ foreign' = foreign
      /\ state' = state /\ open' = FALSE
  BY DEF EndBlock
<1>2. \A v \in Attested : v \in Attested' BY <1>1 DEF Attested, IInv, TypeOK
<1>3. TypeOK' /\ Ancestry' /\ Rights' /\ Runs' /\ Made' /\ Won' /\ Mints' /\ VerdictsTrue'
  <2>1. TypeOK'  BY <1>1 DEF IInv, TypeOK
  <2>2. Ancestry' /\ Rights'  BY <1>1 DEF IInv, Ancestry, Rights
  <2>3. Runs' /\ Made'  BY <1>1 DEF IInv, Runs, Made
  <2>4. Won'  BY <1>1 DEF IInv, Won
  <2>5. Mints'  BY <1>1 DEF IInv, Mints
  <2>6. VerdictsTrue'  BY <1>1 DEF IInv, VerdictsTrue, Indices
  <2> QED BY <2>1, <2>2, <2>3, <2>4, <2>5, <2>6
<1>4. Born' BY <1>1, <1>2 DEF IInv, Born
<1>5. Placed' BY <1>1, <1>2 DEF IInv, Placed, MintedBefore
<1> QED BY <1>3, <1>4, <1>5 DEF IInv
-----------------------------------------------------------------------------
(* The session *)

\* What a session step keeps: everything about the chain and the terms of the payments.
LEMMA KeptInv ==
  ASSUME IInv, Kept, open' = open
  PROVE  Ancestry' /\ Rights' /\ Runs' /\ Made' /\ Won' /\ Mints' /\ Attested' = Attested
<1> DEFINE N == Len(attempts)
<1>0. N \in Nat /\ Len(attempts') \in Nat /\ Len(attempts') >= N BY DEF IInv, TypeOK, Kept
<1>1. Ancestry' /\ Rights' BY DEF IInv, Ancestry, Rights, Kept
<1>2. Runs' BY <1>0 DEF IInv, Runs, Kept
<1>3. Made'
  <2> SUFFICES ASSUME NEW v \in DOMAIN blocks, blocks[v].right # None, blocks[v].right.block > 0
               PROVE  LET c == blocks[v].right.block
                          i == blocks[v].right.index
                      IN /\ i \in DOMAIN blocks[c].runs
                         /\ blocks[c].runs[i] > 0 =>
                              /\ blocks[c].runs[i] \in blocks[c].won
                              /\ blocks[v].minted = attempts'[blocks[c].runs[i]].minted + 1
    BY DEF Made, Kept
  <2> DEFINE c == blocks[v].right.block
             i == blocks[v].right.index
  <2>1. /\ i \in DOMAIN blocks[c].runs
        /\ blocks[c].runs[i] > 0 =>
             /\ blocks[c].runs[i] \in blocks[c].won
             /\ blocks[v].minted = attempts[blocks[c].runs[i]].minted + 1
    BY DEF IInv, Made
  <2>2. c \in DOMAIN blocks
    <3>1. c \in blocks[v].line /\ \A u \in blocks[v].line : u \in 1..v
      BY DEF IInv, Rights, Ancestry
    <3>2. DOMAIN blocks = 1..Len(blocks) /\ Len(blocks) \in Nat BY DEF IInv, TypeOK
    <3> QED BY <3>1, <3>2
  <2> HIDE DEF c, i
  <2>3. blocks[c].runs[i] > 0 => blocks[c].runs[i] \in 1..N
    BY <2>1, <2>2 DEF IInv, Won
  <2>4. blocks[c].runs[i] > 0 => attempts'[blocks[c].runs[i]].minted = attempts[blocks[c].runs[i]].minted
    BY <2>3 DEF Kept
  <2> QED BY <2>1, <2>4 DEF c, i
<1>4. Won'
  <2>1. ASSUME NEW v \in DOMAIN blocks, NEW m \in blocks[v].won
        PROVE  m \in 1..N /\ m \in 1..Len(attempts') /\ attempts'[m].birth = attempts[m].birth
    <3>1. m \in 1..N BY DEF IInv, Won
    <3> QED BY <1>0, <3>1 DEF Kept
  <2>2. blocks' = blocks /\ first' = first  BY DEF Kept
  <2>3. \A v \in DOMAIN blocks :
          /\ blocks[v].won # {} => \E k \in blocks[v].won : blocks[v].won \subseteq 1..k
          /\ \A m \in blocks[v].won :
               /\ m \in 1..Len(attempts) /\ blocks[v].nonce >= first + m
               /\ attempts[m].birth \in blocks[v].line
               /\ \A u \in blocks[v].line, i \in Nat :
                    i \in DOMAIN blocks[u].runs /\ blocks[u].runs[i] = m => m \in blocks[u].won
    BY DEF IInv, Won
  <2>4. \A v \in DOMAIN blocks : \A m \in blocks[v].won :
          m \in 1..Len(attempts') /\ attempts'[m].birth \in blocks[v].line
    BY <2>1, <2>3
  <2> QED BY <2>2, <2>3, <2>4 DEF Won
<1>5. Mints'
  <2>1. ASSUME NEW v \in DOMAIN blocks, NEW m \in blocks[v].won
        PROVE  attempts'[m].anchor = attempts[m].anchor /\ attempts'[m].lot = attempts[m].lot
    <3>1. m \in 1..N BY DEF IInv, Won
    <3> QED BY <3>1 DEF Kept
  <2>2. blocks' = blocks  BY DEF Kept
  <2>3. \A v \in DOMAIN blocks, i \in Nat :
          i \in DOMAIN blocks[v].runs /\ blocks[v].runs[i] \in blocks[v].won =>
            /\ blocks[blocks[v].parent].right = attempts[blocks[v].runs[i]].anchor
            /\ \/ blocks[v].right = Place(v, i)
               \/ blocks[v].right = None /\ attempts[blocks[v].runs[i]].lot = Lots
    BY DEF IInv, Mints
  <2> QED BY <2>1, <2>2, <2>3 DEF Mints
<1>6. Attested' = Attested BY DEF Attested, Kept
<1> QED BY <1>1, <1>2, <1>3, <1>4, <1>5, <1>6

\* A change of the last payment's status or position keeps the invariant if what it now says holds.
LEMMA LastChanged ==
  ASSUME IInv, NEW n \in Indices, n = Len(attempts), NEW a \in Attempt,
         attempts' = [attempts EXCEPT ![n] = a],
         a.birth = attempts[n].birth, a.anchor = attempts[n].anchor, a.lot = attempts[n].lot,
         a.minted = attempts[n].minted,
         a.at # None => a.at.block \in Attested,
         a.status \in Verdict \cup {"included"} => a.at # None,
         a.status \in Verdict => /\ a.at.index \in DOMAIN blocks[a.at.block].runs /\ blocks[a.at.block].runs[a.at.index] = n
                                 /\ n \in blocks[a.at.block].won <=> a.status = "minted",
         UNCHANGED world, state' \in {"running", "ended"}
  PROVE  IInv'
<1>0. /\ DOMAIN attempts = 1..n /\ n \in Nat /\ attempts \in Seq(Attempt) /\ Len(attempts') = n
      /\ DOMAIN attempts' = 1..n /\ attempts' \in Seq(Attempt) /\ attempts'[n] = a
      /\ \A m \in 1..n : m # n => attempts'[m] = attempts[m]
  BY DEF IInv, TypeOK, Indices
<1>1. TypeOK' BY <1>0 DEF IInv, TypeOK, world
<1>2. Kept BY <1>0 DEF Kept, world
<1>3. open' = open /\ blocks' = blocks BY DEF world
<1>4. Ancestry' /\ Rights' /\ Runs' /\ Made' /\ Won' /\ Mints' /\ Attested' = Attested
  BY <1>2, <1>3, KeptInv
<1>5. Born' BY <1>0, <1>2, <1>3, <1>4 DEF IInv, Born, Kept
<1>6. Placed'
  <2> SUFFICES ASSUME NEW m \in 1..n
               PROVE  /\ attempts'[m].at # None => attempts'[m].at.block \in Attested
                      /\ attempts'[m].status \in Verdict \cup {"included"} => attempts'[m].at # None
                      /\ \A k \in 1..m - 1 :
                           /\ attempts'[k].status \in {"minted", "lost-race"}
                           /\ attempts'[k].at # None => attempts'[k].at.block \in blocks[attempts'[m].birth].line
                      /\ Cardinality({k \in 1..m - 1 : attempts'[k].status = "minted"}) < MaxLots
    BY <1>0, <1>3, <1>4 DEF Placed, MintedBefore
  <2>1. \A k \in 1..m - 1 : attempts'[k] = attempts[k] BY <1>0
  <2>2. {k \in 1..m - 1 : attempts'[k].status = "minted"} = MintedBefore(m) BY <2>1 DEF MintedBefore
  <2>3. attempts'[m].birth = attempts[m].birth BY <1>0
  <2> HIDE DEF MintedBefore
  <2>4. /\ attempts[m].at # None => attempts[m].at.block \in Attested
        /\ attempts[m].status \in Verdict \cup {"included"} => attempts[m].at # None
        /\ \A k \in 1..m - 1 :
             /\ attempts[k].status \in {"minted", "lost-race"}
             /\ attempts[k].at # None => attempts[k].at.block \in blocks[attempts[m].birth].line
        /\ Cardinality(MintedBefore(m)) < MaxLots
    BY <1>0 DEF IInv, Placed
  <2>5. CASE m = n
    <3>1. attempts'[m] = a BY <1>0, <2>5
    <3>2. /\ attempts'[m].at # None => attempts'[m].at.block \in Attested
          /\ attempts'[m].status \in Verdict \cup {"included"} => attempts'[m].at # None
      BY <3>1
    <3> QED BY <2>1, <2>2, <2>3, <2>4, <3>2
  <2>6. CASE m # n
    <3>1. attempts'[m] = attempts[m] BY <1>0, <2>6
    <3> QED BY <2>1, <2>2, <2>3, <2>4, <3>1
  <2> QED BY <2>5, <2>6
<1>7. VerdictsTrue'
  <2> SUFFICES ASSUME NEW m \in 1..n, attempts'[m].status \in Verdict
               PROVE  LET p == attempts'[m] IN
                        /\ p.at.index \in DOMAIN blocks[p.at.block].runs /\ blocks[p.at.block].runs[p.at.index] = m
                        /\ m \in blocks[p.at.block].won <=> p.status = "minted"
    BY <1>0, <1>3 DEF VerdictsTrue, Indices
  <2>1. CASE m = n BY <1>0, <2>1
  <2>2. CASE m # n BY <1>0, <2>2 DEF IInv, VerdictsTrue, Indices
  <2> QED BY <2>1, <2>2
<1> QED BY <1>1, <1>4, <1>5, <1>6, <1>7 DEF IInv

\* A verdict given is true: a payment that ran at a proven position minted there exactly if the right
\* of its block, or of a later one on its chain, is the place itself.
LEMMA JudgedTrue ==
  ASSUME IInv, NEW n \in Indices, NEW b \in Attested, NEW o \in Verdict,
         attempts[n].at # None, o \in Outcomes(n, b)
  PROVE  LET at == attempts[n].at IN
           /\ at.index \in DOMAIN blocks[at.block].runs /\ blocks[at.block].runs[at.index] = n
           /\ n \in blocks[at.block].won <=> o = "minted"
<1> DEFINE p == attempts[n]
           c == p.at.block
           i == p.at.index
           x == blocks[c]
           y == blocks[x.parent]
<1>0. /\ n \in 1..Len(attempts) /\ n > 0 /\ DOMAIN blocks = 1..Len(blocks) /\ Len(blocks) \in Nat
      /\ p \in Attempt /\ b \in 1..Len(blocks)
  BY DEF IInv, TypeOK, Indices, Attested
<1>1. p.at \in PlaceType /\ p.anchor \in RightType /\ p.minted \in Nat BY <1>0 DEF Attempt, RightType
<1>2. c \in Nat /\ i \in Nat /\ p.at = Place(c, i) /\ p.at # None
  BY <1>1 DEF PlaceType, Place
<1>3. Proven(n, b) BY DEF Outcomes, Verdict
<1>4. c \in blocks[b].line /\ i \in DOMAIN x.runs /\ x.runs[i] = n BY <1>3 DEF Proven
<1>5. c \in 1..Len(blocks) /\ c > 1
  <2>1. c \in 1..Len(blocks) BY <1>0, <1>4 DEF IInv, Ancestry
  <2> QED BY <1>0, <1>2, <1>4, <2>1 DEF IInv, Runs
<1> USE <1>0, <1>2, <1>4, <1>5
\* A right at this place is the payment's.
<1>6. ASSUME NEW v \in 1..Len(blocks), blocks[v].right = p.at
      PROVE  n \in x.won /\ blocks[v].minted = p.minted + 1
  <2>1. blocks[v].right # None /\ blocks[v].right.block > 0 /\ blocks[v].right.block = c
        /\ blocks[v].right.index = i
    BY <1>6
  <2> QED BY <2>1 DEF IInv, Made
\* If it minted, its block shows it and nothing else.
<1>7. ASSUME n \in x.won
      PROVE  /\ y.right = p.anchor
             /\ x.right = p.at \/ (x.right = None /\ p.lot = Lots)
             /\ p.anchor # None /\ ~Between(p, p.anchor)
  <2>1. y.right = p.anchor /\ (x.right = p.at \/ (x.right = None /\ p.lot = Lots))
    <3>1. c \in DOMAIN blocks /\ i \in DOMAIN blocks[c].runs /\ blocks[c].runs[i] = n
          /\ n \in blocks[c].won
      BY <1>7 DEF IInv, TypeOK
    <3>2. Mints  BY DEF IInv
    <3>3. /\ blocks[blocks[c].parent].right = attempts[n].anchor
          /\ blocks[c].right = Place(c, i) \/ (blocks[c].right = None /\ attempts[n].lot = Lots)
      BY <1>2, <3>1, <3>2 DEF Mints
    <3> QED BY <1>2, <3>3
  <2>2. /\ p.anchor # None /\ p.anchor = blocks[p.birth].right /\ p.birth \in 1..Len(blocks)
    BY DEF IInv, Born, Attested, TypeOK
  <2>3. ~Between(p, p.anchor)
    <3>1. p.anchor.block \in blocks[p.birth].line \cup {0} BY <2>2 DEF IInv, Rights
    <3>2. blocks[p.birth].height \in Nat
      <4>1. blocks[p.birth] \in Block BY <2>2 DEF IInv, TypeOK
      <4> QED BY <4>1 DEF Block
    <3>3. Height(p.birth) = blocks[p.birth].height BY <2>2 DEF Height
    <3>4. Height(p.anchor.block) <= blocks[p.birth].height /\ Height(p.anchor.block) \in Int
      <4>1. CASE p.anchor.block = 0 BY <3>2, <4>1 DEF Height
      <4>2. CASE p.anchor.block \in blocks[p.birth].line
        <5>1. /\ p.anchor.block \in 1..p.birth
              /\ blocks[p.anchor.block].height <= blocks[p.birth].height
          BY <2>2, <4>2 DEF IInv, Ancestry
        <5>2. p.anchor.block \in 1..Len(blocks) BY <2>2, <5>1
        <5>3. blocks[p.anchor.block].height \in Nat
          <6>1. blocks[p.anchor.block] \in Block BY <5>2 DEF IInv, TypeOK
          <6> QED BY <6>1 DEF Block
        <5> QED BY <5>1, <5>2, <5>3 DEF Height
      <4> QED BY <3>1, <4>1, <4>2
    <3> QED BY <3>2, <3>3, <3>4 DEF Between
  <2> QED BY <2>1, <2>2, <2>3
<1> HIDE DEF p, c, i, x, y
<1>8. CASE ShowsLot(p, blocks[b])
  <2>1. o = "minted" BY <1>3, <1>8 DEF Outcomes, p
  <2> QED BY <1>6, <1>8, <2>1 DEF ShowsLot, p, c, i, x
<1>9. CASE ~ShowsLot(p, blocks[b])
  <2>1. o = Exact(p, x, y) BY <1>3, <1>9 DEF Outcomes, p, c, x, y
  <2>2. x.right = p.at => n \in x.won /\ x.minted = p.minted + 1 BY <1>6 DEF x
  <2>3. CASE ShowsMint(p, x)
    <3>1. o = "minted" BY <2>1, <2>3 DEF Exact
    <3> QED BY <2>2, <2>3, <3>1 DEF ShowsMint, p, c, i, x
  <2>4. ~ShowsAnomaly(p, x) BY <1>1, <2>2 DEF ShowsAnomaly, p
  <2>5. CASE ~ShowsMint(p, x) /\ ShowsLoss(p, x, y)
    <3>1. o = "lost-race" BY <2>1, <2>4, <2>5 DEF Exact
    <3>2. n \notin x.won
      <4> SUFFICES ASSUME n \in x.won PROVE FALSE OBVIOUS
      <4>1. x.right = p.at => UsedInBlock(p, x) /\ x.right.index = p.at.index
        BY DEF UsedInBlock, p, c
      <4>2. x.right = p.at \/ (x.right = None /\ ~SoldBefore(p, x, y))
        <5>1. CASE x.right = None /\ p.lot = Lots
          <6>1. ~(p.lot < Lots) BY <5>1, SpendAssumption
          <6> QED BY <1>7, <5>1, <6>1 DEF SoldBefore
        <5> QED BY <1>7, <5>1
      <4>3. x.right = None => ~UsedInBlock(p, x) /\ ~Between(p, x.right) BY DEF UsedInBlock, Between
      <4> QED BY <1>1, <2>5, <4>1, <4>2, <4>3 DEF ShowsLoss, p, i
    <3> QED BY <3>1, <3>2 DEF p, c, i, x
  <2>6. CASE ~ShowsMint(p, x) /\ ~ShowsLoss(p, x, y) /\ ShowsFailure(p, x, y)
    <3>1. o = "failed" BY <2>1, <2>4, <2>6 DEF Exact
    <3>2. n \notin x.won
      <4> SUFFICES ASSUME n \in x.won PROVE FALSE OBVIOUS
      <4>1. x.right = p.at => UsedInBlock(p, x) /\ x.right.index = p.at.index
        BY DEF UsedInBlock, p, c
      <4>2. x.right = None => ~UsedInBlock(p, x) BY DEF UsedInBlock
      <4> QED BY <1>7, <2>6, <4>1, <4>2 DEF ShowsFailure, p, i
    <3> QED BY <3>1, <3>2 DEF p, c, i, x
  <2>7. CASE ~ShowsMint(p, x) /\ ~ShowsLoss(p, x, y) /\ ~ShowsFailure(p, x, y)
    <3>1. o = "unverified" BY <2>1, <2>4, <2>7 DEF Exact
    <3> QED BY <3>1 DEF Verdict
  <2> QED BY <2>3, <2>5, <2>6, <2>7
<1> QED BY <1>8, <1>9

\* A payment signed after the others keeps the invariant: they all have verdicts, on the line it is
\* born on, and fewer than MaxLots of them minted.
LEMMA AdmitKeeps == ASSUME IInv, NEW b \in Attested, Admit(b) PROVE IInv'
<1> DEFINE N == Len(attempts)
           v == blocks[b]
           a == [birth |-> b, anchor |-> v.right, lot |-> v.minted + 1, minted |-> v.minted,
                 held |-> v.held, status |-> "sent", at |-> None, doubt |-> FALSE]
<1>0. /\ N \in Nat /\ DOMAIN attempts = 1..N /\ attempts \in Seq(Attempt)
      /\ DOMAIN blocks = 1..Len(blocks) /\ b \in DOMAIN blocks /\ v \in Block
  BY DEF IInv, TypeOK, Attested
<1>1. attempts' = Append(attempts, a) /\ UNCHANGED world /\ state' = state BY DEF Admit
<1>2. a \in Attempt BY <1>0 DEF Attempt, Block, RightType
<1>3. /\ a.birth = b /\ a.anchor = v.right /\ a.lot = v.minted + 1 /\ a.minted = v.minted
      /\ a.status = "sent" /\ a.at = None
  OBVIOUS
<1> HIDE DEF a
<1>4. /\ Len(attempts') = N + 1 /\ DOMAIN attempts' = 1..N + 1 /\ attempts' \in Seq(Attempt)
      /\ attempts'[N + 1] = a /\ \A m \in 1..N : attempts'[m] = attempts[m]
  BY <1>0, <1>1, <1>2
<1>5. open' = open /\ blocks' = blocks /\ first' = first /\ foreign' = foreign BY <1>1 DEF world
<1>6. TypeOK' BY <1>1, <1>4, <1>5 DEF IInv, TypeOK
<1>7. Kept BY <1>0, <1>4, <1>5 DEF Kept
<1>8. Ancestry' /\ Rights' /\ Runs' /\ Made' /\ Won' /\ Mints' /\ Attested' = Attested
  BY <1>5, <1>7, KeptInv
<1>9. Born'
  <2>1. v.right # None BY DEF Admit
  <2>2. ASSUME NEW m \in 1..N + 1
        PROVE  LET p == attempts'[m] IN
                 /\ p.birth \in Attested
                 /\ p.anchor # None /\ p.anchor = blocks[p.birth].right
                 /\ p.minted = blocks[p.birth].minted /\ p.lot = p.minted + 1
    <3>1. CASE m = N + 1 BY <1>3, <1>4, <2>1, <3>1
    <3>2. CASE m \in 1..N BY <1>4, <3>2 DEF IInv, Born
    <3> QED BY <1>0, <3>1, <3>2
  <2> QED BY <1>4, <1>5, <1>8, <2>2 DEF Born
<1>10. Placed'
  <2>1. \A m \in 1..N :
          /\ attempts[m].status \in {"minted", "lost-race"}
          /\ attempts[m].at # None => attempts[m].at.block \in v.line
    <3> TAKE m \in 1..N
    <3>1. attempts[m].at # None => attempts[m].at.block \in v.line BY <1>0 DEF Admit, Indices
    <3>2. CASE m = N
      <4>1. N > 0 BY <1>0, <3>2
      <4>2. attempts[N].status \in {"minted", "lost-race"} BY <4>1 DEF Admit
      <4> QED BY <3>1, <3>2, <4>2
    <3>3. CASE m # N
      <4>1. N \in 1..N /\ m \in 1..N - 1
        <5> HIDE DEF N
        <5> QED BY <1>0, <3>3
      <4> QED BY <3>1, <4>1 DEF IInv, Placed
    <3> QED BY <3>1, <3>2, <3>3
  <2>2. Cardinality({m \in 1..N : attempts[m].status = "minted"}) < MaxLots
    BY <1>0 DEF Admit, Counted, Indices
  <2>3. ASSUME NEW m \in 1..N + 1
        PROVE  /\ attempts'[m].at # None => attempts'[m].at.block \in Attested
               /\ attempts'[m].status \in Verdict \cup {"included"} => attempts'[m].at # None
               /\ \A k \in 1..m - 1 :
                    /\ attempts'[k].status \in {"minted", "lost-race"}
                    /\ attempts'[k].at # None => attempts'[k].at.block \in blocks[attempts'[m].birth].line
               /\ Cardinality({k \in 1..m - 1 : attempts'[k].status = "minted"}) < MaxLots
    <3>1. \A k \in 1..m - 1 : k \in 1..N /\ attempts'[k] = attempts[k] BY <1>0, <1>4
    <3>2. {k \in 1..m - 1 : attempts'[k].status = "minted"} = {k \in 1..m - 1 : attempts[k].status = "minted"}
      BY <3>1
    <3>3. CASE m = N + 1
      <4>1. m - 1 = N /\ attempts'[m] = a BY <1>0, <1>4, <3>3
      <4>2. ~(a.status \in Verdict \cup {"included"}) BY <1>3 DEF Verdict
      <4> QED BY <1>3, <2>1, <2>2, <3>1, <3>2, <4>1, <4>2
    <3>4. CASE m \in 1..N
      <4>1. attempts'[m] = attempts[m] BY <1>4, <3>4
      <4>2. /\ attempts[m].at # None => attempts[m].at.block \in Attested
            /\ attempts[m].status \in Verdict \cup {"included"} => attempts[m].at # None
            /\ \A k \in 1..m - 1 :
                 /\ attempts[k].status \in {"minted", "lost-race"}
                 /\ attempts[k].at # None => attempts[k].at.block \in blocks[attempts[m].birth].line
            /\ Cardinality({k \in 1..m - 1 : attempts[k].status = "minted"}) < MaxLots
        BY <3>4 DEF IInv, Placed, MintedBefore
      <4> QED BY <3>1, <3>2, <4>1, <4>2
    <3> QED BY <1>0, <3>3, <3>4
  <2> QED BY <1>4, <1>5, <1>8, <2>3 DEF Placed, MintedBefore
<1>11. VerdictsTrue'
  <2> SUFFICES ASSUME NEW m \in 1..N + 1, attempts'[m].status \in Verdict
               PROVE  LET p == attempts'[m] IN
                        /\ p.at.index \in DOMAIN blocks[p.at.block].runs /\ blocks[p.at.block].runs[p.at.index] = m
                        /\ m \in blocks[p.at.block].won <=> p.status = "minted"
    BY <1>4, <1>5 DEF VerdictsTrue, Indices
  <2>1. m # N + 1 BY <1>3, <1>4 DEF Verdict
  <2>2. m \in Indices /\ attempts'[m] = attempts[m] BY <1>0, <1>4, <2>1 DEF Indices
  <2> QED BY <2>2 DEF IInv, VerdictsTrue
<1> QED BY <1>6, <1>8, <1>9, <1>10, <1>11 DEF IInv

\* A position, a verdict or a fate of the last payment keeps the invariant.
LEMMA IncludeKeeps == ASSUME IInv, NEW n \in Indices, Include(n) PROVE IInv'
<1>1. PICK b \in Attested, i \in 1..MaxEvents :
        attempts' = [attempts EXCEPT ![n].status = "included", ![n].at = Place(b, i)]
  BY DEF Include
<1>2. n = Len(attempts) /\ UNCHANGED <<world, state>> BY DEF Include, Follows
<1>3. attempts[n] \in Attempt /\ attempts \in Seq(Attempt) /\ n \in DOMAIN attempts
  BY DEF IInv, TypeOK, Indices
<1>4. Place(b, i) \in PlaceType
  <2>1. b \in Nat BY DEF Attested, IInv, TypeOK
  <2>2. i \in Nat BY SpendAssumption
  <2> QED BY <2>1, <2>2 DEF Place, PlaceType
<1> DEFINE a1 == [attempts[n] EXCEPT !.status = "included"]
           a == [a1 EXCEPT !.at = Place(b, i)]
<1>5. /\ a1 \in Attempt /\ a1.birth = attempts[n].birth /\ a1.anchor = attempts[n].anchor
      /\ a1.lot = attempts[n].lot /\ a1.minted = attempts[n].minted /\ a1.status = "included"
  BY <1>3 DEF Attempt
<1> HIDE DEF a1
<1>6. /\ a \in Attempt /\ a.birth = attempts[n].birth /\ a.anchor = attempts[n].anchor
      /\ a.lot = attempts[n].lot /\ a.minted = attempts[n].minted /\ a.status = "included"
      /\ a.at = Place(b, i)
  BY <1>4, <1>5 DEF Attempt, RightType
<1>7. attempts' = [attempts EXCEPT ![n] = a] BY <1>1, <1>3 DEF a1
<1> HIDE DEF a
<1>8. a.at # None /\ a.at.block \in Attested /\ a.status \notin Verdict
  BY <1>4, <1>6, SpendAssumption DEF Place, PlaceType, Verdict
<1>9. state' \in {"running", "ended"} BY <1>2 DEF IInv, TypeOK
<1> QED BY <1>2, <1>6, <1>7, <1>8, <1>9, LastChanged

\* Only the status of the last payment changes, to one that says nothing of a position or is true.
LEMMA StatusKeeps ==
  ASSUME IInv, NEW n \in Indices, n = Len(attempts),
         NEW s \in {"dead", "expired", "replaced"} \cup Verdict,
         attempts' = [attempts EXCEPT ![n].status = s],
         s \in Verdict => /\ attempts[n].at # None
                          /\ attempts[n].at.index \in DOMAIN blocks[attempts[n].at.block].runs /\ blocks[attempts[n].at.block].runs[attempts[n].at.index] = n
                          /\ n \in blocks[attempts[n].at.block].won <=> s = "minted",
         UNCHANGED world, state' \in {"running", "ended"}
  PROVE  IInv'
<1>1. attempts[n] \in Attempt /\ attempts \in Seq(Attempt) /\ n \in DOMAIN attempts /\ n \in 1..Len(attempts)
  BY DEF IInv, TypeOK, Indices
<1> DEFINE a == [attempts[n] EXCEPT !.status = s]
<1>2. /\ a \in Attempt /\ a.birth = attempts[n].birth /\ a.anchor = attempts[n].anchor
      /\ a.lot = attempts[n].lot /\ a.minted = attempts[n].minted /\ a.status = s
      /\ a.at = attempts[n].at
  BY <1>1 DEF Attempt
<1>3. attempts' = [attempts EXCEPT ![n] = a] BY <1>1
<1> HIDE DEF a
<1>4. a.at # None => a.at.block \in Attested BY <1>1, <1>2 DEF IInv, Placed
<1>5. a.status \in Verdict \cup {"included"} => a.at # None BY <1>2 DEF Verdict
<1>6. a.status \in Verdict => /\ a.at.index \in DOMAIN blocks[a.at.block].runs /\ blocks[a.at.block].runs[a.at.index] = n
                              /\ n \in blocks[a.at.block].won <=> a.status = "minted"
  BY <1>2
<1> QED BY <1>2, <1>3, <1>4, <1>5, <1>6, LastChanged

\* A step that keeps the chain and the payments keeps what is said of them.
LEMMA SameKeeps ==
  ASSUME IInv, attempts' = attempts, blocks' = blocks, open' = open, first' = first, foreign' = foreign,
         state' \in {"running", "ended"}
  PROVE  IInv'
<1>1. TypeOK'  BY DEF IInv, TypeOK
<1>2. Ancestry' /\ Rights'  BY DEF IInv, Ancestry, Rights
<1>3. Runs' /\ Made'  BY DEF IInv, Runs, Made
<1>4. Won'  BY DEF IInv, Won
<1>5. Mints'  BY DEF IInv, Mints
<1>6. Born'  BY DEF IInv, Born, Attested
<1>7. Placed'  BY DEF IInv, Placed, MintedBefore, Attested
<1>8. VerdictsTrue'  BY DEF IInv, VerdictsTrue, Indices
<1> QED BY <1>1, <1>2, <1>3, <1>4, <1>5, <1>6, <1>7, <1>8 DEF IInv

\* A verdict.
LEMMA JudgeKeeps == ASSUME IInv, NEW n \in Indices, Judge(n) PROVE IInv'
<1>1. PICK b \in Attested, o \in Verdict \cup {"unverified"} :
        /\ o \in Outcomes(n, b)
        /\ attempts' = IF o = "unverified" THEN attempts ELSE [attempts EXCEPT ![n].status = o]
        /\ state' = IF o \in {"minted", "lost-race"} THEN state ELSE "ended"
  BY DEF Judge
<1>2. n = Len(attempts) /\ UNCHANGED world /\ attempts[n].status = "included" BY DEF Judge, Follows
<1>3. state' \in {"running", "ended"} BY <1>1 DEF IInv, TypeOK
<1>4. attempts[n].at # None BY <1>2 DEF IInv, Placed, TypeOK, Indices
<1>5. CASE o = "unverified"
  <2>1. attempts' = attempts /\ blocks' = blocks /\ open' = open /\ first' = first /\ foreign' = foreign
    BY <1>1, <1>2, <1>5 DEF world
  <2> QED BY <1>3, <2>1, SameKeeps
<1>6. CASE o # "unverified"
  <2>1. o \in Verdict /\ attempts' = [attempts EXCEPT ![n].status = o] BY <1>1, <1>6
  <2>2. /\ attempts[n].at.index \in DOMAIN blocks[attempts[n].at.block].runs /\ blocks[attempts[n].at.block].runs[attempts[n].at.index] = n
        /\ n \in blocks[attempts[n].at.block].won <=> o = "minted"
    BY <1>1, <1>4, <2>1, JudgedTrue
  <2> QED BY <1>2, <1>3, <1>4, <2>1, <2>2, StatusKeeps
<1> QED BY <1>5, <1>6

\* A fate that only the node vouches for.
LEMMA FateKeeps == ASSUME IInv, NEW n \in Indices, Fate(n) PROVE IInv'
<1>1. PICK s \in {"dead", "expired", "replaced"} : attempts' = [attempts EXCEPT ![n].status = s]
  BY DEF Fate
<1>2. n = Len(attempts) /\ UNCHANGED world /\ state' = "ended" BY DEF Fate, Follows
<1>3. s \notin Verdict BY DEF Verdict
<1> QED BY <1>1, <1>2, <1>3, StatusKeeps

\* A doubt changes nothing the invariant reads.
LEMMA DoubtedKeeps == ASSUME IInv, Doubted PROVE IInv'
<1>1. PICK S : attempts' = Doubt(S) BY DEF Doubted
<1>2. UNCHANGED world /\ state' = "ended" BY DEF Doubted
<1>3. blocks' = blocks /\ open' = open /\ first' = first /\ foreign' = foreign BY <1>2 DEF world
<1>4. Len(attempts) \in Nat /\ DOMAIN attempts = 1..Len(attempts) /\ \A m \in 1..Len(attempts) : attempts[m] \in Attempt
  BY DEF IInv, TypeOK
<1>5. ASSUME NEW m \in 1..Len(attempts)
      PROVE  /\ attempts'[m] \in Attempt
             /\ attempts'[m].birth = attempts[m].birth /\ attempts'[m].anchor = attempts[m].anchor
             /\ attempts'[m].lot = attempts[m].lot /\ attempts'[m].minted = attempts[m].minted
             /\ attempts'[m].status = attempts[m].status /\ attempts'[m].at = attempts[m].at
  <2>1. attempts'[m] = [attempts[m] EXCEPT !.doubt = TRUE] \/ attempts'[m] = attempts[m]
    BY <1>1, <1>4 DEF Doubt, Indices
  <2>2. attempts[m] \in Attempt BY <1>4
  <2> DEFINE a == [attempts[m] EXCEPT !.doubt = TRUE]
  <2>3. /\ a \in Attempt /\ a.birth = attempts[m].birth /\ a.anchor = attempts[m].anchor
        /\ a.lot = attempts[m].lot /\ a.minted = attempts[m].minted
        /\ a.status = attempts[m].status /\ a.at = attempts[m].at
    BY <2>2 DEF Attempt
  <2> QED BY <2>1, <2>2, <2>3
<1>6. attempts' = [m \in 1..Len(attempts) |-> attempts'[m]] BY <1>1, <1>4 DEF Doubt, Indices
<1>7. attempts' \in Seq(Attempt) /\ Len(attempts') = Len(attempts) /\ DOMAIN attempts' = 1..Len(attempts)
  <2>1. attempts' \in [1..Len(attempts) -> Attempt] BY <1>5, <1>6
  <2> QED BY <1>4, <2>1
<1>8. TypeOK' BY <1>2, <1>3, <1>7 DEF IInv, TypeOK
<1>9. Kept BY <1>3, <1>4, <1>5, <1>7 DEF Kept
<1>10. Ancestry' /\ Rights' /\ Runs' /\ Made' /\ Won' /\ Mints' /\ Attested' = Attested
  BY <1>3, <1>9, KeptInv
<1>11. Born' BY <1>3, <1>5, <1>7, <1>10 DEF IInv, Born
<1>12. Placed'
  <2>1. \A m \in 1..Len(attempts) : MintedBefore(m)' = MintedBefore(m)
    <3> TAKE m \in 1..Len(attempts)
    <3>1. \A k \in 1..m - 1 : attempts'[k].status = attempts[k].status BY <1>4, <1>5
    <3> QED BY <3>1 DEF MintedBefore
  <2>2. ASSUME NEW m \in 1..Len(attempts)
        PROVE  /\ attempts'[m].at # None => attempts'[m].at.block \in Attested
               /\ attempts'[m].status \in Verdict \cup {"included"} => attempts'[m].at # None
               /\ \A k \in 1..m - 1 :
                    /\ attempts'[k].status \in {"minted", "lost-race"}
                    /\ attempts'[k].at # None => attempts'[k].at.block \in blocks[attempts'[m].birth].line
               /\ Cardinality(MintedBefore(m)') < MaxLots
    <3>1. \A k \in 1..m - 1 : k \in 1..Len(attempts) BY <1>4
    <3> QED BY <1>5, <2>1, <3>1 DEF IInv, Placed
  <2> QED BY <1>3, <1>7, <1>10, <2>2 DEF Placed
<1>13. VerdictsTrue' BY <1>3, <1>5, <1>7 DEF IInv, VerdictsTrue, Indices
<1> QED BY <1>8, <1>10, <1>11, <1>12, <1>13 DEF IInv

\* An end, and a step that changes nothing.
LEMMA EndsKeeps == ASSUME IInv, Ends \/ UNCHANGED vars PROVE IInv'
<1>1. /\ blocks' = blocks /\ open' = open /\ first' = first /\ foreign' = foreign /\ attempts' = attempts
      /\ state' \in {"running", "ended"}
  BY DEF Ends, vars, world, IInv, TypeOK
<1> QED BY <1>1, SameKeeps
-----------------------------------------------------------------------------
(* The theorems *)

\* Initially nothing ran.
LEMMA InitHolds == ASSUME Init PROVE IInv
<1>1. PICK m \in Minted :
        blocks = <<[parent |-> 0, line |-> {1}, height |-> 1, runs |-> <<>>,
                    right |-> Place(0, 1), minted |-> m, held |-> 0, nonce |-> 0, won |-> {}]>>
  BY DEF Init
<1> DEFINE r == [parent |-> 0, line |-> {1}, height |-> 1, runs |-> <<>>,
                 right |-> Place(0, 1), minted |-> m, held |-> 0, nonce |-> 0, won |-> {}]
<1>2. m \in Nat BY SpendAssumption
<1>3. <<>> \in Seq(Nat) /\ Place(0, 1) \in PlaceType BY DEF Place, PlaceType
<1>4. r \in Block BY <1>2, <1>3 DEF Block, RightType
<1>5. /\ r.parent = 0 /\ r.line = {1} /\ r.height = 1 /\ r.runs = <<>> /\ r.right.block = 0
      /\ r.nonce = 0 /\ r.won = {}
  BY DEF Place
<1> HIDE DEF r
<1>6. Len(blocks) = 1 /\ DOMAIN blocks = {1} /\ blocks[1] = r /\ blocks \in Seq(Block) /\ blocks # <<>>
  BY <1>1, <1>4 DEF r
<1>7. Len(attempts) = 0 /\ attempts = <<>> /\ DOMAIN attempts = {} /\ 1..Len(attempts) = {} BY DEF Init
<1>8. TypeOK
  <2>1. attempts \in Seq(Attempt) BY <1>7
  <2>2. open \in BOOLEAN /\ first \in Nat /\ foreign \in Nat /\ state \in {"running", "ended"}
    <3>1. open = FALSE /\ first \in {0, 1} /\ foreign = 0 /\ state = "running" BY DEF Init
    <3>2. open \in BOOLEAN /\ state \in {"running", "ended"} BY <3>1
    <3>3. first \in Nat /\ foreign \in Nat BY <3>1
    <3> QED BY <3>2, <3>3
  <2> QED BY <1>6, <2>1, <2>2 DEF TypeOK
<1>9. Ancestry
  <2>1. r.nonce <= r.nonce /\ r.height <= r.height /\ 1 \in 1..1 BY <1>5
  <2> QED BY <1>5, <1>6, <2>1 DEF Init, Ancestry
<1>10. Rights /\ Made
  <2>1. DOMAIN blocks = {1} /\ blocks[1] = r  BY <1>6
  <2>2. Rights  BY <1>5, <2>1 DEF Rights
  <2>3. blocks[1].right.block = 0  BY <1>5, <2>1
  <2>4. \A v \in DOMAIN blocks : ~(blocks[v].right.block > 0)  BY <2>1, <2>3
  <2>5. Made  BY <2>4, Zenon DEF Made
  <2> QED BY <2>2, <2>5
<1>11. Runs /\ Won /\ Mints BY <1>5, <1>6 DEF Runs, Won, Mints
<1>12. Born /\ Placed /\ VerdictsTrue BY <1>7 DEF Born, Placed, VerdictsTrue, Indices
<1> QED BY <1>8, <1>9, <1>10, <1>11, <1>12 DEF IInv

\* The invariant holds of every reachable state.
THEOREM Invariant == Spec => []IInv
<1>1. Init => IInv BY InitHolds
<1>2. IInv /\ [Next]_vars => IInv'
  <2> SUFFICES ASSUME IInv, [Next]_vars PROVE IInv' OBVIOUS
  <2>1. CASE NextBlock BY <2>1, NextBlockKeeps
  <2>2. CASE EndBlock BY <2>2, EndBlockKeeps
  <2>3. CASE Others
    <3>1. \E e : ChainStep(0, e) BY <2>3, OthersShape DEF IInv
    <3>2. foreign' \in Nat BY <2>3 DEF Others, IInv, TypeOK
    <3> QED BY <3>1, <3>2, ChainKeeps
  <2>4. ASSUME NEW n \in Indices, Pays(n) PROVE IInv'
    <3>1. \E e : ChainStep(n, e) BY <2>4, PaysShape DEF IInv
    <3>2. foreign' \in Nat BY <2>4 DEF Pays, IInv, TypeOK
    <3> QED BY <3>1, <3>2, ChainKeeps
  <2>5. ASSUME NEW b \in Attested, Admit(b) PROVE IInv' BY <2>5, AdmitKeeps
  <2>6. ASSUME NEW n \in Indices, Include(n) PROVE IInv' BY <2>6, IncludeKeeps
  <2>7. ASSUME NEW n \in Indices, Judge(n) PROVE IInv' BY <2>7, JudgeKeeps
  <2>8. ASSUME NEW n \in Indices, Fate(n) PROVE IInv' BY <2>8, FateKeeps
  <2>9. CASE Ends BY <2>9, EndsKeeps
  <2>10. CASE Doubted BY <2>10, DoubtedKeeps
  <2>11. CASE UNCHANGED vars BY <2>11, EndsKeeps
  <2> QED BY <2>1, <2>2, <2>3, <2>4, <2>5, <2>6, <2>7, <2>8, <2>9, <2>10, <2>11 DEF Next
<1> QED BY <1>1, <1>2, PTL DEF Spec

\* Whatever the node says, a verdict is true of the position it was given for.
THEOREM VerdictsAreTrue == Spec => []VerdictsTrue
BY Invariant, PTL DEF IInv

\* A set of the first k numbers without k has at most as many members less one as its upper bound.
LEMMA MoreByOne ==
  ASSUME NEW S, NEW T, NEW k, IsFiniteSet(S), T \subseteq S \cup {k}, NEW m \in Nat, Cardinality(S) < m
  PROVE  Cardinality(T) <= m
<1>1. IsFiniteSet(S \cup {k}) /\ Cardinality(S \cup {k}) <= Cardinality(S) + 1
  <2>1. IsFiniteSet(S \cup {k})
        /\ (Cardinality(S \cup {k}) = Cardinality(S) \/ Cardinality(S \cup {k}) = Cardinality(S) + 1)
    BY FS_AddElement
  <2>2. Cardinality(S) \in Nat BY FS_CardinalityType
  <2> QED BY <2>1, <2>2
<1>2. Cardinality(T) <= Cardinality(S \cup {k}) /\ IsFiniteSet(T) BY <1>1, FS_Subset
<1>3. Cardinality(S) \in Nat /\ Cardinality(S \cup {k}) \in Nat /\ Cardinality(T) \in Nat
  BY <1>1, <1>2, FS_CardinalityType
<1> QED BY <1>1, <1>2, <1>3

\* Every payment but the last that won on a fork had a verdict when that one was signed, and the
\* verdict was minted.
LEMMA WonBefore ==
  ASSUME IInv, NEW b \in DOMAIN blocks, blocks[b].won # {}
  PROVE  \E k \in 1..Len(attempts) : blocks[b].won \subseteq MintedBefore(k) \cup {k}
<1> DEFINE W == blocks[b].won
<1>1. PICK k \in W : W \subseteq 1..k BY DEF IInv, Won
<1>2. k \in 1..Len(attempts) /\ Len(attempts) \in Nat /\ attempts[k].birth \in blocks[b].line
  BY DEF IInv, Won, TypeOK
<1>3. ASSUME NEW m \in W, m # k PROVE m \in MintedBefore(k)
  <2>1. m \in 1..k - 1 /\ m \in 1..Len(attempts) BY <1>1, <1>2, <1>3
  <2>2. /\ attempts[m].status \in {"minted", "lost-race"}
        /\ attempts[m].at # None => attempts[m].at.block \in blocks[attempts[k].birth].line
    BY <1>2, <2>1 DEF IInv, Placed
  <2> DEFINE c == attempts[m].at.block
             i == attempts[m].at.index
  <2>3. attempts[m].at # None /\ c \in blocks[attempts[k].birth].line
    BY <2>1, <2>2 DEF IInv, Placed, Verdict
  <2>4. c \in blocks[b].line BY <1>2, <2>3 DEF IInv, Ancestry
  <2>5. m \in Indices /\ attempts[m].status \in Verdict
    BY <2>1, <2>2 DEF Verdict, Indices, IInv, TypeOK
  <2>6. /\ i \in DOMAIN blocks[c].runs /\ blocks[c].runs[i] = m
        /\ m \in blocks[c].won <=> attempts[m].status = "minted"
    BY <2>5 DEF IInv, VerdictsTrue
  <2>7. i \in Nat
    <3>1. attempts[m] \in Attempt BY <2>1 DEF IInv, TypeOK
    <3>2. attempts[m].at \in PlaceType BY <2>3, <3>1 DEF Attempt, RightType
    <3> QED BY <3>2 DEF PlaceType
  <2>8. m \in blocks[c].won BY <2>4, <2>6, <2>7 DEF IInv, Won
  <2> QED BY <2>1, <2>6, <2>8 DEF MintedBefore
<1> QED BY <1>2, <1>3

\* So no fork mints more than the approved lots.
LEMMA LotsFollow == IInv => LotsHold
<1> SUFFICES ASSUME IInv, NEW b \in DOMAIN blocks PROVE Cardinality(blocks[b].won) <= MaxLots
  BY DEF LotsHold
<1>1. CASE blocks[b].won = {}
  BY <1>1, FS_EmptySet, SpendAssumption
<1>2. CASE blocks[b].won # {}
  <2>1. PICK k \in 1..Len(attempts) : blocks[b].won \subseteq MintedBefore(k) \cup {k} BY <1>2, WonBefore
  <2>2. Len(attempts) \in Nat BY DEF IInv, TypeOK
  <2>3. IsFiniteSet(MintedBefore(k)) /\ Cardinality(MintedBefore(k)) < MaxLots
    <3>1. IsFiniteSet(1..k - 1) BY <2>2, FS_Interval
    <3>2. IsFiniteSet(MintedBefore(k)) BY <3>1, FS_Subset DEF MintedBefore
    <3> QED BY <2>1, <3>2 DEF IInv, Placed
  <2> QED BY <2>1, <2>3, MoreByOne, SpendAssumption
<1> QED BY <1>1, <1>2

\* Whatever the node says and whichever fork wins, the session mints at most the approved lots there.
THEOREM LotsAreCapped == Spec => []LotsHold
BY Invariant, LotsFollow, PTL

\* Every variable keeps its type.
THEOREM SpendTypes == Spec => []TypeOK
BY Invariant, PTL DEF IInv

-----------------------------------------------------------------------------
(* The spend *)

\* A right is there only while a lot is left, so a payment signed for one has a lot and a charge.
Room == \A v \in DOMAIN blocks : blocks[v].right # None => blocks[v].minted < Lots
Priced(ps) == \A n \in 1..Len(ps) : ps[n].lot \in 1..Lots
Charges(ps) == [n \in DOMAIN ps |-> Charge(ps[n])]

\* Each payment was affordable above all that had minted when it was signed.
Affords(ps, n) == Sum(ps, {m \in 1..n - 1 : ps[m].status = "minted"}) + Charge(ps[n]) <= MaxSpend
Afforded == \A n \in 1..Len(attempts) : Affords(attempts, n)

SpendInv == IInv /\ Room /\ Afforded

\* A sum of charges is a sum.
LEMMA SumIs ==
  ASSUME NEW ps, NEW S \in SUBSET (DOMAIN ps), IsFiniteSet(S)
  PROVE  Sum(ps, S) = Total(Charges(ps), S)
<1> DEFINE F == Charges(ps)
           i == CHOOSE i : i = [s \in SUBSET S |->
                  IF s = {} THEN 0 ELSE LET x == CHOOSE x \in s : TRUE IN Charge(ps[x]) + i[s \ {x}]]
<1>1. Sum(ps, S) = i[S]  BY DEF Sum, MapThenSumSet, MapThenFoldSet
<1>2. PICK g : AddsUp(g, F, SUBSET S)  BY FoldExists
<1>3. \A s \in SUBSET S : s # {} => F[Chosen(s)] = Charge(ps[Chosen(s)])
  BY Taken DEF Charges
<1>4. g = [s \in SUBSET S |->
             IF s = {} THEN 0 ELSE LET x == CHOOSE x \in s : TRUE IN Charge(ps[x]) + g[s \ {x}]]
  <2>1. g = [s \in SUBSET S |-> IF s = {} THEN 0 ELSE F[Chosen(s)] + g[s \ {Chosen(s)}]]
    BY <1>2 DEF AddsUp
  <2> HIDE DEF F
  <2>2. g = [s \in SUBSET S |-> IF s = {} THEN 0 ELSE Charge(ps[Chosen(s)]) + g[s \ {Chosen(s)}]]
    BY <1>3, <2>1
  <2> QED  BY <2>2 DEF Chosen
<1>5. i = [s \in SUBSET S |->
             IF s = {} THEN 0 ELSE LET x == CHOOSE x \in s : TRUE IN Charge(ps[x]) + i[s \ {x}]]
  BY <1>4
<1> HIDE DEF i
<1>6. PICK j : j = i  OBVIOUS
<1>7. AddsUp(j, F, SUBSET S)
  <2>1. j = [s \in SUBSET S |-> IF s = {} THEN 0 ELSE Charge(ps[Chosen(s)]) + j[s \ {Chosen(s)}]]
    BY <1>5, <1>6 DEF Chosen
  <2> HIDE DEF F
  <2>2. j = [s \in SUBSET S |-> IF s = {} THEN 0 ELSE F[Chosen(s)] + j[s \ {Chosen(s)}]]
    BY <1>3, <2>1
  <2> QED  BY <2>2 DEF AddsUp
<1>8. S \in SUBSET S  OBVIOUS
<1>9. Total(F, S) = j[S]  BY <1>7, <1>8, TotalIs
<1> QED  BY <1>1, <1>6, <1>9

\* A payment with a lot has a charge.
LEMMA ChargeType ==
  ASSUME NEW ps \in Seq(Attempt), Priced(ps), NEW n \in 1..Len(ps)
  PROVE  Charge(ps[n]) \in Nat /\ Charges(ps)[n] = Charge(ps[n])
<1>1. ps[n].lot \in 1..Lots  BY DEF Priced
<1>2. Fee[ps[n].lot] \in Nat /\ Ticket \in Nat  BY <1>1, SpendAssumption
<1> QED  BY <1>2 DEF Charge, Charges

\* The payments of a record are finite, and so is what minted before one.
LEMMA FiniteRecord ==
  ASSUME NEW ps \in Seq(Attempt), NEW n \in 1..Len(ps)
  PROVE  /\ IsFiniteSet(DOMAIN ps) /\ DOMAIN ps = 1..Len(ps) /\ Len(ps) \in Nat
         /\ IsFiniteSet({m \in 1..n - 1 : ps[m].status = "minted"})
         /\ {m \in 1..n - 1 : ps[m].status = "minted"} \subseteq 1..Len(ps)
         /\ n \notin {m \in 1..n - 1 : ps[m].status = "minted"}
<1>1. Len(ps) \in Nat /\ DOMAIN ps = 1..Len(ps)  OBVIOUS
<1>2. IsFiniteSet(1..Len(ps))  BY <1>1, FS_Interval
<1>3. {m \in 1..n - 1 : ps[m].status = "minted"} \subseteq 1..Len(ps)  BY <1>1
<1>4. IsFiniteSet({m \in 1..n - 1 : ps[m].status = "minted"})  BY <1>2, <1>3, FS_Subset
<1> QED  BY <1>1, <1>2, <1>3, <1>4

\* What was affordable stays so while lots and earlier verdicts stand.
LEMMA AffordsSame ==
  ASSUME NEW ps \in Seq(Attempt), NEW bs \in Seq(Attempt), NEW n \in 1..Len(ps), Len(bs) >= Len(ps),
         \A m \in 1..n : ps[m].lot = bs[m].lot, \A m \in 1..n - 1 : ps[m].status = bs[m].status,
         Affords(ps, n)
  PROVE  Affords(bs, n)
<1> DEFINE A == {m \in 1..n - 1 : ps[m].status = "minted"}
<1>1. A = {m \in 1..n - 1 : bs[m].status = "minted"}  OBVIOUS
<1>2. IsFiniteSet(A) /\ A \subseteq 1..Len(ps) /\ A \subseteq 1..n - 1  BY FiniteRecord
<1>3. Len(ps) \in Nat /\ Len(bs) \in Nat /\ DOMAIN ps = 1..Len(ps) /\ DOMAIN bs = 1..Len(bs)
  OBVIOUS
<1>4. A \in SUBSET (DOMAIN ps) /\ A \in SUBSET (DOMAIN bs)  BY <1>2, <1>3
<1>5. Sum(ps, A) + Charge(ps[n]) <= MaxSpend  BY DEF Affords
<1> HIDE DEF A
<1>6. \A m \in A : Charges(ps)[m] = Charges(bs)[m]
  <2> TAKE m \in A
  <2>1. m \in 1..n /\ m \in DOMAIN ps /\ m \in DOMAIN bs  BY <1>2, <1>3, <1>4
  <2>2. ps[m].lot = bs[m].lot  BY <2>1
  <2> QED  BY <2>1, <2>2 DEF Charges, Charge
<1>7. Total(Charges(ps), A) = Total(Charges(bs), A)  BY <1>2, <1>6, TotalSame
<1>8. Sum(ps, A) = Sum(bs, A)  BY <1>2, <1>4, <1>7, SumIs
<1>9. n \in 1..n  BY <1>3
<1>10. Charge(ps[n]) = Charge(bs[n])  BY <1>9 DEF Charge
<1> QED  BY <1>1, <1>5, <1>8, <1>10 DEF Affords

\* And it bounds what may cost: the payment and any that minted before.
LEMMA AffordsBounds ==
  ASSUME NEW ps \in Seq(Attempt), Priced(ps), NEW n \in 1..Len(ps), Affords(ps, n),
         NEW S, S \subseteq {m \in 1..n - 1 : ps[m].status = "minted"} \cup {n}
  PROVE  Sum(ps, S) <= MaxSpend
<1> DEFINE A == {m \in 1..n - 1 : ps[m].status = "minted"}
           F == Charges(ps)
<1>1. /\ IsFiniteSet(A) /\ A \subseteq 1..Len(ps) /\ DOMAIN ps = 1..Len(ps) /\ n \notin A
  BY FiniteRecord
<1>2. Sum(ps, A) + Charge(ps[n]) <= MaxSpend  BY DEF Affords
<1>3. S \subseteq A \cup {n}  OBVIOUS
<1> HIDE DEF A
<1>4. IsFiniteSet(A \cup {n}) /\ IsFiniteSet(S)  BY <1>1, <1>3, FS_AddElement, FS_Subset
<1>5. \A m \in A \cup {n} : F[m] \in Nat  BY <1>1, ChargeType
<1>6. F[n] = Charge(ps[n])  BY ChargeType
<1> HIDE DEF F
<1>7. Total(F, A \cup {n}) = Total(F, A) + F[n]  BY <1>1, <1>5, TotalMember
<1>8. Total(F, S) <= Total(F, A \cup {n})  BY <1>3, <1>4, <1>5, TotalMonotone
<1>9. Sum(ps, A) = Total(F, A) /\ Sum(ps, S) = Total(F, S)
  <2>1. A \in SUBSET (DOMAIN ps) /\ S \in SUBSET (DOMAIN ps)  BY <1>1, <1>3
  <2> QED  BY <1>1, <1>4, <2>1, SumIs DEF F
<1>10. Total(F, S) \in Nat /\ Total(F, A) \in Nat /\ F[n] \in Nat
  <2>1. \A m \in S : F[m] \in Nat  BY <1>3, <1>5
  <2>2. \A m \in A : F[m] \in Nat  BY <1>5
  <2> QED  BY <1>1, <1>4, <1>5, <2>1, <2>2, TotalType
<1> QED  BY <1>2, <1>6, <1>7, <1>8, <1>9, <1>10, SpendAssumption


\* Two sums of payments apart, of what minted before the last and the last, stay together within the
\* spend, and a doubted sum only fills what room is left.
LEMMA RecordLoads ==
  ASSUME NEW ps \in Seq(Attempt), Priced(ps),
         \A m \in 1..Len(ps) - 1 : ps[m].status \in {"minted", "lost-race"},
         Len(ps) > 0 => Affords(ps, Len(ps))
  PROVE  SpendLoads(ps)
<1> DEFINE P == {n \in DOMAIN ps : ~ps[n].doubt /\ ps[n].status \in {"minted", "anomaly"}}
           B == {n \in DOMAIN ps : ~ps[n].doubt /\ MayCharge(ps[n])}
           D == {n \in DOMAIN ps : ps[n].doubt}
           F == Charges(ps)
<1>1. Len(ps) \in Nat /\ DOMAIN ps = 1..Len(ps)  OBVIOUS
<1>2. IsFiniteSet(1..Len(ps))
  <2>1. 1 \in Int /\ Len(ps) \in Int  BY <1>1
  <2> QED  BY <2>1, FS_Interval
<1>3. P \subseteq 1..Len(ps) /\ B \subseteq 1..Len(ps) /\ D \subseteq 1..Len(ps)  BY <1>1
<1>4. P \cap B = {}  BY DEF MayCharge
<1>5. ASSUME NEW m \in P \cup B, m # Len(ps) PROVE m \in {k \in 1..Len(ps) - 1 : ps[k].status = "minted"}
  <2>1. m \in 1..Len(ps) - 1  BY <1>1, <1>3, <1>5
  <2>2. ps[m].status \in {"minted", "lost-race"}  BY <2>1
  <2>3. ps[m].status # "lost-race"  BY <1>5 DEF MayCharge
  <2> QED  BY <2>1, <2>2, <2>3
<1>6. Spent(ps) = Sum(ps, P) /\ Bounded(ps) = Sum(ps, B) /\ InDoubt(ps) = Sum(ps, D)
  BY DEF Spent, Bounded, InDoubt
<1>7. \A n \in 1..Len(ps) : F[n] \in Nat  BY ChargeType
<1> HIDE DEF P, B, D, F
<1>8. IsFiniteSet(P) /\ IsFiniteSet(B) /\ IsFiniteSet(D) /\ IsFiniteSet(P \cup B)
  BY <1>2, <1>3, FS_Subset, FS_Union
<1>9. /\ Sum(ps, P) = Total(F, P) /\ Sum(ps, B) = Total(F, B) /\ Sum(ps, D) = Total(F, D)
      /\ Sum(ps, P \cup B) = Total(F, P \cup B)
  <2>1. /\ P \in SUBSET (DOMAIN ps) /\ B \in SUBSET (DOMAIN ps) /\ D \in SUBSET (DOMAIN ps)
        /\ P \cup B \in SUBSET (DOMAIN ps)
    BY <1>1, <1>3
  <2> QED  BY <1>8, <2>1, SumIs DEF F
<1>10. /\ \A n \in P : F[n] \in Nat
       /\ \A n \in B : F[n] \in Nat
       /\ \A n \in D : F[n] \in Nat
       /\ \A n \in P \cup B : F[n] \in Nat
  BY <1>3, <1>7
<1>11. Total(F, P) \in Nat /\ Total(F, B) \in Nat /\ Total(F, D) \in Nat
  BY <1>8, <1>10, TotalType
<1>12. Total(F, P \cup B) = Total(F, P) + Total(F, B)  BY <1>4, <1>8, <1>10, TotalUnion
<1>13. Total(F, P) + Total(F, B) <= MaxSpend
  <2>1. CASE Len(ps) = 0
    <3>1. P = {} /\ B = {}  BY <1>1, <1>3, <2>1
    <3>2. Total(F, {}) = 0  BY <1>8, <3>1, TotalStep
    <3> QED  BY <3>1, <3>2, SpendAssumption
  <2>2. CASE Len(ps) # 0
    <3>1. Len(ps) \in 1..Len(ps) /\ Len(ps) > 0  BY <1>1, <2>2
    <3>2. P \cup B \subseteq {m \in 1..Len(ps) - 1 : ps[m].status = "minted"} \cup {Len(ps)}
      BY <1>5
    <3>3. Sum(ps, P \cup B) <= MaxSpend  BY <3>1, <3>2, AffordsBounds
    <3> QED  BY <1>9, <1>12, <3>3
  <2> QED  BY <2>1, <2>2
<1>14. PICK s \in Nat, b \in Nat, d \in Nat : s = Spent(ps) /\ b = Bounded(ps) /\ d = InDoubt(ps)
  BY <1>6, <1>9, <1>11
<1>15. s + b <= MaxSpend  BY <1>6, <1>9, <1>13, <1>14
<1>16. PICK r \in Int : r = MaxSpend - s - b  BY SpendAssumption
<1>17. Reserved(ps) = b + (IF r < 0 THEN 0 ELSE IF d < r THEN d ELSE r)
  BY <1>14, <1>16 DEF Reserved
<1>18. s <= MaxSpend /\ s + Reserved(ps) <= MaxSpend
  BY <1>15, <1>16, <1>17, SpendAssumption
<1> QED  BY <1>14, <1>18 DEF SpendLoads

\* Every right of the tree leaves a lot, after any step.
LEMMA RoomKeeps == ASSUME IInv, Room, [Next]_vars PROVE Room'
<1>0. /\ Len(blocks) \in Nat /\ DOMAIN blocks = 1..Len(blocks)
      /\ \A v \in 1..Len(blocks) : blocks[v] \in Block
  BY DEF IInv, TypeOK
<1>1. ASSUME NEW n, NEW e, ChainStep(n, e) PROVE Room'
  <2>1. PICK L : L = Len(blocks)  OBVIOUS
  <2>2. /\ DOMAIN blocks' = 1..L /\ L \in 1..L /\ blocks'[L] = e /\ Tip = blocks[L]
        /\ \A v \in 1..L : v # L => blocks'[v] = blocks[v]
    BY <1>1, <2>1, ChainFacts DEF ChainStep, IInv
  <2>3. Tip.minted \in Nat
    <3>1. Tip \in Block  BY <1>0, <2>1, <2>2
    <3> QED  BY <3>1 DEF Block
  <2>4. Tip.right # None => Tip.minted < Lots  BY <1>0, <2>1, <2>2 DEF Room
  <2>5. e.right # None => e.minted < Lots
    <3>1. CASE Keeps(e)  BY <2>4, <3>1 DEF Keeps
    <3>2. CASE Uses(n, e)
      <4>1. Tip.right # None  BY <3>2 DEF Uses, Usable
      <4>2. e.minted \in {Tip.minted, Tip.minted + 1} /\ (e.right # None => e.minted # Lots)
        BY <3>2 DEF Uses
      <4> QED  BY <2>3, <2>4, <4>1, <4>2, SpendAssumption
    <3> QED  BY <1>1, <3>1, <3>2 DEF ChainStep
  <2> QED  BY <1>0, <2>1, <2>2, <2>5 DEF Room
<1>2. CASE NextBlock
  <2>1. PICK p \in 1..Len(blocks), e \in Block :
          /\ e.right = blocks[p].right /\ e.minted = blocks[p].minted
          /\ DOMAIN blocks' = 1..Len(blocks) + 1
          /\ blocks'[Len(blocks) + 1] = e /\ \A v \in 1..Len(blocks) : blocks'[v] = blocks[v]
    BY <1>2, NextFacts DEF IInv
  <2>2. e.right # None => e.minted < Lots  BY <1>0, <2>1 DEF Room
  <2> QED  BY <1>0, <2>1, <2>2 DEF Room
<1>3. CASE blocks' = blocks  BY <1>3 DEF Room
<1>4. CASE Others  BY <1>1, <1>4, OthersShape DEF IInv
<1>5. ASSUME NEW n \in Indices, Pays(n) PROVE Room'  BY <1>1, <1>5, PaysShape DEF IInv
<1>6. ASSUME \/ EndBlock \/ Ends \/ Doubted \/ (\E b \in Attested : Admit(b))
             \/ \E n \in Indices : Include(n) \/ Judge(n) \/ Fate(n)
      PROVE  blocks' = blocks
  BY <1>6 DEF EndBlock, Ends, Doubted, Admit, Include, Judge, Fate, world
<1> QED  BY <1>2, <1>3, <1>4, <1>5, <1>6 DEF Next, vars


\* Every payment was signed for a lot the token has.
LEMMA PricedHolds == ASSUME IInv, Room PROVE Priced(attempts)
<1> SUFFICES ASSUME NEW n \in 1..Len(attempts) PROVE attempts[n].lot \in 1..Lots  BY DEF Priced
<1>1. PICK v \in Attested : v = attempts[n].birth  BY DEF IInv, Born
<1>2. v \in DOMAIN blocks /\ blocks[v] \in Block  BY DEF Attested, IInv, TypeOK
<1>3. blocks[v].minted \in Nat  BY <1>2 DEF Block
<1>4. blocks[v].right # None /\ attempts[n].lot = blocks[v].minted + 1  BY <1>1 DEF IInv, Born
<1>5. blocks[v].minted < Lots  BY <1>2, <1>4 DEF Room
<1> QED  BY <1>3, <1>4, <1>5, SpendAssumption

\* The bound of the protocol is no less than what all payments that minted cost.
LEMMA BoundIs ==
  ASSUME IInv, Room
  PROVE  /\ Sum(attempts, {m \in Indices : attempts[m].status = "minted"}) <= Bound
         /\ Bound \in Nat
         /\ Sum(attempts, {m \in Indices : attempts[m].status = "minted"}) \in Nat
<1> DEFINE C == {m \in Indices : attempts[m].status = "minted"}
           could == {m \in Indices : attempts[m].status \in {"minted", "lost-race"}}
           Q == {Sum(attempts, S) : S \in kSubset(Cardinality(C), could)}
           F == Charges(attempts)
<1>1. attempts \in Seq(Attempt) /\ Len(attempts) \in Nat /\ Indices = 1..Len(attempts)
      /\ DOMAIN attempts = 1..Len(attempts)
  BY DEF IInv, TypeOK, Indices
<1>2. Priced(attempts)  BY PricedHolds
<1>3. IsFiniteSet(Indices)
  <2>1. 1 \in Int /\ Len(attempts) \in Int  BY <1>1
  <2> QED  BY <1>1, <2>1, FS_Interval
<1>4. C \subseteq could /\ could \subseteq Indices  OBVIOUS
<1>5. Bound = Max(Q)  BY DEF Bound, Counted
<1>6. \A n \in Indices : F[n] \in Nat  BY <1>1, <1>2, ChargeType
<1> HIDE DEF C, could, F
<1>7. ASSUME NEW S \in SUBSET could
      PROVE  /\ Sum(attempts, S) = Total(F, S)
             /\ Total(F, S) \in Nat /\ Total(F, S) <= Total(F, Indices)
  <2>1. S \in SUBSET Indices /\ S \in SUBSET (DOMAIN attempts)  BY <1>1, <1>4
  <2>2. IsFiniteSet(S)  BY <1>3, <2>1, FS_Subset
  <2>3. \A n \in S : F[n] \in Nat  BY <1>6, <2>1
  <2>4. Sum(attempts, S) = Total(F, S)  BY <2>1, <2>2, SumIs DEF F
  <2>5. Total(F, S) \in Nat  BY <2>2, <2>3, TotalType
  <2>6. Total(F, S) <= Total(F, Indices)  BY <1>3, <1>6, <2>1, TotalMonotone
  <2> QED  BY <2>4, <2>5, <2>6
<1>8. Total(F, Indices) \in Nat  BY <1>3, <1>6, TotalType
<1>9. \A S \in kSubset(Cardinality(C), could) : S \in SUBSET could  BY DEF kSubset
<1>10. C \in kSubset(Cardinality(C), could)  BY <1>4 DEF kSubset
<1>11. Q \subseteq Nat /\ \A q \in Q : q <= Total(F, Indices)  BY <1>7, <1>9
<1>12. Sum(attempts, C) \in Q  BY <1>10
<1> HIDE DEF Q
<1>13. Max(Q) \in Q /\ \A q \in Q : q <= Max(Q)  BY <1>8, <1>11, <1>12, MaxIs
<1>14. Sum(attempts, C) <= Bound /\ Bound \in Nat /\ Sum(attempts, C) \in Nat
  BY <1>5, <1>11, <1>12, <1>13
<1> QED  BY <1>14 DEF C

\* Lots and earlier statuses stand, and no payment is new.
Steady ==
  /\ Len(attempts') = Len(attempts)
  /\ \A m \in 1..Len(attempts) : attempts'[m].lot = attempts[m].lot
  /\ \A m \in 1..Len(attempts) - 1 : attempts'[m].status = attempts[m].status

LEMMA SteadyKeeps == ASSUME IInv, Afforded, Steady, attempts' \in Seq(Attempt) PROVE Afforded'
<1>1. attempts \in Seq(Attempt) /\ Len(attempts) \in Nat  BY DEF IInv, TypeOK
<1>2. PICK bs \in Seq(Attempt) : bs = attempts'  OBVIOUS
<1>3. ASSUME NEW n \in 1..Len(attempts) PROVE Affords(bs, n)
  <2>1. Affords(attempts, n)  BY DEF Afforded
  <2>2. \A m \in 1..n : attempts[m].lot = bs[m].lot  BY <1>1, <1>2 DEF Steady
  <2>3. \A m \in 1..n - 1 : attempts[m].status = bs[m].status  BY <1>1, <1>2 DEF Steady
  <2>4. Len(bs) >= Len(attempts)  BY <1>1, <1>2 DEF Steady
  <2> QED  BY <1>1, <1>2, <2>1, <2>2, <2>3, <2>4, AffordsSame
<1> QED  BY <1>2, <1>3 DEF Afforded, Steady

\* A payment is admitted when the spend affords it above all that minted.
LEMMA AdmitAffords == ASSUME IInv, Room, Afforded, NEW b \in Attested, Admit(b) PROVE Afforded'
<1> DEFINE N == Len(attempts)
           lot == blocks[b].minted + 1
           a == [birth |-> b, anchor |-> blocks[b].right, lot |-> lot,
                 minted |-> blocks[b].minted, held |-> blocks[b].held, status |-> "sent",
                 at |-> None, doubt |-> FALSE]
           C == {m \in Indices : attempts[m].status = "minted"}
<1>1. attempts \in Seq(Attempt) /\ N \in Nat /\ Indices = 1..N /\ DOMAIN attempts = 1..N
  BY DEF IInv, TypeOK, Indices
<1>2. attempts' = Append(attempts, a)  BY DEF Admit
<1>3. a.lot = lot  OBVIOUS
<1>4. IInv'  BY AdmitKeeps
<1>5. PICK bs \in Seq(Attempt) : bs = attempts'  BY <1>4 DEF IInv, TypeOK
<1> HIDE DEF a
<1>6. Len(bs) = N + 1 /\ bs[N + 1] = a /\ \A m \in 1..N : bs[m] = attempts[m]
  BY <1>1, <1>2, <1>5
<1>7. ASSUME NEW n \in 1..N PROVE Affords(bs, n)
  <2>1. Affords(attempts, n)  BY DEF Afforded
  <2>2. Len(bs) >= Len(attempts)  BY <1>1, <1>6
  <2>3. \A m \in 1..n : attempts[m].lot = bs[m].lot  BY <1>1, <1>6
  <2>4. \A m \in 1..n - 1 : attempts[m].status = bs[m].status  BY <1>1, <1>6
  <2> QED  BY <1>1, <2>1, <2>2, <2>3, <2>4, AffordsSame
<1>8. Affords(bs, N + 1)
  <2>1. {m \in 1..(N + 1) - 1 : bs[m].status = "minted"} = C
    <3>1. (N + 1) - 1 = N  BY <1>1
    <3> QED  BY <1>1, <1>6, <3>1
  <2>2. Sum(bs, C) = Sum(attempts, C)
    <3>1. C \subseteq 1..N /\ C \in SUBSET (DOMAIN attempts) /\ C \in SUBSET (DOMAIN bs)
      BY <1>1, <1>6
    <3>2. IsFiniteSet(1..N)
      <4>1. 1 \in Int /\ N \in Int  BY <1>1
      <4> QED  BY <4>1, FS_Interval
    <3>3. IsFiniteSet(C)  BY <3>1, <3>2, FS_Subset
    <3>4. \A m \in C : Charges(attempts)[m] = Charges(bs)[m]
      <4> HIDE DEF C
      <4> QED  BY <1>6, <3>1 DEF Charges
    <3> HIDE DEF C
    <3>5. Total(Charges(attempts), C) = Total(Charges(bs), C)  BY <3>3, <3>4, TotalSame
    <3> QED  BY <3>1, <3>3, <3>5, SumIs
  <2>3. Sum(attempts, C) <= Bound /\ Bound \in Nat /\ Sum(attempts, C) \in Nat  BY BoundIs
  <2>4. Bound + Fee[lot] + Ticket <= MaxSpend  BY DEF Admit, Affordable
  <2>5. Charge(bs[N + 1]) = Fee[lot] + Ticket  BY <1>3, <1>6 DEF Charge
  <2>6. Fee[lot] \in Nat /\ Ticket \in Nat
    <3>1. b \in DOMAIN blocks /\ blocks[b] \in Block  BY DEF Attested, IInv, TypeOK
    <3>2. blocks[b].minted \in Nat  BY <3>1 DEF Block
    <3>3. blocks[b].right # None  BY DEF Admit
    <3>4. blocks[b].minted < Lots  BY <3>1, <3>3 DEF Room
    <3>5. lot \in 1..Lots  BY <3>2, <3>4, SpendAssumption
    <3> QED  BY <3>5, SpendAssumption
  <2> HIDE DEF C, lot
  <2>7. Sum(attempts, C) + Charge(bs[N + 1]) <= MaxSpend
    <3>1. PICK s \in Nat, u \in Nat, f \in Nat, t \in Nat :
            s = Sum(attempts, C) /\ u = Bound /\ f = Fee[lot] /\ t = Ticket
      BY <2>3, <2>6
    <3>2. MaxSpend \in Nat  BY SpendAssumption
    <3>3. s <= u /\ u + f + t <= MaxSpend  BY <2>3, <2>4, <3>1
    <3>4. s + (f + t) <= MaxSpend  BY <3>2, <3>3
    <3> QED  BY <2>5, <3>1, <3>4
  <2> QED  BY <2>1, <2>2, <2>7 DEF Affords
<1>9. \A n \in 1..Len(bs) : Affords(bs, n)
  <2>1. \A n \in 1..Len(bs) : n \in 1..N \/ n = N + 1  BY <1>1, <1>6
  <2> QED  BY <1>7, <1>8, <2>1
<1> QED  BY <1>5, <1>9 DEF Afforded


\* Every other step of the session leaves lots and earlier statuses.
LEMMA SessionSteady ==
  ASSUME IInv, NEW n \in Indices, Include(n) \/ Judge(n) \/ Fate(n) PROVE Steady
<1>0. n = Len(attempts)  BY DEF Include, Judge, Fate, Follows
<1>1. /\ attempts \in Seq(Attempt) /\ Len(attempts) \in Nat /\ n = Len(attempts)
      /\ n \in 1..Len(attempts) /\ DOMAIN attempts = 1..Len(attempts)
  BY <1>0 DEF IInv, TypeOK, Indices
<1>2. ASSUME NEW a \in Attempt, a.lot = attempts[n].lot, attempts' = [attempts EXCEPT ![n] = a]
      PROVE  Steady
  BY <1>1, <1>2 DEF Steady
<1>3. attempts[n] \in Attempt  BY <1>1
<1>4. ASSUME NEW s \in {"included", "dead", "expired", "replaced"} \cup Verdict
      PROVE  /\ [attempts[n] EXCEPT !.status = s] \in Attempt
             /\ [attempts[n] EXCEPT !.status = s].lot = attempts[n].lot
  BY <1>3 DEF Attempt
<1>5. CASE Include(n)
  <2>1. PICK b \in Attested, i \in 1..MaxEvents :
          attempts' = [attempts EXCEPT ![n].status = "included", ![n].at = Place(b, i)]
    BY <1>5 DEF Include
  <2> DEFINE a1 == [attempts[n] EXCEPT !.status = "included"]
             a == [a1 EXCEPT !.at = Place(b, i)]
  <2>2. Place(b, i) \in RightType
    <3>1. b \in Nat  BY DEF Attested, IInv, TypeOK
    <3>2. i \in Nat  BY SpendAssumption
    <3> QED  BY <3>1, <3>2 DEF Place, PlaceType, RightType
  <2>3. a1 \in Attempt /\ a1.lot = attempts[n].lot  BY <1>4
  <2>4. attempts' = [attempts EXCEPT ![n] = a]  BY <1>1, <2>1
  <2> HIDE DEF a1
  <2>5. a \in Attempt /\ a.lot = attempts[n].lot  BY <2>2, <2>3 DEF Attempt
  <2> HIDE DEF a
  <2> QED  BY <1>2, <2>4, <2>5
<1>6. CASE Judge(n)
  <2>1. PICK o \in Verdict \cup {"unverified"} :
          attempts' = IF o = "unverified" THEN attempts ELSE [attempts EXCEPT ![n].status = o]
    BY <1>6 DEF Judge
  <2>2. CASE o = "unverified"  BY <2>1, <2>2 DEF Steady
  <2>3. CASE o # "unverified"
    <3>1. o \in Verdict /\ attempts' = [attempts EXCEPT ![n] = [attempts[n] EXCEPT !.status = o]]
      BY <1>1, <2>1, <2>3
    <3>2. /\ [attempts[n] EXCEPT !.status = o] \in Attempt
          /\ [attempts[n] EXCEPT !.status = o].lot = attempts[n].lot
      BY <1>4, <3>1
    <3> QED  BY <1>2, <3>1, <3>2
  <2> QED  BY <2>2, <2>3
<1>7. CASE Fate(n)
  <2>1. PICK s \in {"dead", "expired", "replaced"} : attempts' = [attempts EXCEPT ![n].status = s]
    BY <1>7 DEF Fate
  <2>2. attempts' = [attempts EXCEPT ![n] = [attempts[n] EXCEPT !.status = s]]  BY <1>1, <2>1
  <2>3. /\ [attempts[n] EXCEPT !.status = s] \in Attempt
        /\ [attempts[n] EXCEPT !.status = s].lot = attempts[n].lot
    BY <1>4
  <2> QED  BY <1>2, <2>2, <2>3
<1> QED  BY <1>5, <1>6, <1>7

\* A doubt changes neither.
LEMMA DoubtSteady == ASSUME IInv, Doubted PROVE Steady
<1>1. PICK S : attempts' = Doubt(S)  BY DEF Doubted
<1>2. /\ Len(attempts) \in Nat /\ DOMAIN attempts = 1..Len(attempts)
      /\ \A m \in 1..Len(attempts) : attempts[m] \in Attempt
  BY DEF IInv, TypeOK
<1>3. attempts' \in Seq(Attempt)  BY DoubtedKeeps DEF IInv, TypeOK
<1>4. DOMAIN attempts' = 1..Len(attempts)  BY <1>1, <1>2 DEF Doubt, Indices
<1>5. Len(attempts') = Len(attempts)  BY <1>2, <1>3, <1>4
<1>6. ASSUME NEW m \in 1..Len(attempts)
      PROVE  attempts'[m].lot = attempts[m].lot /\ attempts'[m].status = attempts[m].status
  <2>1. attempts'[m] = [attempts[m] EXCEPT !.doubt = TRUE] \/ attempts'[m] = attempts[m]
    BY <1>1, <1>2 DEF Doubt, Indices
  <2>2. /\ [attempts[m] EXCEPT !.doubt = TRUE].lot = attempts[m].lot
        /\ [attempts[m] EXCEPT !.doubt = TRUE].status = attempts[m].status
    BY <1>2 DEF Attempt
  <2> QED  BY <2>1, <2>2
<1> QED  BY <1>2, <1>5, <1>6 DEF Steady

\* Each payment stays affordable.
LEMMA AffordedKeeps == ASSUME IInv, IInv', Room, Afforded, [Next]_vars PROVE Afforded'
<1>1. attempts' \in Seq(Attempt)  BY DEF IInv, TypeOK
<1>2. ASSUME NEW b \in Attested, Admit(b) PROVE Afforded'  BY <1>2, AdmitAffords
<1>3. ASSUME NEW n \in Indices, Include(n) \/ Judge(n) \/ Fate(n) PROVE Afforded'
  BY <1>1, <1>3, SessionSteady, SteadyKeeps
<1>4. CASE Doubted  BY <1>1, <1>4, DoubtSteady, SteadyKeeps
<1>5. CASE attempts' = attempts  BY <1>5 DEF Afforded
<1>6. ASSUME NEW n \in Indices, Pays(n) PROVE attempts' = attempts
  BY <1>6 DEF Pays, Transaction
<1>7. NextBlock \/ EndBlock \/ Others \/ Ends => attempts' = attempts
  BY DEF NextBlock, EndBlock, Others, Transaction, Ends
<1> QED  BY <1>2, <1>3, <1>4, <1>5, <1>6, <1>7 DEF Next, vars

\* The invariant, the lots left and the affordable payments hold of every reachable state.
LEMMA SpendInvariant == Spec => []SpendInv
<1>1. Init => Room /\ Afforded
  <2> SUFFICES ASSUME Init PROVE Room /\ Afforded  OBVIOUS
  <2>1. PICK m \in Minted :
          blocks = <<[parent |-> 0, line |-> {1}, height |-> 1, runs |-> <<>>,
                      right |-> Place(0, 1), minted |-> m, held |-> 0, nonce |-> 0, won |-> {}]>>
    BY DEF Init
  <2>2. DOMAIN blocks = {1} /\ blocks[1].minted = m  BY <2>1
  <2>3. m < Lots  BY SpendAssumption
  <2>4. attempts = <<>>  BY DEF Init
  <2> QED  BY <2>2, <2>3, <2>4 DEF Room, Afforded
<1>2. IInv /\ IInv' /\ Room /\ Afforded /\ [Next]_vars => Room' /\ Afforded'
  BY RoomKeeps, AffordedKeeps
<1> QED  BY <1>1, <1>2, Invariant, PTL DEF Spec, SpendInv

\* Whatever the node says and whichever fork wins, what the session's payments cost there is within the
\* approved spend: the last that won was affordable above all that could have minted before it.
LEMMA SpendFollows == SpendInv => SpendHolds
<1> SUFFICES ASSUME SpendInv, NEW b \in DOMAIN blocks PROVE Sum(attempts, blocks[b].won) <= MaxSpend
  BY DEF SpendHolds
<1>1. IInv /\ Priced(attempts) /\ attempts \in Seq(Attempt)
  BY PricedHolds DEF SpendInv, IInv, TypeOK
<1>2. CASE blocks[b].won = {}
  <2>1. {} \in SUBSET (DOMAIN attempts) /\ IsFiniteSet({})  BY FS_EmptySet
  <2>2. Sum(attempts, {}) = 0  BY <2>1, SumIs, TotalStep
  <2> QED  BY <1>2, <2>2, SpendAssumption
<1>3. CASE blocks[b].won # {}
  <2>1. PICK k \in 1..Len(attempts) : blocks[b].won \subseteq MintedBefore(k) \cup {k}
    BY <1>1, <1>3, WonBefore
  <2>2. Affords(attempts, k)  BY DEF SpendInv, Afforded
  <2> QED  BY <1>1, <2>1, <2>2, AffordsBounds DEF MintedBefore
<1> QED  BY <1>2, <1>3

\* Whatever the node says and whichever fork wins, the session's payments cost no more than approved.
THEOREM SpendIsCapped == Spec => []SpendHolds
BY SpendInvariant, SpendFollows, PTL

\* The two caps together: no fork mints more lots, or costs more, than the user approved.
THEOREM CapsAreHeld == Spec => []CapsHold
<1>1. LotsHold /\ SpendHolds => CapsHold  BY DEF CapsHold
<1> QED  BY <1>1, LotsAreCapped, SpendIsCapped, PTL

\* The accounts of the record load, with its doubts and without them.
LEMMA LoadsFollow == SpendInv => SpendStaysLoadable
<1> SUFFICES ASSUME SpendInv
             PROVE  /\ SpendLoads(attempts)
                    /\ SpendLoads([n \in Indices |-> [attempts[n] EXCEPT !.doubt = FALSE]])
  BY DEF SpendStaysLoadable
<1>1. /\ Priced(attempts) /\ attempts \in Seq(Attempt) /\ Len(attempts) \in Nat
      /\ Indices = 1..Len(attempts) /\ \A m \in 1..Len(attempts) : attempts[m] \in Attempt
  BY PricedHolds DEF SpendInv, IInv, TypeOK, Indices
<1>2. \A m \in 1..Len(attempts) - 1 : attempts[m].status \in {"minted", "lost-race"}
  BY <1>1 DEF SpendInv, IInv, Placed
<1>3. Len(attempts) > 0 => Affords(attempts, Len(attempts))  BY <1>1 DEF SpendInv, Afforded
<1>4. SpendLoads(attempts)  BY <1>1, <1>2, <1>3, RecordLoads
<1>5. PICK bs : bs = [n \in Indices |-> [attempts[n] EXCEPT !.doubt = FALSE]]  OBVIOUS
<1>6. ASSUME NEW m \in 1..Len(attempts)
      PROVE  bs[m] \in Attempt /\ bs[m].lot = attempts[m].lot /\ bs[m].status = attempts[m].status
  <2>1. bs[m] = [attempts[m] EXCEPT !.doubt = FALSE]  BY <1>1, <1>5
  <2>2. attempts[m] \in Attempt  BY <1>1
  <2> QED  BY <2>1, <2>2 DEF Attempt
<1>7. bs \in Seq(Attempt) /\ Len(bs) = Len(attempts)
  <2>1. bs = [n \in 1..Len(attempts) |-> bs[n]]  BY <1>1, <1>5
  <2>2. bs \in [1..Len(attempts) -> Attempt]  BY <1>6, <2>1
  <2> QED  BY <1>1, <2>2
<1>8. Priced(bs)  BY <1>1, <1>6, <1>7 DEF Priced
<1>9. \A m \in 1..Len(bs) - 1 : bs[m].status \in {"minted", "lost-race"}
  BY <1>1, <1>2, <1>6, <1>7
<1>10. Len(bs) > 0 => Affords(bs, Len(bs))
  <2> SUFFICES ASSUME Len(bs) > 0 PROVE Affords(bs, Len(bs))  OBVIOUS
  <2>1. PICK n \in 1..Len(attempts) : n = Len(attempts)  BY <1>1, <1>7
  <2>2. Affords(attempts, n)  BY <1>3, <1>7, <2>1
  <2>3. Len(bs) >= Len(attempts)  BY <1>1, <1>7
  <2>4. \A m \in 1..n : attempts[m].lot = bs[m].lot  BY <1>6, <2>1
  <2>5. \A m \in 1..n - 1 : attempts[m].status = bs[m].status  BY <1>1, <1>6, <2>1
  <2> QED  BY <1>1, <1>7, <2>1, <2>2, <2>3, <2>4, <2>5, AffordsSame
<1>11. SpendLoads(bs)  BY <1>7, <1>8, <1>9, <1>10, RecordLoads
<1> QED  BY <1>4, <1>5, <1>11

\* No doubt, given or taken back, makes the load check archive the record.
THEOREM SpendLoadsHolds == Spec => []SpendStaysLoadable
BY SpendInvariant, LoadsFollow, PTL

=============================================================================
