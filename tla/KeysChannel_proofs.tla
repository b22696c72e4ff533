-------------------------- MODULE KeysChannel_proofs --------------------------
(* OutcomesAreTrue and ShownSessionRuns for any requests, windows, documents and crashes.

   For the first, a request is at one place at a time (Places): with the page, on its way to the popup,
   behind the build check, or with the wallet.  Whatever says that it is not submitted is said when it
   is at none of them and can come to none (Dead).  The steps then answer, or carry out, one-shot
   requests.

   For the second, the documents speak in turn (Stamped, InTurn): a document announces itself after the
   last word of the one before it, so the page never takes a word of one document for another's (Heard),
   and the last word about sessions from the open document is so (Told). *)
EXTENDS KeysChannel, Integers, WellFoundedInduction, TLAPS

Answers == {"ok", "not-submitted", "unknown"}
Stages == {"none", "review", "done", "told", "gone"}
ToMsgs ==
  [type : {"request", "cancel"}, r : Requests, doc : Nat] \cup
  [type : {"hello", "stop"}, r : {None}, doc : Nat]
FromMsgs ==
  [from : Nat, type : {"reply"}, doc : Nat, r : Requests, answer : Answers] \cup
  [from : Nat, type : {"ready", "leave", "reset", "event"}, doc : Nat, r : {None}, answer : {""}]

TypeOK ==
  /\ req \in [Requests -> {"new", "queued", "forwarded"} \cup Answers]
  /\ queue \in Seq(Requests)
  /\ popup \in Nat /\ ready \in BOOLEAN /\ known \in Nat /\ session \in Nat /\ announced \in Nat
  /\ win \in Nat /\ doc \in Nat /\ port \in BOOLEAN /\ gated \in SUBSET Requests
  /\ at \in [Requests -> [stage : Stages, doc : Nat]] /\ running \in Nat
  /\ toPopup \in Seq(ToMsgs) /\ toDapp \in Seq(FromMsgs)
  /\ count \in [wins : Nat, docs : Nat, leaves : Nat, resets : Nat]

\* A message to the popup carries request r.
Posts(m, r) == m.type = "request" /\ m.r = r
Posted(r) == \E m \in ToSet(toPopup) : Posts(m, r)

\* The wallet was not handed the request and will not be, or it dropped it.
Dead(r) == ~Posted(r) /\ r \notin gated /\ at[r].stage \in {"none", "gone"}

\* What an answer says is so.
Warrants(r, a) == (a = "not-submitted" => Dead(r)) /\ (a = "ok" => r \in Carried)

\* The queue holds what was not forwarded, once.
Queued ==
  /\ \A i \in DOMAIN queue : req[queue[i]] = "queued"
  /\ \A i, j \in DOMAIN queue : queue[i] = queue[j] => i = j

\* A request is with the page, on its way, behind the build check or with the wallet.
Places ==
  \A r \in Requests :
    /\ req[r] \in {"new", "queued"} => ~Posted(r) /\ r \notin gated /\ at[r].stage = "none"
    /\ r \in gated => ~Posted(r) /\ at[r].stage = "none"
    /\ Posted(r) => at[r].stage = "none"

\* Each is posted once.
OnceEach ==
  \A i, j \in DOMAIN toPopup :
    toPopup[i].type = "request" /\ toPopup[j].type = "request" /\ toPopup[i].r = toPopup[j].r => i = j

\* What the page was told, and what is on its way to it, is so; a reply is to what was forwarded.
Honest ==
  /\ \A r \in Requests : Warrants(r, req[r])
  /\ \A m \in ToSet(toDapp) :
       m.type = "reply" => req[m.r] \notin {"new", "queued"} /\ Warrants(m.r, m.answer)

ChannelInv == TypeOK /\ Queued /\ Places /\ OnceEach /\ Honest

\* How the answer to a request may move while the wallet carries out nothing new.
Moves ==
  /\ Carried' = Carried
  /\ \A r \in Requests :
       \/ req'[r] = req[r]
       \/ req[r] \in {"queued", "forwarded"} /\ req'[r] \in {"queued", "forwarded"}
       \/ req[r] \in {"new", "queued", "forwarded"} /\ req'[r] \in Answers
-----------------------------------------------------------------------------
(* Sequences *)

\* The elements and places that remain when the first is taken.
LEMMA TailFacts ==
  ASSUME NEW S, NEW s \in Seq(S), s # <<>>
  PROVE  /\ Tail(s) \in Seq(S) /\ Head(s) \in S /\ Head(s) = s[1] /\ 1 \in DOMAIN s
         /\ DOMAIN Tail(s) = 1..(Len(s) - 1) /\ DOMAIN s = 1..Len(s) /\ Len(s) \in Nat
         /\ \A i \in DOMAIN Tail(s) : i + 1 \in DOMAIN s /\ Tail(s)[i] = s[i + 1]
         /\ \A i \in DOMAIN s : i # 1 => i - 1 \in DOMAIN Tail(s) /\ Tail(s)[i - 1] = s[i]
OBVIOUS

\* The elements that remain are some of those there were.
LEMMA TailSet ==
  ASSUME NEW S, NEW s \in Seq(S), s # <<>>
  PROVE  ToSet(Tail(s)) \subseteq ToSet(s) /\ Head(s) \in ToSet(s)
BY TailFacts DEF ToSet

\* What Append adds.
LEMMA AppendFacts ==
  ASSUME NEW S, NEW s \in Seq(S), NEW e \in S
  PROVE  /\ Append(s, e) \in Seq(S) /\ Len(s) \in Nat
         /\ DOMAIN s = 1..Len(s) /\ DOMAIN Append(s, e) = 1..(Len(s) + 1)
         /\ \A i \in DOMAIN s : Append(s, e)[i] = s[i]
         /\ Append(s, e)[Len(s) + 1] = e
OBVIOUS

\* The elements after Append.
LEMMA AppendSet ==
  ASSUME NEW S, NEW s \in Seq(S), NEW e \in S
  PROVE  ToSet(Append(s, e)) = ToSet(s) \cup {e}
BY AppendFacts DEF ToSet

\* The places of a concatenation.
LEMMA ConcatFacts ==
  ASSUME NEW S, NEW s \in Seq(S), NEW t \in Seq(S)
  PROVE  /\ s \o t \in Seq(S) /\ Len(s) \in Nat /\ Len(t) \in Nat
         /\ DOMAIN s = 1..Len(s) /\ DOMAIN t = 1..Len(t) /\ DOMAIN (s \o t) = 1..(Len(s) + Len(t))
         /\ \A i \in 1..(Len(s) + Len(t)) : (s \o t)[i] = IF i <= Len(s) THEN s[i] ELSE t[i - Len(s)]
OBVIOUS

\* A set of naturals that is not empty has a least element, which Min names.
LEMMA MinExists ==
  ASSUME NEW S \in SUBSET Nat, S # {}
  PROVE  Min(S) \in S
<1>1. PICK m \in S : \A n \in S : ~(<<n, m>> \in OpToRel(<, Nat))
  BY NatLessThanWellFounded, WFMin
<1>2. ASSUME NEW n \in S, ~(m <= n) PROVE FALSE
  <2>1. m \in Nat /\ n \in Nat /\ n < m
    BY <1>2
  <2>2. <<n, m>> \in OpToRel(<, Nat)
    BY <2>1 DEF OpToRel
  <2> QED BY <1>1, <2>2
<1> QED BY <1>2 DEF Min

\* What RemoveFirst leaves of a sequence that holds each element once (settle, sdk.ts).
LEMMA RemoveFacts ==
  ASSUME NEW S, NEW s \in Seq(S), NEW e,
         \A i, j \in DOMAIN s : s[i] = s[j] => i = j
  PROVE  LET t == RemoveFirst(s, e) IN
         /\ t \in Seq(S)
         /\ \A i \in DOMAIN t : t[i] # e /\ \E j \in DOMAIN s : t[i] = s[j]
         /\ \A i, j \in DOMAIN t : t[i] = t[j] => i = j
<1> DEFINE t == RemoveFirst(s, e)
           I == {i \in 1..Len(s) : s[i] = e}
<1>1. CASE ~\E i \in 1..Len(s) : s[i] = e
  <2>1. t = s
    BY <1>1 DEF RemoveFirst
  <2> QED BY <1>1, <2>1
<1>2. CASE \E i \in 1..Len(s) : s[i] = e
  <2> DEFINE k == Min(I)
  <2>1. k \in I
    <3>1. I # {} /\ I \in SUBSET Nat
      BY <1>2
    <3> HIDE DEF I
    <3> QED BY <3>1, MinExists
  <2>2. t = SubSeq(s, 1, k - 1) \o SubSeq(s, k + 1, Len(s))
    BY <1>2 DEF RemoveFirst, RemoveAt, SelectInSeq
  <2> HIDE DEF k, t
  <2>3. k \in 1..Len(s) /\ s[k] = e /\ Len(s) \in Nat
    BY <2>1
  <2> DEFINE a == SubSeq(s, 1, k - 1)
             b == SubSeq(s, k + 1, Len(s))
  <2>4. /\ a \in Seq(S) /\ Len(a) = k - 1 /\ \A i \in 1..(k - 1) : a[i] = s[i]
        /\ b \in Seq(S) /\ Len(b) = Len(s) - k /\ \A i \in 1..(Len(s) - k) : b[i] = s[k + i]
    BY <2>3
  <2>10. t = a \o b
    BY <2>2
  <2> HIDE DEF a, b
  <2>5. t \in Seq(S) /\ DOMAIN t = 1..(Len(s) - 1)
    BY <2>10, <2>3, <2>4
  <2>6. \A i \in 1..(Len(s) - 1) : t[i] = IF i < k THEN s[i] ELSE s[i + 1]
    <3> SUFFICES ASSUME NEW i \in 1..(Len(s) - 1) PROVE t[i] = IF i < k THEN s[i] ELSE s[i + 1]
      OBVIOUS
    <3>1. CASE i < k
      BY <3>1, <2>10, <2>3, <2>4
    <3>2. CASE ~(i < k)
      <4>1. t[i] = b[i - (k - 1)]
        <5>1. i \in 1..(Len(a) + Len(b)) /\ ~(i <= Len(a)) /\ Len(a) \in Nat /\ Len(b) \in Nat
          BY <3>2, <2>3, <2>4
        <5>2. (a \o b)[i] = b[i - Len(a)]
          BY <5>1, <2>4, ConcatFacts
        <5> QED BY <5>2, <2>10, <2>4
      <4>2. i - (k - 1) \in 1..(Len(s) - k) /\ k + (i - (k - 1)) = i + 1
        BY <3>2, <2>3
      <4> QED BY <3>2, <4>1, <4>2, <2>4
    <3> QED BY <3>1, <3>2
  <2>7. \A i \in DOMAIN t : t[i] # e /\ \E j \in DOMAIN s : t[i] = s[j]
    BY <2>3, <2>5, <2>6
  <2>8. ASSUME NEW i \in DOMAIN t, NEW j \in DOMAIN t, t[i] = t[j] PROVE i = j
    <3>1. /\ i \in 1..(Len(s) - 1) /\ j \in 1..(Len(s) - 1) /\ DOMAIN s = 1..Len(s)
          /\ i \in 1..Len(s) /\ i + 1 \in 1..Len(s) /\ j \in 1..Len(s) /\ j + 1 \in 1..Len(s)
      BY <2>3, <2>5
    <3>2. t[i] = (IF i < k THEN s[i] ELSE s[i + 1]) /\ t[j] = (IF j < k THEN s[j] ELSE s[j + 1])
      BY <2>6, <3>1
    <3>3. CASE i < k /\ j < k
      BY <2>8, <3>1, <3>2, <3>3
    <3>4. CASE i < k /\ ~(j < k)
      <4>1. i = j + 1
        BY <2>8, <3>1, <3>2, <3>4
      <4> QED BY <2>3, <3>1, <3>4, <4>1
    <3>5. CASE ~(i < k) /\ j < k
      <4>1. i + 1 = j
        BY <2>8, <3>1, <3>2, <3>5
      <4> QED BY <2>3, <3>1, <3>5, <4>1
    <3>6. CASE ~(i < k) /\ ~(j < k)
      <4>1. i + 1 = j + 1
        BY <2>8, <3>1, <3>2, <3>6
      <4> QED BY <3>1, <4>1
    <3> QED BY <3>3, <3>4, <3>5, <3>6
  <2> QED BY <2>5, <2>7, <2>8 DEF t
<1> QED BY <1>1, <1>2
-----------------------------------------------------------------------------
(* What the steps have in common *)

ReqStates == {"new", "queued", "forwarded"} \cup Answers

\* What the settling of outstanding requests says (failAll, settle).
LEMMA SettledFacts ==
  ASSUME TypeOK, NEW told \in SUBSET Outstanding
  PROVE  /\ Settled(told) \in [Requests -> ReqStates]
         /\ \A r \in Requests :
              \/ r \notin told /\ Settled(told)[r] = req[r]
              \/ r \in told /\ req[r] = "queued" /\ Settled(told)[r] = "not-submitted"
              \/ r \in told /\ req[r] = "forwarded" /\ Settled(told)[r] = "unknown"
BY DEF TypeOK, Settled, Lost, Outstanding, ReqStates, Answers

\* The messages the popup sends and receives are of their types.
LEMMA MessageTypes ==
  ASSUME TypeOK
  PROVE  /\ \A d \in Nat : \A type \in {"ready", "leave", "reset", "event"} :
              FromPopup(type, d, None, "") \in FromMsgs
         /\ \A d \in Nat, r \in Requests, a \in Answers : FromPopup("reply", d, r, a) \in FromMsgs
         /\ \A d \in Nat, r \in Requests, type \in {"request", "cancel"} : ToPopup(type, r, d) \in ToMsgs
         /\ \A d \in Nat, type \in {"hello", "stop"} : ToPopup(type, None, d) \in ToMsgs
BY DEF TypeOK, FromPopup, ToPopup, FromMsgs, ToMsgs

\* The fields of a message.
LEMMA MessageFields ==
  /\ \A m \in FromMsgs :
       /\ m.from \in Nat /\ m.doc \in Nat /\ m.type \in {"reply", "ready", "leave", "reset", "event"}
       /\ m.type = "reply" => m.r \in Requests /\ m.answer \in Answers
  /\ \A m \in ToMsgs :
       /\ m.doc \in Nat /\ m.type \in {"request", "cancel", "hello", "stop"}
       /\ m.type \in {"request", "cancel"} => m.r \in Requests
BY DEF FromMsgs, ToMsgs

\* What was said stays so while no request that is over comes back to life.
LEMMA HonestKeeps ==
  ASSUME TypeOK, Honest, Carried \subseteq Carried',
         \A r \in Requests : req[r] \notin {"new", "queued"} =>
           req'[r] \notin {"new", "queued"} /\ (Dead(r) => Dead(r)'),
         \A r \in Requests :
           \/ req'[r] = req[r]
           \/ (req'[r] = "not-submitted" => Dead(r)') /\ (req'[r] = "ok" => r \in Carried'),
         \A m \in ToSet(toDapp') :
           \/ m \in ToSet(toDapp)
           \/ m.type = "reply" =>
                /\ req'[m.r] \notin {"new", "queued"}
                /\ (m.answer = "not-submitted" => Dead(m.r)') /\ (m.answer = "ok" => m.r \in Carried')
  PROVE  Honest'
<1>1. ASSUME NEW r \in Requests PROVE Warrants(r, req[r])'
  <2>1. CASE req'[r] = req[r]
    BY <2>1 DEF Honest, Warrants
  <2>2. CASE req'[r] # req[r]
    BY <2>2 DEF Warrants
  <2> QED BY <2>1, <2>2
<1>2. ASSUME NEW m \in ToSet(toDapp'), m.type = "reply"
      PROVE  req'[m.r] \notin {"new", "queued"} /\ Warrants(m.r, m.answer)'
  <2>1. CASE m \in ToSet(toDapp)
    <3>1. m \in FromMsgs
      BY <2>1 DEF ToSet, TypeOK
    <3>2. m.r \in Requests /\ req[m.r] \notin {"new", "queued"} /\ Warrants(m.r, m.answer)
      BY <1>2, <2>1, <3>1, MessageFields DEF Honest
    <3> QED BY <3>2 DEF Warrants
  <2>2. CASE m \notin ToSet(toDapp)
    BY <1>2, <2>2 DEF Warrants
  <2> QED BY <2>1, <2>2
<1> QED BY <1>1, <1>2 DEF Honest

\* What flush() posts (sdk.ts): each queued request once, and it is forwarded then.
LEMMA FlushFacts ==
  ASSUME win \in Nat, NEW rs \in [Requests -> ReqStates], NEW q \in Seq(Requests), NEW posts \in Seq(ToMsgs), NEW up,
         \A i \in DOMAIN q : rs[q[i]] = "queued",
         \A i, j \in DOMAIN q : q[i] = q[j] => i = j,
         \A i, j \in DOMAIN posts :
           posts[i].type = "request" /\ posts[j].type = "request" /\ posts[i].r = posts[j].r => i = j,
         \A m \in ToSet(posts) : m.type = "request" => rs[m.r] \notin {"new", "queued"},
         Flushes(rs, q, posts, up)
  PROVE  /\ req' \in [Requests -> ReqStates] /\ queue' \in Seq(Requests) /\ toPopup' \in Seq(ToMsgs)
         /\ Queued' /\ OnceEach'
         /\ \A r \in Requests :
              \/ req'[r] = rs[r]
              \/ rs[r] = "queued" /\ req'[r] = "forwarded"
         /\ \A r \in Requests : Posted(r)' =>
              \/ \E m \in ToSet(posts) : Posts(m, r)
              \/ rs[r] = "queued" /\ req'[r] = "forwarded"
<1>1. CASE up /\ win' # 0 /\ popup' = win'
  <2> DEFINE new == [i \in 1..Len(q) |-> ToPopup("request", q[i], 0)]
  <2>1. /\ req' = [r \in Requests |-> IF r \in ToSet(q) THEN "forwarded" ELSE rs[r]]
        /\ queue' = <<>> /\ toPopup' = posts \o new
    BY <1>1 DEF Flushes
  <2>2. /\ DOMAIN q = 1..Len(q) /\ Len(q) \in Nat /\ \A i \in 1..Len(q) : q[i] \in Requests
    OBVIOUS
  <2>3. /\ new \in Seq(ToMsgs) /\ Len(new) = Len(q) /\ DOMAIN new = 1..Len(q)
        /\ \A i \in 1..Len(q) : new[i].type = "request" /\ new[i].r = q[i]
    <3>1. \A i \in 1..Len(q) : ToPopup("request", q[i], 0) \in ToMsgs
      BY <2>2 DEF ToPopup, ToMsgs
    <3> QED BY <2>2, <3>1 DEF ToPopup
  <2> HIDE DEF new
  <2>4. /\ toPopup' \in Seq(ToMsgs) /\ DOMAIN toPopup' = 1..(Len(posts) + Len(q)) /\ Len(posts) \in Nat
        /\ DOMAIN posts = 1..Len(posts)
        /\ \A i \in 1..(Len(posts) + Len(q)) :
             toPopup'[i] = IF i <= Len(posts) THEN posts[i] ELSE new[i - Len(posts)]
    <3>1. /\ posts \o new \in Seq(ToMsgs) /\ Len(posts) \in Nat /\ DOMAIN posts = 1..Len(posts)
          /\ DOMAIN (posts \o new) = 1..(Len(posts) + Len(new))
          /\ \A i \in 1..(Len(posts) + Len(new)) :
               (posts \o new)[i] = IF i <= Len(posts) THEN posts[i] ELSE new[i - Len(posts)]
      <4>1. new \in Seq(ToMsgs)
        BY <2>3
      <4>2. ASSUME NEW t \in Seq(ToMsgs), t = new
            PROVE  /\ posts \o t \in Seq(ToMsgs) /\ Len(posts) \in Nat /\ DOMAIN posts = 1..Len(posts)
                   /\ DOMAIN (posts \o t) = 1..(Len(posts) + Len(t))
                   /\ \A i \in 1..(Len(posts) + Len(t)) :
                        (posts \o t)[i] = IF i <= Len(posts) THEN posts[i] ELSE t[i - Len(posts)]
        BY ConcatFacts
      <4> QED BY <4>1, <4>2, Zenon
    <3> QED BY <2>1, <2>3, <3>1
  <2>5. \A r \in Requests : \/ r \notin ToSet(q) /\ req'[r] = rs[r]
                            \/ r \in ToSet(q) /\ rs[r] = "queued" /\ req'[r] = "forwarded"
    BY <2>1 DEF ToSet
  <2>6. ASSUME NEW i \in DOMAIN toPopup', toPopup'[i].type = "request"
        PROVE  \/ i <= Len(posts) /\ toPopup'[i] = posts[i] /\ posts[i] \in ToSet(posts)
               \/ /\ ~(i <= Len(posts)) /\ i - Len(posts) \in DOMAIN q
                  /\ toPopup'[i].r = q[i - Len(posts)]
    <3>1. i \in 1..(Len(posts) + Len(q)) /\ Len(posts) \in Nat /\ Len(q) \in Nat
      BY <2>2, <2>4
    <3>2. CASE i <= Len(posts)
      BY <3>1, <3>2, <2>4 DEF ToSet
    <3>3. CASE ~(i <= Len(posts))
      <4>1. i - Len(posts) \in 1..Len(q)
        BY <3>1, <3>3
      <4> QED BY <3>1, <3>3, <4>1, <2>2, <2>3, <2>4
    <3> QED BY <3>2, <3>3
  <2>7. OnceEach'
    <3> SUFFICES ASSUME NEW i \in DOMAIN toPopup', NEW j \in DOMAIN toPopup',
                        toPopup'[i].type = "request", toPopup'[j].type = "request",
                        toPopup'[i].r = toPopup'[j].r
                 PROVE  i = j
      BY DEF OnceEach
    <3>1. i \in Nat /\ j \in Nat /\ Len(posts) \in Nat
      BY <2>2, <2>4
    <3>2. CASE i <= Len(posts) /\ j <= Len(posts)
      BY <3>1, <3>2, <2>4, <2>6
    <3>3. CASE ~(i <= Len(posts)) /\ ~(j <= Len(posts))
      <4>1. i - Len(posts) = j - Len(posts)
        BY <3>3, <2>6
      <4> QED BY <3>1, <4>1
    <3>4. \A k, l \in DOMAIN toPopup' :
            k <= Len(posts) /\ ~(l <= Len(posts)) /\ toPopup'[k].type = "request" /\ toPopup'[l].type = "request"
              => toPopup'[k].r # toPopup'[l].r
      <4> SUFFICES ASSUME NEW k \in DOMAIN toPopup', NEW l \in DOMAIN toPopup',
                          k <= Len(posts), ~(l <= Len(posts)),
                          toPopup'[k].type = "request", toPopup'[l].type = "request"
                   PROVE  toPopup'[k].r # toPopup'[l].r
        OBVIOUS
      <4>1. rs[toPopup'[k].r] # "queued"
        BY <2>6
      <4>2. rs[toPopup'[l].r] = "queued"
        BY <2>6
      <4> QED BY <4>1, <4>2
    <3> QED BY <3>2, <3>3, <3>4
  <2>8. ASSUME NEW r \in Requests, Posted(r)'
        PROVE  (\E m \in ToSet(posts) : Posts(m, r)) \/ (rs[r] = "queued" /\ req'[r] = "forwarded")
    <3>1. PICK i \in DOMAIN toPopup' : toPopup'[i].type = "request" /\ toPopup'[i].r = r
      BY <2>8 DEF Posted, Posts, ToSet
    <3>2. CASE i <= Len(posts)
      BY <3>1, <3>2, <2>6 DEF Posts
    <3>3. CASE ~(i <= Len(posts))
      BY <3>1, <3>3, <2>5, <2>6 DEF ToSet
    <3> QED BY <3>2, <3>3
  <2>9. req' \in [Requests -> ReqStates] /\ queue' \in Seq(Requests) /\ Queued'
    BY <2>1 DEF Queued, ReqStates
  <2> QED BY <2>4, <2>5, <2>7, <2>8, <2>9
<1>2. CASE ~(up /\ win' # 0 /\ popup' = win')
  <2>1. req' = rs /\ queue' = q /\ toPopup' = posts
    BY <1>2 DEF Flushes
  <2>2. Queued' /\ OnceEach'
    BY <2>1 DEF Queued, OnceEach
  <2>3. \A r \in Requests : Posted(r)' => \E m \in ToSet(posts) : Posts(m, r)
    BY <2>1 DEF Posted
  <2> QED BY <2>1, <2>2, <2>3
<1> QED BY <1>1, <1>2


\* How many steps go: requests settle or are answered, and leave the places where they were.
LEMMA Recedes ==
  ASSUME ChannelInv, Queued', OnceEach',
         \A r \in Requests :
           \/ req'[r] = req[r]
           \/ req[r] \in {"new", "queued"} /\ req'[r] = "not-submitted"
           \/ req[r] = "forwarded" /\ req'[r] \in Answers /\ Warrants(r, req'[r]),
         \A m \in ToSet(toPopup') : m \in ToSet(toPopup) \/ m.type # "request",
         gated' \subseteq gated,
         \A r \in Requests :
           \/ at'[r].stage = at[r].stage
           \/ at[r].stage = "review" /\ at'[r].stage = "gone"
           \/ at[r].stage = "done" /\ at'[r].stage = "told",
         \A m \in ToSet(toDapp') :
           \/ m \in ToSet(toDapp)
           \/ m.type = "reply" =>
                /\ m.r \in Requests /\ req[m.r] \notin {"new", "queued"}
                /\ (m.answer = "not-submitted" => Dead(m.r)') /\ (m.answer = "ok" => m.r \in Carried)
  PROVE  Queued' /\ Places' /\ OnceEach' /\ Honest' /\ Moves
<1>1. \A r \in Requests : Posted(r)' => Posted(r)
  BY DEF Posted, Posts
<1>2. \A r \in Requests : Dead(r) => Dead(r)'
  BY <1>1 DEF Dead
<1>3. Carried' = Carried
  BY DEF Carried
<1>4. \A r \in Requests : req'[r] \in {"new", "queued"} => req'[r] = req[r]
  BY DEF Answers
<1>5. Places'
  BY <1>1, <1>4 DEF ChannelInv, Places
<1>6. \A r \in Requests : req[r] \in {"new", "queued"} => Dead(r)
  BY DEF ChannelInv, Places, Dead
<1>7. \A r \in Requests :
        \/ req'[r] = req[r]
        \/ (req'[r] = "not-submitted" => Dead(r)') /\ (req'[r] = "ok" => r \in Carried')
  BY <1>2, <1>3, <1>6 DEF Warrants
<1>8. \A r \in Requests : req[r] \notin {"new", "queued"} => req'[r] \notin {"new", "queued"}
  BY <1>4
<1>9. Honest'
  <2>1. TypeOK /\ Honest /\ Carried \subseteq Carried'
    BY <1>3 DEF ChannelInv
  <2>2. \A m \in ToSet(toDapp') :
          \/ m \in ToSet(toDapp)
          \/ m.type = "reply" =>
               /\ req'[m.r] \notin {"new", "queued"}
               /\ (m.answer = "not-submitted" => Dead(m.r)') /\ (m.answer = "ok" => m.r \in Carried')
    BY <1>3, <1>8
  <2> QED BY <1>2, <1>7, <1>8, <2>1, <2>2, HonestKeeps
<1>10. Moves
  BY <1>3 DEF Moves, Answers
<1> QED BY <1>5, <1>9, <1>10

\* The request goes on to the wallet or its build check (openWallet, connect.ts).
LEMMA Advances ==
  ASSUME ChannelInv, OnceEach', NEW r \in Requests, Posted(r) \/ r \in gated, ~Posted(r)',
         UNCHANGED <<req, queue, toDapp>>, ToSet(toPopup') \subseteq ToSet(toPopup),
         \/ /\ at'[r].stage = "review" /\ \A s \in Requests \ {r} : at'[s] = at[s]
            /\ gated' = gated \ {r}
         \/ UNCHANGED at /\ gated' = gated \cup {r}
  PROVE  Queued' /\ Places' /\ OnceEach' /\ Honest' /\ Moves
<1>1. \A s \in Requests : Posted(s)' => Posted(s)
  BY DEF Posted
<1>2. at[r].stage = "none" /\ ~Dead(r) /\ req[r] \notin {"new", "queued"}
  BY DEF ChannelInv, Places, Dead
<1>3. \A s \in Requests : Dead(s) => Dead(s)'
  BY <1>1, <1>2 DEF Dead
<1>4. Carried' = Carried
  BY <1>2 DEF Carried
<1>5. Places'
  BY <1>1, <1>2 DEF ChannelInv, Places
<1>6. Honest'
  <2>1. TypeOK /\ Honest /\ Carried \subseteq Carried'
    BY <1>4 DEF ChannelInv
  <2> QED BY <1>3, <2>1, HonestKeeps
<1>7. Queued' /\ Moves
  BY <1>4 DEF ChannelInv, Queued, Moves
<1> QED BY <1>5, <1>6, <1>7

\* Messages of another kind than a request leave what is posted as it is.
LEMMA PostsKept ==
  ASSUME ChannelInv, NEW m \in ToMsgs, m.type # "request"
  PROVE  /\ Append(toPopup, m) \in Seq(ToMsgs)
         /\ \A n \in ToSet(Append(toPopup, m)) : n \in ToSet(toPopup) \/ n.type # "request"
         /\ toPopup' = Append(toPopup, m) => OnceEach'
<1>1. toPopup \in Seq(ToMsgs)
  BY DEF ChannelInv, TypeOK
<1>2. ToSet(Append(toPopup, m)) = ToSet(toPopup) \cup {m}
  BY <1>1, AppendSet
<1>3. /\ Append(toPopup, m) \in Seq(ToMsgs) /\ Len(toPopup) \in Nat
      /\ DOMAIN toPopup = 1..Len(toPopup) /\ DOMAIN Append(toPopup, m) = 1..(Len(toPopup) + 1)
      /\ \A i \in DOMAIN toPopup : Append(toPopup, m)[i] = toPopup[i]
      /\ Append(toPopup, m)[Len(toPopup) + 1] = m
  BY <1>1, AppendFacts
<1>4. ASSUME toPopup' = Append(toPopup, m) PROVE OnceEach'
  <2>1. \A i \in DOMAIN toPopup' : toPopup'[i].type = "request" => i \in DOMAIN toPopup /\ toPopup'[i] = toPopup[i]
    BY <1>3, <1>4
  <2> QED BY <2>1 DEF ChannelInv, OnceEach
<1> QED BY <1>2, <1>3, <1>4

\* The page's queue without a request, and empty (settle, failAll).
LEMMA QueueKept ==
  ASSUME ChannelInv
  PROVE  /\ \A r \in Requests :
              /\ Unqueued(r) \in Seq(Requests)
              /\ (\A s \in Requests \ {r} : req'[s] = req[s]) /\ queue' = Unqueued(r) => Queued'
         /\ queue' = <<>> => Queued'
         /\ UNCHANGED <<req, queue>> => Queued'
<1>1. queue \in Seq(Requests) /\ Queued
  BY DEF ChannelInv, TypeOK
<1>2. ASSUME NEW r \in Requests
      PROVE  /\ Unqueued(r) \in Seq(Requests)
             /\ (\A s \in Requests \ {r} : req'[s] = req[s]) /\ queue' = Unqueued(r) => Queued'
  <2>1. /\ Unqueued(r) \in Seq(Requests)
        /\ \A i \in DOMAIN Unqueued(r) : Unqueued(r)[i] # r /\ \E j \in DOMAIN queue : Unqueued(r)[i] = queue[j]
        /\ \A i, j \in DOMAIN Unqueued(r) : Unqueued(r)[i] = Unqueued(r)[j] => i = j
    BY <1>1, RemoveFacts DEF Unqueued, Queued
  <2>2. ASSUME \A s \in Requests \ {r} : req'[s] = req[s], queue' = Unqueued(r) PROVE Queued'
    <3>1. ASSUME NEW i \in DOMAIN queue' PROVE req'[queue'[i]] = "queued"
      <4>1. queue'[i] # r /\ \E j \in DOMAIN queue : queue'[i] = queue[j]
        BY <2>1, <2>2
      <4>2. PICK j \in DOMAIN queue : queue'[i] = queue[j]
        BY <4>1
      <4>3. queue[j] \in Requests /\ req[queue[j]] = "queued"
        BY <1>1 DEF Queued
      <4> QED BY <2>2, <4>1, <4>2, <4>3
    <3> QED BY <2>1, <2>2, <3>1 DEF Queued
  <2> QED BY <2>1, <2>2
<1>3. queue' = <<>> => Queued'
  BY DEF Queued
<1>4. UNCHANGED <<req, queue>> => Queued'
  BY <1>1 DEF Queued
<1> QED BY <1>2, <1>3, <1>4


\* Requests are queued or lost, and the queue is flushed (request, flush).
LEMMA Flushed ==
  ASSUME ChannelInv, NEW rs \in [Requests -> ReqStates], NEW q \in Seq(Requests),
         NEW posts \in Seq(ToMsgs), NEW up, Flushes(rs, q, posts, up),
         \A r \in Requests :
           \/ rs[r] = req[r]
           \/ req[r] = "new" /\ rs[r] = "queued"
           \/ req[r] = "forwarded" /\ rs[r] = "unknown",
         \A i \in DOMAIN q : rs[q[i]] = "queued",
         \A i, j \in DOMAIN q : q[i] = q[j] => i = j,
         \A i, j \in DOMAIN posts :
           posts[i].type = "request" /\ posts[j].type = "request" /\ posts[i].r = posts[j].r => i = j,
         \A m \in ToSet(posts) : m \in ToSet(toPopup) \/ m.type # "request",
         UNCHANGED <<at, gated>>, ToSet(toDapp') \subseteq ToSet(toDapp)
  PROVE  /\ req' \in [Requests -> ReqStates] /\ queue' \in Seq(Requests) /\ toPopup' \in Seq(ToMsgs)
         /\ Queued' /\ Places' /\ OnceEach' /\ Honest' /\ Carried' = Carried
         /\ \A r \in Requests : req'[r] = rs[r] \/ (rs[r] = "queued" /\ req'[r] = "forwarded")
<1>1. \A m \in ToSet(posts) : m.type = "request" => rs[m.r] \notin {"new", "queued"}
  <2> SUFFICES ASSUME NEW m \in ToSet(posts), m.type = "request" PROVE rs[m.r] \notin {"new", "queued"}
    OBVIOUS
  <2>1. m \in ToSet(toPopup)
    OBVIOUS
  <2>2. m \in ToMsgs
    BY <2>1 DEF ChannelInv, TypeOK, ToSet
  <2>3. m.r \in Requests /\ Posted(m.r)
    BY <2>1, <2>2, MessageFields DEF Posted, Posts
  <2>4. req[m.r] \notin {"new", "queued"}
    BY <2>3 DEF ChannelInv, Places
  <2> QED BY <2>3, <2>4
<1>2. win \in Nat
  BY DEF ChannelInv, TypeOK
<1>3. /\ req' \in [Requests -> ReqStates] /\ queue' \in Seq(Requests) /\ toPopup' \in Seq(ToMsgs)
      /\ Queued' /\ OnceEach'
      /\ \A r \in Requests : req'[r] = rs[r] \/ (rs[r] = "queued" /\ req'[r] = "forwarded")
      /\ \A r \in Requests : Posted(r)' =>
           (\E m \in ToSet(posts) : Posts(m, r)) \/ (rs[r] = "queued" /\ req'[r] = "forwarded")
  BY <1>1, <1>2, FlushFacts
<1>4. \A r \in Requests : Posted(r)' => Posted(r) \/ (req[r] \in {"new", "queued"} /\ req'[r] = "forwarded")
  <2> SUFFICES ASSUME NEW r \in Requests, Posted(r)', ~Posted(r)
               PROVE  req[r] \in {"new", "queued"} /\ req'[r] = "forwarded"
    OBVIOUS
  <2>1. ~\E m \in ToSet(posts) : Posts(m, r)
    BY DEF Posted, Posts
  <2> QED BY <2>1, <1>3
<1>5. Carried' = Carried
  BY DEF Carried
<1>6. \A r \in Requests : req'[r] \in {"new", "queued"} => req[r] \in {"new", "queued"}
  BY <1>3
<1>7. Places'
  <2> SUFFICES ASSUME NEW r \in Requests
               PROVE  /\ req'[r] \in {"new", "queued"} => ~Posted(r)' /\ r \notin gated /\ at[r].stage = "none"
                      /\ r \in gated => ~Posted(r)' /\ at[r].stage = "none"
                      /\ Posted(r)' => at[r].stage = "none"
    BY DEF Places
  <2> QED BY <1>4, <1>6 DEF ChannelInv, Places
<1>8. \A r \in Requests : req[r] \notin {"new", "queued"} => (Dead(r) => Dead(r)')
  BY <1>4 DEF Dead
<1>9. \A r \in Requests : req'[r] = req[r] \/ req'[r] \in {"queued", "forwarded", "unknown"}
  BY <1>3
<1>10. Honest'
  <2>1. TypeOK /\ Honest /\ Carried \subseteq Carried'
    BY <1>5 DEF ChannelInv
  <2>2. \A r \in Requests :
          \/ req'[r] = req[r]
          \/ (req'[r] = "not-submitted" => Dead(r)') /\ (req'[r] = "ok" => r \in Carried')
    BY <1>9
  <2> QED BY <1>6, <1>8, <2>1, <2>2, HonestKeeps
<1> QED BY <1>3, <1>5, <1>7, <1>10

\* A sequence and one more message.
LEMMA ConcatOne ==
  ASSUME NEW S, NEW s \in Seq(S), NEW e \in S
  PROVE  s \o <<e>> = Append(s, e) /\ s \o <<>> = s
OBVIOUS

\* Counting keeps the counts' type.
LEMMA CountTypes ==
  ASSUME NEW c \in [wins : Nat, docs : Nat, leaves : Nat, resets : Nat]
  PROVE  /\ c.wins \in Nat /\ c.docs \in Nat
         /\ [c EXCEPT !.wins = @] = c
         /\ \A e \in {[c EXCEPT !.wins = @ + 1], [c EXCEPT !.docs = @ + 1],
                      [c EXCEPT !.leaves = @ + 1], [c EXCEPT !.resets = @ + 1]} :
              e \in [wins : Nat, docs : Nat, leaves : Nat, resets : Nat]
         /\ [c EXCEPT !.wins = @ + 1].wins = c.wins + 1 /\ [c EXCEPT !.wins = @ + 1].docs = c.docs
         /\ [c EXCEPT !.docs = @ + 1].docs = c.docs + 1 /\ [c EXCEPT !.docs = @ + 1].wins = c.wins
         /\ [c EXCEPT !.leaves = @ + 1].docs = c.docs /\ [c EXCEPT !.leaves = @ + 1].wins = c.wins
         /\ [c EXCEPT !.resets = @ + 1].docs = c.docs /\ [c EXCEPT !.resets = @ + 1].wins = c.wins
OBVIOUS

\* Asking queues the request, and may say hello to a window that is open (request, openPopup).
LEMMA AskKeeps ==
  ASSUME ChannelInv, NEW r \in Requests, Ask(r)
  PROVE  /\ ChannelInv' /\ Carried' = Carried /\ req[r] = "new"
         /\ req' \in [Requests -> ReqStates] /\ req'[r] \in {"queued", "forwarded"}
         /\ \A s \in Requests \ {r} : req'[s] = req[s] \/ (req[s] = "queued" /\ req'[s] = "forwarded")
<1> DEFINE new == win = 0
           keep == popup # 0 /\ win = popup
           hello == ~keep /\ ~new /\ announced = 0
           rs == [req EXCEPT ![r] = "queued"]
           q == Append(queue, r)
           posts == toPopup \o (IF hello THEN <<ToPopup("hello", None, 0)>> ELSE <<>>)
<1>1. /\ req[r] = "new" /\ Flushes(rs, q, posts, ready')
      /\ UNCHANGED <<session, doc, port, gated, at, running, toDapp>>
      /\ win' = (IF new THEN count.wins + 1 ELSE win)
      /\ count' = [count EXCEPT !.wins = IF new THEN @ + 1 ELSE @]
      /\ popup' = win'
      /\ announced' = (IF new THEN 0 ELSE announced)
      /\ known' = (IF keep THEN known ELSE announced')
      /\ ready' = (IF keep THEN ready ELSE announced' # 0)
  BY DEF Ask, wallet
<1>2. TypeOK /\ Queued /\ Places /\ OnceEach
  BY DEF ChannelInv
<1>3. rs \in [Requests -> ReqStates] /\ rs[r] = "queued" /\ \A s \in Requests \ {r} : rs[s] = req[s]
  BY <1>2 DEF TypeOK, ReqStates
<1>4. /\ q \in Seq(Requests)
      /\ \A i \in DOMAIN q : rs[q[i]] = "queued"
      /\ \A i, j \in DOMAIN q : q[i] = q[j] => i = j
  <2>1. /\ q \in Seq(Requests) /\ Len(queue) \in Nat /\ DOMAIN queue = 1..Len(queue)
        /\ DOMAIN q = 1..(Len(queue) + 1) /\ \A i \in DOMAIN queue : q[i] = queue[i]
        /\ q[Len(queue) + 1] = r
    BY <1>2, AppendFacts DEF TypeOK
  <2>2. \A i \in DOMAIN queue : queue[i] \in Requests /\ req[queue[i]] = "queued" /\ queue[i] # r
    BY <1>1, <1>2 DEF TypeOK, Queued
  <2> HIDE DEF q, rs
  <2>3. \A i \in DOMAIN q : rs[q[i]] = "queued"
    BY <1>3, <2>1, <2>2
  <2>4. \A i, j \in DOMAIN q : q[i] = q[j] => i = j
    BY <2>1, <2>2, <1>2 DEF Queued
  <2> QED BY <2>1, <2>3, <2>4
<1>5. /\ posts \in Seq(ToMsgs)
      /\ \A m \in ToSet(posts) : m \in ToSet(toPopup) \/ m.type # "request"
      /\ \A i, j \in DOMAIN posts :
           posts[i].type = "request" /\ posts[j].type = "request" /\ posts[i].r = posts[j].r => i = j
  <2> DEFINE m == ToPopup("hello", None, 0)
  <2>1. m \in ToMsgs /\ m.type # "request" /\ toPopup \in Seq(ToMsgs)
    BY <1>2, MessageTypes DEF TypeOK, ToPopup
  <2>2. posts = IF hello THEN Append(toPopup, m) ELSE toPopup
    BY <2>1, ConcatOne
  <2> HIDE DEF m, posts
  <2>3. CASE hello
    <3>1. /\ Append(toPopup, m) \in Seq(ToMsgs) /\ Len(toPopup) \in Nat
          /\ DOMAIN toPopup = 1..Len(toPopup) /\ DOMAIN Append(toPopup, m) = 1..(Len(toPopup) + 1)
          /\ \A i \in DOMAIN toPopup : Append(toPopup, m)[i] = toPopup[i]
          /\ Append(toPopup, m)[Len(toPopup) + 1] = m
      BY <2>1, AppendFacts
    <3>2. posts = Append(toPopup, m)
      BY <2>2, <2>3
    <3>3. \A i \in DOMAIN posts : posts[i].type = "request" => i \in DOMAIN toPopup /\ posts[i] = toPopup[i]
      BY <2>1, <3>1, <3>2
    <3>4. ToSet(posts) = ToSet(toPopup) \cup {m}
      BY <2>1, <3>2, AppendSet
    <3> QED BY <1>2, <2>1, <3>1, <3>2, <3>3, <3>4 DEF OnceEach
  <2>4. CASE ~hello
    BY <1>2, <2>1, <2>2, <2>4 DEF OnceEach
  <2> QED BY <2>3, <2>4
<1>6. \A s \in Requests : rs[s] = req[s] \/ (req[s] = "new" /\ rs[s] = "queued")
  BY <1>1, <1>3
<1> HIDE DEF rs, q, posts
<1>7. /\ req' \in [Requests -> ReqStates] /\ queue' \in Seq(Requests) /\ toPopup' \in Seq(ToMsgs)
      /\ Queued' /\ Places' /\ OnceEach' /\ Honest' /\ Carried' = Carried
      /\ \A s \in Requests : req'[s] = rs[s] \/ (rs[s] = "queued" /\ req'[s] = "forwarded")
  BY <1>1, <1>3, <1>4, <1>5, <1>6, Flushed
<1>8. TypeOK'
  <2>1. count' \in [wins : Nat, docs : Nat, leaves : Nat, resets : Nat]
    <3>1. count' = IF new THEN [count EXCEPT !.wins = @ + 1] ELSE [count EXCEPT !.wins = @]
      BY <1>1
    <3> QED BY <3>1, <1>2, CountTypes DEF TypeOK
  <2>2. win' \in Nat /\ popup' \in Nat /\ announced' \in Nat
    BY <1>1, <1>2 DEF TypeOK
  <2>3. known' \in Nat /\ ready' \in BOOLEAN
    BY <1>1, <1>2, <2>2 DEF TypeOK
  <2> HIDE DEF new, keep, hello
  <2> QED BY <1>1, <1>2, <1>7, <2>1, <2>2, <2>3 DEF TypeOK, ReqStates
<1>9. req'[r] \in {"queued", "forwarded"} /\ \A s \in Requests \ {r} : req'[s] = req[s] \/ (req[s] = "queued" /\ req'[s] = "forwarded")
  BY <1>3, <1>7
<1> QED BY <1>1, <1>7, <1>8, <1>9 DEF ChannelInv


\* A blocked popup fails its request, of which nobody heard.
LEMMA BlockedKeeps ==
  ASSUME ChannelInv, NEW r \in Requests, Blocked(r) PROVE ChannelInv' /\ Moves
<1>1. /\ req[r] = "new" /\ req' = [req EXCEPT ![r] = "not-submitted"] /\ popup' = 0
      /\ UNCHANGED <<queue, ready, known, session, announced, win, doc, port, gated, at, running,
                     toPopup, toDapp, count>>
  BY DEF Blocked, window, wallet
<1>2. TypeOK /\ Queued /\ OnceEach
  BY DEF ChannelInv
<1>3. /\ req' \in [Requests -> ReqStates] /\ req'[r] = "not-submitted"
      /\ \A s \in Requests \ {r} : req'[s] = req[s]
  BY <1>1, <1>2 DEF TypeOK, ReqStates, Answers
<1>4. Queued'
  <2>1. \A i \in DOMAIN queue : queue[i] \in Requests /\ queue[i] # r
    BY <1>1, <1>2 DEF TypeOK, Queued
  <2> QED BY <1>1, <1>2, <1>3, <2>1 DEF Queued
<1>5. OnceEach'
  BY <1>1, <1>2 DEF OnceEach
<1>6. Queued' /\ Places' /\ OnceEach' /\ Honest' /\ Moves
  BY <1>1, <1>3, <1>4, <1>5, Recedes
<1>7. TypeOK'
  BY <1>1, <1>2, <1>3 DEF TypeOK, ReqStates
<1> QED BY <1>6, <1>7 DEF ChannelInv

\* A request stopped by its timeout or the dapp claims what its place allows (stop, lost).
LEMMA StopKeeps ==
  ASSUME ChannelInv, NEW r \in Requests, Stop(r) PROVE ChannelInv' /\ Moves
<1> DEFINE m == ToPopup("cancel", r, 0)
<1>1. /\ r \in Outstanding /\ req' = Settled({r}) /\ queue' = Unqueued(r)
      /\ toPopup' = Append(toPopup, m) \/ toPopup' = toPopup
      /\ UNCHANGED <<popup, ready, known, session, announced, win, doc, port, gated, at, running,
                     toDapp, count>>
  BY DEF Stop, window, wallet
<1>2. TypeOK /\ OnceEach
  BY DEF ChannelInv
<1>3. {r} \in SUBSET Outstanding
  BY <1>1
<1>4. /\ req' \in [Requests -> ReqStates]
      /\ \A s \in Requests :
           \/ s # r /\ req'[s] = req[s]
           \/ s = r /\ req[s] = "queued" /\ req'[s] = "not-submitted"
           \/ s = r /\ req[s] = "forwarded" /\ req'[s] = "unknown"
  BY <1>1, <1>2, <1>3, SettledFacts
<1>5. queue' \in Seq(Requests) /\ Queued'
  BY <1>1, <1>4, QueueKept
<1>6. m \in ToMsgs /\ m.type # "request"
  BY <1>2, MessageTypes DEF ToPopup
<1> HIDE DEF m
<1>7. /\ toPopup' \in Seq(ToMsgs) /\ OnceEach'
      /\ \A n \in ToSet(toPopup') : n \in ToSet(toPopup) \/ n.type # "request"
  <2>1. CASE toPopup' = Append(toPopup, m)
    BY <1>6, <2>1, PostsKept
  <2>2. CASE toPopup' = toPopup
    BY <1>2, <2>2 DEF TypeOK, OnceEach
  <2> QED BY <1>1, <2>1, <2>2
<1>8. Queued' /\ Places' /\ OnceEach' /\ Honest' /\ Moves
  BY <1>1, <1>4, <1>5, <1>7, Recedes DEF Warrants, Answers
<1>9. TypeOK'
  BY <1>1, <1>2, <1>4, <1>5, <1>7 DEF TypeOK, ReqStates
<1> QED BY <1>8, <1>9 DEF ChannelInv

\* The end of the popup settles all that waits; nothing more is posted but to stop a session (close).
LEMMA ClosedKeeps ==
  ASSUME ChannelInv, Closed, OnceEach', toPopup' \in Seq(ToMsgs),
         \A n \in ToSet(toPopup') : n \in ToSet(toPopup) \/ n.type # "request",
         gated' \subseteq gated,
         \A r \in Requests :
           at'[r].stage = at[r].stage \/ (at[r].stage = "review" /\ at'[r].stage = "gone"),
         ToSet(toDapp') \subseteq ToSet(toDapp)
  PROVE  /\ req' \in [Requests -> ReqStates] /\ queue' \in Seq(Requests)
         /\ Queued' /\ Places' /\ OnceEach' /\ Honest' /\ Moves
<1>1. req' = Settled(Outstanding) /\ queue' = <<>>
  BY DEF Closed
<1>2. /\ req' \in [Requests -> ReqStates]
      /\ \A s \in Requests :
           \/ req'[s] = req[s]
           \/ req[s] = "queued" /\ req'[s] = "not-submitted"
           \/ req[s] = "forwarded" /\ req'[s] = "unknown"
  BY <1>1, SettledFacts DEF ChannelInv
<1>3. queue' \in Seq(Requests) /\ Queued'
  BY <1>1, QueueKept
<1>4. Queued' /\ Places' /\ OnceEach' /\ Honest' /\ Moves
  BY <1>2, <1>3, Recedes DEF Warrants, Answers
<1> QED BY <1>2, <1>3, <1>4

\* The poll finds the window closed.
LEMMA PollKeeps ==
  ASSUME ChannelInv, Poll PROVE ChannelInv' /\ Moves
<1>1. /\ Closed /\ popup' = 0 /\ ready' = FALSE /\ session' = 0 /\ known' = known
      /\ UNCHANGED <<announced, win, doc, port, gated, at, running, toPopup, toDapp, count>>
  BY DEF Poll, Closed, window, wallet
<1>2. TypeOK /\ OnceEach
  BY DEF ChannelInv
<1>3. OnceEach' /\ toPopup' \in Seq(ToMsgs)
  BY <1>1, <1>2 DEF OnceEach, TypeOK
<1>4. /\ req' \in [Requests -> ReqStates] /\ queue' \in Seq(Requests)
      /\ Queued' /\ Places' /\ OnceEach' /\ Honest' /\ Moves
  BY <1>1, <1>3, ClosedKeeps
<1>5. TypeOK'
  BY <1>1, <1>2, <1>4 DEF TypeOK, ReqStates
<1> QED BY <1>4, <1>5 DEF ChannelInv

\* A page that goes takes what waits with it (pagehide).
LEMMA PageLeavesKeeps ==
  ASSUME ChannelInv, PageLeaves PROVE ChannelInv' /\ Moves
<1> DEFINE m == ToPopup("stop", None, session)
<1>1. /\ Closed /\ popup' = 0 /\ ready' = FALSE /\ session' = 0 /\ known' = known /\ announced' = 0
      /\ count' = [count EXCEPT !.leaves = @ + 1]
      /\ toPopup' = Append(toPopup, m) \/ toPopup' = toPopup
      /\ toDapp' = toDapp \/ toDapp' = <<>>
      /\ UNCHANGED <<win, doc, port, gated, at, running>>
  BY DEF PageLeaves, Closed, window, wallet
<1>2. TypeOK /\ OnceEach
  BY DEF ChannelInv
<1>3. m \in ToMsgs /\ m.type # "request"
  BY <1>2, MessageTypes DEF ToPopup, TypeOK
<1> HIDE DEF m
<1>4. /\ toPopup' \in Seq(ToMsgs) /\ OnceEach'
      /\ \A n \in ToSet(toPopup') : n \in ToSet(toPopup) \/ n.type # "request"
  <2>1. CASE toPopup' = Append(toPopup, m)
    BY <1>3, <2>1, PostsKept
  <2>2. CASE toPopup' = toPopup
    BY <1>2, <2>2 DEF TypeOK, OnceEach
  <2> QED BY <1>1, <2>1, <2>2
<1>5. ToSet(toDapp') \subseteq ToSet(toDapp) /\ toDapp' \in Seq(FromMsgs)
  <2>1. CASE toDapp' = toDapp
    BY <1>2, <2>1 DEF TypeOK
  <2>2. CASE toDapp' = <<>>
    BY <2>2 DEF ToSet
  <2> QED BY <1>1, <2>1, <2>2
<1>6. /\ req' \in [Requests -> ReqStates] /\ queue' \in Seq(Requests)
      /\ Queued' /\ Places' /\ OnceEach' /\ Honest' /\ Moves
  BY <1>1, <1>4, <1>5, ClosedKeeps
<1>7. count' \in [wins : Nat, docs : Nat, leaves : Nat, resets : Nat]
  BY <1>1, <1>2, CountTypes DEF TypeOK
<1>8. TypeOK'
  BY <1>1, <1>2, <1>4, <1>5, <1>6, <1>7 DEF TypeOK, ReqStates
<1> QED BY <1>6, <1>8 DEF ChannelInv

\* A channel that closes drops the reviews of its document (openWallet's channel in the worker).
LEMMA DroppedFacts ==
  ASSUME TypeOK, NEW d
  PROVE  /\ Dropped(d) \in [Requests -> [stage : Stages, doc : Nat]]
         /\ \A r \in Requests :
              \/ Dropped(d)[r] = at[r]
              \/ /\ at[r].stage = "review" /\ at[r].doc = d
                 /\ Dropped(d)[r].stage = "gone" /\ Dropped(d)[r].doc = at[r].doc
         /\ \A r \in Requests : Dropped(d)[r].stage = "review" => at[r].doc # d
<1>1. ASSUME NEW r \in Requests
      PROVE  /\ at[r].stage \in Stages /\ at[r].doc \in Nat
             /\ at[r] = [stage |-> "review", doc |-> d] <=> at[r].stage = "review" /\ at[r].doc = d
             /\ [at[r] EXCEPT !.stage = "gone"] \in [stage : Stages, doc : Nat]
             /\ [at[r] EXCEPT !.stage = "gone"].stage = "gone"
             /\ [at[r] EXCEPT !.stage = "gone"].doc = at[r].doc
  <2>1. at[r] \in [stage : Stages, doc : Nat]
    BY DEF TypeOK
  <2> QED BY <2>1 DEF Stages
<1>2. \A r \in Requests :
        Dropped(d)[r] = IF at[r].stage = "review" /\ at[r].doc = d
                        THEN [at[r] EXCEPT !.stage = "gone"] ELSE at[r]
  BY <1>1 DEF Dropped
<1>3. Dropped(d) = [r \in Requests |-> Dropped(d)[r]]
  BY DEF Dropped
<1>4. ASSUME NEW r \in Requests PROVE Dropped(d)[r] \in [stage : Stages, doc : Nat]
  <2>1. at[r] \in [stage : Stages, doc : Nat]
    BY DEF TypeOK
  <2>2. Dropped(d)[r] = at[r] \/ Dropped(d)[r] = [at[r] EXCEPT !.stage = "gone"]
    BY <1>2
  <2> QED BY <1>1, <2>1, <2>2
<1> QED BY <1>1, <1>2, <1>3, <1>4


\* The page takes a message: what is left was on its way before.
LEMMA ReadFacts ==
  ASSUME TypeOK, toDapp # <<>>, toDapp' = Tail(toDapp)
  PROVE  /\ toDapp' \in Seq(FromMsgs) /\ ToSet(toDapp') \subseteq ToSet(toDapp)
         /\ Head(toDapp) \in FromMsgs /\ Head(toDapp) \in ToSet(toDapp)
BY TailFacts, TailSet DEF TypeOK

\* Nothing is settled, queued or posted by a step that leaves the page's requests alone.
LEMMA Quiet ==
  ASSUME ChannelInv, UNCHANGED <<req, queue, toPopup>>, gated' \subseteq gated,
         \A r \in Requests :
           \/ at'[r].stage = at[r].stage
           \/ at[r].stage = "review" /\ at'[r].stage = "gone"
           \/ at[r].stage = "done" /\ at'[r].stage = "told",
         \A m \in ToSet(toDapp') :
           \/ m \in ToSet(toDapp)
           \/ m.type = "reply" =>
                /\ m.r \in Requests /\ req[m.r] \notin {"new", "queued"}
                /\ (m.answer = "not-submitted" => Dead(m.r)') /\ (m.answer = "ok" => m.r \in Carried)
  PROVE  Queued' /\ Places' /\ OnceEach' /\ Honest' /\ Moves
<1>1. OnceEach' /\ Queued'
  BY QueueKept DEF ChannelInv, OnceEach
<1> QED BY <1>1, Recedes

\* The page reads a message (the listeners of sdk.ts).
LEMMA PageReadsKeeps ==
  ASSUME ChannelInv, PageReads PROVE ChannelInv' /\ Moves
<1> DEFINE m == Head(toDapp)
           Rest == Queued' /\ Places' /\ OnceEach' /\ Honest' /\ Moves
           Types == /\ req' \in [Requests -> ReqStates] /\ queue' \in Seq(Requests)
                    /\ toPopup' \in Seq(ToMsgs)
                    /\ known' \in Nat /\ ready' \in BOOLEAN /\ session' \in Nat
<1>1. /\ toDapp # <<>> /\ toDapp' = Tail(toDapp)
      /\ UNCHANGED <<popup, win, doc, port, gated, at, running, count>>
      /\ Announced(m)
      /\ IF popup = 0 \/ m.from # popup
         THEN UNCHANGED <<req, queue, toPopup, known, ready, deadline, session>>
         ELSE \/ m.type = "ready" /\ OnReady(m)
              \/ m.type = "leave" /\ OnLeave(m)
              \/ m.type = "reset" /\ OnReset(m)
              \/ m.type = "event" /\ OnEvent(m)
              \/ m.type = "reply" /\ OnReply(m)
  BY DEF PageReads, window, wallet
<1>2. TypeOK /\ Queued /\ OnceEach /\ Honest
  BY DEF ChannelInv
<1>3. /\ toDapp' \in Seq(FromMsgs) /\ ToSet(toDapp') \subseteq ToSet(toDapp)
      /\ m \in FromMsgs /\ m \in ToSet(toDapp)
  BY <1>1, <1>2, ReadFacts
<1> HIDE DEF m
<1>4. m.doc \in Nat /\ (m.type = "reply" => m.r \in Requests /\ m.answer \in Answers)
  BY <1>3, MessageFields
<1>5. announced' \in Nat
  BY <1>1, <1>2, <1>4 DEF Announced, TypeOK
<1>6. ASSUME UNCHANGED <<req, queue, toPopup>> PROVE Rest
  BY <1>1, <1>3, <1>6, Quiet
<1>8. ASSUME OnReady(m) PROVE Rest /\ Types
  <2> DEFINE rs == IF m.doc = known THEN req ELSE Settled(Forwarded)
  <2>1. /\ known' = m.doc /\ ready' = TRUE /\ Flushes(rs, queue, toPopup, TRUE)
        /\ session' = IF m.doc = known THEN session ELSE 0
    BY <1>8 DEF OnReady
  <2>2. /\ rs \in [Requests -> ReqStates]
        /\ \A r \in Requests :
             rs[r] = req[r] \/ (req[r] = "forwarded" /\ rs[r] = "unknown")
    <3>1. Forwarded \in SUBSET Outstanding /\ \A r \in Forwarded : req[r] = "forwarded"
      BY DEF Forwarded, Outstanding
    <3>2. CASE m.doc = known
      BY <1>2, <3>2 DEF TypeOK, ReqStates
    <3>3. CASE m.doc # known
      BY <1>2, <3>1, <3>3, SettledFacts
    <3> QED BY <3>2, <3>3
  <2>3. \A i \in DOMAIN queue : rs[queue[i]] = "queued"
    <3>1. \A i \in DOMAIN queue : queue[i] \in Requests /\ req[queue[i]] = "queued"
      BY <1>2 DEF TypeOK, Queued
    <3> QED BY <2>2, <3>1
  <2> HIDE DEF rs
  <2>4. \A i, j \in DOMAIN queue : queue[i] = queue[j] => i = j
    BY <1>2 DEF Queued
  <2>5. \A i, j \in DOMAIN toPopup :
          toPopup[i].type = "request" /\ toPopup[j].type = "request" /\ toPopup[i].r = toPopup[j].r => i = j
    BY <1>2 DEF OnceEach
  <2>6. queue \in Seq(Requests) /\ toPopup \in Seq(ToMsgs) /\ UNCHANGED <<at, gated>>
    BY <1>1, <1>2 DEF TypeOK
  <2>7. /\ req' \in [Requests -> ReqStates] /\ queue' \in Seq(Requests) /\ toPopup' \in Seq(ToMsgs)
        /\ Queued' /\ Places' /\ OnceEach' /\ Honest' /\ Carried' = Carried
        /\ \A r \in Requests : req'[r] = rs[r] \/ (rs[r] = "queued" /\ req'[r] = "forwarded")
    BY <1>3, <2>1, <2>2, <2>3, <2>4, <2>5, <2>6, Flushed
  <2>8. Moves
    BY <2>2, <2>7 DEF Moves, Answers
  <2>9. known' \in Nat /\ ready' \in BOOLEAN /\ session' \in Nat
    BY <1>2, <1>4, <2>1 DEF TypeOK
  <2> QED BY <2>7, <2>8, <2>9
<1>9. ASSUME OnLeave(m) \/ OnEvent(m) PROVE Rest /\ Types
  <2>1. UNCHANGED <<req, queue, toPopup, known>> /\ ready' \in {ready, FALSE} /\ session' \in {0, m.doc, session}
    BY <1>9 DEF OnLeave, OnEvent
  <2>2. known' \in Nat /\ ready' \in BOOLEAN /\ session' \in Nat
    <3>1. known \in Nat /\ ready \in BOOLEAN /\ session \in Nat
      BY <1>2 DEF TypeOK
    <3>2. session' = 0 \/ session' = m.doc \/ session' = session
      BY <2>1
    <3>3. ready' = ready \/ ready' = FALSE
      BY <2>1
    <3>4. session' \in Nat
      BY <1>4, <3>1, <3>2
    <3>5. ready' \in BOOLEAN
      BY <3>1, <3>3
    <3> QED BY <2>1, <3>1, <3>4, <3>5
  <2>3. req' \in [Requests -> ReqStates] /\ queue' \in Seq(Requests) /\ toPopup' \in Seq(ToMsgs)
    BY <1>2, <2>1 DEF TypeOK, ReqStates
  <2> QED BY <1>6, <2>1, <2>2, <2>3
<1>10. ASSUME OnReset(m) PROVE Rest /\ Types
  <2>1. /\ req' = Settled(Outstanding) /\ queue' = <<>> /\ session' = 0 /\ UNCHANGED <<toPopup, known, ready>>
    BY <1>10 DEF OnReset
  <2>2. /\ req' \in [Requests -> ReqStates]
        /\ \A s \in Requests :
             \/ req'[s] = req[s]
             \/ req[s] = "queued" /\ req'[s] = "not-submitted"
             \/ req[s] = "forwarded" /\ req'[s] = "unknown"
    BY <1>2, <2>1, SettledFacts
  <2>3. Queued' /\ OnceEach' /\ queue' \in Seq(Requests)
    BY <1>2, <2>1, QueueKept DEF OnceEach
  <2>4. Rest
    BY <1>1, <1>3, <2>1, <2>2, <2>3, Recedes DEF Warrants, Answers
  <2> QED BY <1>2, <2>1, <2>2, <2>3, <2>4 DEF TypeOK
<1>11. ASSUME m.type = "reply", OnReply(m) PROVE Rest /\ Types
  <2>1. /\ req' = IF m.r \in Outstanding THEN [req EXCEPT ![m.r] = m.answer] ELSE req
        /\ queue' = Unqueued(m.r) /\ session' \in {m.doc, session} /\ UNCHANGED <<toPopup, known, ready>>
    BY <1>11 DEF OnReply
  <2>2. m.r \in Requests /\ m.answer \in Answers /\ req[m.r] \notin {"new", "queued"} /\ Warrants(m.r, m.answer)
    BY <1>2, <1>3, <1>4, <1>11 DEF Honest
  <2>3. /\ req' \in [Requests -> ReqStates]
        /\ \A s \in Requests \ {m.r} : req'[s] = req[s]
        /\ \/ req'[m.r] = req[m.r]
           \/ req[m.r] = "forwarded" /\ req'[m.r] = m.answer
    <3>1. CASE m.r \in Outstanding
      BY <1>2, <2>1, <2>2, <3>1 DEF TypeOK, ReqStates, Outstanding
    <3>2. CASE m.r \notin Outstanding
      BY <1>2, <2>1, <3>2 DEF TypeOK, ReqStates
    <3> QED BY <3>1, <3>2
  <2>4. queue' \in Seq(Requests) /\ Queued' /\ OnceEach'
    BY <1>2, <2>1, <2>2, <2>3, QueueKept DEF OnceEach
  <2>5. \A s \in Requests :
          \/ req'[s] = req[s]
          \/ req[s] = "forwarded" /\ req'[s] \in Answers /\ Warrants(s, req'[s])
    <3> SUFFICES ASSUME NEW s \in Requests, req'[s] # req[s]
                 PROVE  req[s] = "forwarded" /\ req'[s] \in Answers /\ Warrants(s, req'[s])
      OBVIOUS
    <3>1. s = m.r /\ req'[s] = m.answer /\ req[s] = "forwarded"
      BY <2>3
    <3> QED BY <2>2, <3>1
  <2>6. Rest
    BY <1>1, <1>3, <2>1, <2>4, <2>5, Recedes
  <2> QED BY <1>2, <1>4, <2>1, <2>3, <2>4, <2>6 DEF TypeOK
<1>12. Rest /\ Types
  <2>1. CASE popup = 0 \/ m.from # popup
    <3>1. UNCHANGED <<req, queue, toPopup, known, ready, session>>
      BY <1>1, <2>1
    <3> QED BY <1>2, <1>6, <3>1 DEF TypeOK, ReqStates
  <2>2. CASE ~(popup = 0 \/ m.from # popup)
    BY <1>1, <1>8, <1>9, <1>10, <1>11, <2>2
  <2> QED BY <2>1, <2>2
<1>13. TypeOK'
  BY <1>1, <1>2, <1>3, <1>5, <1>12 DEF TypeOK, ReqStates
<1> QED BY <1>12, <1>13 DEF ChannelInv


\* The deadline closes a window whose document stays silent (expectReady).
LEMMA ReadyDeadlineKeeps ==
  ASSUME ChannelInv, ReadyDeadline PROVE ChannelInv' /\ Moves
<1>1. Closed /\ popup' = 0 /\ ready' = FALSE /\ session' = 0 /\ UNCHANGED <<known, announced, toDapp, count>>
  BY DEF ReadyDeadline, Closed
<1>2. \/ win' = 0 /\ doc' = 0 /\ PortCloses /\ toPopup' = <<>>
      \/ UNCHANGED <<win, doc, port, gated, at, running, toPopup>>
  BY DEF ReadyDeadline, window, wallet
<1>3. TypeOK /\ OnceEach
  BY DEF ChannelInv
<1>4. /\ win' \in Nat /\ doc' \in Nat /\ port' \in BOOLEAN /\ gated' \in SUBSET Requests /\ running' \in Nat
      /\ at' \in [Requests -> [stage : Stages, doc : Nat]]
      /\ gated' \subseteq gated
      /\ \A r \in Requests : at'[r].stage = at[r].stage \/ (at[r].stage = "review" /\ at'[r].stage = "gone")
      /\ OnceEach' /\ toPopup' \in Seq(ToMsgs)
      /\ \A n \in ToSet(toPopup') : n \in ToSet(toPopup) \/ n.type # "request"
  <2>1. CASE win' = 0 /\ doc' = 0 /\ PortCloses /\ toPopup' = <<>>
    <3>1. port' = FALSE /\ gated' = {} /\ at' = Dropped(doc) /\ running' = IF running = doc THEN 0 ELSE running
      BY <2>1 DEF PortCloses
    <3>2. OnceEach' /\ toPopup' \in Seq(ToMsgs) /\ ToSet(toPopup') = {}
      BY <2>1 DEF OnceEach, ToSet
    <3>3. /\ at' \in [Requests -> [stage : Stages, doc : Nat]]
          /\ \A r \in Requests : at'[r].stage = at[r].stage \/ (at[r].stage = "review" /\ at'[r].stage = "gone")
      BY <1>3, <3>1, DroppedFacts
    <3>4. running' \in Nat
      BY <1>3, <3>1 DEF TypeOK
    <3> QED BY <2>1, <3>1, <3>2, <3>3, <3>4
  <2>2. CASE UNCHANGED <<win, doc, port, gated, at, running, toPopup>>
    BY <1>3, <2>2 DEF TypeOK, OnceEach
  <2> QED BY <1>2, <2>1, <2>2
<1>5. /\ req' \in [Requests -> ReqStates] /\ queue' \in Seq(Requests)
      /\ Queued' /\ Places' /\ OnceEach' /\ Honest' /\ Moves
  BY <1>1, <1>4, ClosedKeeps
<1>6. TypeOK'
  BY <1>1, <1>3, <1>4, <1>5 DEF TypeOK, ReqStates
<1> QED BY <1>5, <1>6 DEF ChannelInv

\* What the popup says, when it is no reply, changes nothing of what a request was told.
LEMMA SaysFacts ==
  ASSUME TypeOK, NEW m \in FromMsgs, Says(m)
  PROVE  toDapp' \in Seq(FromMsgs) /\ ToSet(toDapp') = ToSet(toDapp) \cup {m}
BY AppendFacts, AppendSet DEF TypeOK, Says

\* A new document announces itself.
LEMMA LoadKeeps ==
  ASSUME ChannelInv, Load PROVE ChannelInv' /\ Moves
<1>1. /\ doc' = count.docs + 1 /\ count' = [count EXCEPT !.docs = @ + 1]
      /\ UNCHANGED <<req, queue, popup, ready, known, session, announced, win, port, gated, at, running, toPopup>>
  BY DEF Load, page, wallet
<1>2. TypeOK
  BY DEF ChannelInv
<1>3. count' \in [wins : Nat, docs : Nat, leaves : Nat, resets : Nat] /\ doc' \in Nat
  BY <1>1, <1>2, CountTypes DEF TypeOK
<1>4. PICK m : m = FromPopup("ready", doc', None, "") /\ m.type = "ready" /\ Says(m)
  BY DEF Load, FromPopup
<1>5. m \in FromMsgs
  BY <1>2, <1>3, <1>4, MessageTypes
<1>6. toDapp' \in Seq(FromMsgs) /\ ToSet(toDapp') = ToSet(toDapp) \cup {m}
  BY <1>2, <1>4, <1>5, SaysFacts
<1>7. Queued' /\ Places' /\ OnceEach' /\ Honest' /\ Moves
  BY <1>1, <1>4, <1>6, Quiet
<1>8. TypeOK'
  BY <1>1, <1>2, <1>3, <1>6 DEF TypeOK
<1> QED BY <1>7, <1>8 DEF ChannelInv

\* The messages to a window are lost with it.
LEMMA Dropping ==
  ASSUME ChannelInv, UNCHANGED <<req, queue>>, toPopup' \in {toPopup, <<>>}, gated' \subseteq gated,
         \A r \in Requests : at'[r].stage = at[r].stage \/ (at[r].stage = "review" /\ at'[r].stage = "gone"),
         \A m \in ToSet(toDapp') : m \in ToSet(toDapp) \/ m.type # "reply"
  PROVE  /\ toPopup' \in Seq(ToMsgs)
         /\ Queued' /\ Places' /\ OnceEach' /\ Honest' /\ Moves
<1>1. Queued'
  BY QueueKept
<1>2. OnceEach' /\ toPopup' \in Seq(ToMsgs) /\ \A m \in ToSet(toPopup') : m \in ToSet(toPopup)
  <2>1. CASE toPopup' = toPopup
    BY <2>1 DEF ChannelInv, OnceEach, TypeOK
  <2>2. CASE toPopup' = <<>>
    BY <2>2 DEF OnceEach, ToSet
  <2> QED BY <2>1, <2>2
<1>3. Queued' /\ Places' /\ OnceEach' /\ Honest' /\ Moves
  BY <1>1, <1>2, Recedes
<1> QED BY <1>2, <1>3

\* A document leaves (leave, connect.ts).
LEMMA LeavesKeeps ==
  ASSUME ChannelInv, Leaves PROVE ChannelInv' /\ Moves
<1>1. /\ doc' = 0 /\ win' \in {win, 0} /\ PortCloses
      /\ toPopup' = IF win' = 0 THEN <<>> ELSE toPopup
      /\ UNCHANGED <<req, queue, popup, ready, known, session, announced, count>>
  BY DEF Leaves, page
<1>2. port' = FALSE /\ gated' = {} /\ at' = Dropped(doc) /\ running' = IF running = doc THEN 0 ELSE running
  BY <1>1 DEF PortCloses
<1>3. TypeOK
  BY DEF ChannelInv
<1>4. PICK m : m = FromPopup("leave", doc, None, "") /\ m.type = "leave" /\ Says(m)
  BY DEF Leaves, FromPopup
<1>5. m \in FromMsgs
  BY <1>3, <1>4, MessageTypes DEF TypeOK
<1>6. toDapp' \in Seq(FromMsgs) /\ ToSet(toDapp') = ToSet(toDapp) \cup {m}
  BY <1>3, <1>4, <1>5, SaysFacts
<1>7. /\ at' \in [Requests -> [stage : Stages, doc : Nat]]
      /\ \A r \in Requests : at'[r].stage = at[r].stage \/ (at[r].stage = "review" /\ at'[r].stage = "gone")
  BY <1>2, <1>3, DroppedFacts
<1>8. /\ toPopup' \in Seq(ToMsgs)
      /\ Queued' /\ Places' /\ OnceEach' /\ Honest' /\ Moves
  BY <1>1, <1>2, <1>4, <1>6, <1>7, Dropping
<1>9. win' \in Nat /\ running' \in Nat
  BY <1>1, <1>2, <1>3 DEF TypeOK
<1>10. TypeOK'
  BY <1>1, <1>2, <1>3, <1>6, <1>7, <1>8, <1>9 DEF TypeOK
<1> QED BY <1>8, <1>10 DEF ChannelInv

\* A document or window dies.
LEMMA CrashKeeps ==
  ASSUME ChannelInv, Crash PROVE ChannelInv' /\ Moves
<1>1. /\ doc' = 0 /\ win' \in {win, 0} /\ port' = FALSE /\ gated' = {}
      /\ toPopup' = IF win' = 0 THEN <<>> ELSE toPopup
      /\ UNCHANGED <<req, queue, popup, ready, known, session, announced, at, running, toDapp, count>>
  BY DEF Crash, page, wallet
<1>2. TypeOK
  BY DEF ChannelInv
<1>3. /\ toPopup' \in Seq(ToMsgs)
      /\ Queued' /\ Places' /\ OnceEach' /\ Honest' /\ Moves
  BY <1>1, Dropping
<1>4. win' \in Nat
  BY <1>1, <1>2 DEF TypeOK
<1>5. TypeOK'
  BY <1>1, <1>2, <1>3, <1>4 DEF TypeOK
<1> QED BY <1>3, <1>5 DEF ChannelInv

\* The worker learns that a document is dead.
LEMMA HostGoneKeeps ==
  ASSUME ChannelInv, HostGone PROVE ChannelInv' /\ Moves
<1>1. UNCHANGED <<req, queue, popup, ready, known, session, announced, win, doc, port, gated, toPopup, toDapp, count>>
  BY DEF HostGone, page, window
<1>2. PICK d : at' = Dropped(d) /\ running' = IF running = d THEN 0 ELSE running
  BY DEF HostGone
<1>3. TypeOK
  BY DEF ChannelInv
<1>4. /\ at' \in [Requests -> [stage : Stages, doc : Nat]]
      /\ \A r \in Requests : at'[r].stage = at[r].stage \/ (at[r].stage = "review" /\ at'[r].stage = "gone")
  BY <1>2, <1>3, DroppedFacts
<1>5. Queued' /\ Places' /\ OnceEach' /\ Honest' /\ Moves
  BY <1>1, <1>4, Dropping
<1>6. running' \in Nat
  BY <1>2, <1>3 DEF TypeOK
<1>7. TypeOK'
  BY <1>1, <1>3, <1>4, <1>6 DEF TypeOK
<1> QED BY <1>5, <1>7 DEF ChannelInv


\* The popup takes a message: fewer are on their way, each once.
LEMMA TakeFacts ==
  ASSUME ChannelInv, toPopup # <<>>, toPopup' = Tail(toPopup)
  PROVE  /\ toPopup' \in Seq(ToMsgs) /\ ToSet(toPopup') \subseteq ToSet(toPopup) /\ OnceEach'
         /\ Head(toPopup) \in ToMsgs /\ Head(toPopup) \in ToSet(toPopup)
         /\ \A r \in Requests : Posts(Head(toPopup), r) => Posted(r) /\ ~Posted(r)'
<1>1. toPopup \in Seq(ToMsgs) /\ OnceEach
  BY DEF ChannelInv, TypeOK
<1>2. /\ toPopup' \in Seq(ToMsgs) /\ Head(toPopup) \in ToMsgs
      /\ Head(toPopup) = toPopup[1] /\ 1 \in DOMAIN toPopup
      /\ DOMAIN toPopup' = 1..(Len(toPopup) - 1) /\ Len(toPopup) \in Nat
      /\ \A i \in DOMAIN toPopup' : i + 1 \in DOMAIN toPopup /\ toPopup'[i] = toPopup[i + 1]
  BY <1>1, TailFacts
<1>3. ToSet(toPopup') \subseteq ToSet(toPopup) /\ Head(toPopup) \in ToSet(toPopup)
  BY <1>1, TailSet
<1>4. OnceEach'
  <2> SUFFICES ASSUME NEW i \in DOMAIN toPopup', NEW j \in DOMAIN toPopup',
                      toPopup'[i].type = "request", toPopup'[j].type = "request",
                      toPopup'[i].r = toPopup'[j].r
               PROVE  i = j
    BY DEF OnceEach
  <2>1. i + 1 = j + 1
    BY <1>1, <1>2 DEF OnceEach
  <2>2. i \in Nat /\ j \in Nat
    BY <1>2
  <2> QED BY <2>1, <2>2
<1>5. ASSUME NEW r \in Requests, Posts(Head(toPopup), r), Posted(r)' PROVE FALSE
  <2>1. PICK m \in ToSet(toPopup') : m.type = "request" /\ m.r = r
    BY <1>5 DEF Posted, Posts
  <2>2. PICK i \in DOMAIN toPopup' : toPopup'[i] = m
    BY DEF ToSet
  <2>3. i + 1 = 1
    BY <1>1, <1>2, <1>5, <2>1, <2>2 DEF OnceEach, Posts
  <2>4. i \in Nat /\ i >= 1
    BY <1>2
  <2> QED BY <2>3, <2>4
<1>6. \A r \in Requests : Posts(Head(toPopup), r) => Posted(r)
  BY <1>3 DEF Posted
<1> QED BY <1>2, <1>3, <1>4, <1>5, <1>6

\* A request that moves on in the wallet.
LEMMA AtTypes ==
  ASSUME TypeOK, NEW r \in Requests
  PROVE  /\ \A st \in Stages :
              /\ [at EXCEPT ![r].stage = st] \in [Requests -> [stage : Stages, doc : Nat]]
              /\ [at EXCEPT ![r].stage = st][r].stage = st
              /\ [at EXCEPT ![r].stage = st][r].doc = at[r].doc
              /\ \A s \in Requests \ {r} : [at EXCEPT ![r].stage = st][s] = at[s]
         /\ [at EXCEPT ![r] = [stage |-> "review", doc |-> doc]] \in [Requests -> [stage : Stages, doc : Nat]]
         /\ [at EXCEPT ![r] = [stage |-> "review", doc |-> doc]][r] = [stage |-> "review", doc |-> doc]
         /\ \A s \in Requests \ {r} : [at EXCEPT ![r] = [stage |-> "review", doc |-> doc]][s] = at[s]
         /\ at[r].stage \in Stages /\ at[r].doc \in Nat
<1>1. /\ at \in [Requests -> [stage : Stages, doc : Nat]] /\ at[r] \in [stage : Stages, doc : Nat]
      /\ doc \in Nat
  BY DEF TypeOK
<1>2. [stage |-> "review", doc |-> doc] \in [stage : Stages, doc : Nat]
  BY <1>1 DEF Stages
<1>3. \A st \in Stages : /\ [at[r] EXCEPT !.stage = st] \in [stage : Stages, doc : Nat]
                         /\ [at[r] EXCEPT !.stage = st].stage = st
                         /\ [at[r] EXCEPT !.stage = st].doc = at[r].doc
  BY <1>1
<1> QED BY <1>1, <1>2, <1>3

\* The popup reads a message (openWallet, cancel, hello and stopLeft of connect.ts).
LEMMA PopupReadsKeeps ==
  ASSUME ChannelInv, PopupReads PROVE ChannelInv' /\ Moves
<1>0. PICK m : m = Head(toPopup)
  OBVIOUS
<1> DEFINE Rest == Queued' /\ Places' /\ OnceEach' /\ Honest' /\ Moves
           Types == /\ port' \in BOOLEAN /\ gated' \in SUBSET Requests /\ running' \in Nat
                    /\ at' \in [Requests -> [stage : Stages, doc : Nat]]
                    /\ toDapp' \in Seq(FromMsgs)
<1>1. /\ toPopup # <<>> /\ toPopup' = Tail(toPopup)
      /\ IF doc = 0 THEN UNCHANGED <<port, gated, wallet, toDapp>>
         ELSE \/ m.type = "request" /\ OnRequest(m)
              \/ m.type = "cancel" /\ OnCancel(m)
              \/ m.type = "hello" /\ OnHello(m)
              \/ m.type = "stop" /\ OnStop(m)
      /\ UNCHANGED <<req, queue, popup, ready, known, session, announced, win, doc, count>>
  BY <1>0 DEF PopupReads, page
<1>2. TypeOK /\ Queued /\ OnceEach /\ Honest /\ Places
  BY DEF ChannelInv
<1>3. /\ toPopup' \in Seq(ToMsgs) /\ ToSet(toPopup') \subseteq ToSet(toPopup) /\ OnceEach'
      /\ m \in ToMsgs /\ m \in ToSet(toPopup)
      /\ \A r \in Requests : Posts(m, r) => Posted(r) /\ ~Posted(r)'
  BY <1>0, <1>1, TakeFacts
<1>4. m.type \in {"request", "cancel"} => m.r \in Requests
  BY <1>3, MessageFields
<1>5. Queued'
  BY <1>1, <1>2 DEF Queued
<1>6. ASSUME gated' \subseteq gated,
             \A r \in Requests : at'[r].stage = at[r].stage \/ (at[r].stage = "review" /\ at'[r].stage = "gone"),
             \A n \in ToSet(toDapp') :
               \/ n \in ToSet(toDapp)
               \/ n.type = "reply" =>
                    /\ n.r \in Requests /\ req[n.r] \notin {"new", "queued"}
                    /\ (n.answer = "not-submitted" => Dead(n.r)') /\ (n.answer = "ok" => n.r \in Carried)
      PROVE  Rest
  BY <1>1, <1>3, <1>5, <1>6, Recedes
<1>7. ASSUME UNCHANGED <<port, gated, at, running, toDapp>> PROVE Rest /\ Types
  BY <1>2, <1>6, <1>7 DEF TypeOK
<1>8. ASSUME m.type = "request", OnRequest(m) PROVE Rest /\ Types
  <2>1. /\ port' = TRUE /\ UNCHANGED <<running, toDapp>>
        /\ \/ at' = [at EXCEPT ![m.r] = [stage |-> "review", doc |-> doc]] /\ UNCHANGED gated
           \/ gated' = gated \cup {m.r} /\ UNCHANGED at
    BY <1>8 DEF OnRequest, ToWallet
  <2>2. m.r \in Requests /\ Posted(m.r) /\ ~Posted(m.r)'
    BY <1>3, <1>4, <1>8 DEF Posts
  <2>3. m.r \notin gated
    BY <1>2, <2>2 DEF Places
  <2>4. \/ /\ at'[m.r].stage = "review" /\ \A s \in Requests \ {m.r} : at'[s] = at[s]
           /\ gated' = gated \ {m.r} /\ at' \in [Requests -> [stage : Stages, doc : Nat]]
        \/ UNCHANGED at /\ gated' = gated \cup {m.r}
    BY <1>2, <2>1, <2>2, <2>3, AtTypes
  <2>5. Rest
    BY <1>1, <1>3, <2>1, <2>2, <2>4, Advances
  <2>6. at' \in [Requests -> [stage : Stages, doc : Nat]] /\ gated' \in SUBSET Requests
    BY <1>2, <2>2, <2>4 DEF TypeOK
  <2> QED BY <1>2, <2>1, <2>5, <2>6 DEF TypeOK
<1>9. ASSUME m.type = "cancel", OnCancel(m) PROVE Rest /\ Types
  <2>1. CASE m.r \in gated \/ (port /\ at[m.r] = [stage |-> "review", doc |-> doc])
    <3> DEFINE st == IF at[m.r].stage = "review" THEN "gone" ELSE at[m.r].stage
    <3>1. /\ gated' = gated \ {m.r} /\ UNCHANGED <<port, running>>
          /\ at' = [at EXCEPT ![m.r].stage = st]
          /\ Says(FromPopup("reply", 0, m.r, "not-submitted"))
      BY <1>9, <2>1 DEF OnCancel
    <3>2. m.r \in Requests
      BY <1>4, <1>9
    <3>3. at[m.r].stage \in Stages /\ st \in Stages
      BY <1>2, <3>2, AtTypes DEF Stages
    <3>4. st \in {"none", "gone"}
      BY <1>2, <2>1, <3>2 DEF Places
    <3>5. /\ at' \in [Requests -> [stage : Stages, doc : Nat]] /\ at'[m.r].stage = st
          /\ \A s \in Requests \ {m.r} : at'[s] = at[s]
      <4> HIDE DEF st
      <4> QED BY <1>2, <3>1, <3>2, <3>3, AtTypes
    <3>6. \A r \in Requests : at'[r].stage = at[r].stage \/ (at[r].stage = "review" /\ at'[r].stage = "gone")
      BY <3>2, <3>5
    <3>7. ~Posted(m.r)
      <4>1. at[m.r].stage = "review" => ~Posted(m.r)
        BY <1>2, <3>2 DEF Places
      <4>2. m.r \in gated => ~Posted(m.r)
        BY <1>2, <3>2 DEF Places
      <4>3. m.r \in gated \/ at[m.r].stage = "review"
        BY <2>1
      <4> QED BY <4>1, <4>2, <4>3
    <3>8. Dead(m.r)'
      BY <1>3, <3>1, <3>4, <3>5, <3>7 DEF Dead, Posted
    <3>9. req[m.r] \notin {"new", "queued"}
      <4>1. m.r \in gated \/ at[m.r].stage = "review"
        BY <2>1
      <4> QED BY <1>2, <3>2, <4>1 DEF Places
    <3>10. PICK n : n = FromPopup("reply", 0, m.r, "not-submitted") /\ Says(n)
      BY <3>1
    <3>11. n \in FromMsgs /\ n.r = m.r /\ n.answer = "not-submitted"
      BY <1>2, <3>2, <3>10, MessageTypes DEF FromPopup, Answers
    <3>12. toDapp' \in Seq(FromMsgs) /\ ToSet(toDapp') = ToSet(toDapp) \cup {n}
      BY <1>2, <3>10, <3>11, SaysFacts
    <3>13. Rest
      BY <1>6, <3>1, <3>2, <3>6, <3>8, <3>9, <3>11, <3>12
    <3> QED BY <1>2, <3>1, <3>5, <3>12, <3>13 DEF TypeOK
  <2>2. CASE ~(m.r \in gated \/ (port /\ at[m.r] = [stage |-> "review", doc |-> doc]))
    BY <1>7, <1>9, <2>2 DEF OnCancel, wallet
  <2> QED BY <2>1, <2>2
<1>10. ASSUME OnHello(m) PROVE Rest /\ Types
  <2>1. UNCHANGED <<port, gated, at, running>> /\ Says(FromPopup("ready", doc, None, ""))
    BY <1>10 DEF OnHello, wallet
  <2>2. PICK n : n = FromPopup("ready", doc, None, "") /\ Says(n)
    BY <2>1
  <2>3. n \in FromMsgs /\ n.type = "ready"
    BY <1>2, <2>2, MessageTypes DEF FromPopup, TypeOK
  <2>4. toDapp' \in Seq(FromMsgs) /\ ToSet(toDapp') = ToSet(toDapp) \cup {n}
    BY <1>2, <2>2, <2>3, SaysFacts
  <2>5. Rest
    BY <1>6, <2>1, <2>3, <2>4
  <2> QED BY <1>2, <2>1, <2>4, <2>5 DEF TypeOK
<1>11. ASSUME OnStop(m) PROVE Rest /\ Types
  <2>1. CASE port /\ running = doc /\ m.doc = doc
    <3>1. running' = 0 /\ Says(FromPopup("event", 0, None, "")) /\ UNCHANGED <<port, gated, at>>
      BY <1>11, <2>1 DEF OnStop
    <3>2. PICK n : n = FromPopup("event", 0, None, "") /\ Says(n)
      BY <3>1
    <3>3. n \in FromMsgs /\ n.type = "event"
      BY <1>2, <3>2, MessageTypes DEF FromPopup
    <3>4. toDapp' \in Seq(FromMsgs) /\ ToSet(toDapp') = ToSet(toDapp) \cup {n}
      BY <1>2, <3>2, <3>3, SaysFacts
    <3>5. Rest
      BY <1>6, <3>1, <3>3, <3>4
    <3> QED BY <1>2, <3>1, <3>4, <3>5 DEF TypeOK
  <2>2. CASE ~(port /\ running = doc /\ m.doc = doc)
    BY <1>7, <1>11, <2>2 DEF OnStop, wallet
  <2> QED BY <2>1, <2>2
<1>12. Rest /\ Types
  <2>1. CASE doc = 0
    BY <1>1, <1>7, <2>1 DEF wallet
  <2>2. CASE doc # 0
    BY <1>1, <1>8, <1>9, <1>10, <1>11, <2>2
  <2> QED BY <2>1, <2>2
<1>13. TypeOK'
  BY <1>1, <1>2, <1>3, <1>12 DEF TypeOK
<1> QED BY <1>12, <1>13 DEF ChannelInv


\* The build check lets a write go on, or refuses it.
LEMMA GateOpensKeeps ==
  ASSUME ChannelInv, NEW r \in Requests, GateOpens(r) PROVE ChannelInv' /\ Moves
<1>1. /\ r \in gated /\ gated' = gated \ {r}
      /\ \/ at' = [at EXCEPT ![r] = [stage |-> "review", doc |-> doc]] /\ UNCHANGED toDapp
         \/ Says(FromPopup("reply", 0, r, "not-submitted")) /\ UNCHANGED at
      /\ UNCHANGED <<req, queue, popup, ready, known, session, announced, win, doc, port, running, toPopup, count>>
  BY DEF GateOpens, ToWallet, page
<1>2. TypeOK /\ Places /\ OnceEach
  BY DEF ChannelInv
<1>3. ~Posted(r) /\ at[r].stage = "none" /\ req[r] \notin {"new", "queued"}
  BY <1>1, <1>2 DEF Places
<1>4. OnceEach' /\ ~Posted(r)'
  BY <1>1, <1>2, <1>3 DEF OnceEach, Posted
<1>5. CASE at' = [at EXCEPT ![r] = [stage |-> "review", doc |-> doc]] /\ UNCHANGED toDapp
  <2>1. /\ at'[r].stage = "review" /\ \A s \in Requests \ {r} : at'[s] = at[s]
        /\ at' \in [Requests -> [stage : Stages, doc : Nat]]
    BY <1>2, <1>5, AtTypes
  <2>2. Queued' /\ Places' /\ OnceEach' /\ Honest' /\ Moves
    BY <1>1, <1>4, <1>5, <2>1, Advances
  <2>3. TypeOK'
    BY <1>1, <1>2, <1>5, <2>1 DEF TypeOK
  <2> QED BY <2>2, <2>3 DEF ChannelInv
<1>6. CASE Says(FromPopup("reply", 0, r, "not-submitted")) /\ UNCHANGED at
  <2>1. PICK n : n = FromPopup("reply", 0, r, "not-submitted") /\ Says(n)
    BY <1>6
  <2>2. n \in FromMsgs /\ n.r = r /\ n.answer = "not-submitted"
    BY <1>2, <2>1, MessageTypes DEF FromPopup, Answers
  <2>3. toDapp' \in Seq(FromMsgs) /\ ToSet(toDapp') = ToSet(toDapp) \cup {n}
    BY <1>2, <2>1, <2>2, SaysFacts
  <2>4. Dead(r)'
    BY <1>1, <1>3, <1>4, <1>6 DEF Dead
  <2>5. Queued' /\ Places' /\ OnceEach' /\ Honest' /\ Moves
    BY <1>1, <1>3, <1>6, <2>2, <2>3, <2>4, Quiet
  <2>6. TypeOK'
    BY <1>1, <1>2, <1>6, <2>3 DEF TypeOK
  <2> QED BY <2>5, <2>6 DEF ChannelInv
<1> QED BY <1>1, <1>5, <1>6

\* The wallet closes the channel of the document.
LEMMA ResetKeeps ==
  ASSUME ChannelInv, Reset PROVE ChannelInv' /\ Moves
<1>1. /\ PortCloses /\ count' = [count EXCEPT !.resets = @ + 1] /\ Says(FromPopup("reset", 0, None, ""))
      /\ UNCHANGED <<req, queue, popup, ready, known, session, announced, win, doc, toPopup>>
  BY DEF Reset, page
<1>2. port' = FALSE /\ gated' = {} /\ at' = Dropped(doc) /\ running' = IF running = doc THEN 0 ELSE running
  BY <1>1 DEF PortCloses
<1>3. TypeOK
  BY DEF ChannelInv
<1>4. PICK m : m = FromPopup("reset", 0, None, "") /\ m.type = "reset" /\ Says(m)
  BY <1>1 DEF FromPopup
<1>5. m \in FromMsgs
  BY <1>3, <1>4, MessageTypes
<1>6. toDapp' \in Seq(FromMsgs) /\ ToSet(toDapp') = ToSet(toDapp) \cup {m}
  BY <1>3, <1>4, <1>5, SaysFacts
<1>7. /\ at' \in [Requests -> [stage : Stages, doc : Nat]]
      /\ \A r \in Requests : at'[r].stage = at[r].stage \/ (at[r].stage = "review" /\ at'[r].stage = "gone")
  BY <1>2, <1>3, DroppedFacts
<1>8. Queued' /\ Places' /\ OnceEach' /\ Honest' /\ Moves
  BY <1>1, <1>2, <1>4, <1>6, <1>7, Dropping
<1>9. count' \in [wins : Nat, docs : Nat, leaves : Nat, resets : Nat] /\ running' \in Nat
  BY <1>1, <1>2, <1>3, CountTypes DEF TypeOK
<1>10. TypeOK'
  BY <1>1, <1>2, <1>3, <1>6, <1>7, <1>9 DEF TypeOK
<1> QED BY <1>8, <1>10 DEF ChannelInv

\* The wallet carries out what it reviewed: nothing was said against it.
LEMMA CarryOutKeeps ==
  ASSUME ChannelInv, NEW r \in Requests, CarryOut(r)
  PROVE  /\ ChannelInv' /\ UNCHANGED req
         /\ r \notin Carried /\ Carried' = Carried \cup {r} /\ req[r] \in {"forwarded", "unknown"}
<1>1. /\ at[r].stage = "review"
      /\ UNCHANGED <<req, queue, popup, ready, known, session, announced, win, doc, port, gated, toPopup, count>>
  BY DEF CarryOut, page, window
<1>2. TypeOK /\ Queued /\ Places /\ OnceEach /\ Honest
  BY DEF ChannelInv
<1>3. /\ at' \in [Requests -> [stage : Stages, doc : Nat]]
      /\ at'[r].stage \in {"done", "told"} /\ \A s \in Requests \ {r} : at'[s] = at[s]
  <2>1. at' = [at EXCEPT ![r].stage = "told"] \/ at' = [at EXCEPT ![r].stage = "done"]
    BY DEF CarryOut
  <2>2. "told" \in Stages /\ "done" \in Stages
    BY DEF Stages
  <2> QED BY <1>2, <2>1, <2>2, AtTypes
<1>4. r \notin Carried /\ Carried' = Carried \cup {r}
  BY <1>1, <1>3 DEF Carried
<1>5. req[r] \in {"forwarded", "unknown"}
  <2>1. req[r] \notin {"new", "queued"}
    BY <1>1, <1>2 DEF Places
  <2>2. ~Dead(r)
    BY <1>1 DEF Dead
  <2>3. Warrants(r, req[r])
    BY <1>2 DEF Honest
  <2>4. req[r] \in {"new", "queued", "forwarded", "ok", "not-submitted", "unknown"}
    BY <1>2 DEF TypeOK, Answers
  <2> QED BY <1>4, <2>1, <2>2, <2>3, <2>4 DEF Warrants
<1>6. \A s \in Requests : Dead(s) => Dead(s)'
  BY <1>1, <1>3 DEF Dead, Posted
<1>7. Queued' /\ OnceEach'
  BY <1>1, <1>2 DEF Queued, OnceEach
<1>8. Places'
  <2>1. r \notin gated /\ ~Posted(r)
    BY <1>1, <1>2 DEF Places
  <2> QED BY <1>1, <1>2, <1>3, <1>5, <2>1 DEF Places, Posted
<1>9. /\ toDapp' \in Seq(FromMsgs) /\ running' \in Nat
      /\ \A m \in ToSet(toDapp') : m \in ToSet(toDapp) \/ (m.type = "reply" => m.r = r /\ m.answer = "ok")
  <2>1. CASE UNCHANGED <<running, toDapp>>
    BY <1>2, <2>1 DEF TypeOK
  <2>2. CASE Kind[r] = "session"
    <3>1. /\ running' = at[r].doc
          /\ toDapp' = IF Hears(at[r].doc)
                       THEN toDapp \o <<FromPopup("reply", doc, r, "ok"), FromPopup("event", doc, None, "")>>
                       ELSE toDapp
      BY <2>2 DEF CarryOut
    <3>2. running' \in Nat
      BY <1>2, <3>1, AtTypes
    <3>3. PICK m, n : m = FromPopup("reply", doc, r, "ok") /\ n = FromPopup("event", doc, None, "")
      OBVIOUS
    <3>4. /\ m \in FromMsgs /\ n \in FromMsgs
          /\ m.r = r /\ m.answer = "ok" /\ n.type = "event"
      <4>1. m \in FromMsgs /\ n \in FromMsgs
        BY <1>2, <3>3, MessageTypes DEF TypeOK, Answers
      <4> QED BY <3>3, <4>1 DEF FromPopup
    <3>5. toDapp \in Seq(FromMsgs)
      BY <1>2 DEF TypeOK
    <3>6. toDapp \o <<m, n>> = Append(Append(toDapp, m), n) /\ Append(toDapp, m) \in Seq(FromMsgs)
      BY <3>4, <3>5
    <3>7. Append(Append(toDapp, m), n) \in Seq(FromMsgs)
          /\ ToSet(Append(Append(toDapp, m), n)) = ToSet(toDapp) \cup {m} \cup {n}
      <4>1. ToSet(Append(toDapp, m)) = ToSet(toDapp) \cup {m}
        BY <3>4, <3>5, AppendSet
      <4>2. ASSUME NEW s \in Seq(FromMsgs), s = Append(toDapp, m)
            PROVE  Append(s, n) \in Seq(FromMsgs) /\ ToSet(Append(s, n)) = ToSet(s) \cup {n}
        BY <3>4, AppendSet, AppendFacts
      <4> QED BY <3>6, <4>1, <4>2
    <3>8. toDapp' = toDapp \/ toDapp' = Append(Append(toDapp, m), n)
      BY <3>1, <3>3, <3>6
    <3> QED BY <3>2, <3>4, <3>5, <3>7, <3>8
  <2> QED BY <2>1, <2>2 DEF CarryOut
<1>10. Honest'
  <2>1. Carried \subseteq Carried' /\ r \in Carried'
    BY <1>4
  <2>2. \A m \in ToSet(toDapp') :
          \/ m \in ToSet(toDapp)
          \/ m.type = "reply" =>
               /\ req'[m.r] \notin {"new", "queued"}
               /\ (m.answer = "not-submitted" => Dead(m.r)') /\ (m.answer = "ok" => m.r \in Carried')
    BY <1>1, <1>5, <1>9, <2>1
  <2>3. /\ \A s \in Requests : req[s] \notin {"new", "queued"} =>
             req'[s] \notin {"new", "queued"} /\ (Dead(s) => Dead(s)')
        /\ \A s \in Requests : req'[s] = req[s]
    BY <1>1, <1>6
  <2> QED BY <1>2, <2>1, <2>2, <2>3, HonestKeeps
<1>11. TypeOK'
  BY <1>1, <1>2, <1>3, <1>9 DEF TypeOK
<1> QED BY <1>1, <1>4, <1>5, <1>7, <1>8, <1>10, <1>11 DEF ChannelInv

\* The wallet tells the document that asked what became of the request.
LEMMA TellKeeps ==
  ASSUME ChannelInv, NEW r \in Requests, Tell(r) \/ Refuse(r) PROVE ChannelInv' /\ Moves
<1>1. UNCHANGED <<req, queue, popup, ready, known, session, announced, win, doc, port, gated, running, toPopup, count>>
  BY DEF Tell, Refuse, page, window
<1>2. TypeOK /\ Places
  BY DEF ChannelInv
<1>3. PICK a \in Answers :
        /\ \/ at[r].stage = "done" /\ at' = [at EXCEPT ![r].stage = "told"] /\ a # "not-submitted"
           \/ at[r].stage = "review" /\ at' = [at EXCEPT ![r].stage = "gone"] /\ a = "not-submitted"
        /\ toDapp' = toDapp \/ Says(FromPopup("reply", 0, r, a))
  <2>1. CASE Tell(r)
    BY <2>1 DEF Tell, Answers
  <2>2. CASE Refuse(r)
    BY <2>2 DEF Refuse, Answers
  <2> QED BY <2>1, <2>2
<1>4. /\ at' \in [Requests -> [stage : Stages, doc : Nat]] /\ \A s \in Requests \ {r} : at'[s] = at[s]
      /\ \/ at[r].stage = "done" /\ at'[r].stage = "told" /\ a # "not-submitted"
         \/ at[r].stage = "review" /\ at'[r].stage = "gone" /\ a = "not-submitted"
  <2>1. "told" \in Stages /\ "gone" \in Stages
    BY DEF Stages
  <2> QED BY <1>2, <1>3, <2>1, AtTypes
<1>5. ~Posted(r) /\ r \notin gated /\ req[r] \notin {"new", "queued"}
  BY <1>2, <1>4 DEF Places
<1>6. (a = "not-submitted" => Dead(r)') /\ (a = "ok" => r \in Carried)
  BY <1>1, <1>4, <1>5 DEF Dead, Posted, Carried
<1>7. PICK n : n = FromPopup("reply", 0, r, a)
  OBVIOUS
<1>8. n \in FromMsgs /\ n.r = r /\ n.answer = a
  BY <1>2, <1>7, MessageTypes DEF FromPopup
<1>9. toDapp' \in Seq(FromMsgs) /\ ToSet(toDapp') \subseteq ToSet(toDapp) \cup {n}
  <2>1. CASE toDapp' = toDapp
    BY <1>2, <2>1 DEF TypeOK
  <2>2. CASE Says(n)
    BY <1>2, <1>8, <2>2, SaysFacts
  <2> QED BY <1>3, <1>7, <2>1, <2>2
<1>10. Queued' /\ Places' /\ OnceEach' /\ Honest' /\ Moves
  <2>1. \A s \in Requests :
          \/ at'[s].stage = at[s].stage
          \/ at[s].stage = "review" /\ at'[s].stage = "gone"
          \/ at[s].stage = "done" /\ at'[s].stage = "told"
    BY <1>4
  <2>2. \A m \in ToSet(toDapp') :
          \/ m \in ToSet(toDapp)
          \/ m.type = "reply" =>
               /\ m.r \in Requests /\ req[m.r] \notin {"new", "queued"}
               /\ (m.answer = "not-submitted" => Dead(m.r)') /\ (m.answer = "ok" => m.r \in Carried)
    <3> SUFFICES ASSUME NEW m \in ToSet(toDapp'), m \notin ToSet(toDapp)
                 PROVE  /\ m.r \in Requests /\ req[m.r] \notin {"new", "queued"}
                        /\ (m.answer = "not-submitted" => Dead(m.r)') /\ (m.answer = "ok" => m.r \in Carried)
      OBVIOUS
    <3>1. m.r = r /\ m.answer = a
      BY <1>8, <1>9
    <3> QED BY <1>5, <1>6, <3>1
  <2> QED BY <1>1, <2>1, <2>2, Quiet
<1>11. TypeOK'
  BY <1>1, <1>2, <1>4, <1>9 DEF TypeOK
<1> QED BY <1>10, <1>11 DEF ChannelInv

\* A mint session ends, and its page is told.
LEMMA SessionEndsKeeps ==
  ASSUME ChannelInv, SessionEnds PROVE ChannelInv' /\ Moves
<1>1. /\ running' = 0
      /\ UNCHANGED <<req, queue, popup, ready, known, session, announced, win, doc, port, gated, at, toPopup, count>>
  BY DEF SessionEnds, page, window
<1>2. TypeOK
  BY DEF ChannelInv
<1>3. PICK n : n = FromPopup("event", 0, None, "")
  OBVIOUS
<1>4. n \in FromMsgs /\ n.type = "event"
  BY <1>2, <1>3, MessageTypes DEF FromPopup
<1>5. toDapp' \in Seq(FromMsgs) /\ ToSet(toDapp') \subseteq ToSet(toDapp) \cup {n}
  <2>1. CASE toDapp' = toDapp
    BY <1>2, <2>1 DEF TypeOK
  <2>2. CASE Says(n)
    BY <1>2, <1>4, <2>2, SaysFacts
  <2> QED BY <1>3, <2>1, <2>2 DEF SessionEnds
<1>6. Queued' /\ Places' /\ OnceEach' /\ Honest' /\ Moves
  BY <1>1, <1>4, <1>5, Quiet
<1>7. TypeOK'
  BY <1>1, <1>2, <1>5 DEF TypeOK
<1> QED BY <1>6, <1>7 DEF ChannelInv

-----------------------------------------------------------------------------
(* The theorems *)

\* What the channel promises of request r, as OneShotRequests sees it.
Ans == [r \in Requests |-> CASE req[r] = "new" -> "none" [] r \in Outstanding -> "open"
                             [] OTHER -> req[r]]

\* The abstract answer by the request's state.
LEMMA AnsFacts ==
  ASSUME NEW r \in Requests
  PROVE  /\ req[r] = "new" => Ans[r] = "none"
         /\ req[r] \in {"queued", "forwarded"} => Ans[r] = "open"
         /\ req[r] \in Answers => Ans[r] = req[r]
BY DEF Ans, Outstanding, Answers

\* The same after a step.
LEMMA AnsNext ==
  ASSUME NEW r \in Requests
  PROVE  /\ req'[r] = "new" => Ans'[r] = "none"
         /\ req'[r] \in {"queued", "forwarded"} => Ans'[r] = "open"
         /\ req'[r] \in Answers => Ans'[r] = req'[r]
BY DEF Ans, Outstanding, Answers

\* A step in which requests only settle answers the abstract ones, truthfully.
LEMMA AnswerStep ==
  ASSUME ChannelInv, ChannelInv', Moves
  PROVE  \E told \in SUBSET Requests : Channel!Answer(told)
<1>0. PICK told \in SUBSET Requests :
        told = {r \in Requests : req'[r] # req[r] /\ req'[r] \in Answers}
  OBVIOUS
<1> DEFINE a == [r \in told |-> req'[r]]
<1>1. \A r \in told : Ans[r] \in {"none", "open"} /\ a[r] \in Answers
  BY <1>0, AnsFacts DEF Moves, Answers
<1>2. a \in [told -> Channel!Answers]
  BY <1>1 DEF Channel!Answers, Answers
<1>3. ASSUME NEW r \in told
      PROVE  (a[r] = "ok" => r \in Carried) /\ (a[r] = "not-submitted" => r \notin Carried)
  <2>1. Warrants(r, req[r])'
    BY <1>0 DEF ChannelInv, Honest
  <2>2. Carried' = Carried
    BY DEF Moves
  <2>3. Dead(r)' => r \notin Carried'
    BY DEF Dead, Carried
  <2>4. r \in Requests /\ a[r] = req'[r]
    BY <1>0
  <2> QED BY <2>1, <2>2, <2>3, <2>4 DEF Warrants
<1>4. Ans' = [r \in Requests |-> IF r \in told THEN a[r] ELSE Ans[r]]
  <2>1. Ans' = [r \in Requests |-> Ans'[r]]
    BY DEF Ans
  <2>2. ASSUME NEW r \in Requests PROVE Ans'[r] = IF r \in told THEN a[r] ELSE Ans[r]
    <3>1. CASE r \in told
      BY <1>0, <3>1, AnsNext
    <3>2. CASE r \notin told
      <4>1. \/ req'[r] = req[r]
            \/ req[r] \in {"queued", "forwarded"} /\ req'[r] \in {"queued", "forwarded"}
        BY <1>0, <3>2 DEF Moves
      <4>2. req[r] \in {"new", "queued", "forwarded"} \cup Answers
        BY DEF ChannelInv, TypeOK
      <4> QED BY <3>2, <4>1, <4>2, AnsFacts, AnsNext
    <3> QED BY <3>1, <3>2
  <2> HIDE DEF a
  <2> QED BY <2>1, <2>2
<1>5. UNCHANGED Carried
  BY DEF Moves
<1> HIDE DEF a
<1>6. \E b \in [told -> Channel!Answers] :
        /\ \A r \in told : (b[r] = "ok" => r \in Carried) /\ (b[r] = "not-submitted" => r \notin Carried)
        /\ Ans' = [r \in Requests |-> IF r \in told THEN b[r] ELSE Ans[r]]
  BY <1>2, <1>3, <1>4
<1>7. Channel!Answer(told)
  BY <1>1, <1>5, <1>6 DEF Channel!Answer, Ans
<1> QED BY <1>7

\* Asking opens the abstract request.
LEMMA AskStep ==
  ASSUME ChannelInv, NEW r \in Requests, Ask(r) PROVE ChannelInv' /\ Channel!Ask(r)
<1>1. /\ ChannelInv' /\ Carried' = Carried /\ req[r] = "new"
      /\ req' \in [Requests -> ReqStates] /\ req'[r] \in {"queued", "forwarded"}
      /\ \A s \in Requests \ {r} : req'[s] = req[s] \/ (req[s] = "queued" /\ req'[s] = "forwarded")
  BY AskKeeps
<1>2. Ans[r] = "none" /\ Ans'[r] = "open"
  BY <1>1, AnsFacts, AnsNext
<1>3. \A s \in Requests \ {r} : Ans'[s] = Ans[s]
  <2> SUFFICES ASSUME NEW s \in Requests \ {r} PROVE Ans'[s] = Ans[s]
    OBVIOUS
  <2>1. req[s] \in {"new", "queued", "forwarded"} \cup Answers
    BY DEF ChannelInv, TypeOK
  <2> QED BY <1>1, <2>1, AnsFacts, AnsNext
<1>4. Ans' = [r_1 \in Requests |-> Ans'[r_1]] /\ Ans = [r_1 \in Requests |-> Ans[r_1]]
  BY DEF Ans
<1>5. Ans' = [Ans EXCEPT ![r] = "open"]
  <2> HIDE DEF Ans
  <2> QED BY <1>2, <1>3, <1>4
<1> QED BY <1>1, <1>2, <1>5 DEF Channel!Ask, Ans

\* The wallet only does what was not denied.
LEMMA CarryOutStep ==
  ASSUME ChannelInv, NEW r \in Requests, CarryOut(r) PROVE ChannelInv' /\ Channel!CarryOut(r)
<1>1. /\ ChannelInv' /\ UNCHANGED req
      /\ r \notin Carried /\ Carried' = Carried \cup {r} /\ req[r] \in {"forwarded", "unknown"}
  BY CarryOutKeeps
<1>2. Ans[r] \in {"open", "unknown"}
  BY <1>1, AnsFacts DEF Answers
<1>3. Ans' = Ans
  BY <1>1 DEF Ans, Outstanding
<1> QED BY <1>1, <1>2, <1>3 DEF Channel!CarryOut, Ans

\* Every other step answers, or stutters.
LEMMA OtherSteps ==
  ASSUME ChannelInv, [Next]_vars,
         ~\E r \in Requests : Ask(r) \/ CarryOut(r)
  PROVE  ChannelInv' /\ Moves
<1>1. ASSUME NEW r \in Requests, Blocked(r) \/ Stop(r) \/ GateOpens(r) \/ Tell(r) \/ Refuse(r)
      PROVE  ChannelInv' /\ Moves
  BY <1>1, BlockedKeeps, StopKeeps, GateOpensKeeps, TellKeeps
<1>2. CASE Poll \/ PageLeaves \/ PageReads \/ ReadyDeadline
  BY <1>2, PollKeeps, PageLeavesKeeps, PageReadsKeeps, ReadyDeadlineKeeps
<1>3. CASE Load \/ Leaves \/ Crash \/ HostGone \/ PopupReads \/ Reset \/ SessionEnds
  BY <1>3, LoadKeeps, LeavesKeeps, CrashKeeps, HostGoneKeeps, PopupReadsKeeps, ResetKeeps, SessionEndsKeeps
<1>4. CASE UNCHANGED vars
  <2>1. UNCHANGED <<req, queue, popup, ready, known, session, announced, win, doc, port, gated, at,
                    running, toPopup, toDapp, count>>
    BY <1>4 DEF vars, page, window, wallet
  <2>2. ChannelInv'
    BY <2>1 DEF ChannelInv, TypeOK, Queued, Places, Posted, OnceEach, Honest, Warrants, Dead, Carried
  <2> QED BY <2>1, <2>2 DEF Moves, Carried
<1> QED BY <1>1, <1>2, <1>3, <1>4 DEF Next

\* Nobody asked anything yet.
LEMMA ChannelInit ==
  ASSUME Init PROVE ChannelInv /\ Channel!Init
<1>1. TypeOK
  <2>1. [r \in Requests |-> "new"] \in [Requests -> {"new", "queued", "forwarded"} \cup Answers]
    OBVIOUS
  <2>2. [stage |-> "none", doc |-> 0] \in [stage : Stages, doc : Nat]
    BY DEF Stages
  <2>3. [r \in Requests |-> [stage |-> "none", doc |-> 0]] \in [Requests -> [stage : Stages, doc : Nat]]
    BY <2>2
  <2>4. [wins |-> 0, docs |-> 0, leaves |-> 0, resets |-> 0] \in [wins : Nat, docs : Nat, leaves : Nat, resets : Nat]
    OBVIOUS
  <2>5. <<>> \in Seq(Requests) /\ <<>> \in Seq(ToMsgs) /\ <<>> \in Seq(FromMsgs)
    OBVIOUS
  <2> QED BY <2>1, <2>3, <2>4, <2>5 DEF Init, TypeOK
<1>2. Queued /\ OnceEach /\ ToSet(toPopup) = {} /\ ToSet(toDapp) = {}
  BY DEF Init, Queued, OnceEach, ToSet
<1>3. Places /\ Honest
  BY <1>2 DEF Init, Places, Honest, Warrants, Posted
<1>4. Channel!Init
  <2>1. \A r \in Requests : req[r] = "new" /\ at[r].stage = "none"
    BY DEF Init
  <2>2. Ans = [r \in Requests |-> "none"]
    <3>1. Ans = [r \in Requests |-> Ans[r]] /\ \A r \in Requests : Ans[r] = "none"
      BY <2>1, AnsFacts DEF Ans
    <3> HIDE DEF Ans
    <3> QED BY <3>1
  <2>3. Carried = {}
    BY <2>1 DEF Carried
  <2> QED BY <2>2, <2>3 DEF Channel!Init, Ans
<1> QED BY <1>1, <1>2, <1>3, <1>4 DEF ChannelInv

\* Each step keeps the invariant and maps to a step of the abstract requests, or to none.
LEMMA ChannelStep ==
  ASSUME ChannelInv, [Next]_vars
  PROVE  ChannelInv' /\ Channel!Next
<1>1. CASE \E r \in Requests : Ask(r) \/ CarryOut(r)
  BY <1>1, AskStep, CarryOutStep DEF Channel!Next
<1>2. CASE ~\E r \in Requests : Ask(r) \/ CarryOut(r)
  BY <1>2, OtherSteps, AnswerStep DEF Channel!Next
<1> QED BY <1>1, <1>2

\* The types, and where each request is.
THEOREM ChannelTheorem == Spec => []ChannelInv
<1>1. Init => ChannelInv
  BY ChannelInit
<1>2. ChannelInv /\ [Next]_vars => ChannelInv'
  BY ChannelStep
<1> QED BY <1>1, <1>2, PTL DEF Spec

\* For any windows, documents, reloads, crashes, resets and late messages the channel implements
\* one-shot requests: what a WriteOutcome says is so (lost, sdk.ts).
THEOREM OutcomesTheorem == Spec => OutcomesAreTrue
<1>1. Init => Channel!Init
  BY ChannelInit
<1>2. ChannelInv /\ [Next]_vars => Channel!Next
  BY ChannelStep
<1> QED BY <1>1, <1>2, ChannelTheorem, PTL DEF Spec, OutcomesAreTrue, Channel!Spec

-----------------------------------------------------------------------------
(* The session that is shown: whom the page hears *)

\* Message i announces document d of window w.
ReadyOf(i, d, w) == toDapp[i].type = "ready" /\ toDapp[i].doc = d /\ toDapp[i].from = w

\* A window that is gone holds no document, and a page without popup waits for nothing.
Windows ==
  /\ (win = 0 => doc = 0) /\ (doc = 0 => ~port) /\ (gated # {} => port)
  /\ popup = 0 \/ win = 0 \/ popup = win
  /\ popup = 0 /\ win # 0 => Forwarded = {} /\ session = 0
  /\ win <= count.wins /\ doc <= count.docs /\ session <= count.docs

\* The messages of the open document come after those of any older one, from its announcement on.
Stamped ==
  \A i \in DOMAIN toDapp :
    /\ toDapp[i].from \in 1..count.wins /\ toDapp[i].doc <= count.docs
    /\ toDapp[i].type \in {"ready", "leave"} => toDapp[i].doc # 0
    /\ doc # 0 /\ toDapp[i].doc # 0 =>
         IF toDapp[i].doc = doc THEN toDapp[i].from = win /\ toDapp[i].type # "leave"
         ELSE \E k \in DOMAIN toDapp : k > i /\ ReadyOf(k, doc, win)

\* The documents speak in turn: each announces itself after the last word of the one before.
InTurn ==
  \A i, j \in DOMAIN toDapp :
    i < j /\ toDapp[i].doc # 0 /\ toDapp[j].doc # 0 =>
      IF toDapp[i].doc = toDapp[j].doc THEN toDapp[i].type # "leave"
      ELSE \E k \in DOMAIN toDapp : i < k /\ k <= j /\ ReadyOf(k, toDapp[j].doc, toDapp[j].from)

\* A session's start is told by the reply and then by its event.
Followed ==
  \A i \in DOMAIN toDapp :
    toDapp[i].type = "reply" /\ toDapp[i].doc # 0 =>
      i + 1 \in DOMAIN toDapp /\ toDapp[i + 1].type = "event" /\ toDapp[i + 1].from = toDapp[i].from

\* The document last heard from window w is v: any other announces itself before it says more.
Heard(v, w) ==
  /\ \A j \in DOMAIN toDapp :
       toDapp[j].doc # 0 /\ toDapp[j].from = w /\ toDapp[j].doc # v =>
         \E i \in DOMAIN toDapp : i <= j /\ ReadyOf(i, toDapp[j].doc, w)
  /\ doc # 0 /\ win = w /\ doc # v => \E i \in DOMAIN toDapp : ReadyOf(i, doc, w)

\* Whom the page takes itself to be talking to.
Views ==
  /\ announced # 0 => Heard(announced, win)
  /\ popup # 0 /\ ready => Heard(known, popup)
  /\ popup # 0 /\ ~ready /\ Forwarded # {} => Heard(0, popup)

\* The session is the known document's, or one of a window that is gone.
Bound == session # 0 => (ready /\ session = known) \/ (~ready /\ known = 0 /\ session # doc)

\* The last word about sessions from the open document, or none, is so.
Tells(i) == toDapp[i].from = win /\ toDapp[i].type \in {"event", "reset"}
Runs == running = doc /\ port
Told ==
  doc # 0 =>
    /\ \A k \in DOMAIN toDapp :
         Tells(k) /\ toDapp[k].doc = doc /\ (\A j \in DOMAIN toDapp : j > k => ~Tells(j)) => Runs
    /\ session = doc /\ popup = win /\ (\A k \in DOMAIN toDapp : ~Tells(k)) => Runs

SessionInv == Windows /\ Stamped /\ InTurn /\ Followed /\ Views /\ Bound /\ Told

\* What a step adds to the messages for the page.
Added == DOMAIN toDapp' \ DOMAIN toDapp
Grows ==
  /\ \A i \in DOMAIN toDapp : i \in DOMAIN toDapp' /\ toDapp'[i] = toDapp[i]
  /\ \A i \in DOMAIN toDapp, j \in Added : i < j

\* Heard after a step.
HeardNext(v, w) ==
  /\ \A j \in DOMAIN toDapp' :
       toDapp'[j].doc # 0 /\ toDapp'[j].from = w /\ toDapp'[j].doc # v =>
         \E i \in DOMAIN toDapp' :
           i <= j /\ toDapp'[i].type = "ready" /\ toDapp'[i].doc = toDapp'[j].doc /\ toDapp'[i].from = w
  /\ doc' # 0 /\ win' = w /\ doc' # v =>
       \E i \in DOMAIN toDapp' :
         toDapp'[i].type = "ready" /\ toDapp'[i].doc = doc' /\ toDapp'[i].from = w

\* The page's views after a step.
LEMMA ViewsNext ==
  ASSUME announced' # 0 => HeardNext(announced', win'),
         popup' # 0 /\ ready' => HeardNext(known', popup'),
         popup' # 0 /\ ~ready' /\ Forwarded' # {} => HeardNext(0, popup')
  PROVE  Views'
BY DEF Views, Heard, HeardNext, ReadyOf

\* Places are numbers, and messages have their fields.
LEMMA Places1 ==
  ASSUME TypeOK
  PROVE  \A i \in DOMAIN toDapp :
           /\ i \in Nat /\ i >= 1 /\ toDapp[i] \in FromMsgs
           /\ toDapp[i].from \in Nat /\ toDapp[i].doc \in Nat
           /\ toDapp[i].type \in {"reply", "ready", "leave", "reset", "event"}
<1>1. toDapp \in Seq(FromMsgs)
  BY DEF TypeOK
<1>2. \A i \in DOMAIN toDapp : i \in Nat /\ i >= 1 /\ toDapp[i] \in FromMsgs
  BY <1>1
<1> QED BY <1>2, MessageFields

\* One more message, or two.
LEMMA GrowsOne ==
  ASSUME TypeOK, NEW n \in FromMsgs, Says(n)
  PROVE  /\ Grows /\ (\A j \in Added : toDapp'[j] = n) /\ (\E j \in Added : TRUE)
         /\ \A j, k \in Added : j = k
<1>1. toDapp \in Seq(FromMsgs) /\ toDapp' = Append(toDapp, n)
  BY DEF TypeOK, Says
<1>2. /\ Len(toDapp) \in Nat /\ DOMAIN toDapp = 1..Len(toDapp) /\ DOMAIN toDapp' = 1..(Len(toDapp) + 1)
      /\ \A i \in DOMAIN toDapp : toDapp'[i] = toDapp[i]
      /\ toDapp'[Len(toDapp) + 1] = n
  BY <1>1, AppendFacts
<1>3. Added = {Len(toDapp) + 1}
  BY <1>2 DEF Added
<1>4. Grows
  BY <1>2, <1>3 DEF Grows
<1> QED BY <1>2, <1>3, <1>4

\* Nothing more.
LEMMA GrowsNone ==
  ASSUME UNCHANGED toDapp PROVE Grows /\ Added = {}
BY DEF Grows, Added

\* The start of a session tells twice.
LEMMA GrowsTwo ==
  ASSUME TypeOK, NEW m \in FromMsgs, NEW n \in FromMsgs, toDapp' = toDapp \o <<m, n>>
  PROVE  /\ Grows /\ \A j \in Added :
              \/ toDapp'[j] = m /\ j + 1 \in DOMAIN toDapp' /\ toDapp'[j + 1] = n
              \/ toDapp'[j] = n
<1>1. toDapp \in Seq(FromMsgs)
  BY DEF TypeOK
<1>2. /\ Len(toDapp) \in Nat /\ DOMAIN toDapp = 1..Len(toDapp) /\ DOMAIN toDapp' = 1..(Len(toDapp) + 2)
      /\ \A i \in DOMAIN toDapp : toDapp'[i] = toDapp[i]
      /\ toDapp'[Len(toDapp) + 1] = m /\ toDapp'[Len(toDapp) + 2] = n
  BY <1>1
<1>3. Added = {Len(toDapp) + 1, Len(toDapp) + 2}
  BY <1>2 DEF Added
<1>4. Grows
  BY <1>2, <1>3 DEF Grows
<1>5. (Len(toDapp) + 1) + 1 = Len(toDapp) + 2
  BY <1>2
<1> QED BY <1>2, <1>3, <1>4, <1>5


\* Messages of the open document, and its end, keep the turns; its leave is its last word.
LEMMA StreamKeeps ==
  ASSUME TypeOK, TypeOK', Stamped, InTurn, Grows,
         (doc' = doc /\ win' = win) \/ doc' = 0, count'.docs = count.docs, count'.wins >= count.wins,
         win <= count.wins, doc <= count.docs, doc # 0 => win # 0,
         \A j \in Added :
           /\ doc # 0 /\ toDapp'[j].from = win /\ toDapp'[j].doc \in {0, doc}
           /\ toDapp'[j].type = "ready" => toDapp'[j].doc = doc
           /\ toDapp'[j].type = "leave" => toDapp'[j].doc = doc /\ doc' = 0 /\ \A k \in Added : k = j
  PROVE  Stamped' /\ InTurn' /\ \A v, w \in Nat : Heard(v, w) => HeardNext(v, w)
<1>1. /\ \A i \in DOMAIN toDapp' : \/ i \in DOMAIN toDapp /\ toDapp'[i] = toDapp[i]
                                   \/ i \in Added /\ i \notin DOMAIN toDapp
      /\ \A i \in DOMAIN toDapp : i \in DOMAIN toDapp' /\ toDapp'[i] = toDapp[i]
      /\ \A i \in DOMAIN toDapp, j \in Added : i < j
  BY DEF Grows, Added
<1>2. /\ \A i \in DOMAIN toDapp' :
           /\ i \in Nat /\ toDapp'[i].from \in Nat /\ toDapp'[i].doc \in Nat
           /\ toDapp'[i].type \in {"reply", "ready", "leave", "reset", "event"}
      /\ win \in Nat /\ doc \in Nat /\ count.wins \in Nat /\ count'.wins \in Nat /\ count.docs \in Nat
  <2>1. \A i \in DOMAIN toDapp' :
           /\ i \in Nat /\ toDapp'[i].from \in Nat /\ toDapp'[i].doc \in Nat
           /\ toDapp'[i].type \in {"reply", "ready", "leave", "reset", "event"}
    <3>1. toDapp' \in Seq(FromMsgs)
      BY DEF TypeOK
    <3>2. \A i \in DOMAIN toDapp' : i \in Nat /\ i >= 1 /\ toDapp'[i] \in FromMsgs
      BY <3>1
    <3> QED BY <3>2, MessageFields
  <2>2. /\ win \in Nat /\ doc \in Nat
        /\ count \in [wins : Nat, docs : Nat, leaves : Nat, resets : Nat]
        /\ count' \in [wins : Nat, docs : Nat, leaves : Nat, resets : Nat]
    BY DEF TypeOK
  <2> QED BY <2>1, <2>2
<1>3. Stamped'
  <2> SUFFICES ASSUME NEW i \in DOMAIN toDapp'
               PROVE  /\ toDapp'[i].from \in 1..count'.wins /\ toDapp'[i].doc <= count'.docs
                      /\ toDapp'[i].type \in {"ready", "leave"} => toDapp'[i].doc # 0
                      /\ doc' # 0 /\ toDapp'[i].doc # 0 =>
                           IF toDapp'[i].doc = doc' THEN toDapp'[i].from = win' /\ toDapp'[i].type # "leave"
                           ELSE \E k \in DOMAIN toDapp' :
                                  /\ k > i /\ toDapp'[k].type = "ready" /\ toDapp'[k].doc = doc'
                                  /\ toDapp'[k].from = win'
    BY DEF Stamped, ReadyOf
  <2>1. CASE i \in DOMAIN toDapp
    <3>1. /\ toDapp'[i] = toDapp[i]
          /\ toDapp[i].from \in 1..count.wins /\ toDapp[i].doc <= count.docs
          /\ toDapp[i].type \in {"ready", "leave"} => toDapp[i].doc # 0
      BY <1>1, <2>1 DEF Stamped
    <3>2. toDapp'[i].from \in 1..count'.wins
      BY <1>2, <3>1
    <3>3. ASSUME doc' # 0, toDapp[i].doc # 0
          PROVE  IF toDapp[i].doc = doc THEN toDapp[i].from = win /\ toDapp[i].type # "leave"
                 ELSE \E k \in DOMAIN toDapp : k > i /\ ReadyOf(k, doc, win)
      BY <2>1, <3>3 DEF Stamped
    <3>4. \A k \in DOMAIN toDapp : k > i /\ ReadyOf(k, doc, win) /\ doc' # 0 =>
            /\ k \in DOMAIN toDapp' /\ toDapp'[k].type = "ready" /\ toDapp'[k].doc = doc'
            /\ toDapp'[k].from = win'
      BY <1>1 DEF ReadyOf
    <3> QED BY <3>1, <3>2, <3>3, <3>4
  <2>2. CASE i \in Added
    BY <1>2, <2>2
  <2> QED BY <1>1, <2>1, <2>2
<1>4. ASSUME NEW i \in DOMAIN toDapp, NEW j \in Added, toDapp[i].doc # 0, toDapp'[j].doc # 0
      PROVE  IF toDapp[i].doc = toDapp'[j].doc THEN toDapp[i].type # "leave"
             ELSE \E k \in DOMAIN toDapp :
                    /\ i < k /\ k < j /\ toDapp[k].type = "ready" /\ toDapp[k].doc = toDapp'[j].doc
                    /\ toDapp[k].from = toDapp'[j].from
  <2>1. toDapp'[j].doc = doc /\ toDapp'[j].from = win /\ doc # 0
    BY <1>4
  <2>2. CASE toDapp[i].doc = doc
    BY <1>4, <2>1, <2>2 DEF Stamped
  <2>3. CASE toDapp[i].doc # doc
    <3>1. PICK k \in DOMAIN toDapp : k > i /\ ReadyOf(k, doc, win)
      BY <1>4, <2>1, <2>3 DEF Stamped
    <3>2. k < j /\ i < k
      BY <1>1, <1>2, <3>1
    <3> QED BY <2>1, <2>3, <3>1, <3>2 DEF ReadyOf
  <2> QED BY <2>2, <2>3
<1>5. InTurn'
  <2> SUFFICES ASSUME NEW i \in DOMAIN toDapp', NEW j \in DOMAIN toDapp',
                      i < j, toDapp'[i].doc # 0, toDapp'[j].doc # 0
               PROVE  IF toDapp'[i].doc = toDapp'[j].doc THEN toDapp'[i].type # "leave"
                      ELSE \E k \in DOMAIN toDapp' :
                             /\ i < k /\ k <= j /\ toDapp'[k].type = "ready"
                             /\ toDapp'[k].doc = toDapp'[j].doc /\ toDapp'[k].from = toDapp'[j].from
    BY DEF InTurn, ReadyOf
  <2>1. CASE i \in DOMAIN toDapp /\ j \in DOMAIN toDapp
    <3>1. /\ toDapp'[i] = toDapp[i] /\ toDapp'[j] = toDapp[j]
      BY <1>1, <2>1
    <3>2. IF toDapp[i].doc = toDapp[j].doc THEN toDapp[i].type # "leave"
          ELSE \E k \in DOMAIN toDapp : i < k /\ k <= j /\ ReadyOf(k, toDapp[j].doc, toDapp[j].from)
      BY <2>1, <3>1 DEF InTurn
    <3>3. CASE toDapp[i].doc # toDapp[j].doc
      <4>1. PICK k \in DOMAIN toDapp : i < k /\ k <= j /\ ReadyOf(k, toDapp[j].doc, toDapp[j].from)
        BY <3>2, <3>3
      <4>2. k \in DOMAIN toDapp' /\ toDapp'[k] = toDapp[k]
        BY <1>1
      <4> QED BY <3>1, <3>3, <4>1, <4>2 DEF ReadyOf
    <3> QED BY <3>1, <3>2, <3>3
  <2>2. CASE i \in DOMAIN toDapp /\ j \in Added
    <3>1. toDapp'[i] = toDapp[i]
      BY <1>1, <2>2
    <3>2. IF toDapp[i].doc = toDapp'[j].doc THEN toDapp[i].type # "leave"
          ELSE \E k \in DOMAIN toDapp :
                 /\ i < k /\ k < j /\ toDapp[k].type = "ready" /\ toDapp[k].doc = toDapp'[j].doc
                 /\ toDapp[k].from = toDapp'[j].from
      BY <1>4, <2>2, <3>1
    <3>3. CASE toDapp[i].doc # toDapp'[j].doc
      <4>1. PICK k \in DOMAIN toDapp :
                 /\ i < k /\ k < j /\ toDapp[k].type = "ready" /\ toDapp[k].doc = toDapp'[j].doc
                 /\ toDapp[k].from = toDapp'[j].from
        BY <3>2, <3>3
      <4>2. k \in DOMAIN toDapp' /\ toDapp'[k] = toDapp[k] /\ k <= j
        BY <1>1, <1>2, <4>1
      <4> QED BY <3>1, <3>3, <4>1, <4>2
    <3> QED BY <3>1, <3>2, <3>3
  <2>3. CASE i \in Added /\ j \in Added
    <3>1. toDapp'[i].doc = toDapp'[j].doc
      BY <2>3
    <3>2. i # j
      BY <1>2
    <3> QED BY <2>3, <3>1, <3>2
  <2>4. CASE i \in Added /\ j \in DOMAIN toDapp
    BY <1>1, <1>2, <2>4
  <2> QED BY <1>1, <2>1, <2>2, <2>3, <2>4
<1>6. ASSUME NEW v \in Nat, NEW w \in Nat, Heard(v, w) PROVE HeardNext(v, w)
  <2>1. ASSUME NEW j \in DOMAIN toDapp', toDapp'[j].doc # 0, toDapp'[j].from = w, toDapp'[j].doc # v
        PROVE  \E i \in DOMAIN toDapp' :
                 i <= j /\ toDapp'[i].type = "ready" /\ toDapp'[i].doc = toDapp'[j].doc /\ toDapp'[i].from = w
    <3>1. CASE j \in DOMAIN toDapp
      <4>1. toDapp'[j] = toDapp[j]
        BY <1>1, <3>1
      <4>2. PICK i \in DOMAIN toDapp : i <= j /\ ReadyOf(i, toDapp[j].doc, w)
        BY <1>6, <2>1, <3>1, <4>1 DEF Heard
      <4>3. i \in DOMAIN toDapp' /\ toDapp'[i] = toDapp[i]
        BY <1>1
      <4> QED BY <4>1, <4>2, <4>3 DEF ReadyOf
    <3>2. CASE j \in Added
      <4>1. toDapp'[j].doc = doc /\ win = w /\ doc # 0 /\ doc # v
        BY <2>1, <3>2
      <4>2. PICK i \in DOMAIN toDapp : ReadyOf(i, doc, w)
        BY <1>6, <4>1 DEF Heard
      <4>3. i \in DOMAIN toDapp' /\ toDapp'[i] = toDapp[i] /\ i <= j
        BY <1>1, <1>2, <3>2
      <4> QED BY <4>1, <4>2, <4>3 DEF ReadyOf
    <3> QED BY <1>1, <3>1, <3>2
  <2>2. ASSUME doc' # 0, win' = w, doc' # v
        PROVE  \E i \in DOMAIN toDapp' :
                 toDapp'[i].type = "ready" /\ toDapp'[i].doc = doc' /\ toDapp'[i].from = w
    <3>1. doc' = doc /\ win' = win
      BY <2>2
    <3>2. PICK i \in DOMAIN toDapp : ReadyOf(i, doc, w)
      BY <1>6, <2>2, <3>1 DEF Heard
    <3>3. i \in DOMAIN toDapp' /\ toDapp'[i] = toDapp[i]
      BY <1>1
    <3> QED BY <3>1, <3>2, <3>3 DEF ReadyOf
  <2> QED BY <2>1, <2>2 DEF HeardNext
<1> QED BY <1>3, <1>5, <1>6


\* The messages are typed after a step too.
LEMMA PlacesNext ==
  ASSUME TypeOK'
  PROVE  \A i \in DOMAIN toDapp' :
           /\ i \in Nat /\ i >= 1 /\ toDapp'[i] \in FromMsgs
           /\ toDapp'[i].from \in Nat /\ toDapp'[i].doc \in Nat
           /\ toDapp'[i].type \in {"reply", "ready", "leave", "reset", "event"}
<1>1. toDapp' \in Seq(FromMsgs)
  BY DEF TypeOK
<1>2. \A i \in DOMAIN toDapp' : i \in Nat /\ i >= 1 /\ toDapp'[i] \in FromMsgs
  BY <1>1
<1> QED BY <1>2, MessageFields

\* The turns after a step.
LEMMA TurnNext ==
  ASSUME \A i, j \in DOMAIN toDapp' :
           i < j /\ toDapp'[i].doc # 0 /\ toDapp'[j].doc # 0 =>
             IF toDapp'[i].doc = toDapp'[j].doc THEN toDapp'[i].type # "leave"
             ELSE \E k \in DOMAIN toDapp' :
                    /\ i < k /\ k <= j /\ toDapp'[k].type = "ready"
                    /\ toDapp'[k].doc = toDapp'[j].doc /\ toDapp'[k].from = toDapp'[j].from
  PROVE  InTurn'
BY DEF InTurn, ReadyOf

\* The announcement of a new document comes after all that was said.
LEMMA NewDocument ==
  ASSUME TypeOK, TypeOK', Stamped, InTurn, Grows, doc = 0, win' = win, win # 0, win <= count.wins,
         doc' = count.docs + 1, count'.docs = doc', count'.wins = count.wins,
         NEW l \in Added, Added = {l},
         toDapp'[l].type = "ready" /\ toDapp'[l].doc = doc' /\ toDapp'[l].from = win
  PROVE  Stamped' /\ InTurn' /\ \A v, w \in Nat : Heard(v, w) => HeardNext(v, w)
<1>1. /\ \A i \in DOMAIN toDapp' : i \in DOMAIN toDapp \/ i = l
      /\ \A i \in DOMAIN toDapp : i \in DOMAIN toDapp' /\ toDapp'[i] = toDapp[i] /\ i < l
      /\ l \in DOMAIN toDapp' /\ l \notin DOMAIN toDapp
  BY DEF Grows, Added
<1>2. /\ \A i \in DOMAIN toDapp' : i \in Nat /\ toDapp'[i].doc \in Nat
      /\ win \in Nat /\ count.wins \in Nat /\ count.docs \in Nat
  <2>1. /\ win \in Nat /\ count \in [wins : Nat, docs : Nat, leaves : Nat, resets : Nat]
    BY DEF TypeOK
  <2> QED BY <2>1, PlacesNext
<1>3. \A i \in DOMAIN toDapp : toDapp[i].doc <= count.docs /\ toDapp[i].doc # doc' /\ toDapp[i].doc \in Nat
  BY <1>1, <1>2 DEF Stamped
<1>4. Stamped'
  <2> SUFFICES ASSUME NEW i \in DOMAIN toDapp'
               PROVE  /\ toDapp'[i].from \in 1..count'.wins /\ toDapp'[i].doc <= count'.docs
                      /\ toDapp'[i].type \in {"ready", "leave"} => toDapp'[i].doc # 0
                      /\ doc' # 0 /\ toDapp'[i].doc # 0 =>
                           IF toDapp'[i].doc = doc' THEN toDapp'[i].from = win' /\ toDapp'[i].type # "leave"
                           ELSE \E k \in DOMAIN toDapp' :
                                  /\ k > i /\ toDapp'[k].type = "ready" /\ toDapp'[k].doc = doc'
                                  /\ toDapp'[k].from = win'
    BY DEF Stamped, ReadyOf
  <2>1. CASE i \in DOMAIN toDapp
    <3>1. /\ toDapp'[i] = toDapp[i] /\ l > i
          /\ toDapp[i].from \in 1..count.wins /\ toDapp[i].doc <= count.docs
          /\ toDapp[i].type \in {"ready", "leave"} => toDapp[i].doc # 0
      BY <1>1, <1>2, <2>1 DEF Stamped
    <3>2. toDapp'[i].doc <= count'.docs
      BY <1>2, <1>3, <2>1, <3>1
    <3> QED BY <1>1, <1>3, <2>1, <3>1, <3>2
  <2>2. CASE i = l
    <3>1. toDapp'[i].from \in 1..count'.wins
      BY <1>2, <2>2
    <3>2. toDapp'[i].doc <= count'.docs /\ doc' # 0 /\ toDapp'[i].doc = doc'
      BY <1>2, <2>2
    <3>3. toDapp'[i].from = win' /\ toDapp'[i].type = "ready"
      BY <2>2
    <3> QED BY <3>1, <3>2, <3>3
  <2> QED BY <1>1, <2>1, <2>2
<1>5. InTurn'
  <2> SUFFICES ASSUME NEW i \in DOMAIN toDapp', NEW j \in DOMAIN toDapp',
                      i < j, toDapp'[i].doc # 0, toDapp'[j].doc # 0
               PROVE  IF toDapp'[i].doc = toDapp'[j].doc THEN toDapp'[i].type # "leave"
                      ELSE \E k \in DOMAIN toDapp' :
                             /\ i < k /\ k <= j /\ toDapp'[k].type = "ready"
                             /\ toDapp'[k].doc = toDapp'[j].doc /\ toDapp'[k].from = toDapp'[j].from
    BY TurnNext
  <2>1. CASE j \in DOMAIN toDapp
    <3>1. i \in DOMAIN toDapp /\ toDapp'[i] = toDapp[i] /\ toDapp'[j] = toDapp[j]
      BY <1>1, <1>2, <2>1
    <3>2. IF toDapp[i].doc = toDapp[j].doc THEN toDapp[i].type # "leave"
          ELSE \E k \in DOMAIN toDapp : i < k /\ k <= j /\ ReadyOf(k, toDapp[j].doc, toDapp[j].from)
      BY <2>1, <3>1 DEF InTurn
    <3>3. CASE toDapp[i].doc # toDapp[j].doc
      <4>1. PICK k \in DOMAIN toDapp : i < k /\ k <= j /\ ReadyOf(k, toDapp[j].doc, toDapp[j].from)
        BY <3>2, <3>3
      <4>2. k \in DOMAIN toDapp' /\ toDapp'[k] = toDapp[k]
        BY <1>1
      <4> QED BY <3>1, <3>3, <4>1, <4>2 DEF ReadyOf
    <3> QED BY <3>1, <3>2, <3>3
  <2>2. CASE j = l
    <3>1. i \in DOMAIN toDapp /\ toDapp'[i] = toDapp[i]
      BY <1>1, <1>2, <2>2
    <3>2. i < l /\ l <= j /\ toDapp'[i].doc # toDapp'[j].doc
      BY <1>1, <1>2, <1>3, <2>2, <3>1
    <3> QED BY <1>1, <2>2, <3>2
  <2> QED BY <1>1, <2>1, <2>2
<1>6. ASSUME NEW v \in Nat, NEW w \in Nat, Heard(v, w) PROVE HeardNext(v, w)
  <2>1. ASSUME NEW j \in DOMAIN toDapp', toDapp'[j].doc # 0, toDapp'[j].from = w, toDapp'[j].doc # v
        PROVE  \E i \in DOMAIN toDapp' :
                 i <= j /\ toDapp'[i].type = "ready" /\ toDapp'[i].doc = toDapp'[j].doc /\ toDapp'[i].from = w
    <3>1. CASE j \in DOMAIN toDapp
      <4>1. toDapp'[j] = toDapp[j]
        BY <1>1, <3>1
      <4>2. PICK i \in DOMAIN toDapp : i <= j /\ ReadyOf(i, toDapp[j].doc, w)
        BY <1>6, <2>1, <3>1, <4>1 DEF Heard
      <4>3. i \in DOMAIN toDapp' /\ toDapp'[i] = toDapp[i]
        BY <1>1
      <4> QED BY <4>1, <4>2, <4>3 DEF ReadyOf
    <3>2. CASE j = l
      BY <1>1, <1>2, <2>1, <3>2
    <3> QED BY <1>1, <3>1, <3>2
  <2>2. ASSUME win' = w
        PROVE  \E i \in DOMAIN toDapp' :
                 toDapp'[i].type = "ready" /\ toDapp'[i].doc = doc' /\ toDapp'[i].from = w
    BY <1>1, <2>2
  <2> QED BY <2>1, <2>2 DEF HeardNext
<1> QED BY <1>4, <1>5, <1>6

\* What is left when the page took a message m: m's own news is what it heard last.
LEMMA TakenStream ==
  ASSUME TypeOK, TypeOK', Stamped, InTurn, Followed, toDapp # <<>>, toDapp' = Tail(toDapp),
         UNCHANGED <<win, doc, count>>,
         NEW m, m = Head(toDapp)
  PROVE  /\ Stamped' /\ InTurn' /\ Followed'
         /\ \A w \in Nat : m.type = "ready" => HeardNext(m.doc, w)
         /\ \A w \in Nat : m.type = "leave" => HeardNext(0, w)
         /\ \A v, w \in Nat : Heard(v, w) /\ (m.type # "ready" \/ m.from # w) => HeardNext(v, w)
<1>1. /\ 1 \in DOMAIN toDapp /\ toDapp[1] = m
      /\ \A i \in DOMAIN toDapp' : i + 1 \in DOMAIN toDapp /\ toDapp'[i] = toDapp[i + 1]
      /\ \A i \in DOMAIN toDapp : i # 1 => i - 1 \in DOMAIN toDapp' /\ toDapp'[i - 1] = toDapp[i]
  <2>1. toDapp \in Seq(FromMsgs)
    BY DEF TypeOK
  <2> QED BY <2>1, TailFacts
<1>2. /\ \A i \in DOMAIN toDapp : i \in Nat /\ i >= 1 /\ toDapp[i].doc \in Nat
      /\ \A i \in DOMAIN toDapp' : i \in Nat /\ i >= 1 /\ toDapp'[i].doc \in Nat
  BY Places1, PlacesNext
<1>3. Stamped'
  <2> SUFFICES ASSUME NEW i \in DOMAIN toDapp'
               PROVE  /\ toDapp'[i].from \in 1..count.wins /\ toDapp'[i].doc <= count.docs
                      /\ toDapp'[i].type \in {"ready", "leave"} => toDapp'[i].doc # 0
                      /\ doc # 0 /\ toDapp'[i].doc # 0 =>
                           IF toDapp'[i].doc = doc THEN toDapp'[i].from = win /\ toDapp'[i].type # "leave"
                           ELSE \E k \in DOMAIN toDapp' :
                                  /\ k > i /\ toDapp'[k].type = "ready" /\ toDapp'[k].doc = doc
                                  /\ toDapp'[k].from = win
    BY DEF Stamped, ReadyOf
  <2>1. i + 1 \in DOMAIN toDapp /\ toDapp'[i] = toDapp[i + 1]
    BY <1>1
  <2>2. ASSUME doc # 0, toDapp'[i].doc # 0, toDapp'[i].doc # doc
        PROVE  \E k \in DOMAIN toDapp' :
                 /\ k > i /\ toDapp'[k].type = "ready" /\ toDapp'[k].doc = doc
                 /\ toDapp'[k].from = win
    <3>1. PICK k \in DOMAIN toDapp : k > i + 1 /\ ReadyOf(k, doc, win)
      BY <2>1, <2>2 DEF Stamped
    <3>2. k - 1 \in DOMAIN toDapp' /\ toDapp'[k - 1] = toDapp[k] /\ k - 1 > i
      BY <1>1, <1>2, <3>1
    <3> QED BY <3>1, <3>2 DEF ReadyOf
  <2> QED BY <2>1, <2>2 DEF Stamped
<1>4. ASSUME NEW i \in DOMAIN toDapp, NEW j \in DOMAIN toDapp', i < j + 1,
             toDapp[i].doc # 0, toDapp'[j].doc # 0, toDapp[i].doc # toDapp'[j].doc
      PROVE  \E k \in DOMAIN toDapp' :
               /\ i < k + 1 /\ k <= j /\ toDapp'[k].type = "ready"
               /\ toDapp'[k].doc = toDapp'[j].doc /\ toDapp'[k].from = toDapp'[j].from
  <2>1. j + 1 \in DOMAIN toDapp /\ toDapp'[j] = toDapp[j + 1]
    BY <1>1
  <2>2. PICK k \in DOMAIN toDapp : i < k /\ k <= j + 1 /\ ReadyOf(k, toDapp[j + 1].doc, toDapp[j + 1].from)
    BY <1>4, <2>1 DEF InTurn
  <2>3. k - 1 \in DOMAIN toDapp' /\ toDapp'[k - 1] = toDapp[k] /\ i < (k - 1) + 1 /\ k - 1 <= j
    <3>1. /\ k \in Nat /\ i \in Nat /\ j \in Nat /\ i >= 1 /\ k # 1
          /\ k - 1 \in DOMAIN toDapp' /\ toDapp'[k - 1] = toDapp[k]
      <4>1. k \in Nat /\ i \in Nat /\ j \in Nat /\ i >= 1
        BY <1>2
      <4>2. k # 1
        BY <2>2, <4>1
      <4> QED BY <1>1, <4>1, <4>2
    <3> QED BY <2>2, <3>1
  <2> QED BY <2>1, <2>2, <2>3 DEF ReadyOf
<1>5. InTurn'
  <2> SUFFICES ASSUME NEW i \in DOMAIN toDapp', NEW j \in DOMAIN toDapp',
                      i < j, toDapp'[i].doc # 0, toDapp'[j].doc # 0
               PROVE  IF toDapp'[i].doc = toDapp'[j].doc THEN toDapp'[i].type # "leave"
                      ELSE \E k \in DOMAIN toDapp' :
                             /\ i < k /\ k <= j /\ toDapp'[k].type = "ready"
                             /\ toDapp'[k].doc = toDapp'[j].doc /\ toDapp'[k].from = toDapp'[j].from
    BY TurnNext
  <2>1. /\ i + 1 \in DOMAIN toDapp /\ toDapp'[i] = toDapp[i + 1] /\ i + 1 < j + 1
        /\ j + 1 \in DOMAIN toDapp /\ toDapp'[j] = toDapp[j + 1]
    BY <1>1, <1>2
  <2>2. CASE toDapp'[i].doc = toDapp'[j].doc
    BY <2>1, <2>2 DEF InTurn
  <2>3. CASE toDapp'[i].doc # toDapp'[j].doc
    <3>1. PICK k \in DOMAIN toDapp' :
               /\ i + 1 < k + 1 /\ k <= j /\ toDapp'[k].type = "ready"
               /\ toDapp'[k].doc = toDapp'[j].doc /\ toDapp'[k].from = toDapp'[j].from
      BY <1>4, <2>1, <2>3
    <3>2. i < k
      BY <1>2, <3>1
    <3> QED BY <2>3, <3>1, <3>2
  <2> QED BY <2>2, <2>3
<1>6. Followed'
  <2> SUFFICES ASSUME NEW i \in DOMAIN toDapp', toDapp'[i].type = "reply", toDapp'[i].doc # 0
               PROVE  /\ i + 1 \in DOMAIN toDapp' /\ toDapp'[i + 1].type = "event"
                      /\ toDapp'[i + 1].from = toDapp'[i].from
    BY DEF Followed
  <2>1. i + 1 \in DOMAIN toDapp /\ toDapp'[i] = toDapp[i + 1] /\ i \in Nat /\ i >= 1
    BY <1>1, <1>2
  <2>2. (i + 1) + 1 \in DOMAIN toDapp /\ toDapp[(i + 1) + 1].type = "event" /\ toDapp[(i + 1) + 1].from = toDapp[i + 1].from
    BY <2>1 DEF Followed
  <2>3. ((i + 1) + 1) - 1 \in DOMAIN toDapp' /\ toDapp'[((i + 1) + 1) - 1] = toDapp[(i + 1) + 1]
    BY <1>1, <2>1, <2>2
  <2>4. ((i + 1) + 1) - 1 = i + 1
    BY <2>1
  <2> QED BY <2>1, <2>2, <2>3, <2>4
<1>7. ASSUME NEW w \in Nat, m.doc # 0, NEW v \in Nat, v = m.doc \/ (v = 0 /\ m.type = "leave")
      PROVE  HeardNext(v, w)
  <2>1. ASSUME NEW j \in DOMAIN toDapp', toDapp'[j].doc # 0, toDapp'[j].from = w, toDapp'[j].doc # v
        PROVE  \E i \in DOMAIN toDapp' :
                 i <= j /\ toDapp'[i].type = "ready" /\ toDapp'[i].doc = toDapp'[j].doc /\ toDapp'[i].from = w
    <3>1. 1 < j + 1 /\ j + 1 \in DOMAIN toDapp /\ toDapp'[j] = toDapp[j + 1]
      BY <1>1, <1>2
    <3>2. m.doc # toDapp'[j].doc
      BY <1>1, <1>7, <2>1, <3>1 DEF InTurn
    <3> QED BY <1>1, <1>4, <1>7, <2>1, <3>1, <3>2
  <2>2. ASSUME doc # 0, win = w, doc # v
        PROVE  \E i \in DOMAIN toDapp' :
                 toDapp'[i].type = "ready" /\ toDapp'[i].doc = doc /\ toDapp'[i].from = w
    <3>1. m.doc # doc
      BY <1>1, <1>7, <2>2 DEF Stamped
    <3>2. PICK k \in DOMAIN toDapp : k > 1 /\ ReadyOf(k, doc, win)
      BY <1>1, <1>7, <2>2, <3>1 DEF Stamped
    <3>3. k - 1 \in DOMAIN toDapp' /\ toDapp'[k - 1] = toDapp[k]
      BY <1>1, <1>2, <3>2
    <3> QED BY <2>2, <3>2, <3>3 DEF ReadyOf
  <2> QED BY <2>1, <2>2 DEF HeardNext
<1>8. m.type \in {"ready", "leave"} => m.doc # 0 /\ m.doc \in Nat
  BY <1>1, <1>2 DEF Stamped
<1>9. ASSUME NEW v \in Nat, NEW w \in Nat, Heard(v, w), m.type # "ready" \/ m.from # w
      PROVE  HeardNext(v, w)
  <2>1. ASSUME NEW j \in DOMAIN toDapp', toDapp'[j].doc # 0, toDapp'[j].from = w, toDapp'[j].doc # v
        PROVE  \E i \in DOMAIN toDapp' :
                 i <= j /\ toDapp'[i].type = "ready" /\ toDapp'[i].doc = toDapp'[j].doc /\ toDapp'[i].from = w
    <3>1. j + 1 \in DOMAIN toDapp /\ toDapp'[j] = toDapp[j + 1]
      BY <1>1
    <3>2. PICK i \in DOMAIN toDapp : i <= j + 1 /\ ReadyOf(i, toDapp[j + 1].doc, w)
      BY <1>9, <2>1, <3>1 DEF Heard
    <3>3. i # 1
      BY <1>1, <1>9, <3>2 DEF ReadyOf
    <3>4. i - 1 \in DOMAIN toDapp' /\ toDapp'[i - 1] = toDapp[i] /\ i - 1 <= j
      BY <1>1, <1>2, <3>2, <3>3
    <3> QED BY <3>1, <3>2, <3>4 DEF ReadyOf
  <2>2. ASSUME doc # 0, win = w, doc # v
        PROVE  \E i \in DOMAIN toDapp' :
                 toDapp'[i].type = "ready" /\ toDapp'[i].doc = doc /\ toDapp'[i].from = w
    <3>1. PICK i \in DOMAIN toDapp : ReadyOf(i, doc, w)
      BY <1>9, <2>2 DEF Heard
    <3>2. i # 1
      BY <1>1, <1>9, <3>1 DEF ReadyOf
    <3>3. i - 1 \in DOMAIN toDapp' /\ toDapp'[i - 1] = toDapp[i]
      BY <1>1, <1>2, <3>2
    <3> QED BY <3>1, <3>3 DEF ReadyOf
  <2> QED BY <2>1, <2>2 DEF HeardNext
<1> QED BY <1>3, <1>5, <1>6, <1>7, <1>8, <1>9


\* A reply that starts a session is still followed by its event.
LEMMA FollowedKeeps ==
  ASSUME Followed, Grows,
         \A j \in Added : toDapp'[j].type = "reply" /\ toDapp'[j].doc # 0 =>
           j + 1 \in DOMAIN toDapp' /\ toDapp'[j + 1].type = "event" /\ toDapp'[j + 1].from = toDapp'[j].from
  PROVE  Followed'
<1> SUFFICES ASSUME NEW i \in DOMAIN toDapp', toDapp'[i].type = "reply", toDapp'[i].doc # 0
             PROVE  /\ i + 1 \in DOMAIN toDapp' /\ toDapp'[i + 1].type = "event"
                    /\ toDapp'[i + 1].from = toDapp'[i].from
  BY DEF Followed
<1>1. CASE i \in DOMAIN toDapp
  <2>1. toDapp'[i] = toDapp[i]
    BY <1>1 DEF Grows
  <2>2. i + 1 \in DOMAIN toDapp /\ toDapp[i + 1].type = "event" /\ toDapp[i + 1].from = toDapp[i].from
    BY <1>1, <2>1 DEF Followed
  <2> QED BY <2>1, <2>2 DEF Grows
<1>2. CASE i \notin DOMAIN toDapp
  BY <1>2 DEF Added
<1> QED BY <1>1, <1>2

\* What is said about sessions by the open document is so: each change is told.
LEMMA ToldKeeps ==
  ASSUME TypeOK', Told, Grows, UNCHANGED <<win, doc, popup, session>>,
         \A j \in Added : toDapp'[j].type \in {"event", "reset"} /\ toDapp'[j].doc = doc /\ doc # 0 =>
           running' = doc /\ port',
         Runs /\ ~(running' = doc /\ port') =>
           \E j \in Added : toDapp'[j].from = win /\ toDapp'[j].type \in {"event", "reset"}
  PROVE  Told'
<1> DEFINE T(j) == toDapp'[j].from = win /\ toDapp'[j].type \in {"event", "reset"}
<1>1. /\ \A i \in DOMAIN toDapp' : i \in DOMAIN toDapp \/ i \in Added
      /\ \A i \in DOMAIN toDapp : i \in DOMAIN toDapp' /\ toDapp'[i] = toDapp[i] /\ (T(i) <=> Tells(i))
      /\ \A i \in DOMAIN toDapp, j \in Added : i < j
      /\ \A j \in Added : j \in DOMAIN toDapp'
  BY DEF Grows, Added, Tells
<1>2. ASSUME NEW k \in DOMAIN toDapp', doc # 0, T(k), toDapp'[k].doc = doc,
             \A j \in DOMAIN toDapp' : j > k => ~T(j)
      PROVE  running' = doc /\ port'
  <2>1. CASE k \in DOMAIN toDapp
    <3>1. \A j \in Added : ~T(j)
      <4> SUFFICES ASSUME NEW j \in Added PROVE ~T(j)
        OBVIOUS
      <4>1. k < j /\ j \in DOMAIN toDapp'
        BY <1>1, <2>1
      <4>2. j \in Nat /\ k \in Nat
        BY <4>1, PlacesNext
      <4> QED BY <1>2, <4>1, <4>2
    <3>2. \A j \in DOMAIN toDapp : j > k => ~Tells(j)
      BY <1>1, <1>2
    <3>3. Tells(k) /\ toDapp[k].doc = doc
      BY <1>1, <1>2, <2>1
    <3>4. Runs
      BY <1>2, <2>1, <3>2, <3>3 DEF Told
    <3> QED BY <3>1, <3>4
  <2>2. CASE k \in Added
    BY <1>2, <2>2
  <2> QED BY <1>1, <2>1, <2>2
<1>3. ASSUME doc # 0, session = doc, popup = win, \A k \in DOMAIN toDapp' : ~T(k)
      PROVE  running' = doc /\ port'
  <2>1. \A k \in DOMAIN toDapp : ~Tells(k)
    BY <1>1, <1>3
  <2>2. Runs
    BY <1>3, <2>1 DEF Told
  <2> QED BY <1>1, <1>3, <2>2
<1> QED BY <1>2, <1>3 DEF Told, Tells, Runs

\* What a step of the popup or the wallet may do to what the page shows: speak for the open document.
LEMMA WalletKeeps ==
  ASSUME ChannelInv, ChannelInv', SessionInv, Grows,
         UNCHANGED <<req, popup, ready, known, session, announced, win, doc>>,
         count'.wins = count.wins, count'.docs = count.docs,
         doc = 0 => ~port', gated' # {} => port',
         \A j \in Added :
           /\ doc # 0 /\ toDapp'[j].from = win /\ toDapp'[j].doc \in {0, doc} /\ toDapp'[j].type # "leave"
           /\ toDapp'[j].type = "ready" => toDapp'[j].doc = doc
           /\ toDapp'[j].type = "reply" /\ toDapp'[j].doc # 0 =>
                j + 1 \in DOMAIN toDapp' /\ toDapp'[j + 1].type = "event" /\ toDapp'[j + 1].from = toDapp'[j].from
           /\ toDapp'[j].type \in {"event", "reset"} /\ toDapp'[j].doc = doc => running' = doc /\ port',
         Runs /\ ~(running' = doc /\ port') =>
           \E j \in Added : toDapp'[j].type \in {"event", "reset"}
  PROVE  SessionInv'
<1>1. TypeOK /\ TypeOK' /\ Windows /\ Stamped /\ InTurn /\ Followed /\ Views /\ Bound /\ Told
  BY DEF ChannelInv, SessionInv
<1>2. /\ popup \in Nat /\ known \in Nat /\ announced \in Nat /\ win \in Nat /\ doc \in Nat
      /\ count.wins \in Nat
  <2>1. count \in [wins : Nat, docs : Nat, leaves : Nat, resets : Nat]
    BY <1>1 DEF TypeOK
  <2> QED BY <1>1, <2>1 DEF TypeOK
<1>3. win <= count.wins /\ doc <= count.docs /\ (doc # 0 => win # 0)
  BY <1>1 DEF Windows
<1>4. Stamped' /\ InTurn' /\ \A v, w \in Nat : Heard(v, w) => HeardNext(v, w)
  <2>1. count'.wins >= count.wins
    BY <1>2
  <2> QED BY <1>1, <1>3, <2>1, StreamKeeps
<1>5. Views'
  <2>1. Forwarded' = Forwarded
    BY DEF Forwarded
  <2>2. announced' # 0 => HeardNext(announced', win')
    BY <1>1, <1>2, <1>4 DEF Views
  <2>3. popup' # 0 /\ ready' => HeardNext(known', popup')
    BY <1>1, <1>2, <1>4 DEF Views
  <2>4. popup' # 0 /\ ~ready' /\ Forwarded' # {} => HeardNext(0, popup')
    BY <1>1, <1>2, <1>4, <2>1 DEF Views
  <2> QED BY <2>2, <2>3, <2>4, ViewsNext
<1>6. Windows'
  BY <1>1 DEF Windows, Forwarded
<1>7. Followed'
  BY <1>1, FollowedKeeps
<1>8. Bound'
  BY <1>1 DEF Bound
<1>9. Told'
  <2>1. Runs /\ ~(running' = doc /\ port') =>
          \E j \in Added : toDapp'[j].from = win /\ toDapp'[j].type \in {"event", "reset"}
    OBVIOUS
  <2>2. \A j \in Added : toDapp'[j].type \in {"event", "reset"} /\ toDapp'[j].doc = doc /\ doc # 0 =>
          running' = doc /\ port'
    OBVIOUS
  <2> QED BY <1>1, <2>1, <2>2, ToldKeeps
<1> QED BY <1>4, <1>5, <1>6, <1>7, <1>8, <1>9 DEF SessionInv

\* The end of the popup: nothing is shown, and nothing waits.
LEMMA ClosedSession ==
  ASSUME ChannelInv, ChannelInv', SessionInv, Closed, count'.wins = count.wins, count'.docs = count.docs,
         \/ UNCHANGED <<win, doc, port, running, gated>>
         \/ win' = 0 /\ doc' = 0 /\ port' = FALSE /\ gated' = {},
         \/ UNCHANGED <<toDapp, announced>>
         \/ announced' = 0 /\ toDapp' \in {toDapp, <<>>}
  PROVE  SessionInv'
<1>1. TypeOK /\ TypeOK' /\ Windows /\ Stamped /\ InTurn /\ Followed /\ Views /\ Bound /\ Told
  BY DEF ChannelInv, SessionInv
<1>2. popup' = 0 /\ session' = 0 /\ req' = Settled(Outstanding)
  BY DEF Closed
<1>3. Forwarded' = {}
  <2>1. \A r \in Requests : req'[r] # "forwarded"
    BY <1>1, <1>2, SettledFacts DEF Outstanding
  <2> QED BY <2>1 DEF Forwarded
<1>4. Windows'
  <2>1. win' <= count'.wins /\ doc' <= count'.docs /\ 0 <= count'.docs
    <3>1. count \in [wins : Nat, docs : Nat, leaves : Nat, resets : Nat]
      BY <1>1 DEF TypeOK
    <3> QED BY <1>1, <3>1 DEF Windows
  <2> QED BY <1>1, <1>2, <1>3, <2>1 DEF Windows
<1>5. Bound'
  BY <1>2 DEF Bound
<1>6. CASE toDapp' = <<>> /\ announced' = 0
  <2>1. DOMAIN toDapp' = {}
    BY <1>6
  <2>2. Stamped' /\ InTurn' /\ Followed'
    BY <2>1 DEF Stamped, InTurn, Followed
  <2>3. Views'
    BY <1>2, <1>6 DEF Views
  <2>4. Told'
    <3>1. doc' # 0 => session' # doc'
      BY <1>2
    <3> QED BY <2>1, <3>1 DEF Told
  <2> QED BY <1>4, <1>5, <2>2, <2>3, <2>4 DEF SessionInv
<1>7. CASE UNCHANGED toDapp /\ (announced' = 0 \/ announced' = announced)
  <2>1. Grows /\ Added = {}
    BY <1>7, GrowsNone
  <2>2. /\ win \in Nat /\ doc \in Nat /\ announced \in Nat /\ count.wins \in Nat
    <3>1. count \in [wins : Nat, docs : Nat, leaves : Nat, resets : Nat]
      BY <1>1 DEF TypeOK
    <3> QED BY <1>1, <3>1 DEF TypeOK
  <2>3. Stamped' /\ InTurn' /\ \A v, w \in Nat : Heard(v, w) => HeardNext(v, w)
    <3>1. win <= count.wins /\ doc <= count.docs /\ (doc # 0 => win # 0) /\ count'.wins >= count.wins
      BY <1>1, <2>2 DEF Windows
    <3> QED BY <1>1, <2>1, <3>1, StreamKeeps
  <2>4. Followed'
    BY <1>7, <1>1 DEF Followed
  <2>5. announced' # 0 => HeardNext(announced', win')
    <3>1. CASE win' = win
      BY <1>1, <1>7, <2>2, <2>3, <3>1 DEF Views
    <3>2. CASE win' = 0 /\ doc' = 0
      <4>1. \A j \in DOMAIN toDapp' : toDapp'[j].from # 0
        <5>1. \A j \in DOMAIN toDapp : toDapp[j].from \in 1..count.wins
          BY <1>1 DEF Stamped
        <5> QED BY <1>7, <2>2, <5>1
      <4> QED BY <3>2, <4>1 DEF HeardNext
    <3> QED BY <3>1, <3>2
  <2>6. Views'
    BY <1>2, <2>5, ViewsNext
  <2>7. Told'
    <3>1. CASE UNCHANGED <<win, doc, port, running>>
      <4>1. Told' <=> (doc # 0 =>
              /\ \A k \in DOMAIN toDapp :
                   Tells(k) /\ toDapp[k].doc = doc /\ (\A j \in DOMAIN toDapp : j > k => ~Tells(j)) => Runs
              /\ session' = doc /\ popup' = win /\ (\A k \in DOMAIN toDapp : ~Tells(k)) => Runs)
        BY <1>7, <3>1 DEF Told, Tells, Runs
      <4> QED BY <1>1, <1>2, <4>1 DEF Told
    <3>2. CASE doc' = 0
      BY <3>2 DEF Told
    <3> QED BY <3>1, <3>2
  <2> QED BY <1>4, <1>5, <2>3, <2>4, <2>6, <2>7 DEF SessionInv
<1> QED BY <1>6, <1>7


\* The page's own ends.
LEMMA EndsSession ==
  ASSUME ChannelInv, ChannelInv', SessionInv, Poll \/ PageLeaves \/ ReadyDeadline PROVE SessionInv'
<1>1. count \in [wins : Nat, docs : Nat, leaves : Nat, resets : Nat]
  BY DEF ChannelInv, TypeOK
<1>2. CASE Poll
  <2>1. Closed /\ UNCHANGED <<announced, win, doc, port, gated, running, toDapp, count>>
    BY <1>2 DEF Poll, window, wallet
  <2> QED BY <2>1, ClosedSession
<1>3. CASE PageLeaves
  <2>1. /\ Closed /\ count' = [count EXCEPT !.leaves = @ + 1] /\ announced' = 0 /\ toDapp' \in {toDapp, <<>>}
        /\ UNCHANGED <<win, doc, port, gated, running>>
    BY <1>3 DEF PageLeaves, window, wallet
  <2>2. count'.wins = count.wins /\ count'.docs = count.docs
    BY <1>1, <2>1, CountTypes
  <2> QED BY <2>1, <2>2, ClosedSession
<1>4. CASE ReadyDeadline
  <2>1. /\ Closed /\ UNCHANGED <<announced, toDapp, count>>
        /\ \/ win' = 0 /\ doc' = 0 /\ port' = FALSE /\ gated' = {}
           \/ UNCHANGED <<win, doc, port, gated, running>>
    BY <1>4 DEF ReadyDeadline, PortCloses, window, wallet
  <2> QED BY <2>1, ClosedSession
<1> QED BY <1>2, <1>3, <1>4

\* A document loads.
LEMMA LoadSession ==
  ASSUME ChannelInv, ChannelInv', SessionInv, Load PROVE SessionInv'
<1>1. /\ win # 0 /\ doc = 0 /\ doc' = count.docs + 1 /\ count' = [count EXCEPT !.docs = @ + 1]
      /\ UNCHANGED <<req, popup, ready, known, session, announced, win, port, gated, running>>
  BY DEF Load, page, wallet
<1>2. TypeOK /\ TypeOK' /\ Windows /\ Stamped /\ InTurn /\ Followed /\ Views /\ Bound /\ Told
  BY DEF ChannelInv, SessionInv
<1>3. /\ count \in [wins : Nat, docs : Nat, leaves : Nat, resets : Nat] /\ win \in Nat
      /\ popup \in Nat /\ known \in Nat /\ announced \in Nat /\ session \in Nat /\ running \in Nat
  BY <1>2 DEF TypeOK
<1>4. count'.wins = count.wins /\ count'.docs = count.docs + 1 /\ count.docs \in Nat /\ count.wins \in Nat
  BY <1>1, <1>3, CountTypes
<1>5. PICK d \in Nat : d = count.docs + 1
  BY <1>4
<1>6. PICK n \in FromMsgs : n = FromPopup("ready", d, None, "") /\ Says(n)
  <2>1. FromPopup("ready", d, None, "") \in FromMsgs
    BY <1>2, MessageTypes
  <2>2. Says(FromPopup("ready", d, None, ""))
    BY <1>1, <1>5 DEF Load
  <2> QED BY <2>1, <2>2
<1>7. n.type = "ready" /\ n.doc = doc' /\ n.from = win
  BY <1>1, <1>5, <1>6 DEF FromPopup
<1>8. Grows /\ (\A j \in Added : toDapp'[j] = n) /\ (\E j \in Added : TRUE) /\ \A j, k \in Added : j = k
  BY <1>2, <1>6, GrowsOne
<1>9. PICK l \in Added : TRUE
  BY <1>8
<1>10. Added = {l} /\ toDapp'[l].type = "ready" /\ toDapp'[l].doc = doc' /\ toDapp'[l].from = win
  BY <1>7, <1>8, <1>9
<1>11. Stamped' /\ InTurn' /\ \A v, w \in Nat : Heard(v, w) => HeardNext(v, w)
  <2>1. win <= count.wins /\ count'.docs = doc'
    BY <1>1, <1>2, <1>4 DEF Windows
  <2> QED BY <1>1, <1>2, <1>4, <1>8, <1>10, <2>1, NewDocument
<1>12. Followed'
  BY <1>2, <1>8, <1>10, FollowedKeeps
<1>13. Views'
  <2>1. Forwarded' = Forwarded
    BY <1>1 DEF Forwarded
  <2>2. announced' # 0 => HeardNext(announced', win')
    BY <1>1, <1>2, <1>3, <1>11 DEF Views
  <2>3. popup' # 0 /\ ready' => HeardNext(known', popup')
    BY <1>1, <1>2, <1>3, <1>11 DEF Views
  <2>4. popup' # 0 /\ ~ready' /\ Forwarded' # {} => HeardNext(0, popup')
    BY <1>1, <1>2, <1>3, <1>11, <2>1 DEF Views
  <2> QED BY <2>2, <2>3, <2>4, ViewsNext
<1>14. session' # doc' /\ doc' # 0
  BY <1>1, <1>2, <1>3, <1>4 DEF Windows
<1>15. Bound'
  BY <1>1, <1>2, <1>14 DEF Bound
<1>16. Windows'
  BY <1>1, <1>2, <1>3, <1>4 DEF Windows, Forwarded
<1>17. Told'
  <2>1. \A k \in DOMAIN toDapp' :
          ~(toDapp'[k].from = win' /\ toDapp'[k].type \in {"event", "reset"} /\ toDapp'[k].doc = doc')
    <3> SUFFICES ASSUME NEW k \in DOMAIN toDapp', toDapp'[k].type \in {"event", "reset"}, toDapp'[k].doc = doc'
                 PROVE  FALSE
      OBVIOUS
    <3>1. k \in DOMAIN toDapp /\ toDapp'[k] = toDapp[k]
      BY <1>8, <1>10 DEF Grows, Added
    <3>2. toDapp[k].doc <= count.docs /\ toDapp[k].doc \in Nat
      BY <1>2, <3>1, Places1 DEF Stamped
    <3> QED BY <1>1, <1>4, <3>1, <3>2
  <2> QED BY <1>14, <2>1 DEF Told, Tells
<1> QED BY <1>11, <1>12, <1>13, <1>15, <1>16, <1>17 DEF SessionInv

\* A document or a window goes, with a word or without.
LEMMA GoneSession ==
  ASSUME ChannelInv, ChannelInv', SessionInv, Leaves \/ Crash PROVE SessionInv'
<1>1. /\ win # 0 /\ doc' = 0 /\ win' \in {win, 0} /\ port' = FALSE /\ gated' = {}
      /\ UNCHANGED <<req, popup, ready, known, session, announced, count>>
  BY DEF Leaves, Crash, PortCloses, page
<1>2. TypeOK /\ TypeOK' /\ Windows /\ Stamped /\ InTurn /\ Followed /\ Views /\ Bound /\ Told
  BY DEF ChannelInv, SessionInv
<1>3. /\ count \in [wins : Nat, docs : Nat, leaves : Nat, resets : Nat] /\ win \in Nat /\ doc \in Nat
      /\ popup \in Nat /\ known \in Nat /\ announced \in Nat /\ session \in Nat
  BY <1>2 DEF TypeOK
<1>4. /\ Grows /\ \A j, k \in Added : j = k
      /\ \A j \in Added : doc # 0 /\ toDapp'[j].from = win /\ toDapp'[j].doc = doc /\ toDapp'[j].type = "leave"
  <2>1. CASE Leaves
    <3>1. doc # 0 /\ Says(FromPopup("leave", doc, None, ""))
      BY <2>1 DEF Leaves
    <3>2. PICK n \in FromMsgs : n = FromPopup("leave", doc, None, "") /\ Says(n)
      BY <1>2, <1>3, <3>1, MessageTypes
    <3>3. n.type = "leave" /\ n.doc = doc /\ n.from = win
      BY <3>2 DEF FromPopup
    <3> QED BY <1>2, <3>1, <3>2, <3>3, GrowsOne
  <2>2. CASE Crash
    BY <2>2, GrowsNone DEF Crash
  <2> QED BY <2>1, <2>2
<1>5. Stamped' /\ InTurn' /\ \A v, w \in Nat : Heard(v, w) => HeardNext(v, w)
  <2>1. win <= count.wins /\ doc <= count.docs /\ (doc # 0 => win # 0)
    BY <1>2 DEF Windows
  <2>2. count'.docs = count.docs /\ count'.wins >= count.wins
    BY <1>1, <1>3
  <2> QED BY <1>1, <1>2, <1>4, <2>1, <2>2, StreamKeeps
<1>6. Followed'
  BY <1>2, <1>4, FollowedKeeps
<1>7. Views'
  <2>1. Forwarded' = Forwarded
    BY <1>1 DEF Forwarded
  <2>2. ASSUME announced' # 0 PROVE HeardNext(announced', win')
    <3>1. CASE win' = win
      BY <1>1, <1>2, <1>3, <1>5, <2>2, <3>1 DEF Views
    <3>2. CASE win' = 0
      <4>1. \A j \in DOMAIN toDapp' : toDapp'[j].from # 0
        <5>1. \A j \in DOMAIN toDapp' : toDapp'[j].from \in 1..count'.wins
          BY <1>5 DEF Stamped
        <5> QED BY <1>1, <1>3, <5>1
      <4> QED BY <1>1, <3>2, <4>1 DEF HeardNext
    <3> QED BY <1>1, <3>1, <3>2
  <2>3. popup' # 0 /\ ready' => HeardNext(known', popup')
    BY <1>1, <1>2, <1>3, <1>5 DEF Views
  <2>4. popup' # 0 /\ ~ready' /\ Forwarded' # {} => HeardNext(0, popup')
    BY <1>1, <1>2, <1>3, <1>5, <2>1 DEF Views
  <2> QED BY <2>2, <2>3, <2>4, ViewsNext
<1>8. Windows'
  <2>1. count.wins \in Nat /\ count.docs \in Nat
    BY <1>3
  <2> QED BY <1>1, <1>2, <1>3, <2>1 DEF Windows, Forwarded
<1>9. Bound' /\ Told'
  <2>1. session # 0 => session # 0 /\ session \in Nat
    BY <1>3
  <2> QED BY <1>1, <1>2 DEF Bound, Told
<1> QED BY <1>5, <1>6, <1>7, <1>8, <1>9 DEF SessionInv

\* The wallet learns that a document is dead.
LEMMA HostGoneSession ==
  ASSUME ChannelInv, ChannelInv', SessionInv, HostGone PROVE SessionInv'
<1>1. UNCHANGED <<req, popup, ready, known, session, announced, win, doc, port, gated, toDapp, count>>
  BY DEF HostGone, page, window
<1>2. PICK d : d # doc /\ running' = IF running = d THEN 0 ELSE running
  BY DEF HostGone
<1>3. Grows /\ Added = {}
  BY <1>1, GrowsNone
<1>4. (doc = 0 => ~port) /\ (gated # {} => port)
  BY DEF SessionInv, Windows
<1>5. Runs => running' = doc /\ port'
  BY <1>1, <1>2 DEF Runs
<1> QED BY <1>1, <1>3, <1>4, <1>5, WalletKeeps


\* The open document says one thing, and an end of its session is said.
LEMMA SaysSession ==
  ASSUME ChannelInv, ChannelInv', SessionInv,
         UNCHANGED <<req, popup, ready, known, session, announced, win, doc>>,
         count'.wins = count.wins, count'.docs = count.docs, gated' # {} => port', doc # 0,
         NEW n \in FromMsgs, Says(n), n.from = win,
         (n.type = "ready" /\ n.doc = doc) \/ (n.type \in {"reply", "event", "reset"} /\ n.doc = 0),
         Runs => n.type \in {"event", "reset"} \/ (running' = doc /\ port')
  PROVE  SessionInv'
<1>1. Grows /\ (\A j \in Added : toDapp'[j] = n) /\ (\E j \in Added : TRUE)
  BY GrowsOne DEF ChannelInv
<1>2. \A j \in Added :
        /\ doc # 0 /\ toDapp'[j].from = win /\ toDapp'[j].doc \in {0, doc} /\ toDapp'[j].type # "leave"
        /\ toDapp'[j].type = "ready" => toDapp'[j].doc = doc
        /\ ~(toDapp'[j].type = "reply" /\ toDapp'[j].doc # 0)
        /\ ~(toDapp'[j].type \in {"event", "reset"} /\ toDapp'[j].doc = doc)
  BY <1>1
<1>3. Runs /\ ~(running' = doc /\ port') => \E j \in Added : toDapp'[j].type \in {"event", "reset"}
  BY <1>1
<1> QED BY <1>1, <1>2, <1>3, WalletKeeps

\* Nothing is said, and no session of the open document ends.
LEMMA SilentSession ==
  ASSUME ChannelInv, ChannelInv', SessionInv,
         UNCHANGED <<req, popup, ready, known, session, announced, win, doc, toDapp>>,
         count'.wins = count.wins, count'.docs = count.docs, gated' # {} => port', doc = 0 => ~port',
         Runs => running' = doc /\ port'
  PROVE  SessionInv'
<1>1. Grows /\ Added = {}
  BY GrowsNone
<1> QED BY <1>1, WalletKeeps

\* The wallet and the build check speak to the document that asked.
LEMMA WalletSession ==
  ASSUME ChannelInv, ChannelInv', SessionInv, NEW r \in Requests, GateOpens(r) \/ Tell(r) \/ Refuse(r)
  PROVE  SessionInv'
<1>1. /\ UNCHANGED <<req, popup, ready, known, session, announced, win, doc, port, running, count>>
      /\ gated' \subseteq gated
  BY DEF GateOpens, Tell, Refuse, page, window
<1>2. (doc = 0 => ~port) /\ (gated # {} => port) /\ TypeOK
  BY DEF SessionInv, Windows, ChannelInv
<1>3. UNCHANGED toDapp \/ (port /\ \E a \in Answers : Says(FromPopup("reply", 0, r, a)))
  <2>1. CASE GateOpens(r)
    BY <1>2, <2>1 DEF GateOpens, Answers
  <2>2. CASE Tell(r)
    BY <2>2 DEF Tell, Hears, Answers
  <2>3. CASE Refuse(r)
    BY <2>3 DEF Refuse, Hears, Answers
  <2> QED BY <2>1, <2>2, <2>3
<1>4. (Runs => running' = doc /\ port') /\ (gated' # {} => port')
  BY <1>1, <1>2 DEF Runs
<1>5. CASE UNCHANGED toDapp
  BY <1>1, <1>2, <1>4, <1>5, SilentSession
<1>6. ASSUME port, NEW a \in Answers, Says(FromPopup("reply", 0, r, a)) PROVE SessionInv'
  <2>1. PICK n : n = FromPopup("reply", 0, r, a)
    OBVIOUS
  <2>2. n \in FromMsgs /\ n.type = "reply" /\ n.doc = 0 /\ n.from = win /\ Says(n)
    BY <1>2, <1>6, <2>1, MessageTypes DEF FromPopup
  <2> QED BY <1>1, <1>2, <1>4, <1>6, <2>2, SaysSession
<1> QED BY <1>3, <1>5, <1>6

\* A reset and the end of a session are said to the open document.
LEMMA StopsSession ==
  ASSUME ChannelInv, ChannelInv', SessionInv, Reset \/ SessionEnds PROVE SessionInv'
<1>1. UNCHANGED <<req, popup, ready, known, session, announced, win, doc>> /\ gated' \subseteq gated
  BY DEF Reset, SessionEnds, PortCloses, page, window
<1>2. (doc = 0 => ~port) /\ (gated # {} => port) /\ TypeOK
  BY DEF SessionInv, Windows, ChannelInv
<1>3. CASE Reset
  <2>1. port /\ Says(FromPopup("reset", 0, None, "")) /\ gated' = {} /\ count' = [count EXCEPT !.resets = @ + 1]
    BY <1>3 DEF Reset, PortCloses
  <2>2. PICK n : n = FromPopup("reset", 0, None, "")
    OBVIOUS
  <2>3. n \in FromMsgs /\ n.type = "reset" /\ n.doc = 0 /\ n.from = win /\ Says(n)
    BY <1>2, <2>1, <2>2, MessageTypes DEF FromPopup
  <2>4. count'.wins = count.wins /\ count'.docs = count.docs
    BY <1>2, <2>1, CountTypes DEF TypeOK
  <2> QED BY <1>1, <1>2, <2>1, <2>3, <2>4, SaysSession
<1>4. CASE SessionEnds
  <2>1. UNCHANGED <<port, gated, count>>
    BY <1>4 DEF SessionEnds, window
  <2>2. CASE port /\ running = doc
    <3>1. PICK n : n = FromPopup("event", 0, None, "")
      OBVIOUS
    <3>2. n \in FromMsgs /\ n.type = "event" /\ n.doc = 0 /\ n.from = win /\ Says(n)
      BY <1>2, <1>4, <2>2, <3>1, MessageTypes DEF FromPopup, SessionEnds, Hears
    <3> QED BY <1>1, <1>2, <2>1, <2>2, <3>2, SaysSession
  <2>3. CASE ~(port /\ running = doc)
    <3>1. UNCHANGED toDapp /\ ~Runs
      BY <1>4, <2>3 DEF SessionEnds, Hears, Runs
    <3> QED BY <1>1, <1>2, <2>1, <3>1, SilentSession
  <2> QED BY <2>2, <2>3
<1> QED BY <1>3, <1>4

\* What is carried out starts a session, with its reply and event, or is told later.
LEMMA CarryOutSession ==
  ASSUME ChannelInv, ChannelInv', SessionInv, NEW r \in Requests, CarryOut(r) PROVE SessionInv'
<1>1. UNCHANGED <<req, popup, ready, known, session, announced, win, doc, port, gated, count>>
  BY DEF CarryOut, page, window
<1>2. (doc = 0 => ~port) /\ (gated # {} => port) /\ TypeOK
  BY DEF SessionInv, Windows, ChannelInv
<1>3. CASE UNCHANGED <<running, toDapp>>
  <2>1. Runs => running' = doc /\ port'
    BY <1>1, <1>3 DEF Runs
  <2> QED BY <1>1, <1>2, <1>3, <2>1, SilentSession
<1>4. CASE Kind[r] = "session"
  <2>1. /\ running = 0 /\ running' = at[r].doc
        /\ toDapp' = IF port /\ at[r].doc = doc
                     THEN toDapp \o <<FromPopup("reply", doc, r, "ok"), FromPopup("event", doc, None, "")>>
                     ELSE toDapp
    BY <1>4 DEF CarryOut, Hears
  <2>2. ~Runs
    BY <1>2, <2>1 DEF Runs
  <2>3. CASE port /\ at[r].doc = doc
    <3>1. PICK m, n : m = FromPopup("reply", doc, r, "ok") /\ n = FromPopup("event", doc, None, "")
      OBVIOUS
    <3>2. m \in FromMsgs /\ n \in FromMsgs
      BY <1>2, <3>1, MessageTypes DEF TypeOK, Answers
    <3>3. m.type = "reply" /\ m.doc = doc /\ m.from = win /\ n.type = "event" /\ n.doc = doc /\ n.from = win
      BY <3>1 DEF FromPopup
    <3>4. toDapp' = toDapp \o <<m, n>>
      BY <2>1, <2>3, <3>1
    <3>5. /\ Grows /\ \A j \in Added :
             \/ toDapp'[j] = m /\ j + 1 \in DOMAIN toDapp' /\ toDapp'[j + 1] = n
             \/ toDapp'[j] = n
      BY <1>2, <3>2, <3>4, GrowsTwo
    <3>6. doc # 0 /\ running' = doc /\ port'
      BY <1>1, <1>2, <2>1, <2>3
    <3>7. \A j \in Added :
           /\ doc # 0 /\ toDapp'[j].from = win /\ toDapp'[j].doc \in {0, doc} /\ toDapp'[j].type # "leave"
           /\ toDapp'[j].type = "ready" => toDapp'[j].doc = doc
           /\ toDapp'[j].type = "reply" /\ toDapp'[j].doc # 0 =>
                j + 1 \in DOMAIN toDapp' /\ toDapp'[j + 1].type = "event" /\ toDapp'[j + 1].from = toDapp'[j].from
           /\ toDapp'[j].type \in {"event", "reset"} /\ toDapp'[j].doc = doc => running' = doc /\ port'
      BY <3>3, <3>5, <3>6
    <3> QED BY <1>1, <1>2, <3>5, <3>6, <3>7, WalletKeeps
  <2>4. CASE ~(port /\ at[r].doc = doc)
    BY <1>1, <1>2, <2>1, <2>2, <2>4, SilentSession
  <2> QED BY <2>3, <2>4
<1> QED BY <1>3, <1>4 DEF CarryOut

\* The popup reads a message.
LEMMA PopupReadsSession ==
  ASSUME ChannelInv, ChannelInv', SessionInv, PopupReads PROVE SessionInv'
<1>0. PICK m : m = Head(toPopup)
  OBVIOUS
<1>1. /\ IF doc = 0 THEN UNCHANGED <<port, gated, wallet, toDapp>>
         ELSE \/ m.type = "request" /\ OnRequest(m)
              \/ m.type = "cancel" /\ OnCancel(m)
              \/ m.type = "hello" /\ OnHello(m)
              \/ m.type = "stop" /\ OnStop(m)
      /\ UNCHANGED <<req, popup, ready, known, session, announced, win, doc, count>>
      /\ m.type \in {"request", "cancel"} => m.r \in Requests
  <2>1. /\ IF doc = 0 THEN UNCHANGED <<port, gated, wallet, toDapp>>
           ELSE \/ m.type = "request" /\ OnRequest(m)
                \/ m.type = "cancel" /\ OnCancel(m)
                \/ m.type = "hello" /\ OnHello(m)
                \/ m.type = "stop" /\ OnStop(m)
        /\ UNCHANGED <<req, popup, ready, known, session, announced, win, doc, count>>
        /\ toPopup # <<>> /\ toPopup' = Tail(toPopup)
    BY <1>0 DEF PopupReads, page
  <2>2. m \in ToMsgs
    BY <1>0, <2>1, TakeFacts
  <2> QED BY <2>1, <2>2, MessageFields
<1>2. (doc = 0 => ~port) /\ (gated # {} => port) /\ TypeOK
  BY DEF SessionInv, Windows, ChannelInv
<1>3. ASSUME UNCHANGED toDapp, gated' # {} => port', doc = 0 => ~port', Runs => running' = doc /\ port'
      PROVE  SessionInv'
  BY <1>1, <1>3, SilentSession
<1>4. ASSUME UNCHANGED <<port, gated, wallet, toDapp>> PROVE SessionInv'
  BY <1>2, <1>3, <1>4 DEF wallet, Runs
<1>5. ASSUME doc # 0, OnRequest(m) PROVE SessionInv'
  BY <1>1, <1>3, <1>5 DEF OnRequest, Runs
<1>6. ASSUME doc # 0, m.type = "cancel", OnCancel(m) PROVE SessionInv'
  <2>1. CASE UNCHANGED <<port, gated, wallet, toDapp>>
    BY <1>4, <2>1
  <2>2. CASE /\ gated' = gated \ {m.r} /\ UNCHANGED <<port, running>>
             /\ Says(FromPopup("reply", 0, m.r, "not-submitted"))
    <3>1. PICK n : n = FromPopup("reply", 0, m.r, "not-submitted")
      OBVIOUS
    <3>2. n \in FromMsgs /\ n.type = "reply" /\ n.doc = 0 /\ n.from = win /\ Says(n)
      BY <1>1, <1>2, <1>6, <2>2, <3>1, MessageTypes DEF FromPopup, Answers
    <3>3. gated' # {} => port'
      BY <1>2, <2>2
    <3>4. Runs => running' = doc /\ port'
      BY <2>2 DEF Runs
    <3> QED BY <1>1, <1>6, <3>2, <3>3, <3>4, SaysSession
  <2> QED BY <1>6, <2>1, <2>2 DEF OnCancel
<1>7. ASSUME doc # 0, OnHello(m) PROVE SessionInv'
  <2>1. UNCHANGED <<port, gated, running>> /\ Says(FromPopup("ready", doc, None, ""))
    BY <1>7 DEF OnHello, wallet
  <2>2. PICK n : n = FromPopup("ready", doc, None, "")
    OBVIOUS
  <2>3. n \in FromMsgs /\ n.type = "ready" /\ n.doc = doc /\ n.from = win /\ Says(n)
    BY <1>2, <2>1, <2>2, MessageTypes DEF FromPopup, TypeOK
  <2>4. (gated' # {} => port') /\ (Runs => running' = doc /\ port')
    BY <1>2, <2>1 DEF Runs
  <2> QED BY <1>1, <1>7, <2>3, <2>4, SaysSession
<1>8. ASSUME doc # 0, OnStop(m) PROVE SessionInv'
  <2>1. CASE UNCHANGED <<port, gated, wallet, toDapp>>
    BY <1>4, <2>1
  <2>2. CASE Says(FromPopup("event", 0, None, "")) /\ UNCHANGED <<port, gated>>
    <3>1. PICK n : n = FromPopup("event", 0, None, "")
      OBVIOUS
    <3>2. n \in FromMsgs /\ n.type = "event" /\ n.doc = 0 /\ n.from = win /\ Says(n)
      BY <1>2, <2>2, <3>1, MessageTypes DEF FromPopup
    <3> QED BY <1>1, <1>2, <1>8, <2>2, <3>2, SaysSession
  <2> QED BY <1>8, <2>1, <2>2 DEF OnStop
<1> QED BY <1>1, <1>4, <1>5, <1>6, <1>7, <1>8


\* The page's own steps leave what is on its way to it, and what is so of sessions, as it was.
LEMMA PageSteps ==
  ASSUME ChannelInv, ChannelInv', SessionInv, UNCHANGED <<toDapp, doc, port, running, session>>,
         win' = win \/ win = 0, count'.docs = count.docs, count'.wins >= count.wins,
         doc # 0 /\ session # 0 /\ popup' = win => popup = win
  PROVE  /\ Stamped' /\ InTurn' /\ Followed' /\ Told'
         /\ \A v, w \in Nat : Heard(v, w) => HeardNext(v, w)
<1>1. TypeOK /\ TypeOK' /\ Windows /\ Stamped /\ InTurn /\ Followed /\ Told
  BY DEF ChannelInv, SessionInv
<1>2. Grows /\ Added = {}
  BY GrowsNone
<1>3. win <= count.wins /\ doc <= count.docs /\ (doc # 0 => win # 0)
  BY <1>1 DEF Windows
<1>4. Stamped' /\ InTurn' /\ \A v, w \in Nat : Heard(v, w) => HeardNext(v, w)
  <2>1. (doc' = doc /\ win' = win) \/ doc' = 0
    BY <1>3
  <2> QED BY <1>1, <1>2, <1>3, <2>1, StreamKeeps
<1>5. Followed'
  BY <1>1 DEF Followed
<1>6. Told'
  <2>1. CASE doc = 0
    BY <2>1 DEF Told
  <2>2. CASE doc # 0
    <3>1. win' = win
      BY <1>3, <2>2
    <3>2. Told' <=>
              /\ \A k \in DOMAIN toDapp :
                   Tells(k) /\ toDapp[k].doc = doc /\ (\A j \in DOMAIN toDapp : j > k => ~Tells(j)) => Runs
              /\ session = doc /\ popup' = win /\ (\A k \in DOMAIN toDapp : ~Tells(k)) => Runs
      BY <2>2, <3>1 DEF Told, Tells, Runs
    <3> QED BY <1>1, <2>2, <3>2 DEF Told
  <2> QED BY <2>1, <2>2
<1> QED BY <1>4, <1>5, <1>6

\* A request stops, or its popup is blocked.
LEMMA StopSession ==
  ASSUME ChannelInv, ChannelInv', SessionInv, NEW r \in Requests, Stop(r) \/ Blocked(r) PROVE SessionInv'
<1>1. /\ UNCHANGED <<ready, known, session, announced, win, doc, port, gated, running, toDapp, count>>
      /\ popup' = popup \/ (popup' = 0 /\ ~(popup # 0 /\ win = popup))
  BY DEF Stop, Blocked, window, wallet
<1>2. TypeOK /\ Windows /\ Views /\ Bound
  BY DEF ChannelInv, SessionInv
<1>3. /\ popup \in Nat /\ known \in Nat /\ announced \in Nat /\ win \in Nat /\ doc \in Nat
      /\ count.wins \in Nat /\ count'.wins >= count.wins
  <2>1. count \in [wins : Nat, docs : Nat, leaves : Nat, resets : Nat]
    BY <1>2 DEF TypeOK
  <2> QED BY <1>1, <1>2, <2>1 DEF TypeOK
<1>4. Forwarded' \subseteq Forwarded
  <2>1. CASE Stop(r)
    <3>1. {r} \in SUBSET Outstanding /\ req' = Settled({r})
      BY <2>1 DEF Stop
    <3> QED BY <1>2, <3>1, SettledFacts DEF Forwarded
  <2>2. CASE Blocked(r)
    <3>1. req' = [req EXCEPT ![r] = "not-submitted"]
      BY <2>2 DEF Blocked
    <3>2. \A s \in Requests : req'[s] = "forwarded" => req[s] = "forwarded"
      BY <1>2, <3>1 DEF TypeOK
    <3> QED BY <3>2 DEF Forwarded
  <2> QED BY <2>1, <2>2
<1>5. doc # 0 /\ session # 0 /\ popup' = win => popup = win
  BY <1>1, <1>2 DEF Windows
<1>6. /\ Stamped' /\ InTurn' /\ Followed' /\ Told'
      /\ \A v, w \in Nat : Heard(v, w) => HeardNext(v, w)
  BY <1>1, <1>3, <1>5, PageSteps
<1>7. Views'
  <2>1. announced' # 0 => HeardNext(announced', win')
    BY <1>1, <1>2, <1>3, <1>6 DEF Views
  <2>2. popup' # 0 /\ ready' => HeardNext(known', popup')
    BY <1>1, <1>2, <1>3, <1>6 DEF Views
  <2>3. popup' # 0 /\ ~ready' /\ Forwarded' # {} => HeardNext(0, popup')
    BY <1>1, <1>2, <1>3, <1>4, <1>6 DEF Views
  <2> QED BY <2>1, <2>2, <2>3, ViewsNext
<1>8. Windows'
  <2>1. popup' = 0 /\ win # 0 => popup = 0
    BY <1>1, <1>2 DEF Windows
  <2> QED BY <1>1, <1>2, <1>4, <2>1 DEF Windows
<1>9. Bound'
  BY <1>1, <1>2 DEF Bound
<1> QED BY <1>6, <1>7, <1>8, <1>9 DEF SessionInv

\* A request asks: the popup is kept, reused, or opened.
LEMMA AskSession ==
  ASSUME ChannelInv, ChannelInv', SessionInv, NEW r \in Requests, Ask(r) PROVE SessionInv'
<1> DEFINE new == win = 0
           keep == popup # 0 /\ win = popup
<1>1. /\ UNCHANGED <<session, doc, port, gated, running, toDapp>>
      /\ win' = (IF new THEN count.wins + 1 ELSE win)
      /\ count' = [count EXCEPT !.wins = IF new THEN @ + 1 ELSE @]
      /\ popup' = win'
      /\ announced' = (IF new THEN 0 ELSE announced)
      /\ known' = (IF keep THEN known ELSE announced')
      /\ ready' = (IF keep THEN ready ELSE announced' # 0)
      /\ ~ready' => req' = [req EXCEPT ![r] = "queued"]
  BY DEF Ask, Flushes, wallet
<1>2. TypeOK /\ Windows /\ Stamped /\ Views /\ Bound
  BY DEF ChannelInv, SessionInv
<1>3. /\ popup \in Nat /\ known \in Nat /\ announced \in Nat /\ win \in Nat /\ doc \in Nat
      /\ count \in [wins : Nat, docs : Nat, leaves : Nat, resets : Nat]
  BY <1>2 DEF TypeOK
<1>4. /\ count'.docs = count.docs /\ count.wins \in Nat
      /\ count'.wins = IF new THEN count.wins + 1 ELSE count.wins
  <2>1. count' = IF new THEN [count EXCEPT !.wins = @ + 1] ELSE [count EXCEPT !.wins = @]
    BY <1>1
  <2> QED BY <1>3, <2>1, CountTypes
<1>5. /\ (new => doc = 0) /\ (win = 0 \/ keep \/ (popup = 0 /\ Forwarded = {} /\ session = 0))
      /\ win <= count.wins /\ doc <= count.docs /\ session <= count.docs
      /\ (doc = 0 => ~port) /\ (gated # {} => port)
  BY <1>2 DEF Windows
<1>6. /\ Stamped' /\ InTurn' /\ Followed' /\ Told'
      /\ \A v, w \in Nat : Heard(v, w) => HeardNext(v, w)
  <2>1. win' = win \/ win = 0
    BY <1>1
  <2>2. count'.wins >= count.wins
    BY <1>4
  <2>3. doc # 0 /\ session # 0 /\ popup' = win => popup = win
    BY <1>5
  <2> QED BY <1>1, <1>4, <2>1, <2>2, <2>3, PageSteps
<1>7. announced' # 0 => HeardNext(announced', win')
  BY <1>1, <1>2, <1>3, <1>6 DEF Views
<1>8. Windows'
  <2>1. win' # 0 /\ win' <= count'.wins
    BY <1>1, <1>3, <1>4, <1>5
  <2> QED BY <1>1, <1>4, <1>5, <2>1 DEF Windows
<1>9. Bound'
  <2>1. CASE keep
    <3>1. known' = known /\ ready' = ready
      BY <1>1, <2>1
    <3> QED BY <1>1, <1>2, <3>1 DEF Bound
  <2>2. CASE ~keep /\ new
    <3>1. known' = 0 /\ ready' = FALSE /\ doc' = 0
      BY <1>1, <1>5, <2>2
    <3> QED BY <3>1 DEF Bound
  <2>3. CASE ~keep /\ ~new
    BY <1>1, <1>5, <2>3 DEF Bound
  <2> QED BY <2>1, <2>2, <2>3
<1>10. popup' # 0 /\ ready' => HeardNext(known', popup')
  <2>1. CASE keep
    <3>1. known' = known /\ ready' = ready /\ popup' = popup /\ popup # 0
      BY <1>1, <2>1
    <3> QED BY <1>2, <1>3, <1>6, <3>1 DEF Views
  <2>2. CASE ~keep
    BY <1>1, <1>7, <2>2
  <2> QED BY <2>1, <2>2
<1>11. ASSUME popup' # 0, ~ready', Forwarded' # {} PROVE HeardNext(0, popup')
  <2>1. Forwarded' \subseteq Forwarded
    <3>1. req' = [req EXCEPT ![r] = "queued"]
      BY <1>1, <1>11
    <3>2. \A s \in Requests : req'[s] = "forwarded" => req[s] = "forwarded"
      BY <1>2, <3>1 DEF TypeOK
    <3> QED BY <3>2 DEF Forwarded
  <2>2. CASE keep
    <3>1. ready' = ready /\ popup' = popup /\ popup # 0
      BY <1>1, <2>2
    <3> QED BY <1>2, <1>3, <1>6, <1>11, <2>1, <3>1 DEF Views
  <2>3. CASE new
    <3>1. popup' = count.wins + 1 /\ doc' = 0
      BY <1>1, <1>5, <2>3
    <3>2. \A j \in DOMAIN toDapp : toDapp[j].from \in 1..count.wins
      BY <1>2 DEF Stamped
    <3>3. \A j \in DOMAIN toDapp' : toDapp'[j].from # popup'
      BY <1>1, <1>4, <3>1, <3>2
    <3> QED BY <3>1, <3>3 DEF HeardNext
  <2> QED BY <1>5, <1>11, <2>1, <2>2, <2>3
<1>12. Views'
  BY <1>7, <1>10, <1>11, ViewsNext
<1> QED BY <1>6, <1>8, <1>9, <1>12 DEF SessionInv

\* The page reads a message: it shows what the open document said last.
LEMMA PageReadsSession ==
  ASSUME ChannelInv, ChannelInv', SessionInv, PageReads PROVE SessionInv'
<1>0. PICK m : m = Head(toDapp)
  OBVIOUS
<1> DEFINE mine == ~(popup = 0 \/ m.from # popup)
<1>1. /\ toDapp # <<>> /\ toDapp' = Tail(toDapp)
      /\ UNCHANGED <<popup, win, doc, port, gated, running, count>>
      /\ announced' = IF m.from # win THEN announced
                      ELSE IF m.type = "ready" THEN m.doc ELSE IF m.type = "leave" THEN 0 ELSE announced
      /\ ~mine => UNCHANGED <<req, known, ready, session>>
      /\ mine => \/ m.type = "ready" /\ OnReady(m)
                 \/ m.type = "leave" /\ OnLeave(m)
                 \/ m.type = "reset" /\ OnReset(m)
                 \/ m.type = "event" /\ OnEvent(m)
                 \/ m.type = "reply" /\ OnReply(m)
  BY <1>0 DEF PageReads, Announced, window, wallet
<1>2. TypeOK /\ TypeOK' /\ Windows /\ Stamped /\ InTurn /\ Followed /\ Views /\ Bound /\ Told /\ Honest
  BY DEF ChannelInv, SessionInv
<1>3. /\ 1 \in DOMAIN toDapp /\ toDapp[1] = m
      /\ \A i \in DOMAIN toDapp' : i + 1 \in DOMAIN toDapp /\ toDapp'[i] = toDapp[i + 1]
      /\ \A i \in DOMAIN toDapp : i # 1 => i - 1 \in DOMAIN toDapp' /\ toDapp'[i - 1] = toDapp[i]
  <2>1. toDapp \in Seq(FromMsgs)
    BY <1>2 DEF TypeOK
  <2> QED BY <1>0, <1>1, <2>1, TailFacts
<1>4. /\ popup \in Nat /\ known \in Nat /\ announced \in Nat /\ win \in Nat /\ doc \in Nat /\ session \in Nat
      /\ m.doc \in Nat /\ m.from \in Nat /\ m.doc <= count.docs
      /\ m.type \in {"ready", "leave"} => m.doc # 0
      /\ m.type = "reply" => m.r \in Requests /\ m.answer \in Answers /\ req[m.r] \notin {"new", "queued"}
  <2>1. m \in FromMsgs /\ m \in ToSet(toDapp)
    BY <1>0, <1>1, <1>2, ReadFacts
  <2>2. /\ m.doc \in Nat /\ m.from \in Nat /\ (m.type = "reply" => m.r \in Requests /\ m.answer \in Answers)
    BY <2>1, MessageFields
  <2>3. m.doc <= count.docs /\ (m.type \in {"ready", "leave"} => m.doc # 0)
    BY <1>2, <1>3 DEF Stamped
  <2>4. m.type = "reply" => req[m.r] \notin {"new", "queued"}
    BY <1>2, <2>1 DEF Honest
  <2> QED BY <1>2, <2>2, <2>3, <2>4 DEF TypeOK
<1>5. /\ Stamped' /\ InTurn' /\ Followed'
      /\ \A w \in Nat : m.type = "ready" => HeardNext(m.doc, w)
      /\ \A w \in Nat : m.type = "leave" => HeardNext(0, w)
      /\ \A v, w \in Nat : Heard(v, w) /\ (m.type # "ready" \/ m.from # w) => HeardNext(v, w)
  <2>1. UNCHANGED <<win, doc, count>>
    BY <1>1
  <2> QED BY <1>0, <1>1, <1>2, <2>1, TakenStream
\* A message that is neither an announcement nor the known document's says nothing of a document.
<1>6. ASSUME mine, m.doc # 0, m.type \in {"event", "reply"}
      PROVE  /\ ready => m.doc = known
             /\ Forwarded # {} => ready
  <2>1. ASSUME NEW v \in Nat, Heard(v, popup), m.doc # v PROVE FALSE
    <3>1. PICK i \in DOMAIN toDapp : i <= 1 /\ ReadyOf(i, m.doc, popup)
      BY <1>3, <1>6, <2>1 DEF Heard
    <3>2. i = 1
      BY <1>2, <3>1, Places1
    <3> QED BY <1>3, <1>6, <3>1, <3>2 DEF ReadyOf
  <2>2. ready => Heard(known, popup)
    BY <1>2, <1>6 DEF Views
  <2>3. ~ready /\ Forwarded # {} => Heard(0, popup)
    BY <1>2, <1>6 DEF Views
  <2> QED BY <1>4, <1>6, <2>1, <2>2, <2>3
\* What each message does to the page.
<1>7. \/ /\ ~mine /\ UNCHANGED <<req, known, ready, session>>
      \/ /\ mine /\ m.type = "ready" /\ known' = m.doc /\ ready' = TRUE
         /\ session' = IF m.doc = known THEN session ELSE 0
      \/ /\ mine /\ m.type = "leave" /\ ready' = FALSE /\ session' = 0
      \/ /\ mine /\ m.type = "reset" /\ Forwarded' = {} /\ session' = 0 /\ UNCHANGED <<known, ready>>
      \/ /\ mine /\ m.type = "event" /\ session' = (IF ready THEN m.doc ELSE session) /\ UNCHANGED <<req, known, ready>>
      \/ /\ mine /\ m.type = "reply" /\ Forwarded' \subseteq Forwarded /\ UNCHANGED <<known, ready>>
         /\ session' = session \/ (session' = m.doc /\ m.doc # 0 /\ Forwarded # {})
  <2>1. CASE mine /\ m.type = "ready" /\ OnReady(m)
    BY <2>1 DEF OnReady
  <2>2. CASE mine /\ m.type = "leave" /\ OnLeave(m)
    BY <2>2 DEF OnLeave
  <2>3. CASE mine /\ m.type = "reset" /\ OnReset(m)
    <3>1. req' = Settled(Outstanding) /\ session' = 0 /\ UNCHANGED <<known, ready>>
      BY <2>3 DEF OnReset
    <3>2. \A s \in Requests : req'[s] # "forwarded"
      BY <1>2, <3>1, SettledFacts DEF Outstanding
    <3> QED BY <2>3, <3>1, <3>2 DEF Forwarded
  <2>4. CASE mine /\ m.type = "event" /\ OnEvent(m)
    BY <2>4 DEF OnEvent
  <2>5. CASE mine /\ m.type = "reply" /\ OnReply(m)
    <3>1. /\ req' = IF m.r \in Outstanding THEN [req EXCEPT ![m.r] = m.answer] ELSE req
          /\ session' = session \/ (m.r \in Outstanding /\ session' = m.doc /\ m.doc # 0)
          /\ UNCHANGED <<known, ready>>
      BY <2>5 DEF OnReply
    <3>2. \A s \in Requests : req'[s] = "forwarded" => req[s] = "forwarded"
      BY <1>2, <1>4, <2>5, <3>1 DEF TypeOK, Answers
    <3>3. m.r \in Outstanding => m.r \in Forwarded
      BY <1>4, <2>5 DEF Outstanding, Forwarded
    <3> QED BY <2>5, <3>1, <3>2, <3>3 DEF Forwarded
  <2> QED BY <1>1, <2>1, <2>2, <2>3, <2>4, <2>5
<1> HIDE DEF mine
<1>20. mine <=> popup # 0 /\ m.from = popup
  BY DEF mine
<1>8. Forwarded' \subseteq Forwarded \/ (mine /\ m.type = "ready") \/ (mine /\ m.type = "leave")
  BY <1>7 DEF Forwarded
<1>9. announced' # 0 => HeardNext(announced', win')
  BY <1>1, <1>2, <1>4, <1>5 DEF Views
<1>10. popup' # 0 /\ ready' => HeardNext(known', popup')
  BY <1>1, <1>2, <1>4, <1>5, <1>7, <1>20 DEF Views
<1>11. popup' # 0 /\ ~ready' /\ Forwarded' # {} => HeardNext(0, popup')
  BY <1>1, <1>2, <1>4, <1>5, <1>7, <1>8, <1>20 DEF Views
<1>12. Views'
  BY <1>9, <1>10, <1>11, ViewsNext
<1>13. session' \in Nat /\ session' <= count.docs
  <2>1. session' = session \/ session' = 0 \/ session' = m.doc
    BY <1>7
  <2>2. count.docs \in Nat /\ session <= count.docs
    <3>1. count \in [wins : Nat, docs : Nat, leaves : Nat, resets : Nat]
      BY <1>2 DEF TypeOK
    <3> QED BY <1>2, <3>1 DEF Windows
  <2> QED BY <1>4, <2>1, <2>2
<1>14. Windows'
  <2>1. popup = 0 => UNCHANGED <<req, session>>
    BY <1>7, <1>20
  <2>2. popup = 0 => Forwarded' = Forwarded
    BY <2>1 DEF Forwarded
  <2> QED BY <1>1, <1>2, <1>13, <2>1, <2>2 DEF Windows
<1>15. Bound'
  BY <1>1, <1>2, <1>4, <1>6, <1>7 DEF Bound
<1>16. Told'
  <2> DEFINE T(j) == toDapp'[j].from = win /\ toDapp'[j].type \in {"event", "reset"}
  <2>1. \A i \in DOMAIN toDapp' : i \in Nat /\ i >= 1 /\ i + 1 # 1 /\ (T(i) <=> Tells(i + 1))
    <3>1. \A i \in DOMAIN toDapp' : i \in Nat /\ i >= 1
      BY <1>2, PlacesNext
    <3> QED BY <1>3, <3>1 DEF Tells
  <2>2. \A i \in DOMAIN toDapp : i \in Nat /\ i >= 1 /\ (i # 1 => T(i - 1) \/ ~Tells(i))
    <3>1. \A i \in DOMAIN toDapp : i \in Nat /\ i >= 1
      BY <1>2, Places1
    <3> QED BY <1>3, <3>1 DEF Tells
  <2>3. ASSUME NEW k \in DOMAIN toDapp', doc # 0, T(k), toDapp'[k].doc = doc,
               \A j \in DOMAIN toDapp' : j > k => ~T(j)
        PROVE  Runs
    <3>1. k + 1 \in DOMAIN toDapp /\ Tells(k + 1) /\ toDapp[k + 1].doc = doc
      BY <1>3, <2>1, <2>3
    <3>2. ASSUME NEW j \in DOMAIN toDapp, j > k + 1 PROVE ~Tells(j)
      <4>1. j # 1 /\ j - 1 \in DOMAIN toDapp' /\ j - 1 > k
        BY <1>3, <2>1, <2>2, <3>2
      <4>2. ~T(j - 1)
        BY <2>3, <4>1
      <4> QED BY <2>2, <4>1, <4>2
    <3> QED BY <1>2, <2>3, <3>1, <3>2 DEF Told
  <2>4. ASSUME doc # 0, session' = doc, popup = win, \A k \in DOMAIN toDapp' : ~T(k) PROVE Runs
    <3>1. \A k \in DOMAIN toDapp : k # 1 => ~Tells(k)
      BY <1>3, <2>2, <2>4
    <3>2. CASE session = doc /\ ~Tells(1)
      BY <1>2, <2>4, <3>1, <3>2 DEF Told
    <3>3. CASE mine /\ m.type = "event" /\ ready
      <4>1. Tells(1) /\ toDapp[1].doc = doc
        BY <1>3, <1>7, <1>20, <2>4, <3>3 DEF Tells
      <4>2. \A j \in DOMAIN toDapp : j > 1 => ~Tells(j)
        BY <2>2, <3>1
      <4> QED BY <1>2, <1>3, <2>4, <4>1, <4>2 DEF Told
    <3>4. CASE mine /\ m.type = "event" /\ ~ready
      <4>1. session = doc
        BY <1>7, <2>4, <3>4
      <4> QED BY <1>2, <2>4, <3>4, <4>1 DEF Bound
    <3>5. CASE mine /\ m.type = "reply" /\ m.doc # 0
      <4>1. 1 + 1 \in DOMAIN toDapp /\ toDapp[1 + 1].type = "event" /\ toDapp[1 + 1].from = m.from
        BY <1>2, <1>3, <3>5 DEF Followed
      <4>2. Tells(1 + 1)
        BY <1>20, <2>4, <3>5, <4>1 DEF Tells
      <4> QED BY <3>1, <4>1, <4>2
    <3>6. Tells(1) => m.from = win /\ m.type \in {"event", "reset"}
      BY <1>3 DEF Tells
    <3>7. win # 0 /\ popup # 0
      BY <1>2, <2>4 DEF Windows
    <3> QED BY <1>7, <1>20, <2>4, <3>2, <3>3, <3>4, <3>5, <3>6, <3>7
  <2> HIDE DEF T
  <2>5. Told' <=> (doc # 0 =>
            /\ \A k \in DOMAIN toDapp' :
                 T(k) /\ toDapp'[k].doc = doc /\ (\A j \in DOMAIN toDapp' : j > k => ~T(j)) => Runs
            /\ session' = doc /\ popup = win /\ (\A k \in DOMAIN toDapp' : ~T(k)) => Runs)
    BY <1>1 DEF Told, Tells, Runs, T
  <2> QED BY <2>3, <2>4, <2>5
<1> QED BY <1>5, <1>12, <1>14, <1>15, <1>16 DEF SessionInv

\* Nothing was said yet.
LEMMA SessionInit ==
  ASSUME Init PROVE SessionInv
<1>1. DOMAIN toDapp = {}
  BY DEF Init
<1>2. Windows /\ Stamped /\ InTurn /\ Followed /\ Views /\ Bound /\ Told
  BY <1>1 DEF Init, Windows, Stamped, InTurn, Followed, Views, Bound, Told, Forwarded
<1> QED BY <1>2 DEF SessionInv

\* Each step keeps what the page hears in order.
LEMMA SessionStep ==
  ASSUME ChannelInv, ChannelInv', SessionInv, [Next]_vars PROVE SessionInv'
<1>1. ASSUME NEW r \in Requests,
             Ask(r) \/ Blocked(r) \/ Stop(r) \/ GateOpens(r) \/ CarryOut(r) \/ Tell(r) \/ Refuse(r)
      PROVE  SessionInv'
  BY <1>1, AskSession, StopSession, WalletSession, CarryOutSession
<1>2. CASE Poll \/ PageLeaves \/ PageReads \/ ReadyDeadline
  BY <1>2, EndsSession, PageReadsSession
<1>3. CASE Load \/ Leaves \/ Crash \/ HostGone \/ PopupReads \/ Reset \/ SessionEnds
  BY <1>3, LoadSession, GoneSession, HostGoneSession, PopupReadsSession, StopsSession
<1>4. CASE UNCHANGED vars
  <2>1. UNCHANGED <<req, popup, ready, known, session, announced, win, doc, toDapp, port, gated, running, count>>
    BY <1>4 DEF vars, page, window, wallet
  <2>2. (doc = 0 => ~port) /\ (gated # {} => port)
    BY DEF SessionInv, Windows
  <2>3. Runs => running' = doc /\ port'
    BY <2>1 DEF Runs
  <2> QED BY <2>1, <2>2, <2>3, SilentSession
<1> QED BY <1>1, <1>2, <1>3, <1>4 DEF Next

\* The page hears the documents in turn, over any reloads, crashes, resets and late messages.
THEOREM SessionTheorem == Spec => []SessionInv
<1>1. Init => SessionInv
  BY SessionInit
<1>2. ChannelInv /\ ChannelInv' /\ SessionInv /\ [Next]_vars => SessionInv'
  BY SessionStep
<1> QED BY <1>1, <1>2, ChannelTheorem, PTL DEF Spec

\* A mint session shown as running is the known document's, and the wallet runs it once nothing is
\* on its way from it (setSession, sdk.ts).
THEOREM ShownTheorem == Spec => []ShownSessionRuns
<1>1. SessionInv => ShownSessionRuns
  BY DEF SessionInv, Bound, Told, Runs, ShownSessionRuns, Tells
<1> QED BY <1>1, SessionTheorem, PTL

=============================================================================
