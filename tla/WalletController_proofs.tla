---------------------- MODULE WalletController_proofs ----------------------
(* Proofs about WalletController, for every number of requests, pages, windows, accounts, networks
   and events: the mutex has one owner, what is signed is what was shown, nothing is signed or sent
   after an end, a lock wins over an unlock, and what a site is told of a payment is true.  Where no
   write of "clear history" is refused, what left is also kept, and no account has two payments
   unresolved. *)
EXTENDS WalletController, TLAPS

-----------------------------------------------------------------------------
(* Types *)

Stages == {"none", "prep", "review", "signing", "done"}
Statuses == {"none", "signed", "cancelled", "uncertain", "submitted", "final"}
Job == [stage : Stages, kind : {"none", "connect", "transaction", "proof", "session"},
        page : Pages \cup {NoPage}, ctx : Contexts, epoch : Nat, rev : Nat, cancelled : BOOLEAN,
        expired : BOOLEAN, quote : Nat, turn : Nat, window : {"none", "opening", "open", "failed"}]
Grants == [Pages -> [Accounts -> Networks \cup {NoNetwork}]]
Image == [txs : [Requests -> Statuses], grants : Grants, ctx : Contexts]
Savers == Calls \cup {"clear", "key", "switch", "other"}
Queued == [img : Image, by : Savers]
AtGrant == {"grant", "ungrant"}
Pcs == {"idle", "approve", "retip", "reject", "retipping"} \cup AtGrant \cup AtWork
Call == [pc : Pcs, req : Requests \cup {NoRequest}, shown : Nat, quote : Nat,
         io : {"none", "ok", "failed"}]
Answers == {"none", "refused", "unknown", "result"}

PersonOK ==
  /\ session \in [held : BOOLEAN, epoch : Nat] /\ ctx \in Contexts /\ grants \in Grants
  /\ pending \subseteq Pages \cup {NoPage} /\ pages \in [Pages -> [alive : BOOLEAN, rev : Nat]]
  /\ key \in [op : {"none", "unlock", "select", "add"}, saving : BOOLEAN, epoch : Nat,
              ctx : Contexts, late : BOOLEAN]
  /\ switching \in {"no", "moving", "saving", "saved"}
TableOK == jobs \in [Requests -> Job] /\ busy \in BOOLEAN /\ answer \in [Requests -> Answers]
CallsOK ==
  /\ calls \in [Calls -> Call]
  /\ \A w \in Calls : calls[w].pc # "idle" => calls[w].req \in Requests
HistoryOK ==
  /\ txs \in [Requests -> Statuses] /\ list \subseteq Requests
  /\ clear \in [on : BOOLEAN, previous : SUBSET Requests]
StoreOK == disk \in Image /\ writes \in Seq(Queued)
GhostsOK ==
  signed \subseteq Requests \X Nat \X Nat /\ wire \subseteq Requests /\ over \subseteq Requests
RestOK == mint \in Requests \cup {NoRequest} /\ left \in [events : Nat, clears : Nat]

TypeOK == PersonOK /\ TableOK /\ CallsOK /\ HistoryOK /\ StoreOK /\ GhostsOK /\ RestOK

\* The steps by what takes them: createJob(), the messages of a window, the two kinds of approval, what
\* ends a request or a session, the key and the network, and storage.
Creating ==
  \/ \E r \in Requests, k \in Kinds, p \in Pages \cup {NoPage} : Ask(r, k, p)
  \/ \E r \in Requests : Prepared(r) \/ NotPrepared(r) \/ WindowOpens(r) \/ WindowFails(r)
Messaging ==
  \/ \E w \in Calls, r \in Requests, what \in {"approve", "retip", "reject"}, q \in 0..MaxEvents :
       Message(w, r, what, q)
  \/ \E w \in Calls : MessageRefused(w) \/ Reject(w) \/ Retip(w) \/ Retipped(w)
Paying(w) ==
  \/ Claim(w) \/ Verified(w) \/ Proved(w) \/ NotVerified(w) \/ Recorded(w) \/ Submit(w)
  \/ Submitted(w) \/ Told(w) \/ Undone(w)
Granting(w) ==
  \/ Connect(w) \/ Connected(w) \/ NotConnected(w) \/ ClaimSession(w) \/ StartSession(w) \/ NotStarted(w)
Ending ==
  \/ SessionEnds \/ Lock \/ Alarm
  \/ \E p \in Pages : Revoke(p) \/ Leave(p) \/ Return(p)
  \/ \E r \in Requests : CancelRequest(r) \/ Expire(r) \/ History(r)
Keying ==
  \/ \E op \in {"unlock", "select", "add"}, c \in Contexts : KeyBegins(op, c)
  \/ KeyProved \/ KeyFails \/ SwitchBegins \/ SwitchEnds
  \/ \E n \in Networks : SwitchMoves(n)
Storing == ClearHistory \/ Land \/ WriteFails \/ Crash
LEMMA Steps ==
  ASSUME [Next]_vars
  PROVE  \/ Creating \/ Messaging \/ (\E w \in Calls : Paying(w)) \/ (\E w \in Calls : Granting(w))
         \/ Ending \/ Keying \/ Storing \/ UNCHANGED vars
<1>1. \A w \in Calls : Approval(w) => Paying(w) \/ Granting(w)
  BY DEF Approval, Paying, Granting
<1>2. CASE \E w \in Calls : Approval(w)
  BY <1>1, <1>2
<1>3. CASE Next /\ ~\E w \in Calls : Approval(w)
  BY <1>3 DEF Next, Creating, Messaging, Ending, Keying, Storing
<1> QED BY <1>2, <1>3

\* What a step may make of a request keeps its type.
LEMMA JobChanges ==
  ASSUME NEW j \in Job
  PROVE  /\ [j EXCEPT !.stage = "signing"] \in Job /\ [j EXCEPT !.stage = "done"] \in Job
         /\ [j EXCEPT !.cancelled = TRUE] \in Job /\ [j EXCEPT !.expired = TRUE] \in Job
         /\ [j EXCEPT !.window = "open"] \in Job
         /\ [j EXCEPT !.stage = "review", !.window = "opening"] \in Job
         /\ [j EXCEPT !.window = "failed", !.stage = "done"] \in Job
         /\ [j EXCEPT !.stage = "done", !.window = "failed"] \in Job
         /\ [j EXCEPT !.cancelled = TRUE, !.stage = "done"] \in Job
         /\ [j EXCEPT !.cancelled = TRUE, !.stage = @] \in Job
<1>1. {"signing", "done", "review"} \subseteq Stages  BY DEF Stages
<1>2. [j EXCEPT !.stage = "signing"] \in Job /\ [j EXCEPT !.stage = "done"] \in Job  BY <1>1 DEF Job
<1>3. [j EXCEPT !.cancelled = TRUE] \in Job /\ [j EXCEPT !.expired = TRUE] \in Job  BY DEF Job
<1>4. [j EXCEPT !.window = "open"] \in Job  BY DEF Job
<1>5. [j EXCEPT !.stage = "review", !.window = "opening"] \in Job  BY <1>1 DEF Job
<1>6. [j EXCEPT !.window = "failed", !.stage = "done"] \in Job  BY <1>1 DEF Job
<1>7. [j EXCEPT !.stage = "done", !.window = "failed"] \in Job  BY <1>1 DEF Job
<1>8. [j EXCEPT !.cancelled = TRUE, !.stage = "done"] \in Job  BY <1>1 DEF Job
<1>9. [j EXCEPT !.cancelled = TRUE, !.stage = @] \in Job  BY DEF Job
<1> QED BY <1>2, <1>3, <1>4, <1>5, <1>6, <1>7, <1>8, <1>9

\* invalidate() keeps the table's type.
LEMMA InvalidateTypes ==
  ASSUME TableOK, NEW W, Invalidate(W)
  PROVE  TableOK'
<1> DEFINE hit == {r \in W : InTable(r)}
           new(r) == IF r \notin hit THEN jobs[r]
                     ELSE [jobs[r] EXCEPT !.cancelled = TRUE,
                             !.stage = IF r \in {s \in hit : jobs[s].stage = "review"} THEN "done" ELSE @]
<1>1. ASSUME NEW r \in Requests PROVE new(r) \in Job
  <2>1. PICK j \in Job : j = jobs[r]
    BY DEF TableOK
  <2>2. /\ [j EXCEPT !.cancelled = TRUE, !.stage = "done"] \in Job
        /\ [j EXCEPT !.cancelled = TRUE, !.stage = @] \in Job
    BY JobChanges
  <2>3. CASE r \notin hit
    BY <2>1, <2>3
  <2>4. CASE r \in hit /\ jobs[r].stage = "review"
    <3>1. new(r) = [jobs[r] EXCEPT !.cancelled = TRUE, !.stage = "done"]
      BY <2>4
    <3> HIDE DEF new
    <3> QED BY <2>1, <2>2, <3>1
  <2>5. CASE r \in hit /\ jobs[r].stage # "review"
    <3>1. new(r) = [jobs[r] EXCEPT !.cancelled = TRUE, !.stage = @]
      BY <2>5
    <3> HIDE DEF new
    <3> QED BY <2>1, <2>2, <3>1
  <2> QED BY <2>3, <2>4, <2>5
<1>2. jobs' = [r \in Requests |-> new(r)]
  BY DEF Invalidate
<1>3. jobs' \in [Requests -> Job]
  <2> HIDE DEF new
  <2> QED BY <1>1, <1>2
<1>4. answer' \in [Requests -> Answers]
  BY DEF Invalidate, TableOK, Answers
<1>5. busy' \in BOOLEAN
  BY DEF Invalidate, TableOK
<1> QED BY <1>3, <1>4, <1>5 DEF TableOK

\* finish() keeps the types of the jobs and the answers.
LEMMA ReplyTypes ==
  ASSUME TableOK, NEW r \in Requests, NEW v \in Answers, Reply(r, v)
  PROVE  jobs' \in [Requests -> Job] /\ answer' \in [Requests -> Answers]
<1>1. [jobs[r] EXCEPT !.stage = "done"] \in Job
  BY DEF TableOK, Job, Stages
<1>2. CASE InTable(r)
  BY <1>1, <1>2 DEF Reply, TableOK
<1>3. CASE ~InTable(r)
  BY <1>3 DEF Reply, TableOK
<1> QED BY <1>2, <1>3

\* A snapshot has the type of what is stored.
LEMMA SaveTypes ==
  ASSUME StoreOK, txs' \in [Requests -> Statuses], grants' \in Grants, ctx' \in Contexts,
         NEW by \in Savers, Save(by)
  PROVE  writes' \in Seq(Queued)
<1>1. Lines(txs', list') \in [Requests -> Statuses]
  BY DEF Lines, Statuses
<1>2. [img |-> [txs |-> Lines(txs', list'), grants |-> grants', ctx |-> ctx'], by |-> by] \in Queued
  BY <1>1 DEF Queued, Image
<1> QED BY <1>2 DEF Save, StoreOK

\* A message's next step, or its end, keeps the type of the messages.
LEMMA GoTypes ==
  ASSUME CallsOK, NEW w \in Calls, calls[w].pc # "idle",
         Rest(w) \/ \E pc \in Pcs : Go(w, pc)
  PROVE  CallsOK'
<1>1. CASE Rest(w)
  BY <1>1 DEF CallsOK, Rest, Idle, Call, Pcs
<1>2. ASSUME NEW pc \in Pcs, Go(w, pc)
      PROVE  CallsOK'
  <2> DEFINE new == [calls[w] EXCEPT !.pc = pc, !.io = "none"]
  <2>1. new \in Call
    BY DEF CallsOK, Call
  <2>2. calls' = [calls EXCEPT ![w] = new]
    BY <1>2 DEF Go, CallsOK, Call
  <2>3. new.req = calls[w].req
    BY DEF CallsOK, Call
  <2> QED BY <2>1, <2>2, <2>3 DEF CallsOK
<1> QED BY <1>1, <1>2

\* What a step leaves alone keeps its type.
LEMMA SameTypes ==
  ASSUME TypeOK
  PROVE  /\ UNCHANGED person => PersonOK'
         /\ UNCHANGED table => TableOK'
         /\ UNCHANGED calls => CallsOK'
         /\ UNCHANGED history => HistoryOK'
         /\ UNCHANGED store => StoreOK'
         /\ UNCHANGED ghosts => GhostsOK'
         /\ UNCHANGED <<mint, left>> => RestOK'
<1>1. UNCHANGED person => PersonOK'
  BY DEF TypeOK, person, PersonOK
<1>2. UNCHANGED table => TableOK'
  BY DEF TypeOK, table, TableOK
<1>3. UNCHANGED calls => CallsOK'
  BY DEF TypeOK, CallsOK
<1>4. UNCHANGED history => HistoryOK'
  BY DEF TypeOK, history, HistoryOK
<1>5. UNCHANGED store => StoreOK'
  BY DEF TypeOK, store, StoreOK
<1>6. UNCHANGED ghosts => GhostsOK'
  BY DEF TypeOK, ghosts, GhostsOK
<1>7. UNCHANGED <<mint, left>> => RestOK'
  BY DEF TypeOK, RestOK
<1> QED BY <1>1, <1>2, <1>3, <1>4, <1>5, <1>6, <1>7

\* The initial state has the types.
LEMMA InitTypes == Init => TypeOK
<1> SUFFICES ASSUME Init PROVE TypeOK
  OBVIOUS
<1> USE ControllerConstants
<1>1. ctx \in Contexts /\ First \in Contexts
  BY DEF Init
<1>2. grants \in Grants
  <2>1. First.account \in Accounts /\ First.network \in Networks
    BY DEF Contexts
  <2>2. /\ [a \in Accounts |-> NoNetwork] \in [Accounts -> Networks \cup {NoNetwork}]
        /\ [a \in Accounts |-> IF a = First.account THEN First.network ELSE NoNetwork]
             \in [Accounts -> Networks \cup {NoNetwork}]
    BY <2>1
  <2> QED BY <2>2 DEF Init, Grants
<1>3. PersonOK
  BY <1>1, <1>2 DEF Init, PersonOK, NoKey
<1>4. TableOK
  BY <1>1 DEF Init, TableOK, Blank, Job, Stages, Answers
<1>5. CallsOK
  BY DEF Init, CallsOK, Idle, Call, Pcs
<1>6. HistoryOK
  BY DEF Init, HistoryOK, NoClear, Statuses
<1>7. StoreOK
  BY <1>1, <1>2, <1>6 DEF Init, StoreOK, Image, HistoryOK
<1>8. GhostsOK /\ RestOK
  BY DEF Init, GhostsOK, RestOK
<1> QED BY <1>3, <1>4, <1>5, <1>6, <1>7, <1>8 DEF TypeOK

\* createJob() keeps the types.
LEMMA CreateTypes ==
  ASSUME TypeOK, NEW r \in Requests,
         \/ \E k \in Kinds, p \in Pages \cup {NoPage} : Ask(r, k, p)
         \/ Prepared(r) \/ NotPrepared(r) \/ WindowOpens(r) \/ WindowFails(r)
  PROVE  TypeOK'
<1> USE SameTypes DEF TypeOK
<1>1. ASSUME NEW k \in Kinds, NEW p \in Pages \cup {NoPage}, Ask(r, k, p)
      PROVE  TableOK'
  <2> DEFINE new == [Blank EXCEPT !.stage = "prep", !.kind = k, !.page = p, !.ctx = ctx,
                       !.epoch = session.epoch, !.rev = IF p \in Pages THEN pages[p].rev ELSE 0]
  <2>1. new \in Job
    <3>1. PICK rev \in Nat : rev = IF p \in Pages THEN pages[p].rev ELSE 0
      BY DEF PersonOK
    <3>2. /\ session.epoch \in Nat /\ ctx \in Contexts
          /\ k \in {"none", "connect", "transaction", "proof", "session"} /\ "prep" \in Stages
      BY ControllerConstants DEF PersonOK, Stages
    <3>3. new = [Blank EXCEPT !.stage = "prep", !.kind = k, !.page = p, !.ctx = ctx,
                   !.epoch = session.epoch, !.rev = rev]
      BY <3>1
    <3>4. new = [stage |-> "prep", kind |-> k, page |-> p, ctx |-> ctx, epoch |-> session.epoch,
                 rev |-> rev, cancelled |-> FALSE, expired |-> FALSE, quote |-> 0, turn |-> 0,
                 window |-> "none"]
      <4> HIDE DEF new
      <4> QED BY <3>3 DEF Blank
    <3> HIDE DEF new
    <3> QED BY <3>2, <3>4 DEF Job
  <2>2. jobs' = [jobs EXCEPT ![r] = new] /\ UNCHANGED answer /\ busy' \in BOOLEAN
    BY <1>1 DEF Ask, TableOK
  <2> QED BY <2>1, <2>2 DEF TableOK
<1>2. CASE Prepared(r)
  <2>1. [jobs[r] EXCEPT !.stage = "review", !.window = "opening"] \in Job
    <3>1. PICK j \in Job : j = jobs[r]
      BY DEF TableOK
    <3> QED BY <3>1, JobChanges
  <2> QED BY <1>2, <2>1 DEF TableOK, Prepared
<1>3. CASE NotPrepared(r)
  <2>1. [jobs[r] EXCEPT !.stage = "done"] \in Job
    <3>1. PICK j \in Job : j = jobs[r]
      BY DEF TableOK
    <3> QED BY <3>1, JobChanges
  <2> QED BY <1>3, <2>1 DEF TableOK, NotPrepared, Answers
<1>4. CASE WindowOpens(r)
  <2>1. [jobs[r] EXCEPT !.window = "open"] \in Job
    <3>1. PICK j \in Job : j = jobs[r]
      BY DEF TableOK
    <3> QED BY <3>1, JobChanges
  <2> QED BY <1>4, <2>1 DEF TableOK, WindowOpens
<1>5. CASE WindowFails(r)
  <2>1. [jobs[r] EXCEPT !.window = "failed", !.stage = "done"] \in Job
    <3>1. PICK j \in Job : j = jobs[r]
      BY DEF TableOK
    <3> QED BY <3>1, JobChanges
  <2> QED BY <1>5, <2>1 DEF TableOK, WindowFails, Answers
<1> QED BY <1>1, <1>2, <1>3, <1>4, <1>5 DEF Ask, Prepared, NotPrepared, WindowOpens, WindowFails

\* What is spent of a bound is at least one.
LEMMA SpendTypes ==
  ASSUME RestOK, NEW what \in {"events", "clears"}, Spend(what)
  PROVE  left' \in [events : Nat, clears : Nat] /\ (what = "events" => left'.clears = left.clears)
<1>1. CASE what = "events"
  BY <1>1 DEF Spend, RestOK
<1>2. CASE what = "clears"
  BY <1>2 DEF Spend, RestOK
<1> QED BY <1>1, <1>2

\* The messages of a window before an approval keep the types.
LEMMA MessageTypes ==
  ASSUME TypeOK, NEW w \in Calls,
         \/ \E r \in Requests, what \in {"approve", "retip", "reject"}, q \in 0..MaxEvents :
              Message(w, r, what, q)
         \/ MessageRefused(w) \/ Reject(w) \/ Retip(w) \/ Retipped(w)
  PROVE  TypeOK'
<1> USE SameTypes DEF TypeOK
<1>1. ASSUME NEW r \in Requests, NEW what \in {"approve", "retip", "reject"}, NEW q \in 0..MaxEvents,
             Message(w, r, what, q)
      PROVE  TypeOK'
  <2> DEFINE new == [Idle EXCEPT !.pc = what, !.req = r, !.shown = q]
  <2>1. new \in Call /\ new.req = r
    <3>1. q \in Nat
      BY ControllerConstants
    <3> QED BY <3>1 DEF Idle, Call, Pcs
  <2>2. CallsOK'
    <3>1. calls' = [calls EXCEPT ![w] = new]
      BY <1>1 DEF Message
    <3> HIDE DEF new
    <3> QED BY <2>1, <3>1 DEF CallsOK
  <2>3. RestOK'
    BY <1>1, SpendTypes DEF Message, Event, RestOK
  <2> QED BY <1>1, <2>2, <2>3 DEF Message
<1>2. CASE MessageRefused(w)
  <2>1. CallsOK'
    BY <1>2, GoTypes DEF MessageRefused, Reviewed
  <2> QED BY <1>2, <2>1 DEF MessageRefused
<1>3. CASE Reject(w)
  <2>1. calls[w].pc = "reject" /\ calls[w].req \in Requests
    BY <1>3 DEF Reject, Reviewed, CallsOK
  <2>2. CallsOK' /\ TableOK'
    BY <1>3, <2>1, GoTypes, InvalidateTypes DEF Reject
  <2>3. GhostsOK'
    BY <1>3, <2>1 DEF Reject, GhostsOK
  <2> QED BY <1>3, <2>2, <2>3 DEF Reject, store
<1>4. CASE Retip(w)
  <2> DEFINE r == calls[w].req
  <2>1. calls[w].pc = "retip" /\ r \in Requests
    BY <1>4 DEF Retip, Reviewed, CallsOK
  <2>2. [jobs[r] EXCEPT !.turn = @ + 1] \in Job /\ jobs[r].turn + 1 \in Nat
    BY <2>1 DEF TableOK, Job
  <2>3. TableOK'
    BY <1>4, <2>1, <2>2 DEF Retip, TableOK
  <2>4. [calls[w] EXCEPT !.pc = "retipping", !.quote = jobs[r].turn + 1] \in Call
    BY <2>2 DEF CallsOK, Call, Pcs
  <2>5. CallsOK'
    <3> DEFINE new == [calls[w] EXCEPT !.pc = "retipping", !.quote = jobs[r].turn + 1]
    <3>1. calls' = [calls EXCEPT ![w] = new]
      BY <1>4 DEF Retip, CallsOK, Call
    <3>2. new.req = r
      BY DEF CallsOK, Call
    <3> HIDE DEF new
    <3> QED BY <2>1, <2>4, <3>1, <3>2 DEF CallsOK, new
  <2> QED BY <1>4, <2>3, <2>5 DEF Retip
<1>5. CASE Retipped(w)
  <2> DEFINE r == calls[w].req
  <2>1. calls[w].pc = "retipping" /\ r \in Requests
    BY <1>5 DEF Retipped, CallsOK
  <2>2. [jobs[r] EXCEPT !.quote = calls[w].quote] \in Job
    BY <2>1 DEF TableOK, Job, CallsOK, Call
  <2>3. TableOK'
    BY <1>5, <2>1, <2>2 DEF Retipped, TableOK
  <2>4. CallsOK'
    BY <1>5, <2>1, GoTypes DEF Retipped
  <2> QED BY <1>5, <2>3, <2>4 DEF Retipped
<1> QED BY <1>1, <1>2, <1>3, <1>4, <1>5

\* The approval of a transaction or a proof keeps the types.
LEMMA PaymentTypes ==
  ASSUME TypeOK, NEW w \in Calls,
         \/ Claim(w) \/ Verified(w) \/ Proved(w) \/ NotVerified(w) \/ Recorded(w) \/ Submit(w)
         \/ Submitted(w) \/ Told(w) \/ Undone(w)
  PROVE  TypeOK'
<1> USE SameTypes DEF TypeOK
<1> DEFINE r == calls[w].req
<1>a. calls[w].pc # "idle" /\ r \in Requests
  <2>1. calls[w].pc # "idle"
    BY DEF Claim, FirstClaim, Reviewed, Verified, Proved, Signs, NotVerified, Recorded, Submit,
           Submitted, Told, Undone
  <2> QED BY <2>1 DEF CallsOK
<1>r. ASSUME NEW v \in Answers, Reply(r, v), busy' \in BOOLEAN PROVE TableOK'
  BY <1>a, <1>r, ReplyTypes DEF TableOK
<1>v. {"refused", "result", "unknown"} \subseteq Answers /\ w \in Savers
  BY DEF Answers, Savers
<1>1. CASE Claim(w)
  <2>1. CASE DigestIs(w) /\ Unlocked(r) /\ jobs[r].stage = "review"
    <3>1. [jobs[r] EXCEPT !.stage = "signing"] \in Job
      <4>1. PICK j \in Job : j = jobs[r]
        BY <1>a DEF TableOK
      <4> QED BY <4>1, JobChanges
    <3>2. TableOK'
      BY <1>1, <2>1, <1>a, <3>1 DEF Claim, TableOK
    <3> DEFINE new == [calls[w] EXCEPT !.pc = "verify", !.quote = jobs[r].quote]
    <3>3. new \in Call /\ new.req = r
      <4>1. PICK q \in Nat : q = jobs[r].quote
        BY <1>a DEF TableOK, Job
      <4>2. calls[w] \in Call /\ "verify" \in Pcs
        BY DEF CallsOK, Pcs, AtWork
      <4>3. [calls[w] EXCEPT !.pc = "verify", !.quote = q] \in Call
        BY <4>2 DEF Call
      <4>4. [calls[w] EXCEPT !.pc = "verify", !.quote = q].req = calls[w].req
        BY <4>2 DEF Call
      <4> QED BY <4>1, <4>3, <4>4
    <3>4. calls' = [calls EXCEPT ![w] = new]
      BY <1>1, <2>1 DEF Claim, CallsOK, Call
    <3>5. CallsOK'
      <4> HIDE DEF new
      <4> QED BY <1>a, <3>3, <3>4 DEF CallsOK
    <3> QED BY <1>1, <3>2, <3>5 DEF Claim
  <2>2. CASE ~(DigestIs(w) /\ Unlocked(r) /\ jobs[r].stage = "review")
    <3>1. Reply(r, "refused") /\ busy' = FALSE /\ Rest(w)
      BY <1>1, <2>2 DEF Claim
    <3>2. TableOK' /\ CallsOK'
      BY <1>a, <1>r, <1>v, <3>1, GoTypes
    <3> QED BY <1>1, <3>2 DEF Claim
  <2> QED BY <2>1, <2>2
<1>2. CASE Verified(w)
  <2>1. HistoryOK'
    BY <1>2, <1>a DEF Verified, HistoryOK, Statuses
  <2>2. PersonOK'
    BY <1>2 DEF Verified
  <2>3. StoreOK'
    BY <1>2, <1>v, <2>1, <2>2, SaveTypes DEF Verified, HistoryOK, PersonOK, StoreOK
  <2>4. CallsOK'
    BY <1>2, <1>a, GoTypes DEF Verified, Pcs, AtWork
  <2>5. GhostsOK'
    BY <1>2, <1>a DEF Verified, Signs, GhostsOK, CallsOK, Call
  <2> QED BY <1>2, <2>1, <2>2, <2>3, <2>4, <2>5 DEF Verified
<1>3. CASE Proved(w)
  <2>1. TableOK' /\ CallsOK'
    BY <1>3, <1>a, <1>r, <1>v, GoTypes DEF Proved
  <2>2. GhostsOK'
    BY <1>3, <1>a DEF Proved, Signs, GhostsOK, CallsOK, Call
  <2> QED BY <1>3, <2>1, <2>2 DEF Proved
<1>4. CASE NotVerified(w)
  <2>1. TableOK' /\ CallsOK'
    BY <1>4, <1>a, <1>r, <1>v, GoTypes DEF NotVerified
  <2> QED BY <1>4, <2>1 DEF NotVerified
<1>5. CASE Recorded(w)
  <2>1. HistoryOK'
    BY <1>5, <1>a DEF Recorded, HistoryOK, Statuses
  <2>2. PersonOK'
    BY <1>5 DEF Recorded
  <2>3. StoreOK'
    BY <1>5, <1>v, <2>1, <2>2, SaveTypes DEF Recorded, HistoryOK, PersonOK, StoreOK
  <2>4. CallsOK'
    BY <1>5, <1>a, GoTypes DEF Recorded, Pcs, AtWork
  <2> QED BY <1>5, <2>1, <2>2, <2>3, <2>4 DEF Recorded
<1>6. CASE Submit(w)
  <2>1. CASE Submits(w)
    <3>1. GhostsOK'
      BY <1>6, <1>a, <2>1 DEF Submit, GhostsOK
    <3>2. CallsOK'
      BY <1>6, <1>a, <2>1, GoTypes DEF Submit, Pcs, AtWork
    <3> QED BY <1>6, <2>1, <3>1, <3>2 DEF Submit
  <2>2. CASE ~Submits(w)
    <3>1. TableOK' /\ CallsOK'
      BY <1>6, <1>a, <1>r, <1>v, <2>2, GoTypes DEF Submit
    <3> QED BY <1>6, <2>2, <3>1 DEF Submit, ghosts
  <2> QED BY <2>1, <2>2
<1>7. CASE Submitted(w)
  <2>1. HistoryOK'
    BY <1>7, <1>a DEF Submitted, HistoryOK, Statuses
  <2>2. PersonOK'
    BY <1>7 DEF Submitted
  <2>3. StoreOK'
    BY <1>7, <1>v, <2>1, <2>2, SaveTypes DEF Submitted, HistoryOK, PersonOK, StoreOK
  <2>4. CallsOK'
    BY <1>7, <1>a, GoTypes DEF Submitted, Pcs, AtWork
  <2> QED BY <1>7, <2>1, <2>2, <2>3, <2>4 DEF Submitted
<1>8. CASE Told(w)
  <2>1. TableOK' /\ CallsOK'
    BY <1>8, <1>a, <1>r, <1>v, GoTypes DEF Told
  <2> QED BY <1>8, <2>1 DEF Told
<1>9. CASE Undone(w)
  <2>1. CallsOK'
    BY <1>9, <1>a, GoTypes DEF Undone
  <2>2. TableOK'
    BY <1>9, <1>r, <1>v DEF Undone, TableOK
  <2> QED BY <1>9, <2>1, <2>2 DEF Undone
<1> QED BY <1>1, <1>2, <1>3, <1>4, <1>5, <1>6, <1>7, <1>8, <1>9

\* One account's grant to one site changes.
LEMMA GrantsTypes ==
  ASSUME grants \in Grants, NEW n \in Networks \cup {NoNetwork}, NEW p, NEW a
  PROVE  [grants EXCEPT ![p][a] = n] \in Grants
<1>1. CASE p \in Pages
  <2>1. [grants[p] EXCEPT ![a] = n] \in [Accounts -> Networks \cup {NoNetwork}]
    BY <1>1 DEF Grants
  <2> QED BY <1>1, <2>1 DEF Grants
<1>2. CASE p \notin Pages
  BY <1>2 DEF Grants
<1> QED BY <1>1, <1>2

\* The approval of a connection or a session keeps the types.
LEMMA GrantTypes ==
  ASSUME TypeOK, NEW w \in Calls,
         \/ Connect(w) \/ Connected(w) \/ NotConnected(w)
         \/ ClaimSession(w) \/ StartSession(w) \/ NotStarted(w)
  PROVE  TypeOK'
<1> USE SameTypes DEF TypeOK
<1> DEFINE r == calls[w].req
           p == jobs[r].page
<1>a. calls[w].pc # "idle" /\ r \in Requests
  <2>1. calls[w].pc # "idle"
    BY DEF Connect, ClaimSession, FirstClaim, Reviewed, Connected, NotConnected, StartSession, NotStarted
  <2> QED BY <2>1 DEF CallsOK
<1>b. jobs[r] \in Job
  BY <1>a DEF TableOK
<1>r. ASSUME NEW v \in Answers, Reply(r, v), busy' \in BOOLEAN PROVE TableOK'
  BY <1>a, <1>r, ReplyTypes DEF TableOK
<1>v. {"refused", "result", "unknown"} \subseteq Answers /\ w \in Savers /\ busy \in BOOLEAN
  BY DEF Answers, Savers, TableOK
<1>1. CASE Connect(w)
  <2>0. p \in Pages \cup {NoPage}
    BY <1>b DEF Job
  <2>1. HistoryOK'
    BY <1>1 DEF Connect
  <2>2. PersonOK'
    <3>1. grants' \in Grants
      BY <1>1, GrantsTypes DEF Connect, Granted, PersonOK, Contexts
    <3> QED BY <1>1, <2>0, <3>1 DEF Connect, PersonOK
  <2>3. StoreOK'
    BY <1>1, <1>v, <2>1, <2>2, SaveTypes DEF Connect, HistoryOK, PersonOK, StoreOK
  <2>4. CallsOK'
    BY <1>1, <1>a, GoTypes DEF Connect, Pcs, AtGrant
  <2>5. TableOK'
    <3>1. [jobs[r] EXCEPT !.stage = "signing"] \in Job
      BY <1>b DEF Job, Stages
    <3> QED BY <1>1, <1>a, <3>1 DEF Connect, TableOK
  <2> QED BY <1>1, <2>1, <2>2, <2>3, <2>4, <2>5 DEF Connect
<1>2. CASE Connected(w)
  <2>1. CASE calls[w].io = "ok" /\ Current(r) /\ Unlocked(r)
    <3>1. TableOK' /\ CallsOK'
      BY <1>2, <1>a, <1>r, <1>v, <2>1, GoTypes DEF Connected
    <3>2. PersonOK'
      BY <1>2, <2>1 DEF Connected, PersonOK
    <3> QED BY <1>2, <2>1, <3>1, <3>2 DEF Connected, store
  <2>2. CASE ~(calls[w].io = "ok" /\ Current(r) /\ Unlocked(r))
    <3>1. PersonOK'
      <4>0. [grants EXCEPT ![p][jobs[r].ctx.account] = NoNetwork] \in Grants
        BY GrantsTypes DEF PersonOK
      <4>1. grants' \in Grants
        BY <1>2, <2>2, <4>0 DEF Connected
      <4> QED BY <1>2, <2>2, <4>1 DEF Connected, PersonOK
    <3>2. HistoryOK'
      BY <1>2, <2>2 DEF Connected
    <3>3. StoreOK'
      BY <1>2, <1>v, <2>2, <3>1, <3>2, SaveTypes DEF Connected, HistoryOK, PersonOK, StoreOK
    <3>4. CallsOK'
      BY <1>2, <1>a, <2>2, GoTypes DEF Connected, Pcs, AtGrant
    <3> QED BY <1>2, <2>2, <3>1, <3>2, <3>3, <3>4 DEF Connected
  <2> QED BY <2>1, <2>2
<1>3. CASE NotConnected(w)
  <2>1. TableOK' /\ CallsOK'
    BY <1>3, <1>a, <1>r, <1>v, GoTypes DEF NotConnected
  <2>2. PersonOK'
    BY <1>3 DEF NotConnected, PersonOK
  <2> QED BY <1>3, <2>1, <2>2 DEF NotConnected
<1>4. CASE ClaimSession(w)
  <2>1. CASE jobs' = [jobs EXCEPT ![r].stage = "signing"] /\ UNCHANGED <<person, history, busy, answer>>
              /\ Save(w) /\ Go(w, "record")
    <3>1. TableOK'
      <4>1. [jobs[r] EXCEPT !.stage = "signing"] \in Job
        BY <1>b DEF Job, Stages
      <4> QED BY <2>1, <1>a, <4>1 DEF TableOK
    <3>2. CallsOK'
      BY <1>a, <2>1, GoTypes DEF Pcs, AtWork
    <3>3. PersonOK' /\ HistoryOK'
      BY <2>1
    <3>4. StoreOK'
      BY <1>4, <1>v, <2>1, <3>3, SaveTypes DEF ClaimSession, HistoryOK, PersonOK, StoreOK
    <3> QED BY <1>4, <3>1, <3>2, <3>3, <3>4 DEF ClaimSession
  <2>2. CASE Reply(r, "refused") /\ busy' = FALSE /\ Rest(w) /\ UNCHANGED <<person, history, writes>>
    <3>1. TableOK' /\ CallsOK'
      BY <1>a, <1>r, <1>v, <2>2, GoTypes
    <3> QED BY <1>4, <2>2, <3>1 DEF ClaimSession, store
  <2> QED BY <1>4, <2>1, <2>2 DEF ClaimSession
<1>5. CASE StartSession(w)
  <2>1. CASE calls[w].io = "ok" /\ ~Current(r)
    <3>1. CallsOK'
      BY <1>5, <1>a, <2>1, GoTypes DEF StartSession, Pcs, AtWork
    <3>2. PersonOK' /\ HistoryOK'
      BY <1>5, <2>1 DEF StartSession
    <3>3. StoreOK'
      BY <1>5, <1>v, <2>1, <3>2, SaveTypes DEF StartSession, HistoryOK, PersonOK, StoreOK
    <3> QED BY <1>5, <2>1, <3>1, <3>2, <3>3 DEF StartSession
  <2>2. CASE ~(calls[w].io = "ok" /\ ~Current(r))
    <3>1. TableOK'
      BY <1>5, <1>r, <1>v, <2>2 DEF StartSession
    <3>2. CallsOK'
      BY <1>5, <1>a, <2>2, GoTypes DEF StartSession
    <3>3. mint' \in Requests \cup {NoRequest}
      BY <1>5, <1>a, <2>2 DEF StartSession, RestOK
    <3> QED BY <1>5, <2>2, <3>1, <3>2, <3>3 DEF StartSession, store, RestOK
  <2> QED BY <2>1, <2>2
<1>6. CASE NotStarted(w)
  <2>1. TableOK' /\ CallsOK'
    BY <1>6, <1>a, <1>r, <1>v, GoTypes DEF NotStarted
  <2> QED BY <1>6, <2>1 DEF NotStarted
<1> QED BY <1>1, <1>2, <1>3, <1>4, <1>5, <1>6

\* What ends requests keeps the types.
LEMMA EndTypes ==
  ASSUME TypeOK,
         \/ SessionEnds \/ Lock \/ Alarm
         \/ \E p \in Pages : Revoke(p) \/ Leave(p) \/ Return(p)
         \/ \E r \in Requests : CancelRequest(r) \/ Expire(r)
  PROVE  TypeOK'
<1> USE SameTypes DEF TypeOK
<1>a. Asked \subseteq Requests
  BY DEF Asked
<1>b. ASSUME NEW kind, Event(kind), UNCHANGED mint PROVE RestOK'
  BY <1>b, SpendTypes DEF Event, RestOK
<1>1. CASE SessionEnds
  BY <1>1 DEF SessionEnds, TableOK, RestOK
<1>2. CASE Lock
  <2>1. PersonOK'
    <3>1. (key.late \/ key.op # "none") \in BOOLEAN
      BY DEF PersonOK
    <3>2. key' \in [op : {"none", "unlock", "select", "add"}, saving : BOOLEAN, epoch : Nat,
                    ctx : Contexts, late : BOOLEAN]
      BY <1>2, <3>1 DEF Lock, PersonOK
    <3>3. session' \in [held : BOOLEAN, epoch : Nat]
      BY <1>2 DEF Lock, PersonOK
    <3> QED BY <1>2, <3>2, <3>3 DEF Lock, PersonOK
  <2>2. TableOK' /\ RestOK'
    BY <1>2, <1>b, InvalidateTypes DEF Lock
  <2>3. GhostsOK'
    BY <1>2, <1>a DEF Lock, GhostsOK
  <2> QED BY <1>2, <2>1, <2>2, <2>3 DEF Lock
<1>3. CASE Alarm
  <2>1. TableOK'
    BY <1>3, InvalidateTypes DEF Alarm
  <2> QED BY <1>3, <2>1 DEF Alarm
<1>4. ASSUME NEW p \in Pages, Revoke(p) PROVE TypeOK'
  <2>1. PersonOK'
    BY <1>4 DEF Revoke, PersonOK, Grants
  <2>2. TableOK' /\ RestOK' /\ HistoryOK'
    BY <1>4, <1>b, InvalidateTypes DEF Revoke
  <2>3. StoreOK'
    BY <1>4, <2>1, <2>2, SaveTypes DEF Revoke, HistoryOK, PersonOK, StoreOK, Savers
  <2>4. GhostsOK'
    BY <1>4, <1>a DEF Revoke, GhostsOK, AskedBy
  <2> QED BY <1>4, <2>1, <2>2, <2>3, <2>4 DEF Revoke
<1>5. ASSUME NEW p \in Pages, Leave(p) PROVE TypeOK'
  <2>1. PersonOK'
    BY <1>5 DEF Leave, PersonOK
  <2>2. TableOK' /\ RestOK'
    BY <1>5, <1>b, InvalidateTypes DEF Leave
  <2>3. GhostsOK'
    BY <1>5, <1>a DEF Leave, GhostsOK, AskedBy
  <2> QED BY <1>5, <2>1, <2>2, <2>3 DEF Leave
<1>6. ASSUME NEW p \in Pages, Return(p) PROVE TypeOK'
  <2>1. PersonOK'
    BY <1>6 DEF Return, PersonOK
  <2> QED BY <1>6, <2>1 DEF Return
<1>7. ASSUME NEW r \in Requests, CancelRequest(r) PROVE TypeOK'
  <2>1. TableOK'
    <3>1. [jobs[r] EXCEPT !.cancelled = TRUE] \in Job
      <4>1. PICK j \in Job : j = jobs[r]
        BY DEF TableOK
      <4> QED BY <4>1, JobChanges
    <3>2. CASE InTable(r)
      BY <1>7, <3>2, InvalidateTypes DEF CancelRequest
    <3>3. CASE ~InTable(r)
      BY <1>7, <3>1, <3>3 DEF CancelRequest, TableOK
    <3> QED BY <3>2, <3>3
  <2>2. GhostsOK' /\ RestOK'
    BY <1>7, <1>b DEF CancelRequest, GhostsOK
  <2> QED BY <1>7, <2>1, <2>2 DEF CancelRequest
<1>8. ASSUME NEW r \in Requests, Expire(r) PROVE TypeOK'
  <2>1. [jobs[r] EXCEPT !.expired = TRUE] \in Job
    <3>1. PICK j \in Job : j = jobs[r]
      BY DEF TableOK
    <3> QED BY <3>1, JobChanges
  <2>2. TableOK'
    BY <1>8, <2>1 DEF Expire, TableOK
  <2>3. GhostsOK' /\ RestOK'
    BY <1>8, <1>b DEF Expire, GhostsOK
  <2> QED BY <1>8, <2>2, <2>3 DEF Expire
<1> QED BY <1>1, <1>2, <1>3, <1>4, <1>5, <1>6, <1>7, <1>8

\* The operations that hold the key, and the network switch, keep the types.
LEMMA KeyTypes ==
  ASSUME TypeOK,
         \/ \E op \in {"unlock", "select", "add"}, c \in Contexts : KeyBegins(op, c)
         \/ KeyProved \/ KeyFails \/ SwitchBegins \/ SwitchEnds
         \/ \E n \in Networks : SwitchMoves(n)
  PROVE  TypeOK'
<1> USE SameTypes DEF TypeOK
<1>a. Asked \subseteq Requests
  BY DEF Asked
<1>b. ASSUME NEW kind, Event(kind), UNCHANGED mint PROVE RestOK'
  BY <1>b, SpendTypes DEF Event, RestOK
<1>n. NoKey \in [op : {"none", "unlock", "select", "add"}, saving : BOOLEAN, epoch : Nat,
                 ctx : Contexts, late : BOOLEAN]
  BY ControllerConstants DEF NoKey
<1>1. ASSUME NEW op \in {"unlock", "select", "add"}, NEW c \in Contexts, KeyBegins(op, c)
      PROVE  TypeOK'
  <2>1. [NoKey EXCEPT !.op = op, !.epoch = session.epoch, !.ctx = c]
          \in [op : {"none", "unlock", "select", "add"}, saving : BOOLEAN, epoch : Nat,
               ctx : Contexts, late : BOOLEAN]
    BY <1>n DEF PersonOK
  <2>2. PersonOK'
    BY <1>1, <2>1 DEF KeyBegins, PersonOK
  <2>3. RestOK'
    BY <1>1, <1>b DEF KeyBegins
  <2> QED BY <1>1, <2>2, <2>3 DEF KeyBegins
<1>2. CASE KeyProved
  <2>1. CASE session.epoch = key.epoch /\ (key.op = "unlock" \/ session.held)
    <3>1. CASE key.op = "unlock"
      <4>1. PersonOK'
        BY <1>2, <2>1, <3>1 DEF KeyProved, PersonOK
      <4>2. TableOK' /\ GhostsOK' /\ HistoryOK'
        BY <1>2, <2>1, <3>1 DEF KeyProved, ghosts
      <4>3. StoreOK'
        BY <1>2, <2>1, <4>1, <4>2, SaveTypes DEF KeyProved, HistoryOK, PersonOK, StoreOK, Savers
      <4> QED BY <1>2, <4>1, <4>2, <4>3 DEF KeyProved
    <3>2. CASE key.op # "unlock"
      <4>1. PersonOK'
        <5>1. session' \in [held : BOOLEAN, epoch : Nat]
          BY <1>2, <2>1, <3>2 DEF KeyProved, PersonOK
        <5> QED BY <1>2, <2>1, <3>2, <5>1 DEF KeyProved, PersonOK
      <4>2. TableOK' /\ HistoryOK'
        BY <1>2, <2>1, <3>2, InvalidateTypes DEF KeyProved
      <4>3. GhostsOK'
        BY <1>2, <2>1, <3>2, <1>a DEF KeyProved, GhostsOK
      <4>4. StoreOK'
        BY <1>2, <2>1, <4>1, <4>2, SaveTypes DEF KeyProved, HistoryOK, PersonOK, StoreOK, Savers
      <4> QED BY <1>2, <4>1, <4>2, <4>3, <4>4 DEF KeyProved
    <3> QED BY <3>1, <3>2
  <2>2. CASE ~(session.epoch = key.epoch /\ (key.op = "unlock" \/ session.held))
    <3>1. PersonOK'
      BY <1>2, <2>2, <1>n DEF KeyProved, PersonOK
    <3> QED BY <1>2, <2>2, <3>1 DEF KeyProved, store, ghosts
  <2> QED BY <2>1, <2>2
<1>3. CASE KeyFails
  <2>1. PersonOK'
    BY <1>3, <1>n DEF KeyFails, PersonOK
  <2> QED BY <1>3, <2>1 DEF KeyFails
<1>4. CASE SwitchBegins
  <2>1. PersonOK'
    BY <1>4 DEF SwitchBegins, PersonOK
  <2>2. TableOK' /\ RestOK'
    BY <1>4, <1>b, InvalidateTypes DEF SwitchBegins
  <2>3. GhostsOK'
    BY <1>4, <1>a DEF SwitchBegins, GhostsOK
  <2> QED BY <1>4, <2>1, <2>2, <2>3 DEF SwitchBegins
<1>5. CASE SwitchEnds
  <2>1. PersonOK'
    <3>1. pages' \in [Pages -> [alive : BOOLEAN, rev : Nat]]
      <4>1. \A p \in Pages : [pages[p] EXCEPT !.alive = FALSE] \in [alive : BOOLEAN, rev : Nat]
        BY DEF PersonOK
      <4> QED BY <1>5, <4>1 DEF SwitchEnds
    <3> QED BY <1>5, <3>1 DEF SwitchEnds, PersonOK
  <2>2. TableOK'
    BY <1>5, InvalidateTypes DEF SwitchEnds
  <2>3. GhostsOK'
    BY <1>5, <1>a DEF SwitchEnds, GhostsOK
  <2> QED BY <1>5, <2>1, <2>2, <2>3 DEF SwitchEnds
<1>6. ASSUME NEW n \in Networks, SwitchMoves(n) PROVE TypeOK'
  <2>1. PersonOK'
    <3>1. [ctx EXCEPT !.network = n] \in Contexts
      BY DEF Contexts, PersonOK
    <3> QED BY <1>6, <3>1 DEF SwitchMoves, PersonOK
  <2>2. HistoryOK'
    BY <1>6 DEF SwitchMoves
  <2>3. StoreOK'
    BY <1>6, <2>1, <2>2, SaveTypes DEF SwitchMoves, HistoryOK, PersonOK, StoreOK, Savers
  <2>4. GhostsOK'
    BY <1>6, <1>a DEF SwitchMoves, GhostsOK
  <2> QED BY <1>6, <2>1, <2>2, <2>3, <2>4 DEF SwitchMoves
<1> QED BY <1>1, <1>2, <1>3, <1>4, <1>5, <1>6

\* The answer to a save keeps the types.
LEMMA AnsweredTypes ==
  ASSUME TypeOK, NEW by \in Savers, NEW io \in {"ok", "failed"}, Answered(by, io),
         UNCHANGED <<grants, pending, pages, txs>>
  PROVE  PersonOK' /\ CallsOK' /\ HistoryOK'
<1> USE DEF TypeOK
<1>1. CallsOK'
  <2> DEFINE new(w) == IF w = by THEN [calls[w] EXCEPT !.io = io] ELSE calls[w]
  <2>1. \A w \in Calls : new(w) \in Call /\ new(w).pc = calls[w].pc /\ new(w).req = calls[w].req
    BY DEF CallsOK, Call
  <2>2. calls' = [w \in Calls |-> new(w)]
    BY DEF Answered
  <2> HIDE DEF new
  <2> QED BY <2>1, <2>2 DEF CallsOK
<1>2. session' \in [held : BOOLEAN, epoch : Nat]
  <2>1. (session.held \/ session.epoch = key.epoch) \in BOOLEAN
    OBVIOUS
  <2>2. [session EXCEPT !.held = (@ \/ session.epoch = key.epoch)] \in [held : BOOLEAN, epoch : Nat]
    BY <2>1 DEF PersonOK
  <2> QED BY <2>2 DEF Answered, Install, PersonOK
<1>3. key' \in [op : {"none", "unlock", "select", "add"}, saving : BOOLEAN, epoch : Nat,
                ctx : Contexts, late : BOOLEAN]
  BY ControllerConstants DEF Answered, PersonOK, NoKey
<1>4. ctx' \in Contexts /\ switching' \in {"no", "moving", "saving", "saved"}
  BY DEF Answered, PersonOK
<1>5. HistoryOK'
  BY DEF Answered, HistoryOK, NoClear
<1> QED BY <1>1, <1>2, <1>3, <1>4, <1>5 DEF PersonOK

\* History, storage and restarts keep the types.
LEMMA StoreTypes ==
  ASSUME TypeOK, ClearHistory \/ Land \/ WriteFails \/ Crash \/ \E r \in Requests : History(r)
  PROVE  TypeOK'
<1> USE SameTypes DEF TypeOK
<1>h. writes # <<>> => Head(writes) \in Queued /\ Tail(writes) \in Seq(Queued)
  BY DEF StoreOK
<1>1. ASSUME NEW r \in Requests, History(r) PROVE TypeOK'
  <2>1. HistoryOK' /\ PersonOK'
    BY <1>1 DEF History, HistoryOK, Statuses
  <2>2. StoreOK'
    BY <1>1, <2>1, SaveTypes DEF History, HistoryOK, PersonOK, StoreOK, Savers
  <2> QED BY <1>1, <2>1, <2>2 DEF History
<1>2. CASE ClearHistory
  <2>1. HistoryOK' /\ PersonOK'
    BY <1>2 DEF ClearHistory, HistoryOK
  <2>2. StoreOK'
    BY <1>2, <2>1, SaveTypes DEF ClearHistory, HistoryOK, PersonOK, StoreOK, Savers
  <2>3. RestOK'
    BY <1>2, SpendTypes DEF ClearHistory, Event, RestOK
  <2> QED BY <1>2, <2>1, <2>2, <2>3 DEF ClearHistory
<1>3. CASE Land
  <2>1. StoreOK' /\ Head(writes).by \in Savers
    BY <1>3, <1>h DEF Land, StoreOK, Queued
  <2>2. PersonOK' /\ CallsOK' /\ HistoryOK'
    BY <1>3, <2>1, AnsweredTypes DEF Land
  <2> QED BY <1>3, <2>1, <2>2 DEF Land
<1>4. CASE WriteFails
  <2>1. StoreOK' /\ Head(writes).by \in Savers
    BY <1>4, <1>h DEF WriteFails, StoreOK, Queued
  <2>2. PersonOK' /\ CallsOK' /\ HistoryOK'
    BY <1>4, <2>1, AnsweredTypes DEF WriteFails
  <2>3. RestOK'
    BY <1>4, SpendTypes DEF WriteFails, Event, RestOK
  <2> QED BY <1>4, <2>1, <2>2, <2>3 DEF WriteFails
<1>5. CASE Crash
  <2>1. PersonOK'
    <3>1. pages' \in [Pages -> [alive : BOOLEAN, rev : Nat]]
      <4>1. \A p \in Pages : [pages[p] EXCEPT !.alive = FALSE] \in [alive : BOOLEAN, rev : Nat]
        BY DEF PersonOK
      <4> QED BY <1>5, <4>1 DEF Crash
    <3>2. ctx' \in Contexts /\ grants' \in Grants
      BY <1>5 DEF Crash, StoreOK, Image
    <3>3. session' \in [held : BOOLEAN, epoch : Nat]
      <4>1. session' = [held |-> FALSE, epoch |-> session.epoch + 1]
        BY <1>5 DEF Crash
      <4> QED BY <4>1 DEF PersonOK
    <3>4. key' \in [op : {"none", "unlock", "select", "add"}, saving : BOOLEAN, epoch : Nat,
                    ctx : Contexts, late : BOOLEAN]
      BY <1>5, ControllerConstants DEF Crash, NoKey
    <3> QED BY <1>5, <3>1, <3>2, <3>3, <3>4 DEF Crash, PersonOK
  <2>2. TableOK'
    <3>1. ASSUME NEW r \in Requests
          PROVE  [jobs[r] EXCEPT !.stage = "done", !.window = "failed"] \in Job
      <4>1. PICK j \in Job : j = jobs[r]
        BY DEF TableOK
      <4> QED BY <4>1, JobChanges
    <3> QED BY <1>5, <3>1 DEF Crash, TableOK
  <2>3. CallsOK'
    BY <1>5 DEF Crash, CallsOK, Idle, Call, Pcs
  <2>4. HistoryOK'
    <3>1. disk.txs \in [Requests -> Statuses]
      BY DEF StoreOK, Image
    <3> QED BY <1>5, <3>1 DEF Crash, HistoryOK, NoClear, Statuses
  <2>5. StoreOK' /\ RestOK'
    <3>1. RestOK'
      BY <1>5, SpendTypes DEF Crash, Event, RestOK
    <3>2. StoreOK'
      <4>1. writes' = <<>> /\ UNCHANGED disk
        BY <1>5 DEF Crash
      <4> QED BY <4>1 DEF StoreOK
    <3> QED BY <3>1, <3>2
  <2>6. GhostsOK'
    BY <1>5 DEF Crash, GhostsOK, Asked
  <2> QED BY <2>1, <2>2, <2>3, <2>4, <2>5, <2>6
<1> QED BY <1>1, <1>2, <1>3, <1>4, <1>5

\* Every step keeps the types.
LEMMA StepTypes == TypeOK /\ [Next]_vars => TypeOK'
<1> SUFFICES ASSUME TypeOK, [Next]_vars PROVE TypeOK'
  OBVIOUS
<1>1. CASE UNCHANGED vars
  BY <1>1, SameTypes DEF vars, TypeOK, person, table, history, store, ghosts
<1>2. CASE Next
  BY <1>2, CreateTypes, MessageTypes, PaymentTypes, GrantTypes, EndTypes, KeyTypes, StoreTypes
     DEF Next, Approval
<1> QED BY <1>1, <1>2

-----------------------------------------------------------------------------
(* What the helpers do to one request or one message. *)

\* invalidate() ends what is under review, marks what is being signed and touches nothing else.
LEMMA InvalidateEffect ==
  ASSUME TableOK, NEW W \in SUBSET Requests, Invalidate(W), NEW r \in Requests
  PROVE  /\ jobs'[r] = [jobs[r] EXCEPT
                          !.cancelled = @ \/ (r \in W /\ InTable(r)),
                          !.stage = IF r \in W /\ @ = "review" THEN "done" ELSE @]
         /\ answer'[r] = IF r \in W /\ jobs[r].stage = "review" THEN "refused" ELSE answer[r]
<1>1. jobs[r] \in Job
  BY DEF TableOK
<1>2. CASE r \in W /\ InTable(r)
  BY <1>1, <1>2 DEF Invalidate, InTable, Job
<1>3. CASE ~(r \in W /\ InTable(r))
  BY <1>1, <1>3 DEF Invalidate, InTable, Job
<1> QED BY <1>2, <1>3

\* invalidate() releases the mutex of a review it ends.
LEMMA InvalidateBusy ==
  ASSUME TableOK, NEW W \in SUBSET Requests, Invalidate(W)
  PROVE  busy' <=> busy /\ \A s \in W : jobs[s].stage = "review" => jobs[s].kind = "connect"
BY DEF Invalidate, InTable, TableOK

\* finish() ends one job of the table, once.
LEMMA ReplyEffect ==
  ASSUME TableOK, NEW r \in Requests, NEW v, Reply(r, v), NEW s \in Requests
  PROVE  /\ jobs'[s] = [jobs[s] EXCEPT !.stage = IF s = r /\ InTable(r) THEN "done" ELSE @]
         /\ answer'[s] = IF s = r /\ InTable(r) THEN v ELSE answer[s]
<1>1. jobs[s] \in Job
  BY DEF TableOK
<1>2. CASE s = r /\ InTable(r)
  BY <1>1, <1>2 DEF Reply, TableOK, Job
<1>3. CASE ~(s = r /\ InTable(r))
  <2>1. jobs'[s] = jobs[s] /\ answer'[s] = answer[s]
    BY <1>3 DEF Reply, TableOK
  <2>2. jobs[s] = [jobs[s] EXCEPT !.stage = jobs[s].stage]
    BY <1>1 DEF Job
  <2> QED BY <1>1, <1>3, <2>1, <2>2
<1> QED BY <1>2, <1>3

\* A message goes on, or ends; the others stay where they are.
LEMMA GoEffect ==
  ASSUME CallsOK, NEW w \in Calls, NEW pc, Go(w, pc), NEW v \in Calls
  PROVE  calls'[v] = IF v = w THEN [calls[w] EXCEPT !.pc = pc, !.io = "none"] ELSE calls[v]
BY DEF CallsOK, Call, Go

\* The same of its end.
LEMMA RestEffect ==
  ASSUME CallsOK, NEW w \in Calls, Rest(w), NEW v \in Calls
  PROVE  calls'[v] = IF v = w THEN Idle ELSE calls[v]
BY DEF CallsOK, Rest

-----------------------------------------------------------------------------
(* The mutex *)

\* Message w is past its claim of request r, which it alone carries on.
At(w, r) == calls[w].req = r /\ calls[w].pc \in AtWork \cup AtGrant

\* The kinds whose approval reaches a step.
KindsAt(pc) ==
  IF pc \in AtGrant THEN {"connect"}
  ELSE IF pc \in {"record", "unrecord"} THEN {"session"}
  ELSE IF pc = "verify" THEN {"transaction", "proof"} ELSE {"transaction"}

Places ==
  /\ \A w \in Calls, r \in Requests :
       At(w, r) => jobs[r].stage = "signing" /\ jobs[r].kind \in KindsAt(calls[w].pc)
  /\ \A v, w \in Calls, r \in Requests : At(v, r) /\ At(w, r) => v = w
  /\ \A r \in Requests :
       /\ jobs[r].window = "opening" => jobs[r].stage \in {"review", "done"}
       /\ jobs[r].stage \in {"none", "prep"} => jobs[r].window = "none"
       /\ mint = r => jobs[r].stage = "done" /\ jobs[r].kind = "session"

MutexInv == Places /\ MutexOwned

\* Nothing the mutex depends on moved.
LEMMA MutexFrame ==
  ASSUME TypeOK, MutexInv,
         \A r \in Requests : /\ jobs'[r].stage = jobs[r].stage /\ jobs'[r].kind = jobs[r].kind
                             /\ jobs'[r].window = jobs[r].window,
         \A w \in Calls : calls[w].pc \in AtWork \cup AtGrant \/ calls'[w].pc \in AtWork \cup AtGrant
                            => calls'[w].pc = calls[w].pc /\ calls'[w].req = calls[w].req,
         mint' = mint, busy' = busy
  PROVE  MutexInv'
<1>1. Places'
  BY DEF MutexInv, Places, At
<1>2. \A r \in Requests : Working(r)' <=> Working(r)
  BY DEF Working, AtWork
<1>3. MutexOwned'
  BY <1>2 DEF MutexInv, MutexOwned
<1> QED BY <1>1, <1>3 DEF MutexInv

\* An operation that ends releases the mutex it holds.
LEMMA MutexReleased ==
  ASSUME MutexInv, Places', NEW r \in Requests, Working(r), ~Working(r)', busy' = FALSE,
         \A s \in Requests : Working(s)' => Working(s)
  PROVE  MutexInv'
BY DEF MutexInv, MutexOwned

\* The operations that work stay the same ones.
LEMMA MutexKept ==
  ASSUME MutexInv, Places', \A s \in Requests : Working(s)' <=> Working(s), busy' = busy
  PROVE  MutexInv'
BY DEF MutexInv, MutexOwned

\* The operation of message w finishes its request, and releases the mutex.
LEMMA Finishes ==
  ASSUME TypeOK, MutexInv, NEW w \in Calls, NEW r \in Requests, calls[w].req = r,
         jobs[r].kind # "connect", NEW v,
         At(w, r) \/ (jobs[r].stage = "review" /\ calls[w].pc = "approve"),
         jobs[r].window # "opening",
         Reply(r, v), busy' = FALSE, Rest(w), mint' = mint
  PROVE  MutexInv'
<1> USE DEF MutexInv
<1>1. InTable(r) /\ TableOK /\ CallsOK
  BY DEF InTable, Places, TypeOK
<1>2. \A s \in Requests : /\ jobs'[s].stage = IF s = r THEN "done" ELSE jobs[s].stage
                          /\ jobs'[s].kind = jobs[s].kind
                          /\ jobs'[s].window = jobs[s].window
  <2> TAKE s \in Requests
  <2>1. jobs[s] \in Job
    BY <1>1 DEF TableOK
  <2>2. jobs'[s] = [jobs[s] EXCEPT !.stage = IF s = r /\ InTable(r) THEN "done" ELSE @]
    BY <1>1, ReplyEffect
  <2> QED BY <1>1, <2>1, <2>2 DEF Job
<1>3. \A u \in Calls : calls'[u] = IF u = w THEN Idle ELSE calls[u]
  BY <1>1, RestEffect
<1>4. \A u \in Calls, s \in Requests : At(u, s)' => At(u, s) /\ s # r
  BY <1>3 DEF At, Places, Idle, AtWork, AtGrant
<1>5. mint # r
  BY <1>1 DEF Places, InTable
<1>6. Places'
  BY <1>2, <1>3, <1>4, <1>5 DEF Places, At, Idle, AtWork, AtGrant
<1>7. Working(r)
  BY DEF Working, At, Places, AtGrant, KindsAt
<1>8. ~Working(r)'
  BY <1>2, <1>4, <1>5 DEF Working, At
<1>9. \A s \in Requests : Working(s)' => Working(s)
  <2>1. \A s \in Requests : (\E u \in Calls : calls'[u].req = s /\ calls'[u].pc \in AtWork)
                              => \E u \in Calls : calls[u].req = s /\ calls[u].pc \in AtWork
    BY <1>3 DEF Idle, AtWork
  <2>2. \A s \in Requests : s # r => (Working(s)' => Working(s))
    BY <1>2, <2>1 DEF Working
  <2> QED BY <1>7, <2>2
<1> QED BY <1>6, <1>7, <1>8, <1>9, MutexReleased

\* The operation of message w goes on.
LEMMA Proceeds ==
  ASSUME TypeOK, MutexInv, NEW w \in Calls, NEW r \in Requests, calls[w].req = r,
         calls[w].pc \in AtWork, NEW pc \in AtWork, jobs[r].kind \in KindsAt(pc),
         UNCHANGED jobs, busy' = busy, Go(w, pc), mint' = mint
  PROVE  MutexInv'
<1> USE DEF MutexInv
<1>1. \A u \in Calls : calls'[u].req = calls[u].req /\ calls'[u].pc = IF u = w THEN pc ELSE calls[u].pc
  <2> TAKE u \in Calls
  <2>1. calls[w] \in Call /\ CallsOK
    BY DEF TypeOK, CallsOK
  <2>2. calls'[u] = IF u = w THEN [calls[w] EXCEPT !.pc = pc, !.io = "none"] ELSE calls[u]
    BY <2>1, GoEffect
  <2> QED BY <2>1, <2>2 DEF Call
<1>2. \A u \in Calls, s \in Requests : At(u, s)' <=> At(u, s)
  BY <1>1 DEF At
<1>3. Places'
  <2>1. \A u \in Calls, s \in Requests : At(u, s)' => jobs'[s].stage = "signing" /\ jobs'[s].kind \in KindsAt(calls'[u].pc)
    BY <1>1, <1>2 DEF Places, At
  <2> QED BY <1>2, <2>1 DEF Places
<1>4. \A s \in Requests : Working(s)' <=> Working(s)
  BY <1>1 DEF Working
<1> QED BY <1>3, <1>4, MutexKept

\* createJob() takes the mutex when it is free, and gives back only its own.
LEMMA CreateMutex ==
  ASSUME TypeOK, MutexInv, NEW r \in Requests,
         \/ \E k \in Kinds, p \in Pages \cup {NoPage} : Ask(r, k, p)
         \/ Prepared(r) \/ NotPrepared(r) \/ WindowOpens(r) \/ WindowFails(r)
  PROVE  MutexInv'
<1> USE DEF MutexInv
<1>a. calls' = calls /\ mint' = mint
  BY DEF Ask, Prepared, NotPrepared, WindowOpens, WindowFails
<1>b. \A s \in Requests : jobs[s] \in Job
  BY DEF TypeOK, TableOK
<1>c. jobs[r].stage # "signing" => \A u \in Calls : ~At(u, r)
  BY DEF Places
<1>d. ASSUME NEW s \in Requests, s # r
      PROVE  jobs'[s] = jobs[s]
  <2>1. \E j : jobs' = [jobs EXCEPT ![r] = j]
    BY DEF Ask, Prepared, NotPrepared, WindowOpens, WindowFails
  <2> QED BY <1>d, <2>1 DEF TypeOK, TableOK
<1>w. \A s \in Requests : s # r => (Working(s)' <=> Working(s))
  BY <1>a, <1>d DEF Working
<1>1. ASSUME NEW k \in Kinds, NEW p \in Pages \cup {NoPage}, Ask(r, k, p)
      PROVE  MutexInv'
  <2>1. jobs[r].stage = "none" /\ jobs'[r].stage = "prep" /\ jobs'[r].kind = k /\ jobs'[r].window = "none"
    BY <1>1 DEF Ask, Blank, TypeOK, TableOK
  <2>2. Places'
    BY <1>a, <1>c, <1>d, <2>1 DEF Places, At
  <2>3. CASE k = "connect"
    <3>1. ~Working(r)
      BY <1>c, <2>1 DEF Working, Places, At
    <3>2. ~Working(r)' /\ busy' = busy
      BY <1>1, <2>1, <2>3 DEF Working, Ask
    <3> QED BY <1>w, <2>2, <3>1, <3>2, MutexKept
  <2>4. CASE k # "connect"
    <3>1. busy = FALSE /\ busy' = TRUE
      BY <1>1, <2>4 DEF Ask, TypeOK, TableOK
    <3>2. Working(r)' /\ \A s \in Requests : ~Working(s)
      BY <2>1, <2>4, <3>1 DEF Working, MutexOwned
    <3> QED BY <1>w, <2>2, <3>1, <3>2 DEF MutexOwned
  <2> QED BY <2>3, <2>4
<1>2. CASE Prepared(r)
  <2>1. /\ jobs[r].stage = "prep" /\ jobs'[r].stage = "review" /\ jobs'[r].kind = jobs[r].kind
        /\ busy' = busy
    BY <1>2, <1>b DEF Prepared, Job, TypeOK, TableOK
  <2>2. Places'
    BY <1>a, <1>c, <1>d, <2>1 DEF Places, At
  <2>3. Working(r)' <=> Working(r)
    BY <1>a, <2>1 DEF Working
  <2> QED BY <1>w, <2>1, <2>2, <2>3, MutexKept
<1>3. CASE NotPrepared(r)
  <2>1. /\ jobs[r].stage = "prep" /\ jobs'[r].stage = "done" /\ jobs'[r].kind = jobs[r].kind
        /\ jobs'[r].window = jobs[r].window /\ busy' = (busy /\ jobs[r].kind = "connect")
    BY <1>3, <1>b DEF NotPrepared, Job, TypeOK, TableOK
  <2>2. Places'
    BY <1>a, <1>c, <1>d, <2>1 DEF Places, At
  <2>3. ~Working(r)' /\ (Working(r) <=> jobs[r].kind # "connect")
    BY <1>a, <1>c, <2>1 DEF Working, Places, At
  <2>4. busy' = IF jobs[r].kind = "connect" THEN busy ELSE FALSE
    BY <2>1 DEF TypeOK, TableOK
  <2> QED BY <1>w, <2>2, <2>3, <2>4, MutexKept, MutexReleased
<1>4. CASE WindowOpens(r)
  <2>1. \A s \in Requests : /\ jobs'[s].stage = jobs[s].stage /\ jobs'[s].kind = jobs[s].kind
                            /\ s # r => jobs'[s].window = jobs[s].window
    <3> TAKE s \in Requests
    <3>1. jobs'[r] = [jobs[r] EXCEPT !.window = "open"]
      BY <1>4 DEF WindowOpens, TypeOK, TableOK
    <3> QED BY <1>b, <1>d, <3>1 DEF Job
  <2>2. jobs[r].window = "opening" /\ jobs'[r].window = "open" /\ busy' = busy
    BY <1>4, <1>b DEF WindowOpens, TypeOK, TableOK, Job
  <2>3. Places'
    BY <1>a, <2>1, <2>2 DEF Places, At
  <2>4. \A s \in Requests : Working(s)' <=> Working(s)
    BY <1>a, <2>1 DEF Working
  <2> QED BY <2>2, <2>3, <2>4, MutexKept
<1>5. CASE WindowFails(r)
  <2>1. /\ jobs[r].window = "opening" /\ jobs'[r].stage = "done" /\ jobs'[r].kind = jobs[r].kind
        /\ jobs'[r].window = "failed"
        /\ busy' = IF jobs[r].kind = "connect" \/ ~Owned(r) THEN busy ELSE FALSE
    BY <1>5, <1>b DEF WindowFails, Job, TypeOK, TableOK
  <2>2. jobs[r].stage \in {"review", "done"}
    BY <2>1 DEF Places
  <2>3. Places'
    BY <1>a, <1>c, <1>d, <2>1, <2>2 DEF Places, At
  <2>4. CASE jobs[r].stage = "review" /\ jobs[r].kind # "connect"
    <3>1. Working(r) /\ ~Working(r)' /\ busy' = FALSE
      BY <1>a, <1>c, <2>1, <2>4 DEF Working, Places, At, Owned, InTable
    <3> QED BY <1>w, <2>3, <3>1, MutexReleased
  <2>5. CASE ~(jobs[r].stage = "review" /\ jobs[r].kind # "connect")
    <3>1. Working(r)' <=> Working(r)
      BY <1>a, <1>c, <2>1, <2>2, <2>5 DEF Working, At
    <3>2. busy' = busy
      BY <2>1, <2>2, <2>5 DEF Owned, InTable
    <3> QED BY <1>w, <2>3, <3>1, <3>2, MutexKept
  <2> QED BY <2>4, <2>5
<1> QED BY <1>1, <1>2, <1>3, <1>4, <1>5

\* invalidate() gives the mutex back with the review that held it.
LEMMA InvalidateMutex ==
  ASSUME TypeOK, MutexInv, NEW W \in SUBSET Requests, Invalidate(W), mint' = mint,
         \A w \in Calls : calls[w].pc \in AtWork \cup AtGrant \/ calls'[w].pc \in AtWork \cup AtGrant
                            => calls'[w].pc = calls[w].pc /\ calls'[w].req = calls[w].req
  PROVE  MutexInv'
<1> USE DEF MutexInv
<1>1. \A s \in Requests : /\ jobs'[s].stage = IF s \in W /\ jobs[s].stage = "review" THEN "done" ELSE jobs[s].stage
                          /\ jobs'[s].kind = jobs[s].kind /\ jobs'[s].window = jobs[s].window
  <2> TAKE s \in Requests
  <2>1. jobs[s] \in Job /\ TableOK
    BY DEF TypeOK, TableOK
  <2>2. jobs'[s] = [jobs[s] EXCEPT
                      !.cancelled = @ \/ (s \in W /\ InTable(s)),
                      !.stage = IF s \in W /\ @ = "review" THEN "done" ELSE @]
    BY <2>1, InvalidateEffect
  <2> QED BY <2>1, <2>2 DEF Job
<1>2. \A u \in Calls, s \in Requests : At(u, s)' <=> At(u, s)
  BY DEF At
<1>3. Places'
  BY <1>1, <1>2 DEF Places, At
<1>4. \A s \in Requests : Working(s)' <=> Working(s) /\ ~(s \in W /\ jobs[s].stage = "review")
  <2> TAKE s \in Requests
  <2>1. (\E u \in Calls : calls[u].req = s /\ calls[u].pc \in AtWork)'
          <=> \E u \in Calls : calls[u].req = s /\ calls[u].pc \in AtWork
    BY DEF AtWork
  <2>2. jobs[s].stage = "review" => mint # s /\ ~\E u \in Calls : calls[u].req = s /\ calls[u].pc \in AtWork
    BY DEF Places, At
  <2> QED BY <1>1, <2>1, <2>2 DEF Working
<1>5. busy' <=> busy /\ \A s \in W : jobs[s].stage = "review" => jobs[s].kind = "connect"
  BY InvalidateBusy DEF TypeOK
<1>6. busy \in BOOLEAN /\ busy' \in BOOLEAN
  BY InvalidateTypes DEF TypeOK, TableOK
<1>7. CASE \A s \in W : jobs[s].stage = "review" => jobs[s].kind = "connect"
  BY <1>3, <1>4, <1>5, <1>6, <1>7, MutexKept DEF Working
<1>8. CASE \E s \in W : jobs[s].stage = "review" /\ jobs[s].kind # "connect"
  <2>1. PICK s \in W : jobs[s].stage = "review" /\ jobs[s].kind # "connect"
    BY <1>8
  <2>2. Working(s) /\ ~Working(s)' /\ busy' = FALSE
    BY <1>4, <1>5, <1>6, <2>1 DEF Working
  <2> QED BY <1>3, <1>4, <2>2, MutexReleased
<1> QED BY <1>7, <1>8

\* A message before an approval moves no other one, and stays before it.
LEMMA MessageEffect ==
  ASSUME TypeOK, NEW w \in Calls,
         \/ \E r \in Requests, what \in {"approve", "retip", "reject"}, q \in 0..MaxEvents :
              Message(w, r, what, q)
         \/ MessageRefused(w) \/ Reject(w) \/ Retip(w) \/ Retipped(w)
  PROVE  /\ \A u \in Calls : u # w => calls'[u] = calls[u]
         /\ calls[w].pc \notin AtWork \cup AtGrant /\ calls'[w].pc \notin AtWork \cup AtGrant
<1>a. \A u \in Calls : u # w => calls'[u] = calls[u]
  <2>1. \E c : calls' = [calls EXCEPT ![w] = c]
    BY DEF Message, MessageRefused, Reject, Retip, Retipped, Rest
  <2> QED BY <2>1 DEF TypeOK, CallsOK
<1>b. calls[w].pc \notin AtWork \cup AtGrant
  <2>1. calls[w].pc \in {"idle", "approve", "retip", "reject", "retipping"}
    <3>1. CASE calls[w] = Idle
      BY <3>1 DEF Idle
    <3>2. CASE MessageRefused(w) \/ Reject(w) \/ Retip(w) \/ Retipped(w)
      BY <3>2 DEF MessageRefused, Reject, Retip, Retipped, Reviewed
    <3> QED BY <3>1, <3>2 DEF Message
  <2> QED BY <2>1 DEF AtWork, AtGrant
<1>c. calls[w] \in Call /\ calls'[w] \in Call
  BY MessageTypes DEF TypeOK, CallsOK
<1>d. calls'[w].pc \notin AtWork \cup AtGrant
  <2>1. ASSUME NEW r \in Requests, NEW what \in {"approve", "retip", "reject"}, NEW q \in 0..MaxEvents,
               Message(w, r, what, q)
        PROVE  calls'[w].pc = what
    BY <2>1 DEF Message, Idle, TypeOK, CallsOK
  <2>2. CASE Rest(w)
    BY <2>2, RestEffect DEF TypeOK, Idle, AtWork, AtGrant
  <2>3. CASE Retip(w)
    BY <2>3, <1>c DEF Retip, TypeOK, CallsOK, Call, AtWork, AtGrant
  <2> QED BY <2>1, <2>2, <2>3 DEF MessageRefused, Reject, Retipped, AtWork, AtGrant
<1> QED BY <1>a, <1>b, <1>d

\* The messages before an approval leave the mutex alone, but for a rejection.
LEMMA MessageMutex ==
  ASSUME TypeOK, MutexInv, NEW w \in Calls,
         \/ \E r \in Requests, what \in {"approve", "retip", "reject"}, q \in 0..MaxEvents :
              Message(w, r, what, q)
         \/ MessageRefused(w) \/ Reject(w) \/ Retip(w) \/ Retipped(w)
  PROVE  MutexInv'
<1>e. \A u \in Calls : calls[u].pc \in AtWork \cup AtGrant \/ calls'[u].pc \in AtWork \cup AtGrant
                         => calls'[u].pc = calls[u].pc /\ calls'[u].req = calls[u].req
  BY MessageEffect
<1>f. mint' = mint
  BY DEF Message, MessageRefused, Reject, Retip, Retipped
<1>1. CASE Reject(w)
  <2>1. {calls[w].req} \in SUBSET Requests
    BY <1>1 DEF Reject, Reviewed, TypeOK, CallsOK
  <2> QED BY <1>1, <1>e, <1>f, <2>1, InvalidateMutex DEF Reject
<1>2. CASE ~Reject(w)
  <2>1. busy' = busy
    BY <1>2 DEF Message, MessageRefused, Retip, Retipped, table
  <2>2. \A r \in Requests : /\ jobs'[r].stage = jobs[r].stage /\ jobs'[r].kind = jobs[r].kind
                            /\ jobs'[r].window = jobs[r].window
    <3> TAKE r \in Requests
    <3>1. jobs[r] \in Job
      BY DEF TypeOK, TableOK
    <3>2. jobs' = jobs \/ (\E q, x : jobs' = [jobs EXCEPT ![x].turn = q] \/ jobs' = [jobs EXCEPT ![x].quote = q])
      BY <1>2 DEF Message, MessageRefused, Retip, Retipped, table
    <3> QED BY <3>1, <3>2 DEF Job, TypeOK, TableOK
  <2> QED BY <1>e, <1>f, <2>1, <2>2, MutexFrame
<1> QED BY <1>1, <1>2

\* An approval keeps the mutex until it finishes its request, or its session takes it over.
LEMMA ApprovalMutex ==
  ASSUME TypeOK, MutexInv, NEW w \in Calls, Approval(w)
  PROVE  MutexInv'
<1> USE DEF MutexInv
<1> DEFINE r == calls[w].req
<1>a. calls[w].pc # "idle" /\ r \in Requests
  <2>1. calls[w].pc # "idle"
    BY DEF Approval, Claim, FirstClaim, Reviewed, Verified, Proved, Signs, NotVerified, Recorded, Submit,
           Submitted, Told, Undone, Connect, ClaimSession, Connected, NotConnected, StartSession, NotStarted
  <2> QED BY <2>1 DEF TypeOK, CallsOK
<1>b. \A s \in Requests : jobs[s] \in Job
  BY DEF TypeOK, TableOK
<1>c. CallsOK /\ TableOK
  BY DEF TypeOK
<1>d. calls[w].pc \in AtWork \cup AtGrant => At(w, r)
  BY DEF At
<1>e. jobs[r].window # "opening"
  BY <1>a, <1>d DEF Approval, Claim, FirstClaim, Reviewed, Verified, Proved, Signs, NotVerified, Recorded,
        Submit, Submitted, Told, Undone, Connect, ClaimSession, Connected, NotConnected, StartSession,
        NotStarted, Places, AtWork, AtGrant
<1>f. ASSUME NEW v, Reply(r, v), busy' = FALSE, Rest(w), mint' = mint, jobs[r].kind # "connect",
             At(w, r) \/ (jobs[r].stage = "review" /\ calls[w].pc = "approve")
      PROVE  MutexInv'
  BY <1>a, <1>e, <1>f, Finishes
<1>g. ASSUME NEW pc \in AtWork, calls[w].pc \in AtWork, jobs[r].kind \in KindsAt(pc),
             UNCHANGED jobs, busy' = busy, Go(w, pc), mint' = mint
      PROVE  MutexInv'
  BY <1>a, <1>g, Proceeds
<1>h. ASSUME jobs[r].stage = "review", calls[w].pc = "approve", NEW pc \in AtWork \cup AtGrant,
             jobs' = [jobs EXCEPT ![r].stage = "signing"], jobs[r].kind \in KindsAt(pc),
             calls'[w].pc = pc, calls'[w].req = r, \A u \in Calls : u # w => calls'[u] = calls[u],
             busy' = busy, mint' = mint
      PROVE  MutexInv'
  <2>1. \A s \in Requests : /\ jobs'[s].stage = IF s = r THEN "signing" ELSE jobs[s].stage
                            /\ jobs'[s].kind = jobs[s].kind /\ jobs'[s].window = jobs[s].window
    BY <1>a, <1>b, <1>h DEF Job, TypeOK, TableOK
  <2>2. \A u \in Calls : ~At(u, r)
    BY <1>a, <1>h DEF Places
  <2>3. \A u \in Calls, s \in Requests : At(u, s)' <=> At(u, s) \/ (u = w /\ s = r)
    BY <1>h DEF At, AtWork, AtGrant
  <2>4. mint # r
    BY <1>a, <1>h DEF Places
  <2>5. Places'
    <3>1. \A u \in Calls, s \in Requests : At(u, s)' => jobs'[s].stage = "signing" /\ jobs'[s].kind \in KindsAt(calls'[u].pc)
      BY <1>h, <2>1, <2>2, <2>3 DEF Places, At
    <3>2. \A u, v \in Calls, s \in Requests : At(u, s)' /\ At(v, s)' => u = v
      BY <2>2, <2>3 DEF Places
    <3> QED BY <1>a, <1>e, <1>h, <2>1, <2>4, <3>1, <3>2 DEF Places
  <2>6. \A s \in Requests : s # r => (Working(s)' <=> Working(s))
    BY <1>h, <2>1, <2>3 DEF Working, At, AtWork
  <2>7. Working(r)' <=> Working(r)
    BY <1>a, <1>h, <2>1 DEF Working, KindsAt, AtGrant, AtWork
  <2> QED BY <1>h, <2>5, <2>6, <2>7, MutexKept
<1>i. ASSUME NEW pc, Go(w, pc)
      PROVE  calls'[w].pc = pc /\ calls'[w].req = r /\ \A u \in Calls : u # w => calls'[u] = calls[u]
  <2>1. calls[w] \in Call
    BY <1>c DEF CallsOK
  <2>2. \A u \in Calls : calls'[u] = IF u = w THEN [calls[w] EXCEPT !.pc = pc, !.io = "none"] ELSE calls[u]
    BY <1>c, <1>i, GoEffect
  <2> QED BY <2>1, <2>2 DEF Call
<1>k. ASSUME jobs[r].kind = "connect", At(w, r), mint' = mint, busy' = busy,
             \/ Rest(w) /\ \E v : Reply(r, v)
             \/ Go(w, "ungrant") /\ UNCHANGED jobs
      PROVE  MutexInv'
  <2>1. jobs[r].stage = "signing"
    BY <1>a, <1>k DEF Places
  <2>2. \A u \in Calls : u # w => calls'[u] = calls[u] /\ ~At(u, r)
    BY <1>a, <1>c, <1>i, <1>k, RestEffect DEF Places
  <2>3. \A s \in Requests : /\ jobs'[s].kind = jobs[s].kind /\ jobs'[s].window = jobs[s].window
                            /\ s # r => jobs'[s].stage = jobs[s].stage
                            /\ s = r => jobs'[s].stage = IF Rest(w) /\ (\E v : Reply(r, v)) THEN "done" ELSE jobs[s].stage
    <3> TAKE s \in Requests
    <3>1. CASE Rest(w) /\ \E v : Reply(r, v)
      <4>1. jobs'[s] = [jobs[s] EXCEPT !.stage = IF s = r /\ InTable(r) THEN "done" ELSE @]
        BY <1>a, <1>c, <3>1, ReplyEffect
      <4> QED BY <1>b, <2>1, <3>1, <4>1 DEF InTable, Job
    <3> QED BY <1>k, <3>1
  <2>4. Rest(w) => calls'[w] = Idle
    BY <1>c, RestEffect
  <2>5. Places'
    <3>1. CASE Rest(w) /\ \E v : Reply(r, v)
      BY <1>a, <1>k, <2>1, <2>2, <2>3, <2>4, <3>1 DEF Places, At, Idle, AtGrant, AtWork
    <3>2. CASE Go(w, "ungrant") /\ UNCHANGED jobs
      <4>1. \A u \in Calls, s \in Requests : At(u, s)' <=> At(u, s)
        BY <1>i, <1>k, <2>2, <3>2 DEF At, AtGrant
      <4> QED BY <1>i, <1>k, <2>2, <3>2, <4>1 DEF Places, At, KindsAt, AtGrant
    <3> QED BY <1>k, <3>1, <3>2
  <2>6. calls[w].pc \notin AtWork /\ calls'[w].pc \notin AtWork
    <3>1. calls[w].pc \notin AtWork
      BY <1>a, <1>k DEF Places, At, KindsAt, AtGrant, AtWork
    <3> QED BY <1>i, <1>k, <2>4, <3>1 DEF Idle, AtWork
  <2>7. \A s \in Requests : Working(s)' <=> Working(s)
    BY <1>k, <2>2, <2>3, <2>6 DEF Working
  <2> QED BY <1>k, <2>5, <2>7, MutexKept
<1>1. CASE Claim(w)
  <2>1. CASE DigestIs(w) /\ Unlocked(r) /\ jobs[r].stage = "review"
    <3>1. /\ jobs[r].kind \in KindsAt("verify") /\ calls[w].pc = "approve"
          /\ jobs' = [jobs EXCEPT ![r].stage = "signing"] /\ busy' = busy /\ mint' = mint
      BY <1>1, <2>1 DEF Claim, FirstClaim, Reviewed, KindsAt, AtGrant
    <3>2. /\ calls'[w].pc = "verify" /\ calls'[w].req = r
          /\ \A u \in Calls : u # w => calls'[u] = calls[u]
      BY <1>1, <1>c, <2>1 DEF Claim, CallsOK, Call
    <3>3. "verify" \in AtWork \cup AtGrant
      BY DEF AtWork
    <3> QED BY <1>h, <2>1, <3>1, <3>2, <3>3
  <2>2. CASE ~(DigestIs(w) /\ Unlocked(r) /\ jobs[r].stage = "review")
    BY <1>1, <1>f, <2>2 DEF Claim, FirstClaim, Reviewed
  <2> QED BY <2>1, <2>2
<1>2. CASE Verified(w)
  BY <1>2, <1>g DEF Verified, Signs, table, AtWork, KindsAt, AtGrant
<1>3. CASE Proved(w)
  BY <1>3, <1>d, <1>f DEF Proved, Signs, AtWork
<1>4. CASE NotVerified(w)
  BY <1>4, <1>a, <1>d, <1>f DEF NotVerified, AtWork, Places, KindsAt, AtGrant
<1>5. CASE Recorded(w)
  <2>1. jobs[r].kind = "transaction" /\ calls[w].pc = "signed"
    BY <1>5, <1>a, <1>d DEF Recorded, Places, KindsAt, AtWork, AtGrant
  <2>2. \E pc \in {"uncertain", "undo"} : Go(w, pc)
    BY <1>5 DEF Recorded
  <2>3. UNCHANGED jobs /\ busy' = busy /\ mint' = mint
    BY <1>5 DEF Recorded, table
  <2>4. \A pc \in {"signed", "uncertain", "undo"} : pc \in AtWork /\ jobs[r].kind \in KindsAt(pc)
    BY <2>1 DEF AtWork, KindsAt, AtGrant
  <2> QED BY <1>g, <2>1, <2>2, <2>3, <2>4
<1>6. CASE Submit(w)
  <2>1. jobs[r].kind = "transaction" /\ calls[w].pc = "uncertain" /\ mint' = mint
    BY <1>6, <1>a, <1>d DEF Submit, Places, KindsAt, AtWork, AtGrant
  <2>2. calls[w].pc \in AtWork /\ "submit" \in AtWork /\ jobs[r].kind \in KindsAt("submit")
    BY <2>1 DEF AtWork, KindsAt, AtGrant
  <2>3. CASE Submits(w)
    BY <1>6, <1>g, <2>1, <2>2, <2>3 DEF Submit, table
  <2>4. CASE ~Submits(w)
    BY <1>6, <1>d, <1>f, <2>1, <2>2, <2>4 DEF Submit
  <2> QED BY <2>3, <2>4
<1>7. CASE Submitted(w)
  <2>1. jobs[r].kind = "transaction" /\ calls[w].pc = "submit"
    BY <1>7, <1>a, <1>d DEF Submitted, Places, KindsAt, AtWork, AtGrant
  <2>2. calls[w].pc \in AtWork /\ "told" \in AtWork /\ jobs[r].kind \in KindsAt("told")
    BY <2>1 DEF AtWork, KindsAt, AtGrant
  <2> QED BY <1>7, <1>g, <2>2 DEF Submitted, table
<1>8. CASE Told(w)
  BY <1>8, <1>a, <1>d, <1>f DEF Told, Places, KindsAt, AtWork, AtGrant
<1>9. CASE Undone(w)
  <2>1. jobs[r].kind = "transaction" /\ calls[w].pc = "undo" /\ At(w, r)
    BY <1>9, <1>a, <1>d DEF Undone, Places, KindsAt, AtWork, AtGrant
  <2>2. CASE calls[w].io = "ok"
    BY <1>9, <1>f, <2>1, <2>2 DEF Undone
  <2>3. CASE calls[w].io # "ok"
    <3>1. Rest(w) /\ busy' = FALSE /\ jobs' = jobs /\ mint' = mint
      BY <1>9, <2>3 DEF Undone
    <3>2. \A u \in Calls : calls'[u] = IF u = w THEN Idle ELSE calls[u]
      BY <1>c, <3>1, RestEffect
    <3>3. \A u \in Calls, s \in Requests : At(u, s)' => At(u, s) /\ u # w
      BY <3>2 DEF At, Idle, AtWork, AtGrant
    <3>4. Places'
      BY <3>1, <3>2, <3>3 DEF Places, At
    <3>0. PICK s \in Requests : s = r
      BY <1>a
    <3>5. Working(s)
      BY <2>1, <3>0 DEF Working, AtWork
    <3>6. ~Working(s)'
      <4>1. \A u \in Calls : ~At(u, s)'
        BY <2>1, <3>0, <3>3 DEF Places
      <4>2. jobs[s].stage = "signing" /\ mint # s
        BY <2>1, <3>0 DEF Places
      <4> QED BY <3>1, <4>1, <4>2 DEF Working, At
    <3>7. \A t \in Requests : Working(t)' => Working(t)
      BY <3>1, <3>2 DEF Working, Idle, AtWork
    <3> QED BY <3>1, <3>4, <3>5, <3>6, <3>7, MutexReleased
  <2> QED BY <2>2, <2>3
<1>10. CASE Connect(w)
  <2>1. /\ jobs[r].stage = "review" /\ calls[w].pc = "approve" /\ jobs[r].kind \in KindsAt("grant")
        /\ jobs' = [jobs EXCEPT ![r].stage = "signing"] /\ busy' = busy /\ mint' = mint /\ Go(w, "grant")
    BY <1>10 DEF Connect, Reviewed, KindsAt, AtGrant
  <2>2. "grant" \in AtWork \cup AtGrant
    BY DEF AtGrant
  <2> QED BY <1>h, <1>i, <2>1, <2>2
<1>11. CASE Connected(w)
  <2>1. jobs[r].kind = "connect" /\ At(w, r) /\ mint' = mint
    BY <1>11, <1>a, <1>d DEF Connected, Places, KindsAt, AtGrant
  <2> QED BY <1>11, <1>k, <2>1 DEF Connected, table
<1>12. CASE NotConnected(w)
  <2>1. jobs[r].kind = "connect" /\ At(w, r) /\ mint' = mint /\ busy' = busy
    BY <1>12, <1>a, <1>d DEF NotConnected, Places, KindsAt, AtGrant
  <2> QED BY <1>12, <1>k, <2>1 DEF NotConnected
<1>13. CASE ClaimSession(w)
  <2>1. jobs[r].stage = "review" /\ calls[w].pc = "approve" /\ jobs[r].kind = "session" /\ mint' = mint
    BY <1>13 DEF ClaimSession, FirstClaim, Reviewed
  <2>2. CASE jobs' = [jobs EXCEPT ![r].stage = "signing"] /\ UNCHANGED busy /\ Go(w, "record")
    <3>1. "record" \in AtWork \cup AtGrant /\ jobs[r].kind \in KindsAt("record")
      BY <2>1 DEF AtWork, AtGrant, KindsAt
    <3> QED BY <1>h, <1>i, <2>1, <2>2, <3>1
  <2>3. CASE Reply(r, "refused") /\ busy' = FALSE /\ Rest(w)
    BY <1>f, <2>1, <2>3
  <2> QED BY <1>13, <2>2, <2>3 DEF ClaimSession
<1>14. CASE StartSession(w)
  <2>1. calls[w].pc = "record" /\ jobs[r].kind = "session" /\ At(w, r) /\ jobs[r].stage = "signing"
    BY <1>14, <1>a, <1>d DEF StartSession, Places, KindsAt, AtWork, AtGrant
  <2>2. CASE calls[w].io = "ok" /\ ~Current(r)
    <3>1. UNCHANGED jobs /\ busy' = busy /\ mint' = mint /\ Go(w, "unrecord")
      BY <1>14, <2>2 DEF StartSession, table
    <3>2. calls[w].pc \in AtWork /\ "unrecord" \in AtWork /\ jobs[r].kind \in KindsAt("unrecord")
      BY <2>1 DEF AtWork, KindsAt, AtGrant
    <3> QED BY <1>g, <3>1, <3>2
  <2>3. CASE calls[w].io = "ok" /\ Current(r)
    <3>1. Rest(w) /\ mint' = r /\ Reply(r, "result") /\ busy' = busy
      BY <1>14, <2>3 DEF StartSession
    <3>2. \A s \in Requests : /\ jobs'[s].stage = IF s = r THEN "done" ELSE jobs[s].stage
                              /\ jobs'[s].kind = jobs[s].kind /\ jobs'[s].window = jobs[s].window
      <4> TAKE s \in Requests
      <4>1. jobs'[s] = [jobs[s] EXCEPT !.stage = IF s = r /\ InTable(r) THEN "done" ELSE @]
        BY <1>a, <1>c, <3>1, ReplyEffect
      <4> QED BY <1>b, <2>1, <4>1 DEF InTable, Job
    <3>3. \A u \in Calls : calls'[u] = IF u = w THEN Idle ELSE calls[u]
      BY <1>c, <3>1, RestEffect
    <3>4. \A u \in Calls, s \in Requests : At(u, s)' => At(u, s) /\ s # r
      BY <2>1, <3>3 DEF At, Places, Idle, AtWork, AtGrant
    <3>5. Places'
      BY <1>a, <2>1, <3>1, <3>2, <3>3, <3>4 DEF Places, At, Idle, AtWork, AtGrant
    <3>0. PICK t \in Requests : t = r
      BY <1>a
    <3>6. Working(t) /\ Working(t)'
      BY <2>1, <3>0, <3>1, <3>2 DEF Working, AtWork
    <3>7. \A s \in Requests : s # t => ~Working(s)
      BY <3>6 DEF MutexOwned
    <3>8. \A s \in Requests : s # t => ~Working(s)'
      BY <3>0, <3>1, <3>2, <3>3, <3>7 DEF Working, Idle, AtWork
    <3> QED BY <3>1, <3>5, <3>6, <3>7, <3>8, MutexKept
  <2>4. CASE calls[w].io # "ok"
    <3>1. Rest(w) /\ mint' = mint /\ Reply(r, "refused") /\ busy' = FALSE
      BY <1>14, <2>4 DEF StartSession
    <3> QED BY <1>f, <2>1, <3>1
  <2> QED BY <2>2, <2>3, <2>4
<1>15. CASE NotStarted(w)
  BY <1>15, <1>a, <1>d, <1>f DEF NotStarted, Places, KindsAt, AtWork, AtGrant
<1> QED BY <1>1, <1>2, <1>3, <1>4, <1>5, <1>6, <1>7, <1>8, <1>9, <1>10, <1>11, <1>12, <1>13, <1>14, <1>15
        DEF Approval

\* The landing of a write moves no message between its steps.
LEMMA AnsweredEffect ==
  ASSUME CallsOK, NEW by, NEW io, Answered(by, io), NEW u \in Calls
  PROVE  calls'[u] = IF u = by THEN [calls[u] EXCEPT !.io = io] ELSE calls[u]
BY DEF Answered

\* Every other step leaves the mutex alone, or ends reviews, or restarts the worker.
LEMMA OtherMutex ==
  ASSUME TypeOK, MutexInv,
         \/ SessionEnds \/ Lock \/ Alarm
         \/ \E p \in Pages : Revoke(p) \/ Leave(p) \/ Return(p)
         \/ \E r \in Requests : CancelRequest(r) \/ Expire(r) \/ History(r)
         \/ \E op \in {"unlock", "select", "add"}, c \in Contexts : KeyBegins(op, c)
         \/ KeyProved \/ KeyFails \/ SwitchBegins \/ SwitchEnds
         \/ \E n \in Networks : SwitchMoves(n)
         \/ ClearHistory \/ Land \/ WriteFails \/ Crash
  PROVE  MutexInv'
<1> USE DEF MutexInv
<1>a. Requests \in SUBSET Requests /\ Asked \in SUBSET Requests /\ \A p : AskedBy(p) \in SUBSET Requests
  BY DEF Asked, AskedBy
<1>b. ASSUME NEW W \in SUBSET Requests, Invalidate(W), UNCHANGED <<calls, mint>> PROVE MutexInv'
  BY <1>b, InvalidateMutex
<1>c. ASSUME UNCHANGED <<table, mint>>, calls' = calls \/ \E by, io : Answered(by, io) PROVE MutexInv'
  <2>1. \A u \in Calls : calls'[u].pc = calls[u].pc /\ calls'[u].req = calls[u].req
    <3> TAKE u \in Calls
    <3>1. CASE \E by, io : Answered(by, io)
      <4>1. calls[u] \in Call /\ CallsOK
        BY DEF TypeOK, CallsOK
      <4>2. calls'[u] = calls[u] \/ \E io : calls'[u] = [calls[u] EXCEPT !.io = io]
        BY <3>1, <4>1, AnsweredEffect
      <4> QED BY <4>1, <4>2 DEF Call
    <3> QED BY <1>c, <3>1
  <2> QED BY <1>c, <2>1, MutexFrame DEF table
<1>d. ASSUME NEW r \in Requests, NEW j, jobs' = [jobs EXCEPT ![r] = j], j.stage = jobs[r].stage,
             j.kind = jobs[r].kind, j.window = jobs[r].window, UNCHANGED <<calls, mint, busy>>
      PROVE  MutexInv'
  BY <1>d, MutexFrame DEF TypeOK, TableOK
<1>e. \A r \in Requests : jobs[r] \in Job
  BY DEF TypeOK, TableOK
<1>1. CASE SessionEnds
  <2>1. mint \in Requests /\ mint' = NoRequest /\ UNCHANGED <<jobs, calls>> /\ busy' = FALSE
    BY <1>1 DEF SessionEnds, TypeOK, RestOK
  <2>2. Places'
    BY <2>1, ControllerConstants DEF Places, At
  <2>3. PICK m \in Requests : m = mint
    BY <2>1
  <2>4. Working(m) /\ ~Working(m)'
    <3>1. jobs[m].kind = "session" /\ jobs[m].stage = "done"
      BY <2>3 DEF Places
    <3>2. \A u \in Calls : ~At(u, m)
      BY <3>1 DEF Places
    <3> QED BY <2>1, <2>3, <3>1, <3>2, ControllerConstants DEF Working, At
  <2>5. \A s \in Requests : Working(s)' => Working(s)
    BY <2>1, ControllerConstants DEF Working
  <2> QED BY <2>1, <2>2, <2>4, <2>5, MutexReleased
<1>2. CASE Lock
  BY <1>2, <1>a, <1>b DEF Lock
<1>3. CASE Alarm
  BY <1>3, <1>b DEF Alarm
<1>4. ASSUME NEW p \in Pages, Revoke(p) \/ Leave(p) \/ Return(p) PROVE MutexInv'
  BY <1>4, <1>a, <1>b, <1>c DEF Revoke, Leave, Return
<1>5. ASSUME NEW r \in Requests, CancelRequest(r) PROVE MutexInv'
  <2>1. CASE InTable(r)
    BY <1>5, <1>b, <2>1 DEF CancelRequest
  <2>2. CASE ~InTable(r)
    <3> DEFINE j == [jobs[r] EXCEPT !.cancelled = TRUE]
    <3>1. j.stage = jobs[r].stage /\ j.kind = jobs[r].kind /\ j.window = jobs[r].window
      BY <1>e DEF Job
    <3>2. jobs' = [jobs EXCEPT ![r] = j] /\ UNCHANGED <<calls, mint, busy>>
      BY <1>5, <2>2 DEF CancelRequest
    <3> HIDE DEF j
    <3> QED BY <1>d, <3>1, <3>2
  <2> QED BY <2>1, <2>2
<1>6. ASSUME NEW r \in Requests, Expire(r) PROVE MutexInv'
  <2> DEFINE j == [jobs[r] EXCEPT !.expired = TRUE]
  <2>1. j.stage = jobs[r].stage /\ j.kind = jobs[r].kind /\ j.window = jobs[r].window
    BY <1>e DEF Job
  <2>2. jobs' = [jobs EXCEPT ![r] = j] /\ UNCHANGED <<calls, mint, busy>>
    BY <1>6 DEF Expire
  <2> HIDE DEF j
  <2> QED BY <1>d, <2>1, <2>2
<1>7. ASSUME NEW r \in Requests, History(r) PROVE MutexInv'
  BY <1>7, <1>c DEF History
<1>8. ASSUME NEW op, NEW c, KeyBegins(op, c) PROVE MutexInv'
  BY <1>8, <1>c DEF KeyBegins
<1>9. CASE KeyProved
  <2>1. CASE session.epoch = key.epoch /\ (key.op = "unlock" \/ session.held) /\ key.op # "unlock"
    BY <1>9, <2>1, <1>a, <1>b DEF KeyProved
  <2>2. CASE ~(session.epoch = key.epoch /\ (key.op = "unlock" \/ session.held) /\ key.op # "unlock")
    BY <1>9, <2>2, <1>c DEF KeyProved
  <2> QED BY <2>1, <2>2
<1>10. CASE KeyFails
  BY <1>10, <1>c DEF KeyFails
<1>11. CASE SwitchBegins
  BY <1>11, <1>a, <1>b DEF SwitchBegins
<1>12. CASE SwitchEnds
  BY <1>12, <1>b DEF SwitchEnds
<1>13. ASSUME NEW n, SwitchMoves(n) PROVE MutexInv'
  BY <1>13, <1>c DEF SwitchMoves
<1>14. CASE ClearHistory
  BY <1>14, <1>c DEF ClearHistory
<1>15. CASE Land
  BY <1>15, <1>c DEF Land
<1>16. CASE WriteFails
  BY <1>16, <1>c DEF WriteFails
<1>17. CASE Crash
  <2>1. /\ busy' = FALSE /\ mint' = NoRequest
        /\ calls' = [u \in Calls |-> Idle]
        /\ jobs' = [r \in Requests |-> IF r \in Asked THEN [jobs[r] EXCEPT !.stage = "done", !.window = "failed"]
                                       ELSE jobs[r]]
    BY <1>17 DEF Crash
  <2>2. \A r \in Requests : /\ jobs'[r].stage \in {"none", "done"}
                            /\ jobs'[r].stage = "none" => jobs'[r].window = jobs[r].window /\ jobs[r].stage = "none"
                            /\ jobs'[r].stage = "done" => jobs'[r].window = "failed"
    BY <1>e, <2>1 DEF Asked, Job, Stages
  <2>3. \A u \in Calls : calls'[u].pc = "idle"
    BY <2>1 DEF Idle
  <2>4. Places'
    <3>1. \A u \in Calls, r \in Requests : ~At(u, r)'
      BY <2>3 DEF At, AtWork, AtGrant
    <3>2. \A r \in Requests : jobs[r].stage = "none" => jobs[r].window = "none"
      BY DEF Places
    <3>3. \A r \in Requests : mint' # r
      BY <2>1, ControllerConstants
    <3> QED BY <2>2, <3>1, <3>2, <3>3 DEF Places
  <2>5. \A r \in Requests : ~Working(r)'
    BY <2>1, <2>2, <2>3, ControllerConstants DEF Working, AtWork
  <2> QED BY <2>1, <2>4, <2>5 DEF MutexOwned
<1> QED BY <1>1, <1>2, <1>3, <1>4, <1>5, <1>6, <1>7, <1>8, <1>9, <1>10, <1>11, <1>12, <1>13, <1>14,
           <1>15, <1>16, <1>17

\* The mutex's invariant holds at the start and after every step.
LEMMA MutexInductive ==
  /\ Init => MutexInv
  /\ TypeOK /\ MutexInv /\ [Next]_vars => MutexInv'
<1>1. ASSUME Init PROVE MutexInv
  <2>1. \A w \in Calls : calls[w].pc = "idle"
    BY <1>1 DEF Init, Idle
  <2>2. /\ \A r \in Requests : jobs[r].stage = "none" /\ jobs[r].window = "none"
        /\ mint = NoRequest /\ busy = FALSE
    BY <1>1 DEF Init, Blank
  <2> QED BY <2>1, <2>2, ControllerConstants DEF MutexInv, Places, At, MutexOwned, Working, AtWork, AtGrant
<1>2. ASSUME TypeOK, MutexInv, [Next]_vars PROVE MutexInv'
  <2>1. CASE UNCHANGED vars
    BY <1>2, <2>1 DEF vars, MutexInv, Places, At, MutexOwned, Working
  <2>2. CASE Next
    BY <1>2, <2>2, CreateMutex, MessageMutex, ApprovalMutex, OtherMutex DEF Next
  <2> QED BY <1>2, <2>1, <2>2
<1> QED BY <1>1, <1>2

\* However a request ends, also when the failure of one meets the mutex of another, `walletBusy` is
\* held exactly while one operation works, in any number of requests and windows.
THEOREM MutexTheorem == Spec => []MutexOwned
<1>1. Init => TypeOK /\ MutexInv
  BY InitTypes, MutexInductive
<1>2. (TypeOK /\ MutexInv) /\ [Next]_vars => (TypeOK /\ MutexInv)'
  BY StepTypes, MutexInductive
<1>3. MutexInv => MutexOwned
  BY DEF MutexInv
<1> QED BY <1>1, <1>2, <1>3, PTL DEF Spec

-----------------------------------------------------------------------------
(* How a request and a message move *)

\* What a request is stays, its stage only advances and its end is not taken back; a new one is of
\* this moment.
Forward(r) ==
  /\ jobs[r].stage = "none" => \/ jobs'[r].stage = "none"
                               \/ /\ jobs'[r].ctx = ctx /\ jobs'[r].epoch = session.epoch
                                  /\ jobs'[r].page \in Pages => jobs'[r].rev = pages[jobs'[r].page].rev
                                  /\ UNCHANGED <<person, ghosts>>
  /\ jobs[r].stage = "prep" => jobs'[r].stage \in {"prep", "review", "done"}
  /\ jobs[r].stage # "none" =>
       /\ jobs'[r].kind = jobs[r].kind /\ jobs'[r].page = jobs[r].page /\ jobs'[r].ctx = jobs[r].ctx
       /\ jobs'[r].epoch = jobs[r].epoch /\ jobs'[r].rev = jobs[r].rev
       /\ jobs[r].cancelled => jobs'[r].cancelled
       /\ jobs[r].expired => jobs'[r].expired
       /\ jobs'[r].stage # "none"
  /\ jobs[r].stage = "review" => jobs'[r].stage \in {"review", "signing", "done"}
  /\ jobs[r].stage = "signing" => jobs'[r].stage \in {"signing", "done"}
  /\ jobs[r].stage = "done" => jobs'[r].stage = "done"

\* An approval moves at most its own request, one stage or to its end.
LEMMA ApprovalJobs ==
  ASSUME TypeOK, NEW w \in Calls, Approval(w), NEW r \in Requests
  PROVE  \/ jobs'[r] = jobs[r]
         \/ /\ calls[w].req = r /\ InTable(r)
            /\ \/ jobs'[r] = [jobs[r] EXCEPT !.stage = "done"]
               \/ jobs[r].stage = "review" /\ jobs'[r] = [jobs[r] EXCEPT !.stage = "signing"]
<1> DEFINE q == calls[w].req
<1>1. \/ jobs' = jobs
      \/ \E v : Reply(q, v)
      \/ jobs[q].stage = "review" /\ jobs' = [jobs EXCEPT ![q].stage = "signing"]
  BY DEF Approval, Claim, Reviewed, Verified, Proved, NotVerified, Recorded, Submit, Submitted,
         Told, Undone, Connect, ClaimSession, FirstClaim, Connected, NotConnected, StartSession, NotStarted, table
<1>2. ASSUME NEW v, Reply(q, v)
      PROVE  jobs' = jobs \/ (InTable(q) /\ jobs' = [jobs EXCEPT ![q].stage = "done"])
  BY <1>2 DEF Reply
<1>3. jobs' = jobs \/ (InTable(q) /\ jobs' = [jobs EXCEPT ![q].stage = "done"])
        \/ (jobs[q].stage = "review" /\ jobs' = [jobs EXCEPT ![q].stage = "signing"])
  BY <1>1, <1>2
<1> QED BY <1>3 DEF TypeOK, TableOK, InTable

\* Every request moves forward.
LEMMA JobsForward ==
  ASSUME TypeOK, MutexInv, [Next]_vars, NEW r \in Requests
  PROVE  Forward(r)
<1> USE DEF Forward
<1>a. jobs[r] \in Job /\ TableOK
  BY DEF TypeOK, TableOK
<1>b. ASSUME NEW W \in SUBSET Requests, Invalidate(W) PROVE Forward(r)
  <2>1. jobs'[r] = [jobs[r] EXCEPT
                      !.cancelled = @ \/ (r \in W /\ InTable(r)),
                      !.stage = IF r \in W /\ @ = "review" THEN "done" ELSE @]
    BY <1>a, <1>b, InvalidateEffect
  <2> QED BY <1>a, <2>1 DEF Job
<1>c. ASSUME jobs' = jobs PROVE Forward(r)
  BY <1>c
<1>1. ASSUME NEW s \in Requests, NEW k \in Kinds, NEW p \in Pages \cup {NoPage}, Ask(s, k, p)
      PROVE  Forward(r)
  <2>1. CASE s # r
    <3>1. \E j : jobs' = [jobs EXCEPT ![s] = j]
      BY <1>1 DEF Ask
    <3> QED BY <2>1, <3>1 DEF TypeOK, TableOK
  <2>2. CASE s = r
    <3>1. /\ jobs[r].stage = "none" /\ UNCHANGED <<person, ghosts>>
          /\ jobs'[r] = [Blank EXCEPT !.stage = "prep", !.kind = k, !.page = p, !.ctx = ctx,
                            !.epoch = session.epoch, !.rev = IF p \in Pages THEN pages[p].rev ELSE 0]
      BY <1>1, <1>a, <2>2 DEF Ask, TableOK
    <3> QED BY <3>1 DEF Blank
  <2> QED BY <2>1, <2>2
<1>2. ASSUME NEW s \in Requests, Prepared(s) \/ NotPrepared(s) \/ WindowOpens(s) \/ WindowFails(s)
      PROVE  Forward(r)
  <2>1. CASE s # r
    <3>1. \E j : jobs' = [jobs EXCEPT ![s] = j]
      BY <1>2 DEF Prepared, NotPrepared, WindowOpens, WindowFails
    <3> QED BY <2>1, <3>1 DEF TypeOK, TableOK
  <2>2. CASE s = r
    <3>1. jobs[r].window = "opening" => jobs[r].stage \in {"review", "done"}
      BY DEF MutexInv, Places
    <3>2. \/ jobs[r].stage = "prep" /\ jobs'[r] = [jobs[r] EXCEPT !.stage = "review", !.window = "opening"]
          \/ jobs[r].stage = "prep" /\ jobs'[r] = [jobs[r] EXCEPT !.stage = "done"]
          \/ jobs'[r] = [jobs[r] EXCEPT !.window = "open"]
          \/ jobs[r].window = "opening" /\ jobs'[r] = [jobs[r] EXCEPT !.window = "failed", !.stage = "done"]
      BY <1>2, <2>2 DEF Prepared, NotPrepared, WindowOpens, WindowFails, TypeOK, TableOK
    <3> QED BY <1>a, <3>1, <3>2 DEF Job
  <2> QED BY <2>1, <2>2
<1>3. ASSUME NEW w \in Calls, MessageRefused(w) \/ Reject(w) \/ Retip(w) \/ Retipped(w)
      PROVE  Forward(r)
  <2>1. CASE Reject(w)
    <3>1. {calls[w].req} \in SUBSET Requests
      BY <2>1 DEF Reject, Reviewed, TypeOK, CallsOK
    <3> QED BY <1>b, <2>1, <3>1 DEF Reject
  <2>2. CASE ~Reject(w)
    <3>1. jobs' = jobs \/ (\E q, x : jobs' = [jobs EXCEPT ![x].turn = q] \/ jobs' = [jobs EXCEPT ![x].quote = q])
      BY <1>3, <2>2 DEF MessageRefused, Retip, Retipped, table
    <3> QED BY <1>a, <3>1 DEF Job, TypeOK, TableOK
  <2> QED BY <2>1, <2>2
<1>4. ASSUME NEW w \in Calls, Approval(w) PROVE Forward(r)
  <2>1. \/ jobs'[r] = jobs[r]
        \/ /\ jobs[r].stage \in {"review", "signing"}
           /\ \/ jobs'[r] = [jobs[r] EXCEPT !.stage = "done"]
              \/ jobs[r].stage = "review" /\ jobs'[r] = [jobs[r] EXCEPT !.stage = "signing"]
    BY <1>4, ApprovalJobs DEF InTable
  <2> QED BY <1>a, <2>1 DEF Job
<1>5. ASSUME NEW s \in Requests, CancelRequest(s) \/ Expire(s) PROVE Forward(r)
  <2>1. CASE CancelRequest(s) /\ InTable(s)
    BY <1>b, <2>1 DEF CancelRequest
  <2>2. CASE ~(CancelRequest(s) /\ InTable(s))
    <3>1. jobs' = [jobs EXCEPT ![s].cancelled = TRUE] \/ jobs' = [jobs EXCEPT ![s].expired = TRUE]
      BY <1>5, <2>2 DEF CancelRequest, Expire
    <3> QED BY <1>a, <3>1 DEF Job, TypeOK, TableOK
  <2> QED BY <2>1, <2>2
<1>6. CASE Crash
  <2>1. jobs'[r] = IF r \in Asked THEN [jobs[r] EXCEPT !.stage = "done", !.window = "failed"] ELSE jobs[r]
    BY <1>6 DEF Crash
  <2> QED BY <1>a, <2>1 DEF Job, Asked
<1>7. CASE Lock \/ Alarm \/ SwitchBegins \/ SwitchEnds \/ \E p \in Pages : Revoke(p) \/ Leave(p)
  <2>1. \E W \in SUBSET Requests : Invalidate(W)
    BY <1>7 DEF Lock, Alarm, SwitchBegins, SwitchEnds, Revoke, Leave, Asked, AskedBy
  <2> QED BY <1>b, <2>1
<1>8. CASE KeyProved
  <2>1. jobs' = jobs \/ Invalidate(Requests)
    BY <1>8 DEF KeyProved, table
  <2> QED BY <1>b, <1>c, <2>1
<1>9. CASE \/ \E w \in Calls, s \in Requests, what \in {"approve", "retip", "reject"}, q \in 0..MaxEvents :
                Message(w, s, what, q)
           \/ SessionEnds \/ KeyFails \/ ClearHistory \/ Land \/ WriteFails
           \/ \E p \in Pages : Return(p)
           \/ \E s \in Requests : History(s)
           \/ \E op \in {"unlock", "select", "add"}, c \in Contexts : KeyBegins(op, c)
           \/ \E n \in Networks : SwitchMoves(n)
  BY <1>9, <1>c DEF Message, SessionEnds, KeyFails, ClearHistory, Land, WriteFails, Return, History,
                    KeyBegins, SwitchMoves, table
<1>10. CASE UNCHANGED vars
  BY <1>10, <1>c DEF vars
<1> QED BY <1>1, <1>2, <1>3, <1>4, <1>5, <1>6, <1>7, <1>8, <1>9, <1>10 DEF Next

\* An approval moves no other message.
LEMMA ApprovalAlone ==
  ASSUME TypeOK, NEW w \in Calls, Approval(w), NEW v \in Calls, v # w
  PROVE  calls'[v] = calls[v]
<1>1. Rest(w) \/ (\E pc : Go(w, pc)) \/ (\E q : calls' = [calls EXCEPT ![w].pc = "verify", ![w].quote = q])
  BY DEF Approval, Claim, Verified, Proved, NotVerified, Recorded, Submit, Submitted,
     Told, Undone, Connect, ClaimSession, Connected, NotConnected, StartSession, NotStarted
<1>2. \A pc : Go(w, pc) => calls' = [calls EXCEPT ![w] = [calls[w] EXCEPT !.pc = pc, !.io = "none"]]
  BY DEF Go, TypeOK, CallsOK, Call
<1>3. \A q : calls' = [calls EXCEPT ![w].pc = "verify", ![w].quote = q]
               => calls' = [calls EXCEPT ![w] = [calls[w] EXCEPT !.pc = "verify", !.quote = q]]
  BY DEF TypeOK, CallsOK, Call
<1>4. \E c : calls' = [calls EXCEPT ![w] = c]
  BY <1>1, <1>2, <1>3 DEF Rest
<1> QED BY <1>4 DEF TypeOK, CallsOK

\* The head of the queue is message w's save, which is now answered.
Hears(w) ==
  /\ calls'[w].pc = calls[w].pc /\ calls'[w].req = calls[w].req
  /\ calls'[w].quote = calls[w].quote /\ calls'[w].shown = calls[w].shown
  /\ writes # <<>> /\ Head(writes).by = w /\ writes' = Tail(writes)
  /\ \/ calls'[w].io = "ok" /\ disk' = Head(writes).img
     \/ calls'[w].io = "failed" /\ disk' = disk

\* A message at work moves only by its own approval, by the answer to its save and by a restart.
LEMMA CallsForward ==
  ASSUME TypeOK, [Next]_vars, NEW w \in Calls, ~Approval(w)
  PROVE  \/ calls'[w] = calls[w]
         \/ calls[w].pc \notin AtWork \cup AtGrant /\ calls'[w].pc \notin AtWork \cup AtGrant
         \/ Hears(w)
         \/ Crash /\ calls'[w] = Idle
<1>a. calls[w] \in Call /\ CallsOK
  BY DEF TypeOK, CallsOK
<1>1. ASSUME NEW v \in Calls,
             \/ \E r \in Requests, what \in {"approve", "retip", "reject"}, q \in 0..MaxEvents :
                  Message(v, r, what, q)
             \/ MessageRefused(v) \/ Reject(v) \/ Retip(v) \/ Retipped(v)
      PROVE  \/ calls'[w] = calls[w]
             \/ calls[w].pc \notin AtWork \cup AtGrant /\ calls'[w].pc \notin AtWork \cup AtGrant
  BY <1>1, MessageEffect
<1>2. ASSUME NEW v \in Calls, Approval(v) PROVE calls'[w] = calls[w]
  BY <1>2, ApprovalAlone
<1>3. CASE Land \/ WriteFails
  <2>1. /\ writes # <<>> /\ writes' = Tail(writes)
        /\ \/ Answered(Head(writes).by, "ok") /\ disk' = Head(writes).img
           \/ Answered(Head(writes).by, "failed") /\ disk' = disk
    BY <1>3 DEF Land, WriteFails
  <2>2. CASE Head(writes).by # w
    BY <1>a, <2>1, <2>2, AnsweredEffect
  <2>3. ASSUME NEW io, Answered(w, io)
        PROVE  /\ calls'[w].pc = calls[w].pc /\ calls'[w].req = calls[w].req /\ calls'[w].io = io
               /\ calls'[w].quote = calls[w].quote /\ calls'[w].shown = calls[w].shown
    <3>1. calls'[w] = [calls[w] EXCEPT !.io = io]
      BY <1>a, <2>3, AnsweredEffect
    <3> QED BY <1>a, <3>1 DEF Call
  <2>4. CASE Head(writes).by = w
    BY <2>1, <2>3, <2>4 DEF Hears
  <2> QED BY <2>2, <2>4
<1>4. CASE Crash
  BY <1>4 DEF Crash
<1>5. CASE \/ \E r \in Requests, k \in Kinds, p \in Pages \cup {NoPage} : Ask(r, k, p)
           \/ \E r \in Requests : Prepared(r) \/ NotPrepared(r) \/ WindowOpens(r) \/ WindowFails(r)
           \/ SessionEnds \/ Lock \/ Alarm
           \/ \E p \in Pages : Revoke(p) \/ Leave(p) \/ Return(p)
           \/ \E r \in Requests : CancelRequest(r) \/ Expire(r) \/ History(r)
           \/ \E op \in {"unlock", "select", "add"}, c \in Contexts : KeyBegins(op, c)
           \/ KeyProved \/ KeyFails \/ SwitchBegins \/ SwitchEnds
           \/ \E n \in Networks : SwitchMoves(n)
           \/ ClearHistory \/ UNCHANGED vars
  <2>1. calls' = calls
    BY <1>5 DEF Ask, Prepared, NotPrepared, WindowOpens, WindowFails, SessionEnds, Lock, Alarm, Revoke, Leave,
       Return, CancelRequest, Expire, History, KeyBegins, KeyProved, KeyFails, SwitchBegins, SwitchEnds,
       SwitchMoves, ClearHistory, vars
  <2> QED BY <2>1
<1> QED BY <1>1, <1>2, <1>3, <1>4, <1>5 DEF Next

-----------------------------------------------------------------------------
(* What is signed *)

\* Before its signature a request has none, and the quote to be signed is the one shown.
SignInv ==
  /\ \A w \in Calls : calls[w].pc = "verify" =>
       calls[w].quote = calls[w].shown /\ \A s \in signed : s[1] # calls[w].req
  /\ \A s \in signed : jobs[s[1]].stage \in {"signing", "done"}
  /\ SignsAsShown

\* Only the end of a verification signs.
LEMMA OnlySigns ==
  ASSUME [Next]_vars
  PROVE  signed' = signed \/ \E w \in Calls : Approval(w) /\ Signs(w)
<1>1. CASE Creating
  BY <1>1 DEF Creating, Ask, Prepared, NotPrepared, WindowOpens, WindowFails, Approval, vars, ghosts
<1>2. CASE Messaging
  BY <1>2 DEF Messaging, Message, MessageRefused, Reject, Retip, Retipped, Approval, vars, ghosts
<1>3. ASSUME NEW w \in Calls, Paying(w)
      PROVE  signed' = signed \/ (Approval(w) /\ Signs(w))
  <2>1. CASE Verified(w) \/ Proved(w)
    BY <2>1 DEF Verified, Proved, Approval
  <2>2. CASE Claim(w) \/ NotVerified(w) \/ Recorded(w) \/ Submit(w)
    BY <2>2 DEF Claim, NotVerified, Recorded, Submit, ghosts
  <2>3. CASE Submitted(w) \/ Told(w) \/ Undone(w)
    BY <2>3 DEF Submitted, Told, Undone, ghosts
  <2> QED BY <1>3, <2>1, <2>2, <2>3 DEF Paying
<1>4. CASE \E w \in Calls : Granting(w)
  BY <1>4 DEF Granting, Connect, Connected, NotConnected, ClaimSession, StartSession, NotStarted, Approval, vars, ghosts
<1>5. CASE Ending
  BY <1>5 DEF Ending, SessionEnds, Lock, Alarm, Revoke, Leave, Return, CancelRequest, Expire, History, Approval, vars, ghosts
<1>6. CASE Keying
  BY <1>6 DEF Keying, KeyBegins, KeyProved, KeyFails, SwitchBegins, SwitchEnds, SwitchMoves, Approval, vars, ghosts
<1>7. CASE Storing
  BY <1>7 DEF Storing, ClearHistory, Land, WriteFails, Crash, Approval, vars, ghosts
<1>8. CASE UNCHANGED vars
  BY <1>8 DEF vars, Approval, vars, ghosts
<1> QED BY <1>1, <1>2, <1>3, <1>4, <1>5, <1>6, <1>7, <1>8, Steps

\* An approval that reaches its verification claimed a request under review, and its quote was shown.
LEMMA ClaimsAsShown ==
  ASSUME TypeOK, NEW w \in Calls, Approval(w), calls'[w].pc = "verify"
  PROVE  /\ calls'[w].quote = calls'[w].shown /\ calls'[w].req = calls[w].req
         /\ jobs[calls[w].req].stage = "review" /\ Claim(w) /\ Current(calls[w].req)
<1>a. calls[w] \in Call /\ CallsOK
  BY DEF TypeOK, CallsOK
<1>b. ~Rest(w)
  BY <1>a, RestEffect DEF Idle
<1>c. \A pc : Go(w, pc) => pc = "verify"
  <2> SUFFICES ASSUME NEW pc, Go(w, pc) PROVE pc = "verify"
    OBVIOUS
  <2>1. calls'[w] = [calls[w] EXCEPT !.pc = pc, !.io = "none"]
    BY <1>a, GoEffect
  <2> QED BY <1>a, <2>1 DEF Call
<1>1. Claim(w)
  BY <1>b, <1>c DEF Approval, Verified, Proved, NotVerified, Recorded, Submit, Submitted,
     Told, Undone, Connect, ClaimSession, Connected, NotConnected, StartSession, NotStarted
<1>2. /\ calls' = [calls EXCEPT ![w].pc = "verify", ![w].quote = jobs[calls[w].req].quote]
      /\ DigestIs(w) /\ jobs[calls[w].req].stage = "review" /\ Current(calls[w].req)
  BY <1>b, <1>1 DEF Claim, FirstClaim, Reviewed
<1>3. /\ calls'[w].quote = jobs[calls[w].req].quote /\ calls'[w].shown = calls[w].shown
      /\ calls'[w].req = calls[w].req
  BY <1>a, <1>2 DEF CallsOK, Call
<1> QED BY <1>1, <1>2, <1>3 DEF DigestIs

\* A message on its way to a signature: it was there before, or just claimed its request.
LEMMA VerifyBefore ==
  ASSUME TypeOK, [Next]_vars, NEW v \in Calls, calls'[v].pc = "verify"
  PROVE  \/ /\ calls[v].pc = "verify" /\ calls'[v].req = calls[v].req
            /\ calls'[v].quote = calls[v].quote /\ calls'[v].shown = calls[v].shown
         \/ Approval(v)
BY CallsForward DEF Hears, Idle, AtWork

\* Every step keeps what is signed as shown.
LEMMA SignStep ==
  ASSUME TypeOK, MutexInv, SignInv, [Next]_vars
  PROVE  SignInv'
<1>a. \A s \in signed : s[1] \in Requests
  BY DEF TypeOK, GhostsOK
<1>b. \A s \in signed : jobs'[s[1]].stage \in {"signing", "done"}
  <2> TAKE s \in signed
  <2>1. Forward(s[1])
    BY <1>a, JobsForward
  <2> QED BY <2>1 DEF SignInv, Forward
<1>1. CASE signed' = signed
  <2>1. ASSUME NEW v \in Calls, calls'[v].pc = "verify"
        PROVE  calls'[v].quote = calls'[v].shown /\ \A s \in signed' : s[1] # calls'[v].req
    <3>1. CASE Approval(v)
      BY <1>1, <2>1, <3>1, ClaimsAsShown DEF SignInv
    <3>2. CASE ~Approval(v)
      BY <1>1, <2>1, <3>2, VerifyBefore DEF SignInv
    <3> QED BY <3>1, <3>2
  <2> QED BY <1>1, <1>b, <2>1 DEF SignInv, SignsAsShown
<1>2. ASSUME NEW w \in Calls, Approval(w), Signs(w)
      PROVE  SignInv'
  <2>1. PICK r \in Requests : r = calls[w].req
    BY <1>2 DEF Signs, TypeOK, CallsOK
  <2> DEFINE new == <<r, calls[w].quote, calls[w].shown>>
  <2>2. /\ calls[w].pc = "verify" /\ calls[w].quote = calls[w].shown /\ signed' = signed \cup {new}
        /\ \A s \in signed : s[1] # r
    BY <1>2, <2>1 DEF Signs, SignInv
  <2>3. At(w, r) /\ jobs[r].stage = "signing"
    BY <2>1, <2>2 DEF At, AtWork, MutexInv, Places
  <2>4. jobs'[r].stage \in {"signing", "done"}
    BY <2>3, JobsForward DEF Forward
  <2>5. SignsAsShown'
    BY <2>2 DEF SignInv, SignsAsShown
  <2>6. ASSUME NEW v \in Calls, calls'[v].pc = "verify"
        PROVE  calls'[v].quote = calls'[v].shown /\ \A s \in signed' : s[1] # calls'[v].req
    <3>1. v # w
      <4>1. Claim(w) => calls[w].pc = "approve"
        BY DEF Claim, FirstClaim, Reviewed
      <4> QED BY <1>2, <2>2, <2>6, <4>1, ClaimsAsShown
    <3>2. calls'[v] = calls[v]
      BY <1>2, <3>1, ApprovalAlone
    <3>3. calls[v].req # r
      BY <2>3, <2>6, <3>1, <3>2 DEF At, AtWork, MutexInv, Places
    <3> QED BY <2>2, <2>6, <3>2, <3>3 DEF SignInv
  <2> QED BY <1>b, <2>2, <2>4, <2>5, <2>6 DEF SignInv
<1> QED BY <1>1, <1>2, OnlySigns

\* A request is signed at most once, and what is signed is the quote on the screen that approved it,
\* however many windows approve, change the tip or ask again.
THEOREM SignTheorem == Spec => []SignsAsShown
<1>1. Init => TypeOK /\ MutexInv /\ SignInv
  <2>1. Init => SignInv
    BY DEF Init, SignInv, SignsAsShown, Idle
  <2> QED BY <2>1, InitTypes, MutexInductive
<1>2. (TypeOK /\ MutexInv /\ SignInv) /\ [Next]_vars => (TypeOK /\ MutexInv /\ SignInv)'
  BY StepTypes, MutexInductive, SignStep
<1>3. SignInv => SignsAsShown
  BY DEF SignInv
<1> QED BY <1>1, <1>2, <1>3, PTL DEF Spec

-----------------------------------------------------------------------------
(* A lock and an unlock *)

\* An operation that holds the key began in this epoch or an earlier one; one that a lock met, in an
\* earlier one.
KeyInv ==
  /\ key.op # "none" => key.epoch <= session.epoch
  /\ key.late => key.op # "none" /\ key.epoch < session.epoch

\* Every step keeps the key's epochs, and installs no secret after a lock.
LEMMA KeyStep ==
  ASSUME TypeOK, KeyInv, [Next]_vars
  PROVE  KeyInv' /\ (session'.held /\ ~session.held => ~key.late)
<1>a. /\ session \in [held : BOOLEAN, epoch : Nat]
      /\ key \in [op : {"none", "unlock", "select", "add"}, saving : BOOLEAN, epoch : Nat,
                  ctx : Contexts, late : BOOLEAN]
  BY DEF TypeOK, PersonOK
<1>n. NoKey.op = "none" /\ NoKey.late = FALSE
  BY DEF NoKey
<1>1. CASE key' = key /\ session' = session
  BY <1>1 DEF KeyInv
<1>2. CASE Lock
  <2>1. /\ session'.held = FALSE /\ session'.epoch = session.epoch + 1
        /\ key'.op = key.op /\ key'.epoch = key.epoch /\ (key'.late <=> key.late \/ key.op # "none")
    BY <1>2, <1>a DEF Lock
  <2> QED BY <1>a, <2>1 DEF KeyInv
<1>3. ASSUME NEW op \in {"unlock", "select", "add"}, NEW c, KeyBegins(op, c)
      PROVE  KeyInv' /\ (session'.held /\ ~session.held => ~key.late)
  <2>1. session' = session /\ key'.op = op /\ key'.epoch = session.epoch /\ key'.late = FALSE
    BY <1>3 DEF KeyBegins, NoKey
  <2> QED BY <1>a, <2>1 DEF KeyInv
<1>4. CASE KeyProved
  <2>1. \/ key' = NoKey /\ session' = session
        \/ key'.op = key.op /\ key'.epoch = key.epoch /\ key'.late = key.late
             /\ session'.epoch \in {session.epoch, session.epoch + 1} /\ session'.held = session.held
    BY <1>4, <1>a DEF KeyProved
  <2> QED BY <1>a, <1>n, <2>1 DEF KeyInv
<1>5. CASE KeyFails
  BY <1>5, <1>n DEF KeyFails, KeyInv
<1>6. CASE Land \/ WriteFails
  <2>1. PICK by, io : Answered(by, io)
    BY <1>6 DEF Land, WriteFails
  <2>2. key' = NoKey \/ key' = key
    BY <2>1 DEF Answered
  <2>3. /\ session'.epoch = session.epoch
        /\ session' = session \/ (key.op = "unlock" /\ (session'.held <=> session.held \/ session.epoch = key.epoch))
    BY <1>a, <2>1 DEF Answered, Install
  <2>4. session'.held /\ ~session.held => ~key.late
    BY <1>a, <2>3 DEF KeyInv
  <2> QED BY <1>a, <1>n, <2>2, <2>3, <2>4 DEF KeyInv
<1>7. CASE Crash
  BY <1>7, <1>n DEF Crash, KeyInv
<1>8. \/ key' = key /\ session' = session
      \/ Lock \/ KeyProved \/ KeyFails \/ Land \/ WriteFails \/ Crash
      \/ \E op \in {"unlock", "select", "add"}, c \in Contexts : KeyBegins(op, c)
  <2>1. ASSUME NEW w \in Calls, Approval(w) PROVE key' = key /\ session' = session
    BY <2>1 DEF Approval, Claim, Verified, Proved, NotVerified, Recorded, Submit, Submitted, Told,
       Undone, Connect, Connected, NotConnected, ClaimSession, StartSession, NotStarted, person
  <2>2. ASSUME NEW w \in Calls,
               \/ \E r \in Requests, what \in {"approve", "retip", "reject"}, q \in 0..MaxEvents :
                    Message(w, r, what, q)
               \/ MessageRefused(w) \/ Reject(w) \/ Retip(w) \/ Retipped(w)
        PROVE  key' = key /\ session' = session
    BY <2>2 DEF Message, MessageRefused, Reject, Retip, Retipped, person
  <2>3. ASSUME NEW r \in Requests,
               \/ \E k \in Kinds, p \in Pages \cup {NoPage} : Ask(r, k, p)
               \/ Prepared(r) \/ NotPrepared(r) \/ WindowOpens(r) \/ WindowFails(r)
               \/ CancelRequest(r) \/ Expire(r) \/ History(r)
        PROVE  key' = key /\ session' = session
    BY <2>3 DEF Ask, Prepared, NotPrepared, WindowOpens, WindowFails, CancelRequest, Expire, History, person
  <2>4. ASSUME \/ SessionEnds \/ Alarm \/ SwitchBegins \/ SwitchEnds \/ ClearHistory
               \/ \E p \in Pages : Revoke(p) \/ Leave(p) \/ Return(p)
               \/ \E n \in Networks : SwitchMoves(n)
        PROVE  key' = key /\ session' = session
    BY <2>4 DEF SessionEnds, Alarm, SwitchBegins, SwitchEnds, ClearHistory, Revoke, Leave, Return,
       SwitchMoves, person
  <2> QED BY <2>1, <2>2, <2>3, <2>4 DEF Next, vars
<1> QED BY <1>1, <1>2, <1>3, <1>4, <1>5, <1>6, <1>7, <1>8

\* A lock that comes while an unlock is proved or saved wins over it.
THEOREM LockTheorem == Spec => LockWins
<1>1. Init => TypeOK /\ KeyInv
  <2>1. Init => KeyInv
    BY DEF Init, KeyInv, NoKey
  <2> QED BY <2>1, InitTypes
<1>2. (TypeOK /\ KeyInv) /\ [Next]_vars => (TypeOK /\ KeyInv)'
  BY StepTypes, KeyStep
<1>3. (TypeOK /\ KeyInv) /\ [Next]_vars => [session'.held /\ ~session.held => ~key.late]_vars
  BY KeyStep
<1> QED BY <1>1, <1>2, <1>3, PTL DEF Spec, LockWins

-----------------------------------------------------------------------------
(* The save queue *)

SavePcs == {"signed", "uncertain", "told", "undo", "record", "unrecord", "grant", "ungrant"}

\* Whoever has a write in the queue awaits it.
Due(by) ==
  /\ by = "key" => key.saving
  /\ by = "switch" => switching = "saving"
  /\ by \in Calls => calls[by].io = "none" /\ calls[by].pc \in SavePcs

Queuing(by) == \E i \in DOMAIN writes : writes[i].by = by

QueueInv ==
  /\ \A i, j \in DOMAIN writes :
       writes[i].by = writes[j].by /\ writes[i].by \in Calls \cup {"key", "switch"} => i = j
  /\ \A by \in Savers : Queuing(by) => Due(by)
  /\ switching # "no" => key.op = "none"
  /\ key.saving => key.op # "none"

\* One more write, by someone who had none to await.
Appends(by) ==
  /\ Save(by) /\ by \in Savers
  /\ by \in {"other", "clear"} \/ (~Due(by) /\ Due(by)')

\* The first write of the queue is `by`'s, and is answered.
Heard(by) == writes # <<>> /\ Head(writes).by = by /\ writes' = Tail(writes)

\* The queue stays, grows by a write its author awaits, shrinks by the first, or is lost.
LEMMA WritesMove ==
  ASSUME TypeOK, QueueInv, [Next]_vars
  PROVE  \/ writes' = writes
         \/ \E by \in Savers : Appends(by)
         \/ writes # <<>> /\ writes' = Tail(writes) /\ \E io \in {"ok", "failed"} : Answered(Head(writes).by, io)
         \/ Crash
<1>a. \A w \in Calls : w \in Savers /\ w \notin {"key", "switch"}
  BY ControllerConstants DEF Savers
<1>b. ASSUME NEW w \in Calls, Save(w), NEW pc \in SavePcs, Go(w, pc),
             calls[w].pc \notin SavePcs \/ calls[w].io # "none"
      PROVE  Appends(w)
  <2>1. calls'[w].pc = pc /\ calls'[w].io = "none"
    <3>1. calls[w] \in Call /\ CallsOK
      BY DEF TypeOK, CallsOK
    <3>2. calls'[w] = [calls[w] EXCEPT !.pc = pc, !.io = "none"]
      BY <1>b, <3>1, GoEffect
    <3> QED BY <3>1, <3>2 DEF Call
  <2> QED BY <1>a, <1>b, <2>1 DEF Appends, Due
<1>1. ASSUME NEW w \in Calls, Approval(w) PROVE writes' = writes \/ Appends(w)
  <2>1. CASE Verified(w)
    BY <1>b, <2>1 DEF Verified, Signs, SavePcs
  <2>2. CASE Recorded(w)
    BY <1>b, <2>2 DEF Recorded, SavePcs
  <2>3. CASE Submitted(w)
    BY <1>b, <2>3 DEF Submitted, SavePcs
  <2>4. CASE Connect(w)
    BY <1>b, <2>4 DEF Connect, Reviewed, SavePcs
  <2>5. CASE Connected(w)
    BY <1>b, <2>5 DEF Connected, SavePcs
  <2>6. CASE ClaimSession(w)
    BY <1>b, <2>6 DEF ClaimSession, FirstClaim, Reviewed, SavePcs, store
  <2>7. CASE StartSession(w)
    BY <1>b, <2>7 DEF StartSession, SavePcs
  <2>8. CASE Claim(w) \/ Proved(w) \/ NotVerified(w) \/ Submit(w) \/ Told(w) \/ Undone(w) \/ NotConnected(w)
             \/ NotStarted(w)
    BY <2>8 DEF Claim, Proved, NotVerified, Submit, Told, Undone, NotConnected, NotStarted, store
  <2> QED BY <1>1, <2>1, <2>2, <2>3, <2>4, <2>5, <2>6, <2>7, <2>8 DEF Approval
<1>2. CASE KeyProved
  <2>1. writes' = writes \/ (Save("key") /\ ~key.saving /\ key'.saving)
    BY <1>2 DEF KeyProved, TypeOK, PersonOK
  <2>2. "key" \notin Calls /\ "key" \in Savers
    BY ControllerConstants DEF Savers
  <2> QED BY <2>1, <2>2 DEF Appends, Due
<1>3. ASSUME NEW n \in Networks, SwitchMoves(n)
      PROVE  writes' = writes \/ \E by \in Savers : Appends(by)
  <2>1. writes' = writes \/ (Save("switch") /\ switching = "moving" /\ switching' = "saving")
    BY <1>3 DEF SwitchMoves
  <2>2. "switch" \notin Calls /\ "switch" \in Savers
    BY ControllerConstants DEF Savers
  <2> QED BY <2>1, <2>2 DEF Appends, Due
<1>4. CASE ClearHistory \/ (\E p \in Pages : Revoke(p)) \/ (\E r \in Requests : History(r))
  <2>1. Save("clear") \/ Save("other")
    BY <1>4 DEF ClearHistory, Revoke, History
  <2> QED BY <2>1 DEF Appends, Savers
<1>5. CASE Land \/ WriteFails
  BY <1>5 DEF Land, WriteFails
<1>6. CASE \/ \E r \in Requests, k \in Kinds, p \in Pages \cup {NoPage} : Ask(r, k, p)
           \/ \E r \in Requests : Prepared(r) \/ NotPrepared(r) \/ WindowOpens(r) \/ WindowFails(r)
           \/ \E w \in Calls, r \in Requests, what \in {"approve", "retip", "reject"}, q \in 0..MaxEvents :
                Message(w, r, what, q)
           \/ \E w \in Calls : MessageRefused(w) \/ Reject(w) \/ Retip(w) \/ Retipped(w)
           \/ SessionEnds \/ Lock \/ Alarm
           \/ \E p \in Pages : Leave(p) \/ Return(p)
           \/ \E r \in Requests : CancelRequest(r) \/ Expire(r)
           \/ \E op \in {"unlock", "select", "add"}, c \in Contexts : KeyBegins(op, c)
           \/ KeyFails \/ SwitchBegins \/ SwitchEnds \/ UNCHANGED vars
  <2>1. UNCHANGED store \/ writes' = writes
    BY <1>6 DEF Ask, Prepared, NotPrepared, WindowOpens, WindowFails, Message, MessageRefused, Reject, Retip,
       Retipped, SessionEnds, Lock, Alarm, Leave, Return, CancelRequest, Expire, KeyBegins, KeyFails,
       SwitchBegins, SwitchEnds, vars
  <2> QED BY <2>1 DEF store
<1> QED BY <1>1, <1>2, <1>3, <1>4, <1>5, <1>6, <1>a DEF Next

\* An approval leaves a step that awaits a save only when the save is answered.
LEMMA ApprovalAwaits ==
  ASSUME NEW w \in Calls, Approval(w)
  PROVE  calls[w].pc \notin SavePcs \/ calls[w].io # "none"
BY DEF Approval, Claim, FirstClaim, Reviewed, Verified, Proved, Signs, NotVerified, Recorded, Submit,
       Submitted, Told, Undone, Connect, ClaimSession, Connected, NotConnected, StartSession, NotStarted,
       SavePcs

\* The operation that holds the key waits for its save.
LEMMA KeyWaits ==
  ASSUME TypeOK, QueueInv, [Next]_vars
  PROVE  /\ key.saving => key'.saving \/ Heard("key") \/ Crash
         /\ key'.saving => key'.op # "none"
         /\ switching = "saving" => switching' = "saving" \/ Heard("switch") \/ Crash
         /\ switching' # "no" => key'.op = "none"
<1>a. key \in [op : {"none", "unlock", "select", "add"}, saving : BOOLEAN, epoch : Nat,
               ctx : Contexts, late : BOOLEAN]
  BY DEF TypeOK, PersonOK
<1>n. NoKey.op = "none" /\ NoKey.saving = FALSE
  BY DEF NoKey
<1>1. CASE key' = key /\ switching' = switching
  BY <1>1 DEF QueueInv
<1>2. CASE Lock
  <2>1. key'.op = key.op /\ key'.saving = key.saving /\ switching' = switching
    BY <1>2, <1>a DEF Lock
  <2> QED BY <2>1 DEF QueueInv
<1>3. ASSUME NEW op \in {"unlock", "select", "add"}, NEW c, KeyBegins(op, c)
      PROVE  /\ ~key.saving /\ ~key'.saving /\ switching = "no" /\ switching' = "no"
  BY <1>3 DEF KeyBegins, NoKey, QueueInv
<1>4. CASE KeyProved
  <2>1. key.op # "none" /\ ~key.saving /\ (key' = NoKey \/ key'.op = key.op) /\ switching' = switching
    BY <1>4, <1>a DEF KeyProved
  <2> QED BY <1>n, <2>1 DEF QueueInv
<1>5. CASE KeyFails
  BY <1>5, <1>n DEF KeyFails, QueueInv
<1>6. ASSUME NEW by, NEW io, Answered(by, io), writes # <<>>, by = Head(writes).by, writes' = Tail(writes)
      PROVE  /\ key.saving => key'.saving \/ Heard("key")
             /\ key'.saving => key'.op # "none"
             /\ switching = "saving" => switching' = "saving" \/ Heard("switch")
             /\ switching' # "no" => key'.op = "none"
  <2>1. /\ key' = key \/ (key' = NoKey /\ by = "key")
        /\ switching' = switching \/ (by = "switch" /\ switching' \in {"no", "saved"})
    <3>1. /\ switching' = IF by # "switch" THEN switching ELSE IF io = "ok" THEN "saved" ELSE "no"
          /\ key' = IF by = "key" THEN NoKey ELSE key
      BY <1>6 DEF Answered
    <3>2. key' = key \/ (key' = NoKey /\ by = "key")
      BY <3>1
    <3>3. switching' = switching \/ (by = "switch" /\ switching' \in {"no", "saved"})
      BY <3>1
    <3> QED BY <3>2, <3>3
  <2>2. by = "switch" => switching = "saving"
    <3>1. 1 \in DOMAIN writes /\ writes[1] = Head(writes)
      BY <1>6 DEF TypeOK, StoreOK
    <3>2. by = "switch" => Queuing("switch") /\ "switch" \in Savers
      BY <1>6, <3>1 DEF Queuing, Savers
    <3> QED BY <3>2 DEF QueueInv, Due
  <2> QED BY <1>6, <1>n, <2>1, <2>2 DEF QueueInv, Heard
<1>7. CASE Crash
  BY <1>7, <1>n DEF Crash
<1>8. CASE SwitchBegins \/ SwitchEnds \/ \E n \in Networks : SwitchMoves(n)
  <2>1. key' = key /\ switching # "saving" /\ (switching # "no" \/ key.op = "none")
    BY <1>8 DEF SwitchBegins, SwitchEnds, SwitchMoves
  <2> QED BY <2>1 DEF QueueInv
<1>9. \/ key' = key /\ switching' = switching
      \/ Lock \/ KeyProved \/ KeyFails \/ Land \/ WriteFails \/ Crash \/ SwitchBegins \/ SwitchEnds
      \/ \E n \in Networks : SwitchMoves(n)
      \/ \E op \in {"unlock", "select", "add"}, c \in Contexts : KeyBegins(op, c)
  <2>1. ASSUME NEW w \in Calls, Approval(w) PROVE key' = key /\ switching' = switching
    BY <2>1 DEF Approval, Claim, Verified, Proved, NotVerified, Recorded, Submit, Submitted, Told,
       Undone, Connect, Connected, NotConnected, ClaimSession, StartSession, NotStarted, person
  <2>2. ASSUME NEW w \in Calls,
               \/ \E r \in Requests, what \in {"approve", "retip", "reject"}, q \in 0..MaxEvents :
                    Message(w, r, what, q)
               \/ MessageRefused(w) \/ Reject(w) \/ Retip(w) \/ Retipped(w)
        PROVE  key' = key /\ switching' = switching
    BY <2>2 DEF Message, MessageRefused, Reject, Retip, Retipped, person
  <2>3. ASSUME NEW r \in Requests,
               \/ \E k \in Kinds, p \in Pages \cup {NoPage} : Ask(r, k, p)
               \/ Prepared(r) \/ NotPrepared(r) \/ WindowOpens(r) \/ WindowFails(r)
               \/ CancelRequest(r) \/ Expire(r) \/ History(r)
        PROVE  key' = key /\ switching' = switching
    BY <2>3 DEF Ask, Prepared, NotPrepared, WindowOpens, WindowFails, CancelRequest, Expire, History, person
  <2>4. ASSUME \/ SessionEnds \/ Alarm \/ ClearHistory
               \/ \E p \in Pages : Revoke(p) \/ Leave(p) \/ Return(p)
        PROVE  key' = key /\ switching' = switching
    BY <2>4 DEF SessionEnds, Alarm, ClearHistory, Revoke, Leave, Return, person
  <2> QED BY <2>1, <2>2, <2>3, <2>4 DEF Next, vars
<1>10. CASE Land \/ WriteFails
  <2>1. writes # <<>> /\ writes' = Tail(writes) /\ \E io : Answered(Head(writes).by, io)
    BY <1>10 DEF Land, WriteFails
  <2> QED BY <1>6, <2>1
<1> QED BY <1>1, <1>2, <1>3, <1>4, <1>5, <1>7, <1>8, <1>9, <1>10 DEF QueueInv

\* Whoever awaits a write does so until it is answered.
LEMMA DueStays ==
  ASSUME TypeOK, QueueInv, [Next]_vars, NEW by \in Savers, Due(by), ~Crash
  PROVE  Due(by)' \/ Heard(by)
<1>1. by = "key" => key'.saving \/ Heard("key")
  BY KeyWaits DEF Due
<1>2. by = "switch" => switching' = "saving" \/ Heard("switch")
  BY KeyWaits DEF Due
<1>3. ASSUME by \in Calls
      PROVE  (calls'[by].io = "none" /\ calls'[by].pc \in SavePcs) \/ Heard(by)
  <2>1. calls[by].io = "none" /\ calls[by].pc \in SavePcs
    BY <1>3 DEF Due
  <2>2. ~Approval(by)
    BY <1>3, <2>1, ApprovalAwaits
  <2>3. calls[by].pc \in AtWork \cup AtGrant
    BY <2>1 DEF SavePcs, AtWork, AtGrant
  <2> QED BY <1>3, <2>1, <2>2, <2>3, CallsForward DEF Hears, Heard
<1> QED BY <1>1, <1>2, <1>3 DEF Due

\* The queue's invariant holds at the start and after every step.
LEMMA QueueInductive ==
  /\ Init => QueueInv
  /\ TypeOK /\ QueueInv /\ [Next]_vars => QueueInv'
<1>1. Init => QueueInv
  BY DEF Init, QueueInv, NoKey, Queuing
<1>2. ASSUME TypeOK, QueueInv, [Next]_vars PROVE QueueInv'
  <2> USE <1>2
  <2>a. writes \in Seq(Queued)
    BY DEF TypeOK, StoreOK
  <2>c. (switching' # "no" => key'.op = "none") /\ (key'.saving => key'.op # "none")
    BY KeyWaits
  <2>d. Calls \cup {"key", "switch"} \subseteq Savers /\ {"other", "clear"} \cap (Calls \cup {"key", "switch"}) = {}
    BY ControllerConstants DEF Savers
  <2>1. CASE Crash
    <3>1. writes' = <<>>
      BY <2>1 DEF Crash
    <3> QED BY <2>c, <3>1 DEF QueueInv, Queuing
  <2>2. CASE writes' = writes /\ ~Crash
    <3>1. \A by : ~Heard(by)
      BY <2>2, <2>a DEF Heard
    <3>2. \A by \in Savers : Queuing(by)' => Due(by)'
      BY <2>2, <3>1, DueStays DEF QueueInv, Queuing
    <3> QED BY <2>2, <2>c, <3>2 DEF QueueInv
  <2>3. ASSUME NEW by \in Savers, Appends(by), ~Crash PROVE QueueInv'
    <3>1. PICK e : writes' = Append(writes, e) /\ e.by = by
      BY <2>3 DEF Appends, Save
    <3>2. /\ Len(writes') = Len(writes) + 1 /\ DOMAIN writes' = 1..Len(writes) + 1
          /\ \A i \in DOMAIN writes : writes'[i] = writes[i]
          /\ writes'[Len(writes) + 1] = e /\ DOMAIN writes = 1..Len(writes) /\ Len(writes) \in Nat
      <4>1. writes' \in Seq(Queued)
        BY StepTypes DEF TypeOK, StoreOK
      <4>2. e \in Queued
        BY <2>a, <3>1, <4>1
      <4> QED BY <2>a, <3>1, <4>2
    <3>3. \A c : ~Heard(c)
      <4> SUFFICES ASSUME NEW c, Heard(c) PROVE FALSE
        OBVIOUS
      <4>1. writes # <<>> /\ writes' = Tail(writes)
        BY DEF Heard
      <4>2. Len(Tail(writes)) = Len(writes) - 1
        BY <2>a, <4>1
      <4>3. Len(writes') = Len(writes) - 1
        BY <4>1, <4>2
      <4> QED BY <3>2, <4>3
    <3>4. \A c \in Savers : Queuing(c)' => Queuing(c) \/ c = by
      BY <3>1, <3>2 DEF Queuing
    <3>5. \A c \in Savers : Queuing(c) => Due(c)'
      BY <2>3, <3>3, DueStays DEF QueueInv
    <3>6. by \in Calls \cup {"key", "switch"} => ~Queuing(by) /\ Due(by)'
      BY <2>3, <2>d DEF Appends, QueueInv
    <3>7. Due(by)'
      BY <3>6 DEF Due
    <3>8. \A i, j \in DOMAIN writes' :
            writes'[i].by = writes'[j].by /\ writes'[i].by \in Calls \cup {"key", "switch"} => i = j
      BY <3>1, <3>2, <3>6 DEF QueueInv, Queuing
    <3> QED BY <2>c, <3>4, <3>5, <3>7, <3>8 DEF QueueInv
  <2>4. CASE writes # <<>> /\ writes' = Tail(writes) /\ ~Crash
    <3>1. /\ DOMAIN writes' = 1..Len(writes) - 1 /\ DOMAIN writes = 1..Len(writes) /\ Len(writes) \in Nat
          /\ \A i \in DOMAIN writes' : writes'[i] = writes[i + 1] /\ i + 1 \in DOMAIN writes
          /\ Head(writes) = writes[1] /\ 1 \in DOMAIN writes
      BY <2>a, <2>4
    <3>2. ASSUME NEW by \in Savers, Queuing(by)' PROVE Due(by)'
      <4>1. PICK i \in DOMAIN writes' : writes'[i].by = by
        BY <3>2 DEF Queuing
      <4>2. Queuing(by) /\ Due(by)
        BY <3>1, <4>1 DEF QueueInv, Queuing
      <4>3. by \in Calls \cup {"key", "switch"} => by # Head(writes).by
        BY <3>1, <4>1 DEF QueueInv
      <4>4. CASE by \in Calls \cup {"key", "switch"}
        BY <2>4, <4>2, <4>3, <4>4, DueStays DEF Heard
      <4>5. CASE by \notin Calls \cup {"key", "switch"}
        BY <4>5 DEF Due
      <4> QED BY <4>4, <4>5
    <3>3. \A i, j \in DOMAIN writes' :
            writes'[i].by = writes'[j].by /\ writes'[i].by \in Calls \cup {"key", "switch"} => i = j
      BY <3>1 DEF QueueInv
    <3> QED BY <2>c, <3>2, <3>3 DEF QueueInv
  <2> QED BY <1>2, <2>1, <2>2, <2>3, <2>4, WritesMove
<1> QED BY <1>1, <1>2

-----------------------------------------------------------------------------
(* What ends requests *)

\* An operation that holds the mutex and is not the running session.
Going(r) == Working(r) /\ jobs[r].stage # "done"

\* Why request r can no longer be signed or sent.  A context that moved away comes back only once the
\* mutex is free, or in a later epoch.
Ended(r) ==
  LET j == jobs[r] IN
    \/ j.cancelled \/ j.expired \/ j.epoch < session.epoch
    \/ j.page \in Pages /\ (~pages[j.page].alive \/ j.rev < pages[j.page].rev)
    \/ ctx # j.ctx /\ switching # "moving" /\ ~(key.saving /\ key.op # "unlock")

EndInv ==
  /\ over \subseteq Asked
  /\ \A r \in Asked :
       /\ jobs[r].epoch <= session.epoch
       /\ jobs[r].page \in Pages => jobs[r].rev <= pages[jobs[r].page].rev
  /\ \A r \in over : Going(r) => Ended(r)
  /\ switching = "moving" => \A r \in Requests : Working(r) => jobs[r].ctx = ctx

\* What a step does to the epoch, the pages and the context.
LEMMA PersonMoves ==
  ASSUME TypeOK, QueueInv, [Next]_vars
  PROVE  /\ session'.epoch \in {session.epoch, session.epoch + 1}
         /\ \A p \in Pages : \/ pages'[p].rev = pages[p].rev + 1
                             \/ pages'[p].rev = pages[p].rev /\ (pages'[p].alive => pages[p].alive)
         /\ \/ /\ ctx' = ctx /\ (switching' = "moving" => switching = "moving")
               /\ (key'.saving /\ key'.op # "unlock") => (key.saving /\ key.op # "unlock")
            \/ SwitchBegins
            \/ KeyProved /\ session'.epoch = session.epoch + 1 /\ switching' = switching
            \/ key.saving /\ key.op # "unlock" /\ key'.op = "none" /\ switching' = "no"
            \/ Crash
            \/ \E n \in Networks : SwitchMoves(n)
<1>a. /\ session \in [held : BOOLEAN, epoch : Nat]
      /\ key \in [op : {"none", "unlock", "select", "add"}, saving : BOOLEAN, epoch : Nat,
                  ctx : Contexts, late : BOOLEAN]
      /\ pages \in [Pages -> [alive : BOOLEAN, rev : Nat]]
  BY DEF TypeOK, PersonOK
<1>n. NoKey.op = "none" /\ NoKey.saving = FALSE
  BY DEF NoKey
<1> DEFINE Same == session' = session /\ pages' = pages /\ ctx' = ctx /\ switching' = switching /\ key' = key
<1>1. ASSUME NEW w \in Calls, Approval(w) PROVE Same
  BY <1>1 DEF Approval, Claim, Verified, Proved, NotVerified, Recorded, Submit, Submitted, Told,
     Undone, Connect, Connected, NotConnected, ClaimSession, StartSession, NotStarted, person
<1>2. ASSUME NEW w \in Calls,
             \/ \E r \in Requests, what \in {"approve", "retip", "reject"}, q \in 0..MaxEvents :
                  Message(w, r, what, q)
             \/ MessageRefused(w) \/ Reject(w) \/ Retip(w) \/ Retipped(w)
      PROVE  Same
  BY <1>2 DEF Message, MessageRefused, Reject, Retip, Retipped, person
<1>3. ASSUME NEW r \in Requests,
             \/ \E k \in Kinds, p \in Pages \cup {NoPage} : Ask(r, k, p)
             \/ Prepared(r) \/ NotPrepared(r) \/ WindowOpens(r) \/ WindowFails(r)
             \/ CancelRequest(r) \/ Expire(r) \/ History(r)
      PROVE  Same
  BY <1>3 DEF Ask, Prepared, NotPrepared, WindowOpens, WindowFails, CancelRequest, Expire, History, person
<1>4. ASSUME SessionEnds \/ Alarm \/ ClearHistory \/ UNCHANGED vars PROVE Same
  BY <1>4 DEF SessionEnds, Alarm, ClearHistory, vars, person
<1>5. ASSUME NEW p \in Pages, Revoke(p) \/ Leave(p) \/ Return(p)
      PROVE  /\ session' = session /\ ctx' = ctx /\ switching' = switching /\ key' = key
             /\ \A q \in Pages : \/ pages'[q].rev = pages[q].rev + 1
                                 \/ pages'[q].rev = pages[q].rev /\ (pages'[q].alive => pages[q].alive)
  <2>1. session' = session /\ ctx' = ctx /\ switching' = switching /\ key' = key
    BY <1>5 DEF Revoke, Leave, Return
  <2>2. \/ pages' = [pages EXCEPT ![p].rev = @ + 1]
        \/ pages' = [pages EXCEPT ![p].alive = FALSE]
        \/ pages' = [pages EXCEPT ![p] = [alive |-> TRUE, rev |-> @.rev + 1]]
    BY <1>5 DEF Revoke, Leave, Return
  <2> QED BY <1>a, <2>1, <2>2
<1>6. CASE Lock
  <2>1. /\ session'.epoch = session.epoch + 1 /\ pages' = pages /\ ctx' = ctx /\ switching' = switching
        /\ key'.saving = key.saving /\ key'.op = key.op
    BY <1>6, <1>a DEF Lock
  <2> QED BY <2>1
<1>7. ASSUME NEW op, NEW c, KeyBegins(op, c)
      PROVE  session' = session /\ pages' = pages /\ ctx' = ctx /\ switching' = switching /\ ~key'.saving
  BY <1>7 DEF KeyBegins, NoKey
<1>8. CASE KeyProved
  <2>1. /\ pages' = pages /\ switching' = switching
        /\ \/ session'.epoch = session.epoch + 1
           \/ session' = session /\ ctx' = ctx /\ (key' = NoKey \/ key'.op = "unlock")
    BY <1>8, <1>a DEF KeyProved
  <2> QED BY <1>8, <1>n, <2>1
<1>9. CASE KeyFails
  BY <1>9, <1>n DEF KeyFails
<1>10. CASE SwitchBegins
  BY <1>10 DEF SwitchBegins
<1>11. CASE SwitchEnds
  <2>1. /\ session' = session /\ ctx' = ctx /\ switching' = "no" /\ key' = key
        /\ pages' = [p \in Pages |-> [pages[p] EXCEPT !.alive = FALSE]]
    BY <1>11 DEF SwitchEnds
  <2>2. \A p \in Pages : pages'[p].rev = pages[p].rev /\ pages'[p].alive = FALSE
    BY <1>a, <2>1
  <2> QED BY <2>1, <2>2
<1>12. ASSUME NEW n \in Networks, SwitchMoves(n) PROVE session' = session /\ pages' = pages
  BY <1>12 DEF SwitchMoves
<1>13. CASE Land \/ WriteFails
  <2>1. PICK by, io : Answered(by, io) /\ by = Head(writes).by /\ writes # <<>> /\ pages' = pages
    BY <1>13 DEF Land, WriteFails
  <2>2. /\ switching' = IF by # "switch" THEN switching ELSE IF io = "ok" THEN "saved" ELSE "no"
        /\ key' = IF by = "key" THEN NoKey ELSE key
        /\ ctx' = IF by = "key" /\ key.op # "unlock" /\ io = "failed" THEN key.ctx ELSE ctx
        /\ session' = session \/ Install
    BY <2>1 DEF Answered
  <2>3. session'.epoch = session.epoch
    BY <1>a, <2>2 DEF Install
  <2>4. by = "key" => key.saving
    <3>1. 1 \in DOMAIN writes /\ writes[1] = Head(writes)
      BY <2>1 DEF TypeOK, StoreOK
    <3>2. by = "key" => Queuing("key") /\ "key" \in Savers
      BY <2>1, <3>1 DEF Queuing, Savers
    <3> QED BY <3>2 DEF QueueInv, Due
  <2>5. by = "key" => switching = "no"
    BY <2>4 DEF QueueInv, TypeOK, PersonOK
  <2> QED BY <1>n, <2>1, <2>2, <2>3, <2>4, <2>5
<1>14. CASE Crash
  <2>1. /\ session'.epoch = session.epoch + 1
        /\ pages' = [p \in Pages |-> [pages[p] EXCEPT !.alive = FALSE]]
    BY <1>14 DEF Crash
  <2>2. \A p \in Pages : pages'[p].rev = pages[p].rev /\ pages'[p].alive = FALSE
    BY <1>a, <2>1
  <2> QED BY <1>14, <2>1, <2>2
<1> QED BY <1>1, <1>2, <1>3, <1>4, <1>5, <1>6, <1>7, <1>8, <1>9, <1>10, <1>11, <1>12, <1>13, <1>14 DEF Next

\* Only a request's own approval carries it on: what works after a step did before, or is new.
LEMMA WorkingBefore ==
  ASSUME TypeOK, MutexInv, [Next]_vars, NEW r \in Asked, Working(r)'
  PROVE  Working(r) /\ (jobs'[r].stage # "done" => jobs[r].stage # "done")
<1>a. r \in Requests /\ jobs[r].stage # "none" /\ Forward(r) /\ jobs[r] \in Job
  BY JobsForward DEF Asked, TypeOK, TableOK
<1>b. jobs'[r].stage # "done" => jobs[r].stage # "done"
  BY <1>a DEF Forward
<1>c. jobs[r].kind # "connect"
  BY <1>a DEF Working, Forward
<1>1. CASE jobs'[r].stage \in {"prep", "review"}
  <2>1. jobs[r].stage \in {"prep", "review"}
    BY <1>1, <1>a DEF Forward, Job, Stages
  <2> QED BY <1>b, <1>c, <2>1 DEF Working
<1>2. ASSUME NEW w \in Calls, calls'[w].req = r, calls'[w].pc \in AtWork
      PROVE  Working(r)
  <2>1. CASE ~Approval(w)
    <3>1. calls[w].req = r /\ calls[w].pc \in AtWork
      BY <1>2, <2>1, CallsForward DEF Hears, Idle, AtWork
    <3> QED BY <1>c, <3>1 DEF Working
  <2>2. CASE Approval(w)
    <3>1. calls[w].pc \in AtWork \/ jobs[calls[w].req].stage = "review"
      <4>1. ~Connected(w) /\ ~NotConnected(w)
        <5>1. Connected(w) \/ NotConnected(w) => Rest(w) \/ Go(w, "ungrant")
          BY DEF Connected, NotConnected
        <5>2. Rest(w) => calls'[w] = Idle
          BY RestEffect DEF TypeOK
        <5>3. Go(w, "ungrant") => calls'[w].pc = "ungrant"
          <6>1. calls[w] \in Call /\ CallsOK
            BY DEF TypeOK, CallsOK
          <6>2. Go(w, "ungrant") => calls'[w] = [calls[w] EXCEPT !.pc = "ungrant", !.io = "none"]
            BY <6>1, GoEffect
          <6> QED BY <6>1, <6>2 DEF Call
        <5> QED BY <1>2, <5>1, <5>2, <5>3 DEF Idle, AtWork
      <4> QED BY <2>2, <4>1 DEF Approval, Claim, FirstClaim, Reviewed, Verified, Proved, Signs, NotVerified,
                 Recorded, Submit, Submitted, Told, Undone, Connect, ClaimSession, StartSession, NotStarted,
                 AtWork
    <3>2. calls[w].req = r
      <4>1. calls[w] \in Call /\ CallsOK
        BY DEF TypeOK, CallsOK
      <4>2. Rest(w) \/ (\E pc : Go(w, pc)) \/ (\E q : calls' = [calls EXCEPT ![w].pc = "verify", ![w].quote = q])
        BY <2>2 DEF Approval, Claim, Verified, Proved, NotVerified, Recorded, Submit, Submitted,
           Told, Undone, Connect, ClaimSession, Connected, NotConnected, StartSession, NotStarted
      <4>3. Rest(w) => calls'[w] = Idle
        BY <4>1, RestEffect
      <4>4. \A pc : Go(w, pc) => calls'[w].req = calls[w].req
        BY <4>1 DEF Go, CallsOK, Call
      <4>5. \A q : calls' = [calls EXCEPT ![w].pc = "verify", ![w].quote = q] => calls'[w].req = calls[w].req
        BY <4>1 DEF CallsOK, Call
      <4> QED BY <1>2, <4>2, <4>3, <4>4, <4>5 DEF Idle, AtWork
    <3> QED BY <1>c, <3>1, <3>2 DEF Working
  <2> QED BY <2>1, <2>2
<1>3. ASSUME mint' = r PROVE Working(r)
  <2>1. CASE mint = r
    BY <1>c, <2>1 DEF Working
  <2>2. CASE mint # r
    <3>1. mint' = mint \/ mint' = NoRequest \/ \E w \in Calls : StartSession(w)
      <4>1. CASE Creating
        BY <4>1 DEF Creating, Ask, Prepared, NotPrepared, WindowOpens, WindowFails, vars
      <4>2. CASE Messaging
        BY <4>2 DEF Messaging, Message, MessageRefused, Reject, Retip, Retipped, vars
      <4>3. CASE \E w \in Calls : Paying(w)
        BY <4>3 DEF Paying, Claim, Verified, Proved, NotVerified, Recorded, Submit, Submitted, Told, Undone, vars
      <4>4. CASE \E w \in Calls : Granting(w)
        BY <4>4 DEF Granting, Connect, Connected, NotConnected, ClaimSession, NotStarted, vars
      <4>5. CASE Ending
        BY <4>5 DEF Ending, SessionEnds, Lock, Alarm, Revoke, Leave, Return, CancelRequest, Expire, History, vars
      <4>6. CASE Keying
        BY <4>6 DEF Keying, KeyBegins, KeyProved, KeyFails, SwitchBegins, SwitchEnds, SwitchMoves, vars
      <4>7. CASE Storing
        BY <4>7 DEF Storing, ClearHistory, Land, WriteFails, Crash, vars
      <4>8. CASE UNCHANGED vars
        BY <4>8 DEF vars
      <4> QED BY <4>1, <4>2, <4>3, <4>4, <4>5, <4>6, <4>7, <4>8, Steps
    <3>2. PICK w \in Calls : StartSession(w) /\ mint' # mint
      BY <1>3, <1>a, <2>2, <3>1, ControllerConstants
    <3>3. calls[w].req = r /\ calls[w].pc = "record"
      BY <1>3, <3>2 DEF StartSession
    <3> QED BY <1>c, <3>3 DEF Working, AtWork
  <2> QED BY <2>1, <2>2
<1>4. Working(r)
  BY <1>1, <1>2, <1>3 DEF Working
<1> QED BY <1>b, <1>4

\* What a step newly ends was asked for, and no longer works, or can no longer be current.
LEMMA EndsNow ==
  ASSUME TypeOK, MutexInv, QueueInv, EndInv, [Next]_vars, NEW r \in over', r \notin over
  PROVE  r \in Asked /\ (Going(r)' => Ended(r)')
<1>a. /\ session \in [held : BOOLEAN, epoch : Nat] /\ ctx \in Contexts
      /\ pages \in [Pages -> [alive : BOOLEAN, rev : Nat]] /\ TableOK
  BY DEF TypeOK, PersonOK
<1>b. ASSUME r \in Asked
      PROVE  /\ r \in Requests /\ Forward(r) /\ jobs[r] \in Job /\ jobs[r].stage # "none"
             /\ (Working(r)' => Working(r)) /\ jobs[r].epoch <= session.epoch
             /\ (jobs[r].page \in Pages => jobs[r].rev <= pages[jobs[r].page].rev)
  BY <1>b, JobsForward, WorkingBefore DEF Asked, TypeOK, TableOK, EndInv
<1>1. ASSUME NEW w \in Calls, Reject(w) PROVE r \in Asked /\ (Going(r)' => Ended(r)')
  <2>1. r = calls[w].req /\ jobs[r].stage = "review" /\ r \in Requests /\ Invalidate({r})
    BY <1>1 DEF Reject, Reviewed, TypeOK, CallsOK
  <2>2. jobs[r] \in Job /\ r \in Asked
    BY <1>a, <2>1 DEF TableOK, Asked
  <2>3. jobs'[r] = [jobs[r] EXCEPT !.cancelled = @ \/ (r \in {r} /\ InTable(r)),
                                   !.stage = IF r \in {r} /\ @ = "review" THEN "done" ELSE @]
    <3>1. TableOK /\ {r} \in SUBSET Requests
      BY <1>a, <2>1
    <3>2. \A q \in Requests :
            jobs'[q] = [jobs[q] EXCEPT !.cancelled = @ \/ (q \in {r} /\ InTable(q)),
                                       !.stage = IF q \in {r} /\ @ = "review" THEN "done" ELSE @]
      BY <2>1, <3>1, InvalidateEffect, ZenonT(30)
    <3> QED BY <2>1, <3>2, ZenonT(30)
  <2>4. jobs'[r].stage = "done"
    BY <2>1, <2>2, <2>3 DEF Job
  <2> QED BY <2>2, <2>4 DEF Going
<1>2. CASE Lock
  <2>1. r \in Asked /\ session'.epoch = session.epoch + 1
    BY <1>2 DEF Lock
  <2> QED BY <1>a, <1>b, <2>1 DEF Ended, Forward, Job
<1>3. ASSUME NEW p \in Pages, Revoke(p) PROVE r \in Asked /\ (Going(r)' => Ended(r)')
  <2>1. r \in Asked /\ jobs[r].page = p /\ pages'[p].rev = pages[p].rev + 1
    BY <1>3, <1>a DEF Revoke, AskedBy
  <2> QED BY <1>a, <1>b, <2>1 DEF Ended, Forward, Job
<1>4. ASSUME NEW p \in Pages, Leave(p) PROVE r \in Asked /\ (Going(r)' => Ended(r)')
  <2>1. r \in Asked /\ jobs[r].page = p /\ pages'[p].alive = FALSE
    BY <1>4, <1>a DEF Leave, AskedBy
  <2> QED BY <1>b, <2>1 DEF Ended, Forward
<1>5. ASSUME NEW s \in Requests, CancelRequest(s) PROVE r \in Asked /\ (Going(r)' => Ended(r)')
  <2>1. s = r /\ r \in Requests /\ r \in Asked /\ jobs[r] \in Job
    BY <1>5, <1>a DEF CancelRequest, Asked, TableOK
  <2>2. CASE InTable(r)
    <3>1. jobs'[r] = [jobs[r] EXCEPT !.cancelled = @ \/ (r \in {r} /\ InTable(r)),
                                     !.stage = IF r \in {r} /\ @ = "review" THEN "done" ELSE @]
      BY <1>5, <1>a, <2>1, <2>2, InvalidateEffect DEF CancelRequest
    <3>2. jobs'[r].cancelled
      BY <2>1, <2>2, <3>1 DEF Job
    <3> QED BY <2>1, <3>2 DEF Ended
  <2>3. CASE ~InTable(r)
    <3>1. jobs'[r].cancelled
      BY <1>5, <1>a, <2>1, <2>3 DEF CancelRequest, TableOK, Job
    <3> QED BY <2>1, <3>1 DEF Ended
  <2> QED BY <2>2, <2>3
<1>6. ASSUME NEW s \in Requests, Expire(s) PROVE r \in Asked /\ (Going(r)' => Ended(r)')
  <2>1. s = r /\ r \in Requests /\ r \in Asked /\ jobs[r] \in Job
    BY <1>6, <1>a DEF Expire, InTable, Asked, TableOK
  <2>2. jobs'[r].expired
    BY <1>6, <1>a, <2>1 DEF Expire, TableOK, Job
  <2> QED BY <2>1, <2>2 DEF Ended
<1>7. CASE KeyProved
  <2>1. r \in Asked /\ session'.epoch = session.epoch + 1
    BY <1>7, <1>a DEF KeyProved
  <2> QED BY <1>a, <1>b, <2>1 DEF Ended, Forward, Job
<1>8. CASE SwitchBegins
  <2>1. r \in Asked /\ ~busy
    BY <1>8 DEF SwitchBegins
  <2>2. ~Working(r)
    BY <1>b, <2>1 DEF MutexInv, MutexOwned
  <2> QED BY <1>b, <2>1, <2>2 DEF Going
<1>9. ASSUME NEW n \in Networks, SwitchMoves(n) PROVE r \in Asked /\ (Going(r)' => Ended(r)')
  <2>1. /\ r \in Asked /\ switching = "moving" /\ ctx' # ctx /\ switching' = "saving" /\ key' = key
    BY <1>9, <1>a DEF SwitchMoves, Contexts
  <2>2. ~key.saving
    BY <2>1 DEF QueueInv
  <2>3. Working(r) => jobs[r].ctx = ctx
    BY <1>b, <2>1 DEF EndInv
  <2> QED BY <1>b, <2>1, <2>2, <2>3 DEF Ended, Going, Forward
<1>10. CASE SwitchEnds
  <2>1. r \in Asked /\ jobs[r].page \in Pages
        /\ pages' = [p \in Pages |-> [pages[p] EXCEPT !.alive = FALSE]]
    BY <1>10 DEF SwitchEnds
  <2>2. pages'[jobs[r].page].alive = FALSE
    BY <1>a, <2>1
  <2> QED BY <1>b, <2>1, <2>2 DEF Ended, Forward
<1>11. CASE Crash
  <2>1. r \in Asked /\ jobs' = [q \in Requests |-> IF q \in Asked THEN [jobs[q] EXCEPT !.stage = "done",
                                                        !.window = "failed"] ELSE jobs[q]]
    BY <1>11 DEF Crash
  <2>2. jobs'[r].stage = "done"
    BY <1>b, <2>1 DEF Job
  <2> QED BY <2>1, <2>2 DEF Going
<1>12. \/ over' = over
       \/ \E w \in Calls : Reject(w)
       \/ Lock \/ KeyProved \/ SwitchBegins \/ SwitchEnds \/ Crash
       \/ \E p \in Pages : Revoke(p) \/ Leave(p)
       \/ \E s \in Requests : CancelRequest(s) \/ Expire(s)
       \/ \E n \in Networks : SwitchMoves(n)
  <2>1. ASSUME NEW w \in Calls, Approval(w) PROVE over' = over
    BY <2>1 DEF Approval, Claim, Verified, Proved, NotVerified, Recorded, Submit, Submitted, Told,
       Undone, Connect, Connected, NotConnected, ClaimSession, StartSession, NotStarted, ghosts
  <2>2. ASSUME NEW w \in Calls,
               \/ \E s \in Requests, what \in {"approve", "retip", "reject"}, q \in 0..MaxEvents :
                    Message(w, s, what, q)
               \/ MessageRefused(w) \/ Retip(w) \/ Retipped(w)
        PROVE  over' = over
    BY <2>2 DEF Message, MessageRefused, Retip, Retipped, ghosts
  <2>3. ASSUME NEW s \in Requests,
               \/ \E k \in Kinds, p \in Pages \cup {NoPage} : Ask(s, k, p)
               \/ Prepared(s) \/ NotPrepared(s) \/ WindowOpens(s) \/ WindowFails(s) \/ History(s)
        PROVE  over' = over
    BY <2>3 DEF Ask, Prepared, NotPrepared, WindowOpens, WindowFails, History, ghosts
  <2>4. ASSUME \/ SessionEnds \/ Alarm \/ ClearHistory \/ KeyFails \/ Land \/ WriteFails
               \/ \E p \in Pages : Return(p)
               \/ \E op \in {"unlock", "select", "add"}, c \in Contexts : KeyBegins(op, c)
        PROVE  over' = over
    BY <2>4 DEF SessionEnds, Alarm, ClearHistory, KeyFails, Land, WriteFails, Return, KeyBegins, ghosts
  <2> QED BY <2>1, <2>2, <2>3, <2>4 DEF Next, vars
<1> QED BY <1>1, <1>2, <1>3, <1>4, <1>5, <1>6, <1>7, <1>8, <1>9, <1>10, <1>11, <1>12

\* What ended stays ended while its operation goes on.
LEMMA EndedStays ==
  ASSUME TypeOK, MutexInv, QueueInv, EndInv, [Next]_vars, NEW r \in over, Going(r)'
  PROVE  Ended(r)'
<1>a. /\ session \in [held : BOOLEAN, epoch : Nat] /\ pages \in [Pages -> [alive : BOOLEAN, rev : Nat]]
      /\ r \in Asked /\ r \in Requests /\ jobs[r] \in Job
  BY DEF TypeOK, PersonOK, TableOK, EndInv, Asked
<1>b. Going(r) /\ Forward(r) /\ jobs[r].stage # "none"
  BY <1>a, WorkingBefore, JobsForward DEF Going, Asked
<1>c. /\ jobs[r].epoch <= session.epoch
      /\ jobs[r].page \in Pages => jobs[r].rev <= pages[jobs[r].page].rev
  BY <1>a DEF EndInv
<1>1. CASE jobs[r].cancelled \/ jobs[r].expired
  BY <1>b, <1>1 DEF Ended, Forward
<1>2. CASE jobs[r].epoch < session.epoch
  <2>1. session'.epoch \in {session.epoch, session.epoch + 1}
    BY PersonMoves
  <2> QED BY <1>a, <1>b, <1>2, <2>1 DEF Ended, Forward, Job
<1>3. CASE jobs[r].page \in Pages /\ (~pages[jobs[r].page].alive \/ jobs[r].rev < pages[jobs[r].page].rev)
  <2> DEFINE p == jobs[r].page
  <2>1. \/ pages'[p].rev = pages[p].rev + 1
        \/ pages'[p].rev = pages[p].rev /\ (pages'[p].alive => pages[p].alive)
    BY <1>3, PersonMoves
  <2>2. jobs[r].rev \in Nat /\ pages[p].rev \in Nat
    BY <1>a, <1>3 DEF Job
  <2>3. ~pages'[p].alive \/ jobs[r].rev < pages'[p].rev
    BY <1>c, <1>3, <2>1, <2>2
  <2>4. jobs'[r].page = p /\ jobs'[r].rev = jobs[r].rev
    BY <1>b DEF Forward
  <2> QED BY <1>3, <2>3, <2>4 DEF Ended
<1>4. CASE ctx # jobs[r].ctx /\ switching # "moving" /\ ~(key.saving /\ key.op # "unlock")
  <2>1. CASE /\ ctx' = ctx /\ (switching' = "moving" => switching = "moving")
             /\ (key'.saving /\ key'.op # "unlock") => (key.saving /\ key.op # "unlock")
    BY <1>b, <1>4, <2>1 DEF Ended, Forward
  <2>2. CASE SwitchBegins
    BY <1>a, <1>b, <2>2 DEF SwitchBegins, Going, MutexInv, MutexOwned
  <2>3. CASE KeyProved /\ session'.epoch = session.epoch + 1
    BY <1>a, <1>b, <1>c, <2>3 DEF Ended, Forward, Job
  <2>4. CASE Crash
    <3>1. jobs' = [q \in Requests |-> IF q \in Asked THEN [jobs[q] EXCEPT !.stage = "done",
                                                        !.window = "failed"] ELSE jobs[q]]
      BY <2>4 DEF Crash
    <3>2. jobs'[r].stage = "done"
      BY <1>a, <3>1 DEF Job
    <3> QED BY <3>2 DEF Going
  <2>5. ~\E n \in Networks : SwitchMoves(n)
    BY <1>4 DEF SwitchMoves
  <2> QED BY <1>4, <2>1, <2>2, <2>3, <2>4, <2>5, PersonMoves
<1> QED BY <1>b, <1>1, <1>2, <1>3, <1>4 DEF EndInv, Ended

\* Every step keeps what has ended from going on as current.
LEMMA EndStep ==
  ASSUME TypeOK, MutexInv, QueueInv, EndInv, [Next]_vars
  PROVE  EndInv'
<1>a. /\ session \in [held : BOOLEAN, epoch : Nat] /\ pages \in [Pages -> [alive : BOOLEAN, rev : Nat]]
      /\ \A r \in Requests : jobs[r] \in Job /\ Forward(r)
  BY JobsForward DEF TypeOK, PersonOK, TableOK
<1>b. TypeOK' /\ MutexInv'
  BY StepTypes, MutexInductive
<1>1. over' \subseteq Asked'
  <2>1. Asked \subseteq Asked'
    BY <1>a DEF Asked, Forward
  <2> QED BY <2>1, EndsNow DEF EndInv
<1>2. ASSUME NEW r \in Asked'
      PROVE  /\ jobs'[r].epoch <= session'.epoch
             /\ jobs'[r].page \in Pages => jobs'[r].rev <= pages'[jobs'[r].page].rev
  <2>0. r \in Requests /\ Forward(r) /\ jobs[r] \in Job
    BY <1>a, <1>2 DEF Asked
  <2>1. CASE jobs[r].stage = "none"
    <3>1. jobs'[r].stage # "none"
      BY <1>2 DEF Asked
    <3> QED BY <1>a, <2>0, <2>1, <3>1 DEF Forward, person
  <2>2. CASE jobs[r].stage # "none"
    <3>1. /\ jobs[r].epoch <= session.epoch
          /\ jobs[r].page \in Pages => jobs[r].rev <= pages[jobs[r].page].rev
      BY <2>0, <2>2 DEF EndInv, Asked
    <3>2. /\ session'.epoch \in {session.epoch, session.epoch + 1}
          /\ \A p \in Pages : pages'[p].rev \in {pages[p].rev, pages[p].rev + 1}
      BY PersonMoves
    <3>3. jobs'[r].epoch <= session'.epoch
      BY <1>a, <2>0, <2>2, <3>1, <3>2 DEF Forward, Job
    <3>4. ASSUME jobs[r].page \in Pages PROVE jobs[r].rev <= pages'[jobs[r].page].rev
      <4>1. PICK p \in Pages : p = jobs[r].page
        BY <3>4
      <4>2. jobs[r].rev <= pages[p].rev /\ pages'[p].rev \in {pages[p].rev, pages[p].rev + 1}
        BY <3>1, <3>2, <4>1
      <4> QED BY <1>a, <2>0, <4>1, <4>2 DEF Job
    <3> QED BY <2>0, <2>2, <3>3, <3>4 DEF Forward
  <2> QED BY <2>1, <2>2
<1>3. ASSUME NEW r \in over', Going(r)' PROVE Ended(r)'
  BY <1>3, EndsNow, EndedStays
<1>4. ASSUME switching' = "moving", NEW r \in Requests, Working(r)' PROVE jobs'[r].ctx = ctx'
  <2>1. CASE jobs[r].stage = "none"
    <3>1. jobs'[r].stage # "none"
      <4>1. jobs'[r].stage \in {"prep", "review"} \/ (\E w \in Calls : At(w, r)') \/ mint' = r
        BY <1>4 DEF Working, At
      <4>2. (\A w \in Calls : At(w, r)' => jobs'[r].stage = "signing") /\ (mint' = r => jobs'[r].stage = "done")
        BY <1>b DEF MutexInv, Places
      <4> QED BY <4>1, <4>2
    <3> QED BY <1>a, <2>1, <3>1 DEF Forward, person
  <2>2. CASE jobs[r].stage # "none"
    <3>1. r \in Asked /\ Working(r) /\ jobs'[r].ctx = jobs[r].ctx
      BY <1>a, <1>4, <2>2, WorkingBefore DEF Asked, Forward
    <3>2. busy
      BY <3>1 DEF MutexInv, MutexOwned
    <3>3. ~SwitchBegins /\ ~(KeyProved /\ switching' = switching) /\ ~Crash /\ ~\E n \in Networks : SwitchMoves(n)
      BY <1>4, <3>2 DEF SwitchBegins, KeyProved, QueueInv, Crash, SwitchMoves
    <3>4. ctx' = ctx /\ switching = "moving"
      BY <1>4, <3>3, PersonMoves
    <3> QED BY <3>1, <3>4 DEF EndInv
  <2> QED BY <2>1, <2>2
<1> QED BY <1>1, <1>2, <1>3, <1>4 DEF EndInv

\* Only submitOnce() sends.
LEMMA OnlySends ==
  ASSUME [Next]_vars
  PROVE  \/ wire' = wire
         \/ \E w \in Calls : Submit(w) /\ Submits(w) /\ wire' = wire \cup {calls[w].req}
<1>1. CASE Creating
  BY <1>1 DEF Creating, Ask, Prepared, NotPrepared, WindowOpens, WindowFails, ghosts, vars
<1>2. CASE Messaging
  BY <1>2 DEF Messaging, Message, MessageRefused, Reject, Retip, Retipped, ghosts, vars
<1>3. CASE \E w \in Calls : Paying(w)
  BY <1>3 DEF Paying, Claim, Verified, Proved, NotVerified, Recorded, Submit, Submitted, Told, Undone, ghosts, vars
<1>4. CASE \E w \in Calls : Granting(w)
  BY <1>4 DEF Granting, Connect, Connected, NotConnected, ClaimSession, StartSession, NotStarted, ghosts, vars
<1>5. CASE Ending
  BY <1>5 DEF Ending, SessionEnds, Lock, Alarm, Revoke, Leave, Return, CancelRequest, Expire, History, ghosts, vars
<1>6. CASE Keying
  BY <1>6 DEF Keying, KeyBegins, KeyProved, KeyFails, SwitchBegins, SwitchEnds, SwitchMoves, ghosts, vars
<1>7. CASE Storing
  BY <1>7 DEF Storing, ClearHistory, Land, WriteFails, Crash, ghosts, vars
<1>8. CASE UNCHANGED vars
  BY <1>8 DEF vars, ghosts, vars
<1> QED BY <1>1, <1>2, <1>3, <1>4, <1>5, <1>6, <1>7, <1>8, Steps

\* An approval that signs or sends is current, so nothing ended it.
LEMMA NotOver ==
  ASSUME TypeOK, MutexInv, EndInv, NEW w \in Calls, calls[w].pc \in {"verify", "uncertain"},
         Current(calls[w].req)
  PROVE  calls[w].req \notin over
<1>1. PICK r \in Requests : r = calls[w].req
  BY DEF TypeOK, CallsOK
<1>2. Going(r)
  <2>1. At(w, r)
    BY <1>1 DEF At, AtWork
  <2>2. jobs[r].stage = "signing" /\ jobs[r].kind # "connect"
    BY <2>1 DEF MutexInv, Places, KindsAt, AtGrant
  <2> QED BY <1>1, <2>2 DEF Going, Working, AtWork
<1>3. ~Ended(r)
  <2>1. jobs[r] \in Job /\ session.epoch \in Nat /\ \A p \in Pages : pages[p].rev \in Nat
    BY <1>1 DEF TypeOK, TableOK, PersonOK
  <2> QED BY <1>1, <2>1 DEF Current, Ended, Job
<1> QED BY <1>1, <1>2, <1>3 DEF EndInv

\* After a lock, a change of account or network, a revocation, a closed page, a cancellation or an
\* expiry that met a request, the request is neither signed nor sent, whatever was being awaited.
THEOREM EndTheorem == Spec => NothingAfterEnd
<1> DEFINE Inv == TypeOK /\ MutexInv /\ QueueInv /\ EndInv
           Step == \A r \in over : /\ r \in wire' => r \in wire
                                   /\ \A s \in signed' \ signed : s[1] # r
<1>1. Init => Inv
  <2>1. Init => EndInv
    BY DEF Init, EndInv, Blank, Asked
  <2> QED BY <2>1, InitTypes, MutexInductive, QueueInductive
<1>2. Inv /\ [Next]_vars => Inv'
  BY StepTypes, MutexInductive, QueueInductive, EndStep
<1>3. Inv /\ [Next]_vars => [Step]_vars
  <2> SUFFICES ASSUME Inv, [Next]_vars PROVE Step
    OBVIOUS
  <2>1. ASSUME NEW r \in over, r \in wire', r \notin wire PROVE FALSE
    <3>1. PICK w \in Calls : Submit(w) /\ Submits(w) /\ r = calls[w].req
      BY <2>1, OnlySends
    <3> QED BY <2>1, <3>1, NotOver DEF Submit, Submits
  <2>2. ASSUME NEW r \in over, NEW s \in signed' \ signed, s[1] = r PROVE FALSE
    <3>1. PICK w \in Calls : Signs(w)
      BY <2>2, OnlySigns
    <3>2. r = calls[w].req /\ calls[w].pc = "verify" /\ Current(calls[w].req)
      BY <2>2, <3>1 DEF Signs
    <3> QED BY <3>2, NotOver
  <2> QED BY <2>1, <2>2
<1>4. NothingAfterEnd <=> [][Step]_vars
  BY DEF NothingAfterEnd
<1> QED BY <1>1, <1>2, <1>3, <1>4, PTL DEF Spec


-----------------------------------------------------------------------------
(* What a payment's status and its copies become *)

\* In storage, and in every snapshot on its way there, request r has a status of S.
Stored(r, S) == disk.txs[r] \in S /\ \A i \in DOMAIN writes : writes[i].img.txs[r] \in S

\* The same once message w heard that its save landed; until then, of its snapshot and the later ones.
Safe(w, r, S) ==
  /\ calls[w].io = "ok" => Stored(r, S)
  /\ \A i, j \in DOMAIN writes : writes[i].by = w /\ i <= j => writes[j].img.txs[r] \in S

\* The status of r in a snapshot taken by this step.
Copied(r, S) == Lines(txs', list')[r] \in S

\* How the store moves: one snapshot more, the first one written or refused, or all of them lost.
LEMMA StoreMoves ==
  ASSUME TypeOK, QueueInv, [Next]_vars
  PROVE  \/ writes' = writes /\ disk' = disk
         \/ \E by \in Savers : Appends(by) /\ disk' = disk
         \/ /\ writes # <<>> /\ writes' = Tail(writes)
            /\ \/ disk' = disk /\ Answered(Head(writes).by, "failed")
               \/ disk' = Head(writes).img /\ Answered(Head(writes).by, "ok")
         \/ Crash /\ disk' = disk /\ writes' = <<>>
<1>1. CASE Land \/ WriteFails
  BY <1>1 DEF Land, WriteFails
<1>2. CASE ~Land /\ ~WriteFails
  <2>1. disk' = disk
    <3>1. CASE Creating
      BY <3>1, <1>2 DEF Creating, Ask, Prepared, NotPrepared, WindowOpens, WindowFails, store, vars
    <3>2. CASE Messaging
      BY <3>2, <1>2 DEF Messaging, Message, MessageRefused, Reject, Retip, Retipped, store, vars
    <3>3. CASE \E w \in Calls : Paying(w)
      BY <3>3, <1>2 DEF Paying, Claim, Verified, Proved, NotVerified, Recorded, Submit, Submitted, Told, Undone, store, vars
    <3>4. CASE \E w \in Calls : Granting(w)
      BY <3>4, <1>2 DEF Granting, Connect, Connected, NotConnected, ClaimSession, StartSession, NotStarted, store, vars
    <3>5. CASE Ending
      BY <3>5, <1>2 DEF Ending, SessionEnds, Lock, Alarm, Revoke, Leave, Return, CancelRequest, Expire, History, store, vars
    <3>6. CASE Keying
      BY <3>6, <1>2 DEF Keying, KeyBegins, KeyProved, KeyFails, SwitchBegins, SwitchEnds, SwitchMoves, store, vars
    <3>7. CASE Storing
      BY <3>7, <1>2 DEF Storing, ClearHistory, Crash, store, vars
    <3>8. CASE UNCHANGED vars
      BY <3>8, <1>2 DEF vars, store, vars
    <3> QED BY <3>1, <3>2, <3>3, <3>4, <3>5, <3>6, <3>7, <3>8, Steps
  <2>2. ~(writes # <<>> /\ writes' = Tail(writes) /\ ~Crash)
    <3>1. writes # <<>> => Tail(writes) # writes
      <4>1. writes # <<>> => Len(Tail(writes)) = Len(writes) - 1 /\ Len(writes) \in Nat
        BY DEF TypeOK, StoreOK
      <4> QED BY <4>1
    <3>2. writes # <<>> => \A e : Append(writes, e) # Tail(writes)
      <4>1. writes # <<>> => Len(Tail(writes)) = Len(writes) - 1 /\ Len(writes) \in Nat
        BY DEF TypeOK, StoreOK
      <4>2. \A e : Len(Append(writes, e)) = Len(writes) + 1
        BY DEF TypeOK, StoreOK
      <4> QED BY <4>1, <4>2
    <3>3. writes' = writes \/ (\E e : writes' = Append(writes, e)) \/ Crash
      <4>1. CASE Creating
        BY <4>1, <1>2 DEF Creating, Ask, Prepared, NotPrepared, WindowOpens, WindowFails, store, Save, vars
      <4>2. CASE Messaging
        BY <4>2, <1>2 DEF Messaging, Message, MessageRefused, Reject, Retip, Retipped, store, Save, vars
      <4>3. CASE \E w \in Calls : Paying(w)
        BY <4>3, <1>2 DEF Paying, Claim, Verified, Proved, NotVerified, Recorded, Submit, Submitted, Told, Undone, store, Save, vars
      <4>4. CASE \E w \in Calls : Granting(w)
        BY <4>4, <1>2 DEF Granting, Connect, Connected, NotConnected, ClaimSession, StartSession, NotStarted, store, Save, vars
      <4>5. CASE Ending
        BY <4>5, <1>2 DEF Ending, SessionEnds, Lock, Alarm, Revoke, Leave, Return, CancelRequest, Expire, History, store, Save, vars
      <4>6. CASE Keying
        BY <4>6, <1>2 DEF Keying, KeyBegins, KeyProved, KeyFails, SwitchBegins, SwitchEnds, SwitchMoves, store, Save, vars
      <4>7. CASE Storing
        BY <4>7, <1>2 DEF Storing, ClearHistory, store, Save, vars
      <4>8. CASE UNCHANGED vars
        BY <4>8, <1>2 DEF vars, store, Save, vars
      <4> QED BY <4>1, <4>2, <4>3, <4>4, <4>5, <4>6, <4>7, <4>8, Steps
    <3> QED BY <3>1, <3>2, <3>3, Zenon
  <2>3. Crash => writes' = <<>>
    BY DEF Crash
  <2> QED BY <2>1, <2>2, <2>3, WritesMove
<1> QED BY <1>1, <1>2

\* A snapshot more, as the queue sees it.
LEMMA AppendsEffect ==
  ASSUME TypeOK, [Next]_vars, NEW by, Appends(by)
  PROVE  /\ DOMAIN writes = 1..Len(writes) /\ DOMAIN writes' = 1..(Len(writes) + 1) /\ Len(writes) \in Nat
         /\ \A i \in DOMAIN writes : writes'[i] = writes[i]
         /\ writes'[Len(writes) + 1].by = by
         /\ writes'[Len(writes) + 1].img.txs = Lines(txs', list')
<1>1. PICK e : writes' = Append(writes, e) /\ e.by = by /\ e.img.txs = Lines(txs', list')
  BY DEF Appends, Save
<1>2. writes' \in Seq(Queued) /\ writes \in Seq(Queued)
  BY StepTypes DEF TypeOK, StoreOK
<1> QED BY <1>1, <1>2

\* A snapshot less, as the queue sees it.
LEMMA TailEffect ==
  ASSUME TypeOK, writes # <<>>, writes' = Tail(writes)
  PROVE  /\ DOMAIN writes = 1..Len(writes) /\ DOMAIN writes' = 1..(Len(writes) - 1) /\ Len(writes) \in Nat
         /\ 1 \in DOMAIN writes /\ Head(writes) = writes[1]
         /\ \A i \in DOMAIN writes' : writes'[i] = writes[i + 1] /\ i + 1 \in DOMAIN writes
BY DEF TypeOK, StoreOK

\* What is stored keeps a status that the snapshots of the step have too.
LEMMA StoredStays ==
  ASSUME TypeOK, QueueInv, [Next]_vars, NEW r \in Requests, NEW S, Stored(r, S), Copied(r, S)
  PROVE  Stored(r, S)'
<1> USE DEF Stored, Copied
<1>1. CASE writes' = writes /\ disk' = disk
  BY <1>1
<1>2. ASSUME NEW by, Appends(by), disk' = disk PROVE Stored(r, S)'
  BY <1>2, AppendsEffect
<1>3. CASE writes # <<>> /\ writes' = Tail(writes) /\ (disk' = disk \/ disk' = Head(writes).img)
  BY <1>3, TailEffect
<1>4. CASE disk' = disk /\ writes' = <<>>
  BY <1>4
<1> QED BY <1>1, <1>2, <1>3, <1>4, StoreMoves

\* A message's snapshot, and every later one, keeps such a status too.
LEMMA SafeStays ==
  ASSUME TypeOK, QueueInv, [Next]_vars, NEW w \in Calls, NEW r \in Requests, NEW S, Safe(w, r, S),
         calls'[w] = calls[w] \/ Hears(w), Copied(r, S)
  PROVE  Safe(w, r, S)'
<1> USE DEF Safe, Copied
<1> DEFINE Later == \A i, j \in DOMAIN writes : writes[i].by = w /\ i <= j => writes[j].img.txs[r] \in S
<1>1. CASE writes' = writes /\ disk' = disk
  <2>1. calls'[w] = calls[w]
    <3>1. writes # <<>> => writes # Tail(writes)
      <4>1. writes # <<>> => Len(Tail(writes)) = Len(writes) - 1 /\ Len(writes) \in Nat
        BY DEF TypeOK, StoreOK
      <4> QED BY <4>1
    <3> QED BY <1>1, <3>1 DEF Hears
  <2> QED BY <1>1, <2>1 DEF Stored
<1>2. ASSUME NEW by \in Savers, Appends(by), disk' = disk PROVE Safe(w, r, S)'
  <2>1. calls'[w] = calls[w]
    <3>1. Len(writes') = Len(writes) + 1 /\ Len(writes) \in Nat
      <4>1. writes' \in Seq(Queued)
        BY StepTypes DEF TypeOK, StoreOK
      <4> QED BY <1>2, <4>1, AppendsEffect
    <3>2. Hears(w) => Len(writes') = Len(writes) - 1
      BY DEF Hears, TypeOK, StoreOK
    <3> QED BY <3>1, <3>2
  <2>2. Stored(r, S) => Stored(r, S)'
    BY StoredStays
  <2>3. Later'
    BY <1>2, AppendsEffect
  <2> QED BY <2>1, <2>2, <2>3
<1>3. CASE /\ writes # <<>> /\ writes' = Tail(writes)
           /\ \/ disk' = disk /\ Answered(Head(writes).by, "failed")
              \/ disk' = Head(writes).img /\ Answered(Head(writes).by, "ok")
  <2>1. Later'
    BY <1>3, TailEffect
  <2>2. CASE Head(writes).by = w
    <3>1. \A j \in DOMAIN writes : writes[j].img.txs[r] \in S
      BY <1>3, <2>2, TailEffect
    <3>2. calls'[w].io = "ok" => disk' = Head(writes).img
      <4>1. calls[w] \in Call /\ CallsOK
        BY DEF TypeOK, CallsOK
      <4>2. Answered(w, "failed") => calls'[w] = [calls[w] EXCEPT !.io = "failed"]
        BY <4>1, AnsweredEffect
      <4>3. Answered(w, "failed") => calls'[w].io # "ok"
        BY <4>1, <4>2 DEF Call
      <4> QED BY <1>3, <2>2, <4>3
    <3> QED BY <1>3, <2>1, <3>1, <3>2, TailEffect DEF Stored
  <2>3. CASE Head(writes).by # w
    <3>1. calls'[w] = calls[w]
      BY <2>3 DEF Hears
    <3> QED BY <1>3, <2>1, <3>1, StoredStays
  <2> QED BY <2>2, <2>3
<1>4. CASE disk' = disk /\ writes' = <<>>
  <2>1. calls'[w].io = "ok" => calls[w].io = "ok" \/ disk' = Head(writes).img
    BY DEF Hears
  <2>2. CASE Hears(w)
    <3>1. \A j \in DOMAIN writes : writes[j].img.txs[r] \in S
      BY <2>2, TailEffect DEF Hears
    <3> QED BY <1>4, <2>2, <3>1, TailEffect DEF Hears, Stored
  <2>3. CASE calls'[w] = calls[w]
    BY <1>4, <2>3 DEF Stored
  <2> QED BY <2>2, <2>3
<1> QED BY <1>1, <1>2, <1>3, <1>4, StoreMoves

\* A message that had none to await starts with its own snapshot.
LEMMA SafeStarts ==
  ASSUME TypeOK, QueueInv, [Next]_vars, NEW w \in Calls, NEW r \in Requests, NEW S,
         Appends(w), calls'[w].io = "none", Copied(r, S)
  PROVE  Safe(w, r, S)'
<1>1. \A i \in DOMAIN writes : writes[i].by # w
  <2>1. w \in Savers /\ w \notin {"other", "clear"}
    BY ControllerConstants DEF Savers
  <2>2. ~Due(w)
    BY <2>1 DEF Appends
  <2> QED BY <2>1, <2>2 DEF QueueInv, Queuing
<1> QED BY <1>1, AppendsEffect DEF Safe, Copied

\* Only its own approval, the history and a restart change the status of a payment.
LEMMA StatusMoves ==
  ASSUME TypeOK, [Next]_vars, NEW r \in Requests, txs'[r] # txs[r]
  PROVE  \/ \E w \in Calls : calls[w].req = r /\ (Verified(w) \/ Recorded(w) \/ Submitted(w))
         \/ History(r) \/ Crash
<1>1. \/ txs' = txs
      \/ \E w \in Calls : Verified(w) \/ Recorded(w) \/ Submitted(w)
      \/ (\E s \in Requests : History(s)) \/ Crash
  <2>1. CASE Creating
    BY <2>1 DEF Creating, Ask, Prepared, NotPrepared, WindowOpens, WindowFails, history, vars
  <2>2. CASE Messaging
    BY <2>2 DEF Messaging, Message, MessageRefused, Reject, Retip, Retipped, history, vars
  <2>3. CASE \E w \in Calls : Paying(w)
    BY <2>3 DEF Paying, Claim, Proved, NotVerified, Submit, Told, Undone, history, vars
  <2>4. CASE \E w \in Calls : Granting(w)
    BY <2>4 DEF Granting, Connect, Connected, NotConnected, ClaimSession, StartSession, NotStarted, history, vars
  <2>5. CASE Ending
    BY <2>5 DEF Ending, SessionEnds, Lock, Alarm, Revoke, Leave, Return, CancelRequest, Expire, history, vars
  <2>6. CASE Keying
    BY <2>6 DEF Keying, KeyBegins, KeyProved, KeyFails, SwitchBegins, SwitchEnds, SwitchMoves, history, vars
  <2>7. CASE Storing
    BY <2>7 DEF Storing, ClearHistory, Land, WriteFails, history, vars
  <2>8. CASE UNCHANGED vars
    BY <2>8 DEF vars, history, vars
  <2> QED BY <2>1, <2>2, <2>3, <2>4, <2>5, <2>6, <2>7, <2>8, Steps
<1>2. ASSUME NEW w \in Calls, Verified(w) \/ Recorded(w) \/ Submitted(w) PROVE calls[w].req = r
  BY <1>2 DEF Verified, Recorded, Submitted, TypeOK, HistoryOK
<1>3. ASSUME NEW s \in Requests, History(s) PROVE s = r
  BY <1>3 DEF History, TypeOK, HistoryOK
<1> QED BY <1>1, <1>2, <1>3


-----------------------------------------------------------------------------
(* What a site is told *)

Clean == {"none", "uncertain", "submitted", "final"}

\* The steps of a payment at which nothing left.
Unsent == {"verify", "signed", "uncertain", "undo"}

\* The steps whose failure refuses the request.
Refusing == {"verify", "undo", "record", "unrecord", "ungrant"}

\* Until its request is done an asker is told nothing; a payment that left was past every step that
\* refuses or cancels one, and so are its copies in storage and on the way there.
RecordInv ==
  /\ \A r \in Requests : jobs[r].stage # "done" => answer[r] = "none"
  /\ \A r \in wire :
       /\ jobs[r].kind = "transaction" /\ jobs[r].stage \in {"signing", "done"}
       /\ jobs[r].window # "opening" /\ answer[r] # "refused" /\ txs[r] \in Clean /\ Stored(r, Clean)
  /\ \A w \in Calls : calls[w].pc \in Unsent => calls[w].req \notin wire
  /\ \A w \in Calls, r \in Requests :
       calls[w].pc = "uncertain" /\ calls[w].req = r => txs[r] = "uncertain" /\ Safe(w, r, Clean)

\* An answer ends a request, and a refusal comes from a review, a failed window or a refusing step.
LEMMA AnswerMoves ==
  ASSUME TypeOK, MutexInv, [Next]_vars, NEW r \in Requests, answer'[r] # answer[r]
  PROVE  /\ jobs'[r].stage = "done"
         /\ answer'[r] = "refused" =>
              \/ jobs[r].stage \in {"prep", "review"} \/ jobs[r].window = "opening"
              \/ \E w \in Calls : calls[w].req = r /\ calls[w].pc \in Refusing
<1> DEFINE Goal == /\ jobs'[r].stage = "done"
                   /\ answer'[r] = "refused" =>
                        \/ jobs[r].stage \in {"prep", "review"} \/ jobs[r].window = "opening"
                        \/ \E w \in Calls : calls[w].req = r /\ calls[w].pc \in Refusing
<1>a. TableOK /\ jobs[r] \in Job
  BY DEF TypeOK, TableOK
<1>b. ASSUME NEW W \in SUBSET Requests, Invalidate(W) PROVE Goal
  <2>1. jobs'[r] = [jobs[r] EXCEPT
                      !.cancelled = @ \/ (r \in W /\ InTable(r)),
                      !.stage = IF r \in W /\ @ = "review" THEN "done" ELSE @]
    BY <1>a, <1>b, InvalidateEffect
  <2>2. answer'[r] = IF r \in W /\ jobs[r].stage = "review" THEN "refused" ELSE answer[r]
    BY <1>a, <1>b, InvalidateEffect
  <2> QED BY <1>a, <2>1, <2>2 DEF Job
<1>1. ASSUME NEW s \in Requests, NotPrepared(s) \/ WindowFails(s) PROVE Goal
  <2>1. /\ s = r /\ (jobs[s].stage = "prep" \/ jobs[s].window = "opening")
    BY <1>1, <1>a DEF NotPrepared, WindowFails, TableOK
  <2>2. jobs'[r] = [jobs[r] EXCEPT !.stage = "done"] \/ jobs'[r] = [jobs[r] EXCEPT !.window = "failed", !.stage = "done"]
    BY <1>1, <1>a, <2>1 DEF NotPrepared, WindowFails, TableOK
  <2> QED BY <1>a, <2>1, <2>2 DEF Job
<1>2. ASSUME NEW w \in Calls, Approval(w) PROVE Goal
  <2> DEFINE q == calls[w].req
  <2>1. \/ answer' = answer
        \/ \E v : Reply(q, v) /\ (v = "refused" => jobs[q].stage = "review" \/ calls[w].pc \in Refusing)
    <3>1. CASE Verified(w) \/ Recorded(w) \/ Submitted(w) \/ Connect(w)
      BY <3>1 DEF Verified, Recorded, Submitted, Connect, table
    <3>2. CASE Claim(w) \/ ClaimSession(w)
      BY <3>2 DEF Claim, ClaimSession, FirstClaim, Reviewed
    <3>3. CASE Proved(w) \/ NotVerified(w)
      BY <3>3 DEF Proved, Signs, NotVerified, Refusing
    <3>4. CASE Submit(w)
      BY <3>4 DEF Submit, table
    <3>5. CASE Told(w)
      BY <3>5 DEF Told
    <3>6. CASE Undone(w)
      BY <3>6 DEF Undone, Refusing
    <3>7. CASE Connected(w) \/ NotConnected(w)
      BY <3>7 DEF Connected, NotConnected, table, Refusing
    <3>8. CASE StartSession(w) \/ NotStarted(w)
      BY <3>8 DEF StartSession, NotStarted, table, Refusing
    <3> QED  BY <1>2, <3>1, <3>2, <3>3, <3>4, <3>5, <3>6, <3>7, <3>8 DEF Approval
  <2>2. PICK v : Reply(q, v) /\ (v = "refused" => jobs[q].stage = "review" \/ calls[w].pc \in Refusing)
    BY <2>1
  <2>3. InTable(q) /\ jobs' = [jobs EXCEPT ![q].stage = "done"] /\ answer' = [answer EXCEPT ![q] = v]
    BY <2>2 DEF Reply
  <2>4. r = q
    BY <1>a, <2>3 DEF TableOK
  <2>5. jobs'[r].stage = "done" /\ answer'[r] = v
    BY <1>a, <2>3, <2>4 DEF TableOK, Job
  <2> QED BY <2>2, <2>4, <2>5
<1>3. ASSUME \/ \E W \in SUBSET Requests : Invalidate(W)
             \/ \E s \in Requests : NotPrepared(s) \/ WindowFails(s)
             \/ \E w \in Calls : Approval(w)
      PROVE  Goal
  BY <1>b, <1>1, <1>2, <1>3
<1>4. \/ answer' = answer
      \/ \E W \in SUBSET Requests : Invalidate(W)
      \/ \E s \in Requests : NotPrepared(s) \/ WindowFails(s)
      \/ \E w \in Calls : Approval(w)
  <2>1. ASSUME NEW w \in Calls,
               \/ \E s \in Requests, what \in {"approve", "retip", "reject"}, q \in 0..MaxEvents :
                    Message(w, s, what, q)
               \/ MessageRefused(w) \/ Retip(w) \/ Retipped(w)
        PROVE  answer' = answer
    BY <2>1 DEF Message, MessageRefused, Retip, Retipped, table
  <2>2. ASSUME NEW w \in Calls, Reject(w) PROVE \E W \in SUBSET Requests : Invalidate(W)
    <3>1. {calls[w].req} \in SUBSET Requests
      BY <2>2 DEF Reject, Reviewed, TypeOK, CallsOK
    <3> QED BY <2>2, <3>1 DEF Reject
  <2>3. ASSUME NEW s \in Requests,
               \/ \E k \in Kinds, p \in Pages \cup {NoPage} : Ask(s, k, p)
               \/ Prepared(s) \/ WindowOpens(s) \/ Expire(s) \/ History(s)
        PROVE  answer' = answer
    BY <2>3 DEF Ask, Prepared, WindowOpens, Expire, History, table
  <2>4. ASSUME NEW s \in Requests, CancelRequest(s)
        PROVE  answer' = answer \/ \E W \in SUBSET Requests : Invalidate(W)
    BY <2>4 DEF CancelRequest
  <2>5. ASSUME Lock \/ Alarm \/ SwitchBegins \/ SwitchEnds \/ \E p \in Pages : Revoke(p) \/ Leave(p)
        PROVE  \E W \in SUBSET Requests : Invalidate(W)
    BY <2>5 DEF Lock, Alarm, SwitchBegins, SwitchEnds, Revoke, Leave, Asked, AskedBy
  <2>6. ASSUME KeyProved PROVE answer' = answer \/ \E W \in SUBSET Requests : Invalidate(W)
    BY <2>6 DEF KeyProved, table
  <2>7. ASSUME \/ SessionEnds \/ KeyFails \/ ClearHistory \/ Land \/ WriteFails \/ Crash
               \/ \E p \in Pages : Return(p)
               \/ \E op \in {"unlock", "select", "add"}, c \in Contexts : KeyBegins(op, c)
               \/ \E n \in Networks : SwitchMoves(n)
        PROVE  answer' = answer
    BY <2>7 DEF SessionEnds, KeyFails, ClearHistory, Land, WriteFails, Crash, Return, KeyBegins, SwitchMoves, table
  <2> QED BY <2>1, <2>2, <2>3, <2>4, <2>5, <2>6, <2>7 DEF Next, vars
<1> QED BY <1>3, <1>4

\* A review, and the opening of its window, begin when its reads are back.
LEMMA ReviewBegins ==
  ASSUME TypeOK, [Next]_vars, NEW r \in Requests,
         \/ jobs'[r].window = "opening" /\ jobs[r].window # "opening"
         \/ jobs'[r].stage = "review" /\ jobs[r].stage # "review"
  PROVE  Prepared(r)
<1>a. TableOK /\ jobs[r] \in Job
  BY DEF TypeOK, TableOK
<1>b. ASSUME NEW W \in SUBSET Requests PROVE ~Invalidate(W)
  <2> SUFFICES ASSUME Invalidate(W) PROVE FALSE
    OBVIOUS
  <2>1. jobs'[r] = [jobs[r] EXCEPT
                      !.cancelled = @ \/ (r \in W /\ InTable(r)),
                      !.stage = IF r \in W /\ @ = "review" THEN "done" ELSE @]
    BY <1>a, InvalidateEffect
  <2> QED BY <1>a, <2>1 DEF Job
<1>1. ASSUME NEW w \in Calls PROVE ~Approval(w)
  <2> SUFFICES ASSUME Approval(w) PROVE FALSE
    OBVIOUS
  <2>1. \/ jobs'[r] = jobs[r] \/ jobs'[r] = [jobs[r] EXCEPT !.stage = "done"]
        \/ jobs'[r] = [jobs[r] EXCEPT !.stage = "signing"]
    BY ApprovalJobs
  <2> QED BY <1>a, <2>1 DEF Job
<1>2. ASSUME NEW s \in Requests, \/ \E k \in Kinds, p \in Pages \cup {NoPage} : Ask(s, k, p)
                                 \/ Prepared(s) \/ NotPrepared(s) \/ WindowOpens(s) \/ WindowFails(s)
                                 \/ Expire(s) \/ (CancelRequest(s) /\ ~InTable(s))
      PROVE  Prepared(r)
  <2>1. s = r
    BY <1>2, <1>a DEF Ask, Prepared, NotPrepared, WindowOpens, WindowFails, Expire, CancelRequest, TableOK
  <2>2. \/ Prepared(r)
        \/ jobs'[r].stage = "prep" /\ jobs'[r].window = "none"
        \/ jobs'[r] = [jobs[r] EXCEPT !.stage = "done"]
        \/ jobs'[r] = [jobs[r] EXCEPT !.window = "open"]
        \/ jobs'[r] = [jobs[r] EXCEPT !.window = "failed", !.stage = "done"]
        \/ jobs'[r] = [jobs[r] EXCEPT !.expired = TRUE]
        \/ jobs'[r] = [jobs[r] EXCEPT !.cancelled = TRUE]
    <3>1. ASSUME NEW k \in Kinds, NEW p \in Pages \cup {NoPage}, Ask(r, k, p)
          PROVE  jobs'[r] = [Blank EXCEPT !.stage = "prep", !.kind = k, !.page = p, !.ctx = ctx,
                   !.epoch = session.epoch, !.rev = IF p \in Pages THEN pages[p].rev ELSE 0]
      BY <1>a, <3>1 DEF Ask, TableOK
    <3>2. (\E k \in Kinds, p \in Pages \cup {NoPage} : Ask(r, k, p))
            => jobs'[r].stage = "prep" /\ jobs'[r].window = "none"
      BY <3>1 DEF Blank
    <3> QED BY <1>2, <1>a, <2>1, <3>2 DEF Prepared, NotPrepared, WindowOpens, WindowFails, Expire,
                                          CancelRequest, TableOK
  <2> QED BY <1>a, <2>2 DEF Job
<1>3. ASSUME NEW w \in Calls, MessageRefused(w) \/ Reject(w) \/ Retip(w) \/ Retipped(w) PROVE FALSE
  <2>1. CASE Reject(w)
    <3>1. {calls[w].req} \in SUBSET Requests
      BY <2>1 DEF Reject, Reviewed, TypeOK, CallsOK
    <3> QED BY <1>b, <2>1, <3>1 DEF Reject
  <2>2. CASE ~Reject(w)
    <3>1. jobs' = jobs \/ (\E q, x : jobs' = [jobs EXCEPT ![x].turn = q] \/ jobs' = [jobs EXCEPT ![x].quote = q])
      BY <1>3, <2>2 DEF MessageRefused, Retip, Retipped, table
    <3> QED BY <1>a, <3>1 DEF Job, TableOK
  <2> QED BY <2>1, <2>2
<1>4. ~Crash
  <2> SUFFICES ASSUME Crash PROVE FALSE
    OBVIOUS
  <2>1. jobs'[r] = IF r \in Asked THEN [jobs[r] EXCEPT !.stage = "done", !.window = "failed"] ELSE jobs[r]
    BY DEF Crash
  <2> QED BY <1>a, <2>1 DEF Job
<1>5. ~Lock /\ ~Alarm /\ ~SwitchBegins /\ ~SwitchEnds /\ \A p \in Pages : ~Revoke(p) /\ ~Leave(p)
  BY <1>b DEF Lock, Alarm, SwitchBegins, SwitchEnds, Revoke, Leave, Asked, AskedBy
<1>6. ~KeyProved /\ \A s \in Requests : CancelRequest(s) => ~InTable(s)
  BY <1>b DEF KeyProved, table, CancelRequest
<1>7. CASE \/ \E w \in Calls, s \in Requests, what \in {"approve", "retip", "reject"}, q \in 0..MaxEvents :
                Message(w, s, what, q)
           \/ SessionEnds \/ KeyFails \/ ClearHistory \/ Land \/ WriteFails
           \/ \E p \in Pages : Return(p)
           \/ \E s \in Requests : History(s)
           \/ \E op \in {"unlock", "select", "add"}, c \in Contexts : KeyBegins(op, c)
           \/ \E n \in Networks : SwitchMoves(n)
           \/ UNCHANGED vars
  BY <1>7 DEF Message, SessionEnds, KeyFails, ClearHistory, Land, WriteFails, Return, History,
              KeyBegins, SwitchMoves, table, vars
<1> QED BY <1>1, <1>2, <1>3, <1>4, <1>5, <1>6, <1>7 DEF Next


\* Each step of a payment is reached by one step of the code, and a message keeps its request.
LEMMA Reaches ==
  ASSUME TypeOK, NEW w \in Calls, Approval(w), calls'[w].pc # "idle"
  PROVE  /\ calls'[w].req = calls[w].req
         /\ calls'[w].pc = "verify" => Claim(w)
         /\ calls'[w].pc = "signed" => Verified(w)
         /\ calls'[w].pc \in {"uncertain", "undo"} => Recorded(w)
         /\ calls'[w].pc = "submit" => Submit(w) /\ Submits(w)
         /\ calls'[w].pc = "told" => Submitted(w)
<1>a. calls[w] \in Call /\ CallsOK
  BY DEF TypeOK, CallsOK
<1>1. ~Rest(w)
  BY <1>a, RestEffect DEF Idle
<1>2. \A pc : Go(w, pc) => calls'[w].pc = pc /\ calls'[w].req = calls[w].req
  <2> TAKE pc
  <2>1. Go(w, pc) => calls'[w] = [calls[w] EXCEPT !.pc = pc, !.io = "none"]
    BY <1>a, GoEffect
  <2> QED BY <1>a, <2>1 DEF Call
<1>3. \A q : calls' = [calls EXCEPT ![w].pc = "verify", ![w].quote = q]
              => calls'[w].pc = "verify" /\ calls'[w].req = calls[w].req
  BY <1>a DEF CallsOK, Call
<1>4. Claim(w) => calls'[w].pc = "verify" /\ calls'[w].req = calls[w].req
  BY <1>1, <1>3 DEF Claim
<1>5. Verified(w) => calls'[w].pc = "signed" /\ calls'[w].req = calls[w].req
  BY <1>2 DEF Verified
<1>6. Recorded(w) => calls'[w].pc \in {"uncertain", "undo"} /\ calls'[w].req = calls[w].req
  <2>1. Recorded(w) => Go(w, "uncertain") \/ Go(w, "undo")
    BY DEF Recorded
  <2> QED BY <1>2, <2>1
<1>7. Submit(w) => calls'[w].pc = "submit" /\ calls'[w].req = calls[w].req /\ Submits(w)
  <2>1. Submit(w) => Submits(w) /\ Go(w, "submit")
    BY <1>1 DEF Submit
  <2> QED BY <1>2, <2>1
<1>8. Submitted(w) => calls'[w].pc = "told" /\ calls'[w].req = calls[w].req
  BY <1>2 DEF Submitted
<1>9. Connect(w) => calls'[w].pc = "grant" /\ calls'[w].req = calls[w].req
  BY <1>2 DEF Connect
<1>10. Connected(w) => calls'[w].pc = "ungrant" /\ calls'[w].req = calls[w].req
  <2>1. Connected(w) => Go(w, "ungrant")
    BY <1>1 DEF Connected
  <2> QED BY <1>2, <2>1
<1>11. ClaimSession(w) => calls'[w].pc = "record" /\ calls'[w].req = calls[w].req
  <2>1. ClaimSession(w) => Go(w, "record")
    BY <1>1 DEF ClaimSession
  <2> QED BY <1>2, <2>1
<1>12. StartSession(w) => calls'[w].pc = "unrecord" /\ calls'[w].req = calls[w].req
  <2>1. StartSession(w) => Go(w, "unrecord")
    BY <1>1 DEF StartSession
  <2> QED BY <1>2, <2>1
<1>13. ~Proved(w) /\ ~NotVerified(w) /\ ~Told(w)
  BY <1>1 DEF Proved, NotVerified, Told
<1>14. ~Undone(w) /\ ~NotConnected(w) /\ ~NotStarted(w)
  BY <1>1 DEF Undone, NotConnected, NotStarted
<1>15. \/ Claim(w) \/ Verified(w) \/ Recorded(w) \/ Submit(w) \/ Submitted(w)
       \/ Connect(w) \/ Connected(w) \/ ClaimSession(w) \/ StartSession(w)
  BY <1>13, <1>14 DEF Approval
<1> QED BY <1>4, <1>5, <1>6, <1>7, <1>8, <1>9, <1>10, <1>11, <1>12, <1>15

\* A message whose step is at work or at a grant was there before, or its own approval took it there.
LEMMA StepBefore ==
  ASSUME TypeOK, [Next]_vars, NEW w \in Calls, calls'[w].pc \in AtWork \cup AtGrant, ~Approval(w)
  PROVE  /\ calls'[w].pc = calls[w].pc /\ calls'[w].req = calls[w].req
         /\ calls'[w] = calls[w] \/ Hears(w)
BY CallsForward DEF Hears, Idle, AtWork, AtGrant

\* A snapshot has the status of a request, or none where it left the list.
LEMMA LinesOf ==
  ASSUME NEW r \in Requests, NEW S, txs'[r] \in S, "none" \in S \/ r \in list'
  PROVE  Copied(r, S)
BY DEF Copied, Lines

\* A payment that left is not refused, cancelled or recorded as unsent by any step.
LEMMA SentStays ==
  ASSUME TypeOK, MutexInv, QueueInv, RecordInv, [Next]_vars, NEW r \in wire
  PROVE  /\ jobs'[r].kind = "transaction" /\ jobs'[r].stage \in {"signing", "done"}
         /\ jobs'[r].window # "opening" /\ answer'[r] # "refused" /\ txs'[r] \in Clean /\ Stored(r, Clean)'
<1>a. r \in Requests /\ Forward(r) /\ txs \in [Requests -> Statuses]
  BY JobsForward DEF TypeOK, GhostsOK, HistoryOK
<1>b. /\ jobs[r].kind = "transaction" /\ jobs[r].stage \in {"signing", "done"}
      /\ jobs[r].window # "opening" /\ answer[r] # "refused" /\ txs[r] \in Clean /\ Stored(r, Clean)
  BY DEF RecordInv
<1>1. jobs'[r].kind = "transaction" /\ jobs'[r].stage \in {"signing", "done"}
  BY <1>a, <1>b DEF Forward
<1>2. jobs'[r].window # "opening"
  BY <1>a, <1>b, ReviewBegins DEF Prepared
<1>3. answer'[r] # "refused"
  <2> SUFFICES ASSUME answer'[r] = "refused" PROVE FALSE
    OBVIOUS
  <2>1. PICK w \in Calls : calls[w].req = r /\ calls[w].pc \in Refusing
    BY <1>a, <1>b, AnswerMoves
  <2>2. calls[w].pc \notin Unsent
    BY <2>1 DEF RecordInv
  <2>3. At(w, r)
    BY <2>1 DEF At, Refusing, AtWork, AtGrant
  <2>4. jobs[r].kind \in KindsAt(calls[w].pc)
    BY <1>a, <2>3 DEF MutexInv, Places
  <2> QED BY <1>b, <2>1, <2>2, <2>4 DEF Refusing, Unsent, KindsAt, AtGrant
<1>4. txs'[r] \in Clean
  <2>1. ASSUME NEW w \in Calls, calls[w].req = r PROVE ~Verified(w) /\ ~Recorded(w)
    BY <2>1 DEF RecordInv, Unsent, Verified, Signs, Recorded
  <2>2. ASSUME NEW w \in Calls, calls[w].req = r, Submitted(w) PROVE txs'[r] \in Clean
    BY <1>a, <2>2 DEF Submitted, Clean
  <2>3. History(r) => txs'[r] \in Clean
    BY <1>a DEF History, Clean
  <2>4. Crash => txs'[r] \in Clean
    <3>1. disk.txs[r] \in Clean
      BY <1>b DEF Stored
    <3> QED BY <1>a, <3>1 DEF Crash, Clean
  <2> QED BY <1>a, <1>b, <2>1, <2>2, <2>3, <2>4, StatusMoves
<1>5. Stored(r, Clean)'
  BY <1>a, <1>b, <1>4, LinesOf, StoredStays DEF Clean
<1> QED BY <1>1, <1>2, <1>3, <1>4, <1>5

\* Every step keeps what an asker is told of a payment true.
LEMMA RecordStep ==
  ASSUME TypeOK, MutexInv, QueueInv, RecordInv, [Next]_vars
  PROVE  RecordInv'
<1>a. CallsOK /\ TableOK /\ txs \in [Requests -> Statuses] /\ \A w \in Calls : calls[w] \in Call
  BY DEF TypeOK, CallsOK, HistoryOK
<1>t. TypeOK'
  BY StepTypes
<1>p. ASSUME NEW w \in Calls, calls[w].pc \in AtWork \cup AtGrant
      PROVE  /\ calls[w].req \in Requests /\ At(w, calls[w].req)
             /\ jobs[calls[w].req].stage = "signing" /\ jobs[calls[w].req].kind \in KindsAt(calls[w].pc)
             /\ jobs[calls[w].req].window # "opening"
             /\ \A v \in Calls : calls[v].req = calls[w].req /\ calls[v].pc \in AtWork \cup AtGrant => v = w
  <2>1. calls[w].pc # "idle"
    BY <1>p DEF AtWork, AtGrant
  <2>2. PICK r \in Requests : r = calls[w].req
    BY <1>a, <2>1 DEF CallsOK
  <2> QED BY <1>p, <2>2 DEF At, MutexInv, Places
<1>s. ASSUME NEW w \in Calls, Submit(w), Submits(w)
      PROVE  /\ calls[w].pc = "uncertain" /\ Approval(w)
             /\ UNCHANGED <<jobs, answer, txs, list, store>>
  BY <1>s DEF Submit, Approval, table, history
<1>1. ASSUME NEW r \in Requests, jobs'[r].stage # "done" PROVE answer'[r] = "none"
  <2>1. jobs[r].stage # "done"
    BY <1>1, JobsForward DEF Forward
  <2> QED BY <1>1, <2>1, AnswerMoves DEF RecordInv
<1>2. ASSUME NEW r \in wire'
      PROVE  /\ jobs'[r].kind = "transaction" /\ jobs'[r].stage \in {"signing", "done"}
             /\ jobs'[r].window # "opening" /\ answer'[r] # "refused" /\ txs'[r] \in Clean /\ Stored(r, Clean)'
  <2>1. CASE r \in wire
    BY <2>1, SentStays
  <2>2. CASE r \notin wire
    <3>1. PICK w \in Calls : Submit(w) /\ Submits(w) /\ r = calls[w].req
      BY <1>2, <2>2, OnlySends
    <3>2. calls[w].pc = "uncertain" /\ calls[w].io = "ok" /\ UNCHANGED <<jobs, answer, txs, list, store>>
      BY <1>s, <3>1 DEF Submits
    <3>3. /\ r \in Requests /\ jobs[r].stage = "signing" /\ jobs[r].kind = "transaction"
          /\ jobs[r].window # "opening"
      BY <1>p, <3>1, <3>2 DEF AtWork, KindsAt, AtGrant
    <3>4. answer[r] = "none" /\ txs[r] = "uncertain" /\ Stored(r, Clean)
      BY <3>1, <3>2, <3>3 DEF RecordInv, Safe
    <3>5. Stored(r, Clean)'
      BY <3>2, <3>4 DEF Stored, store
    <3> QED BY <3>2, <3>3, <3>4, <3>5 DEF Clean
  <2> QED BY <2>1, <2>2
<1>3. ASSUME NEW w \in Calls, calls'[w].pc \in Unsent PROVE calls'[w].req \notin wire'
  <2>0. calls'[w].pc \in AtWork \cup AtGrant /\ calls'[w].pc # "idle"
    BY <1>3 DEF Unsent, AtWork
  <2>1. CASE Approval(w)
    <3>1. Claim(w) \/ Verified(w) \/ Recorded(w)
      BY <1>3, <2>0, <2>1, Reaches DEF Unsent
    <3>2. wire' = wire /\ calls'[w].req = calls[w].req
      BY <2>0, <2>1, <3>1, Reaches DEF Claim, Verified, Recorded, ghosts
    <3>3. calls[w].req \notin wire
      <4>1. Claim(w) => jobs[calls[w].req].stage = "review" \/ Rest(w)
        BY DEF Claim
      <4>2. ~Rest(w)
        BY <1>a, <2>0, RestEffect DEF Idle
      <4> QED BY <3>1, <4>1, <4>2 DEF RecordInv, Unsent, Verified, Signs, Recorded
    <3> QED BY <3>2, <3>3
  <2>2. CASE ~Approval(w)
    <3>1. calls'[w].pc = calls[w].pc /\ calls'[w].req = calls[w].req
      BY <2>0, <2>2, StepBefore
    <3>2. ASSUME NEW v \in Calls, Submit(v), Submits(v) PROVE calls[v].req # calls[w].req
      <4>1. calls[v].pc \in AtWork /\ Approval(v) /\ v # w
        BY <1>s, <2>2, <3>2 DEF AtWork
      <4> QED BY <1>p, <2>0, <3>1, <4>1
    <3> QED BY <1>3, <3>1, <3>2, OnlySends DEF RecordInv
  <2> QED BY <2>1, <2>2
<1>4. ASSUME NEW w \in Calls, NEW r \in Requests, calls'[w].pc = "uncertain", calls'[w].req = r
      PROVE  txs'[r] = "uncertain" /\ Safe(w, r, Clean)'
  <2>0. calls'[w].pc \in AtWork \cup AtGrant /\ calls'[w].pc # "idle"
    BY <1>4 DEF AtWork
  <2>1. CASE Approval(w)
    <3>1. Recorded(w) /\ calls[w].req = r
      BY <1>4, <2>0, <2>1, Reaches
    <3>2. /\ calls[w].pc = "signed" /\ calls[w].io # "none" /\ Save(w)
          /\ Go(w, "uncertain") \/ Go(w, "undo")
          /\ Go(w, "undo") \/ txs' = [txs EXCEPT ![r] = "uncertain"]
      BY <3>1 DEF Recorded
    <3>3. \A pc : Go(w, pc) => calls'[w].pc = pc /\ calls'[w].io = "none"
      <4> TAKE pc
      <4>1. Go(w, pc) => calls'[w] = [calls[w] EXCEPT !.pc = pc, !.io = "none"]
        BY <1>a, GoEffect
      <4> QED BY <1>a, <4>1 DEF Call
    <3>4. calls'[w].io = "none" /\ txs'[r] = "uncertain"
      BY <1>4, <1>a, <3>2, <3>3
    <3>5. Appends(w)
      <4>1. w \in Savers /\ w \notin {"key", "switch"}
        BY ControllerConstants DEF Savers
      <4> QED BY <1>4, <3>2, <3>4, <4>1 DEF Appends, Due, SavePcs
    <3>6. Copied(r, Clean)
      BY <3>4, LinesOf DEF Clean
    <3> QED BY <3>4, <3>5, <3>6, SafeStarts
  <2>2. CASE ~Approval(w)
    <3>1. calls[w].pc = "uncertain" /\ calls[w].req = r /\ (calls'[w] = calls[w] \/ Hears(w))
      BY <1>4, <2>0, <2>2, StepBefore
    <3>2. txs[r] = "uncertain" /\ Safe(w, r, Clean) /\ r \notin wire
      BY <3>1 DEF RecordInv, Unsent
    <3>3. txs'[r] = txs[r]
      <4>1. ASSUME NEW v \in Calls, calls[v].req = r, Verified(v) \/ Recorded(v) \/ Submitted(v) PROVE FALSE
        <5>1. calls[v].pc \in AtWork /\ Approval(v)
          BY <4>1 DEF Verified, Signs, Recorded, Submitted, AtWork, Approval
        <5>2. v = w
          BY <1>p, <2>0, <3>1, <4>1, <5>1 DEF AtWork
        <5> QED BY <2>2, <5>1, <5>2
      <4>2. ~History(r)
        BY <3>1, <3>2 DEF History
      <4>3. ~Crash
        <5>1. Crash => calls'[w] = Idle
          BY DEF Crash
        <5> QED BY <2>0, <5>1 DEF Idle
      <4> QED BY <4>1, <4>2, <4>3, StatusMoves
    <3> QED BY <3>1, <3>2, <3>3, LinesOf, SafeStays DEF Clean
  <2> QED BY <2>1, <2>2
<1> QED BY <1>1, <1>2, <1>3, <1>4 DEF RecordInv

\* A payment a site was told is not submitted, or that the history calls cancelled, in memory or in
\* storage, never left: whatever was refused, unlocked late, lost by a crash or not written.
THEOREM RecordTheorem == Spec => []NotSubmittedIsTrue
<1> DEFINE Inv == TypeOK /\ MutexInv /\ QueueInv /\ RecordInv
<1>1. Init => Inv
  <2>1. Init => RecordInv
    BY DEF Init, RecordInv, Idle, Unsent
  <2> QED BY <2>1, InitTypes, MutexInductive, QueueInductive
<1>2. Inv /\ [Next]_vars => Inv'
  BY StepTypes, MutexInductive, QueueInductive, RecordStep
<1>3. Inv => NotSubmittedIsTrue
  BY DEF RecordInv, NotSubmittedIsTrue, Stored, Clean
<1> QED BY <1>1, <1>2, <1>3, PTL DEF Spec


-----------------------------------------------------------------------------
(* What the history keeps, where no write of "clear history" is refused: such a refusal puts back the
   list it started from, and with it drops what was signed meanwhile. *)

Sent == {"uncertain", "submitted", "final"}

\* A payment at work or unresolved is in the list; one that left stays there and in storage, and in
\* every snapshot on its way, until it is final and cleared.
KeptInv ==
  /\ left.clears = 0
  /\ \A r \in Requests : txs[r] \in Open => r \in list
  /\ \A w \in Calls :
       calls[w].pc \in {"signed", "uncertain", "submit", "told", "undo"} => calls[w].req \in list
  /\ \A w \in Calls : calls[w].pc = "signed" => txs[calls[w].req] = "signed"
  /\ \A r \in wire :
       /\ txs[r] \in Sent /\ (r \notin list => txs[r] = "final")
       /\ Stored(r, Sent) \/ (txs[r] = "final" /\ Stored(r, Sent \cup {"none"}))
  /\ \A w \in Calls, r \in Requests :
       /\ calls[w].pc = "uncertain" /\ calls[w].req = r => Safe(w, r, Sent)
       /\ calls[w].pc = "submit" /\ calls[w].req = r => r \in wire /\ Stored(r, Sent)

\* No write of "clear history" is refused.
LEMMA ClearsStay ==
  ASSUME TypeOK, left.clears = 0, [Next]_vars
  PROVE  left'.clears = 0 /\ (WriteFails => Head(writes).by # "clear")
<1>a. RestOK
  BY DEF TypeOK
<1>1. ~Spend("clears")
  BY <1>a DEF Spend, RestOK
<1>2. left' = left \/ Spend("events") \/ Spend("clears")
  <2>1. CASE Creating
    BY <2>1 DEF Creating, Ask, Prepared, NotPrepared, WindowOpens, WindowFails, Event, vars
  <2>2. CASE Messaging
    BY <2>2 DEF Messaging, Message, MessageRefused, Reject, Retip, Retipped, Event, vars
  <2>3. CASE \E w \in Calls : Paying(w)
    BY <2>3 DEF Paying, Claim, Verified, Proved, NotVerified, Recorded, Submit, Submitted, Told, Undone, Event, vars
  <2>4. CASE \E w \in Calls : Granting(w)
    BY <2>4 DEF Granting, Connect, Connected, NotConnected, ClaimSession, StartSession, NotStarted, Event, vars
  <2>5. CASE Ending
    BY <2>5 DEF Ending, SessionEnds, Lock, Alarm, Revoke, Leave, Return, CancelRequest, Expire, History, Event, vars
  <2>6. CASE Keying
    BY <2>6 DEF Keying, KeyBegins, KeyProved, KeyFails, SwitchBegins, SwitchEnds, SwitchMoves, Event, vars
  <2>7. CASE Storing
    BY <2>7 DEF Storing, ClearHistory, Land, WriteFails, Crash, Event, vars
  <2>8. CASE UNCHANGED vars
    BY <2>8 DEF vars, Event, vars
  <2> QED BY <2>1, <2>2, <2>3, <2>4, <2>5, <2>6, <2>7, <2>8, Steps
<1>3. Spend("events") => left'.clears = left.clears
  BY <1>a, SpendTypes
<1>4. WriteFails => Head(writes).by # "clear"
  BY <1>1 DEF WriteFails
<1> QED BY <1>1, <1>2, <1>3, <1>4

\* Only clearing the history and a restart take a payment off the list.
LEMMA ListMoves ==
  ASSUME TypeOK, left.clears = 0, [Next]_vars, NEW r \in list, r \notin list'
  PROVE  Crash \/ (ClearHistory /\ txs[r] \notin Open)
<1>1. Land \/ WriteFails => list' = list
  <2>1. CASE Land
    BY <2>1 DEF Land, Answered
  <2>2. CASE WriteFails
    <3>1. Answered(Head(writes).by, "failed") /\ Head(writes).by # "clear"
      BY <2>2, ClearsStay DEF WriteFails
    <3> QED BY <3>1 DEF Answered
  <2> QED BY <2>1, <2>2
<1>2. list' = list \/ (\E s : list' = list \cup {s}) \/ Land \/ WriteFails \/ ClearHistory \/ Crash
  <2>1. CASE Creating
    BY <2>1 DEF Creating, Ask, Prepared, NotPrepared, WindowOpens, WindowFails, history, vars
  <2>2. CASE Messaging
    BY <2>2 DEF Messaging, Message, MessageRefused, Reject, Retip, Retipped, history, vars
  <2>3. CASE \E w \in Calls : Paying(w)
    BY <2>3 DEF Paying, Claim, Verified, Proved, NotVerified, Recorded, Submit, Submitted, Told, Undone, history, vars
  <2>4. CASE \E w \in Calls : Granting(w)
    BY <2>4 DEF Granting, Connect, Connected, NotConnected, ClaimSession, StartSession, NotStarted, history, vars
  <2>5. CASE Ending
    BY <2>5 DEF Ending, SessionEnds, Lock, Alarm, Revoke, Leave, Return, CancelRequest, Expire, History, history, vars
  <2>6. CASE Keying
    BY <2>6 DEF Keying, KeyBegins, KeyProved, KeyFails, SwitchBegins, SwitchEnds, SwitchMoves, history, vars
  <2>7. CASE Storing
    BY <2>7 DEF Storing, history, vars
  <2>8. CASE UNCHANGED vars
    BY <2>8 DEF vars, history, vars
  <2> QED BY <2>1, <2>2, <2>3, <2>4, <2>5, <2>6, <2>7, <2>8, Steps
<1>3. ClearHistory => txs[r] \notin Open
  BY DEF ClearHistory
<1> QED BY <1>1, <1>2, <1>3

\* Clearing the history waits for every approval.
LEMMA NoneSigning ==
  ASSUME TypeOK, MutexInv, ClearHistory, NEW w \in Calls PROVE calls[w].pc \notin AtWork \cup AtGrant
<1> SUFFICES ASSUME calls[w].pc \in AtWork \cup AtGrant PROVE FALSE
  OBVIOUS
<1>1. calls[w].pc # "idle"
  BY DEF AtWork, AtGrant
<1>2. PICK r \in Requests : r = calls[w].req
  BY <1>1 DEF TypeOK, CallsOK
<1>3. jobs[r].stage = "signing"
  BY <1>2 DEF At, MutexInv, Places
<1> QED BY <1>2, <1>3 DEF ClearHistory, ChangingAllowed

\* A larger set of statuses holds as well.
LEMMA StoredMore ==
  ASSUME NEW r \in Requests, NEW S, NEW T, S \subseteq T, Stored(r, S) PROVE Stored(r, T)
BY DEF Stored

\* What a restart reads of a payment.
LEMMA Restarted ==
  ASSUME TypeOK, Crash, NEW r \in Requests, NEW S
  PROVE  /\ txs'[r] = CASE disk.txs[r] = "none" -> IF txs[r] = "final" THEN "final" ELSE "none"
                        [] disk.txs[r] = "signed" -> "cancelled"
                        [] OTHER -> disk.txs[r]
         /\ r \in list' <=> disk.txs[r] # "none"
         /\ disk.txs[r] \in S => Stored(r, S)'
<1>1. txs'[r] = CASE disk.txs[r] = "none" -> IF txs[r] = "final" THEN "final" ELSE "none"
                  [] disk.txs[r] = "signed" -> "cancelled"
                  [] OTHER -> disk.txs[r]
  BY DEF Crash
<1>2. r \in list' <=> disk.txs[r] # "none"
  BY DEF Crash
<1>3. disk' = disk /\ writes' = <<>>
  BY DEF Crash
<1>4. disk.txs[r] \in S => Stored(r, S)'
  BY <1>3 DEF Stored
<1> QED BY <1>1, <1>2, <1>4

\* What every step makes of a payment that left.
LEMMA KeptStays ==
  ASSUME TypeOK, MutexInv, QueueInv, RecordInv, KeptInv, [Next]_vars, NEW r \in wire
  PROVE  /\ txs'[r] \in Sent /\ (r \notin list' => txs'[r] = "final")
         /\ Stored(r, Sent)' \/ (txs'[r] = "final" /\ Stored(r, Sent \cup {"none"})')
         /\ Stored(r, Sent) /\ r \in list' => Stored(r, Sent)'
<1>a. r \in Requests /\ txs \in [Requests -> Statuses]
  BY DEF TypeOK, GhostsOK, HistoryOK
<1>b. /\ txs[r] \in Sent /\ (r \notin list => txs[r] = "final")
      /\ Stored(r, Sent) \/ (txs[r] = "final" /\ Stored(r, Sent \cup {"none"}))
  BY DEF KeptInv
<1>1. CASE Crash
  <2>1. disk.txs[r] \in Sent \/ (txs[r] = "final" /\ disk.txs[r] = "none")
    BY <1>b DEF Stored
  <2>2. txs'[r] \in Sent /\ (r \notin list' => txs'[r] = "final" /\ disk.txs[r] = "none")
    BY <1>1, <1>a, <2>1, Restarted DEF Sent
  <2>3. /\ disk.txs[r] \in Sent => Stored(r, Sent)'
        /\ disk.txs[r] \in Sent \cup {"none"} => Stored(r, Sent \cup {"none"})'
    BY <1>1, <1>a, Restarted
  <2>4. disk.txs[r] = "none" => txs'[r] = "final"
    BY <1>1, <1>a, <2>1, Restarted DEF Sent
  <2> QED BY <2>1, <2>2, <2>3, <2>4 DEF Stored
<1>2. CASE ~Crash
  <2>1. \/ txs'[r] = txs[r]
        \/ txs'[r] = "final" /\ r \in list'
        \/ txs'[r] \in {"submitted", "uncertain"} /\ r \in list' /\ Stored(r, Sent)
    <3>1. ASSUME NEW w \in Calls, calls[w].req = r PROVE ~Verified(w) /\ ~Recorded(w)
      BY <3>1 DEF RecordInv, Unsent, Verified, Signs, Recorded
    <3>2. ASSUME NEW w \in Calls, calls[w].req = r, Submitted(w)
          PROVE  txs'[r] \in {"submitted", "uncertain"} /\ r \in list' /\ Stored(r, Sent)
      <4>1. calls[w].pc = "submit" /\ list' = list
        BY <3>2 DEF Submitted
      <4> QED BY <1>a, <3>2, <4>1 DEF Submitted, KeptInv
    <3>3. History(r) => txs'[r] = "final" /\ r \in list'
      BY <1>a DEF History
    <3> QED BY <1>a, <1>2, <3>1, <3>2, <3>3, StatusMoves
  <2>2. txs'[r] \in Sent
    BY <1>b, <2>1 DEF Sent
  <2>3. r \notin list' => txs'[r] = "final"
    <3> SUFFICES ASSUME r \notin list' PROVE txs'[r] = "final"
      OBVIOUS
    <3>1. txs'[r] = txs[r]
      BY <2>1
    <3>2. r \in list => txs[r] \notin Open
      BY <1>2, ListMoves DEF KeptInv
    <3> QED BY <1>b, <3>1, <3>2 DEF Sent, Open
  <2>4. Stored(r, Sent) /\ r \in list' => Stored(r, Sent)'
    BY <1>a, <2>2, LinesOf, StoredStays
  <2>5. Stored(r, Sent \cup {"none"})'
    <3>1. Stored(r, Sent \cup {"none"})
      BY <1>a, <1>b, StoredMore
    <3>2. Copied(r, Sent \cup {"none"})
      BY <1>a, <2>2, LinesOf
    <3> QED BY <1>a, <3>1, <3>2, StoredStays
  <2>6. CASE Stored(r, Sent)
    BY <2>2, <2>3, <2>4, <2>5, <2>6
  <2>7. CASE ~Stored(r, Sent)
    BY <1>b, <2>1, <2>2, <2>3, <2>5, <2>7
  <2> QED BY <2>6, <2>7
<1> QED BY <1>1, <1>2


\* Every step keeps the history of what left.
LEMMA KeptStep ==
  ASSUME TypeOK, MutexInv, QueueInv, RecordInv, KeptInv, [Next]_vars
  PROVE  KeptInv'
<1>a. CallsOK /\ txs \in [Requests -> Statuses] /\ \A w \in Calls : calls[w] \in Call
  BY DEF TypeOK, CallsOK, HistoryOK
<1>p. ASSUME NEW w \in Calls, calls[w].pc \in AtWork \cup AtGrant
      PROVE  /\ calls[w].req \in Requests
             /\ \A v \in Calls : calls[v].req = calls[w].req /\ calls[v].pc \in AtWork \cup AtGrant => v = w
  <2>1. calls[w].pc # "idle"
    BY <1>p DEF AtWork, AtGrant
  <2>2. PICK r \in Requests : r = calls[w].req
    BY <1>a, <2>1 DEF CallsOK
  <2> QED BY <1>p, <2>2 DEF At, MutexInv, Places
<1>g. ASSUME NEW w \in Calls, calls'[w].pc \in AtWork PROVE ~Crash /\ ~(ClearHistory /\ ~Approval(w) /\ calls'[w].pc = calls[w].pc)
  <2>1. Crash => calls'[w] = Idle
    BY DEF Crash
  <2> QED BY <1>g, <2>1, NoneSigning DEF Idle, AtWork
<1>h. ASSUME NEW w \in Calls, calls'[w].pc \in AtWork, ~Approval(w), NEW r \in Requests, calls'[w].req = r,
             txs'[r] # txs[r]
      PROVE  History(r)
  <2>1. calls'[w].pc = calls[w].pc /\ calls[w].req = r
    BY <1>h, StepBefore
  <2>2. ASSUME NEW v \in Calls, calls[v].req = r, Verified(v) \/ Recorded(v) \/ Submitted(v) PROVE FALSE
    <3>1. calls[v].pc \in AtWork /\ Approval(v)
      BY <2>2 DEF Verified, Signs, Recorded, Submitted, AtWork, Approval
    <3>2. v = w
      BY <1>h, <1>p, <2>1, <2>2, <3>1
    <3> QED BY <1>h, <3>1, <3>2
  <2> QED BY <1>g, <1>h, <2>2, StatusMoves
<1>0. left'.clears = 0
  BY ClearsStay DEF KeptInv
<1>1. ASSUME NEW r \in Requests, txs'[r] \in Open PROVE r \in list'
  <2>1. CASE Crash
    BY <1>1, <2>1, Restarted DEF Open
  <2>2. CASE ~Crash
    <3>1. CASE txs'[r] = txs[r]
      BY <1>1, <2>2, <3>1, ListMoves DEF KeptInv
    <3>2. ASSUME NEW w \in Calls, calls[w].req = r, Verified(w) \/ Recorded(w) \/ Submitted(w)
          PROVE  r \in list'
      BY <3>2 DEF Verified, Recorded, Submitted, KeptInv
    <3>3. ~History(r)
      BY <1>1, <1>a DEF History, Open
    <3> QED BY <2>2, <3>1, <3>2, <3>3, StatusMoves
  <2> QED BY <2>1, <2>2
<1>2. ASSUME NEW w \in Calls, calls'[w].pc \in {"signed", "uncertain", "submit", "told", "undo"}
      PROVE  calls'[w].req \in list'
  <2>0. calls'[w].pc \in AtWork /\ calls'[w].pc # "idle"
    BY <1>2 DEF AtWork
  <2>1. CASE Approval(w)
    <3>1. /\ calls'[w].req = calls[w].req
          /\ Verified(w) \/ Recorded(w) \/ Submit(w) \/ Submitted(w)
      BY <1>2, <2>0, <2>1, Reaches
    <3> QED BY <3>1 DEF Verified, Recorded, Submit, Submitted, KeptInv, history
  <2>2. CASE ~Approval(w)
    <3>1. calls'[w].pc = calls[w].pc /\ calls'[w].req = calls[w].req
      BY <2>0, <2>2, StepBefore
    <3>2. calls[w].req \in list
      BY <1>2, <3>1 DEF KeptInv
    <3> QED BY <1>g, <2>0, <2>2, <3>1, <3>2, ListMoves DEF KeptInv
  <2> QED BY <2>1, <2>2
<1>3. ASSUME NEW w \in Calls, calls'[w].pc = "signed" PROVE txs'[calls'[w].req] = "signed"
  <2>0. calls'[w].pc \in AtWork /\ calls'[w].pc # "idle"
    BY <1>3 DEF AtWork
  <2>1. CASE Approval(w)
    <3>1. Verified(w) /\ calls'[w].req = calls[w].req
      BY <1>3, <2>0, <2>1, Reaches
    <3>2. calls[w].req \in Requests
      BY <1>a, <3>1 DEF Verified, Signs, CallsOK
    <3> QED BY <1>a, <3>1, <3>2 DEF Verified
  <2>2. CASE ~Approval(w)
    <3>1. calls'[w].pc = calls[w].pc /\ calls'[w].req = calls[w].req
      BY <2>0, <2>2, StepBefore
    <3>2. PICK r \in Requests : r = calls[w].req
      BY <1>p, <2>0, <3>1
    <3>3. txs[r] = "signed"
      BY <1>3, <3>1, <3>2 DEF KeptInv
    <3>4. txs'[r] = txs[r]
      BY <1>h, <2>0, <2>2, <3>1, <3>2, <3>3 DEF History
    <3> QED BY <3>1, <3>2, <3>3, <3>4
  <2> QED BY <2>1, <2>2
<1>4. ASSUME NEW r \in wire'
      PROVE  /\ txs'[r] \in Sent /\ (r \notin list' => txs'[r] = "final")
             /\ Stored(r, Sent)' \/ (txs'[r] = "final" /\ Stored(r, Sent \cup {"none"})')
             /\ r \notin wire => Stored(r, Sent)'
  <2>1. CASE r \in wire
    BY <2>1, KeptStays
  <2>2. CASE r \notin wire
    <3>1. PICK w \in Calls : Submit(w) /\ Submits(w) /\ r = calls[w].req
      BY <1>4, <2>2, OnlySends
    <3>2. calls[w].pc = "uncertain" /\ calls[w].io = "ok" /\ UNCHANGED <<txs, list, store>>
      BY <3>1 DEF Submits, Submit, history
    <3>3. r \in Requests
      BY <1>p, <3>1, <3>2 DEF AtWork
    <3>4. txs[r] = "uncertain" /\ r \in list /\ Stored(r, Sent)
      BY <3>1, <3>2, <3>3 DEF RecordInv, KeptInv, Safe
    <3>5. Stored(r, Sent)'
      BY <3>2, <3>4 DEF Stored, store
    <3> QED BY <3>2, <3>4, <3>5 DEF Sent
  <2> QED BY <2>1, <2>2
<1>5. ASSUME NEW w \in Calls, NEW r \in Requests, calls'[w].pc = "uncertain", calls'[w].req = r
      PROVE  Safe(w, r, Sent)'
  <2>0. calls'[w].pc \in AtWork /\ calls'[w].pc # "idle"
    BY <1>5 DEF AtWork
  <2>1. r \in list'
    BY <1>2, <1>5
  <2>2. txs'[r] = "uncertain"
    BY <1>5, RecordStep DEF RecordInv
  <2>3. Copied(r, Sent)
    BY <2>1, <2>2, LinesOf DEF Sent
  <2>4. CASE Approval(w)
    <3>1. Recorded(w)
      BY <1>5, <2>0, <2>4, Reaches
    <3>2. Save(w) /\ calls[w].io # "none" /\ calls'[w].io = "none"
      <4>1. \A pc : Go(w, pc) => calls'[w] = [calls[w] EXCEPT !.pc = pc, !.io = "none"]
        BY <1>a, GoEffect
      <4>2. \A pc : Go(w, pc) => calls'[w].io = "none"
        BY <1>a, <4>1 DEF Call
      <4> QED BY <3>1, <4>2 DEF Recorded
    <3>3. Appends(w)
      <4>1. w \in Savers /\ w \notin {"key", "switch"}
        BY ControllerConstants DEF Savers
      <4> QED BY <1>5, <3>2, <4>1 DEF Appends, Due, SavePcs
    <3> QED BY <2>3, <3>2, <3>3, SafeStarts
  <2>5. CASE ~Approval(w)
    <3>1. calls[w].pc = "uncertain" /\ calls[w].req = r /\ (calls'[w] = calls[w] \/ Hears(w))
      BY <1>5, <2>0, <2>5, StepBefore
    <3>2. Safe(w, r, Sent)
      BY <3>1 DEF KeptInv
    <3> QED BY <2>3, <3>1, <3>2, SafeStays
  <2> QED BY <2>4, <2>5
<1>6. ASSUME NEW w \in Calls, NEW r \in Requests, calls'[w].pc = "submit", calls'[w].req = r
      PROVE  r \in wire' /\ Stored(r, Sent)'
  <2>0. calls'[w].pc \in AtWork /\ calls'[w].pc # "idle"
    BY <1>6 DEF AtWork
  <2>1. CASE Approval(w)
    <3>1. Submit(w) /\ Submits(w) /\ calls[w].req = r
      BY <1>6, <2>0, <2>1, Reaches
    <3>2. r \in wire'
      BY <3>1 DEF Submit
    <3>3. r \notin wire
      BY <3>1 DEF Submit, RecordInv, Unsent
    <3> QED BY <1>4, <3>2, <3>3
  <2>2. CASE ~Approval(w)
    <3>1. calls[w].pc = "submit" /\ calls[w].req = r
      BY <1>6, <2>0, <2>2, StepBefore
    <3>2. r \in wire /\ Stored(r, Sent)
      BY <3>1 DEF KeptInv
    <3>3. r \in list'
      BY <1>2, <1>6
    <3>4. wire \subseteq wire'
      BY OnlySends
    <3> QED BY <3>2, <3>3, <3>4, KeptStays
  <2> QED BY <2>1, <2>2
<1> QED BY <1>0, <1>1, <1>2, <1>3, <1>4, <1>5, <1>6 DEF KeptInv

\* A payment whose bytes left stays in the history, in memory and in storage, until it is final and
\* the person clears it.  The assumption is that no write of "clear history" is refused.
THEOREM KeptTheorem ==
  ASSUME MaxClearFailures = 0
  PROVE  Spec => []SentIsKept
<1> DEFINE Inv == TypeOK /\ MutexInv /\ QueueInv /\ RecordInv /\ KeptInv
<1>1. Init => Inv
  <2>1. Init => RecordInv
    BY DEF Init, RecordInv, Idle, Unsent
  <2>2. Init => KeptInv
    BY DEF Init, KeptInv, Idle, Open
  <2> QED BY <2>1, <2>2, InitTypes, MutexInductive, QueueInductive
<1>2. Inv /\ [Next]_vars => Inv'
  BY StepTypes, MutexInductive, QueueInductive, RecordStep, KeptStep
<1>3. Inv => SentIsKept
  BY DEF KeptInv, SentIsKept, Stored, Sent
<1> QED BY <1>1, <1>2, <1>3, PTL DEF Spec


-----------------------------------------------------------------------------
(* One unresolved payment for each account *)

\* Requests r and s are not both unresolved, in memory, in storage or in a snapshot.
Apart(r, s) ==
  /\ txs[r] \notin Open \/ txs[s] \notin Open
  /\ disk.txs[r] \notin Open \/ disk.txs[s] \notin Open
  /\ \A i \in DOMAIN writes : writes[i].img.txs[r] \notin Open \/ writes[i].img.txs[s] \notin Open

\* A request nobody approved yet is in no history.
Fresh(r) == txs[r] = "none" /\ Stored(r, {"none"})

\* The payment whose turn it is: its account is settled but for itself.
Chosen(r) ==
  /\ jobs[r].kind = "transaction"
  /\ jobs[r].stage = "review" \/ \E w \in Calls : calls[w].req = r /\ calls[w].pc \in {"verify", "submit"}

OpenInv ==
  /\ \A r \in Requests : jobs[r].stage \notin {"signing", "done"} => Fresh(r)
  /\ \A r, s \in Requests : r # s /\ jobs[r].ctx = jobs[s].ctx => Apart(r, s)
  /\ \A r, s \in Requests : Chosen(r) /\ r # s /\ txs[s] \in Open => jobs[s].ctx # jobs[r].ctx

\* A payment enters the history by its own approval.
LEMMA FreshStays ==
  ASSUME TypeOK, MutexInv, QueueInv, OpenInv, [Next]_vars, NEW r \in Requests,
         jobs[r].stage \notin {"signing", "done"}
  PROVE  Fresh(r)'
<1>1. Fresh(r) /\ txs \in [Requests -> Statuses]
  BY DEF OpenInv, TypeOK, HistoryOK
<1>2. CASE Crash
  <2>1. disk.txs[r] \in {"none"}
    BY <1>1 DEF Fresh, Stored
  <2> QED BY <1>1, <1>2, <2>1, Restarted DEF Fresh
<1>3. CASE ~Crash
  <2>1. ASSUME NEW w \in Calls, calls[w].req = r, Verified(w) \/ Recorded(w) \/ Submitted(w) PROVE FALSE
    <3>1. At(w, r)
      BY <2>1 DEF Verified, Signs, Recorded, Submitted, At, AtWork
    <3> QED BY <3>1 DEF MutexInv, Places
  <2>2. ~History(r)
    BY <1>1 DEF History, Fresh
  <2>3. txs'[r] = "none"
    BY <1>1, <1>3, <2>1, <2>2, StatusMoves DEF Fresh
  <2>4. Copied(r, {"none"})
    BY <2>3, LinesOf
  <2> QED BY <1>1, <2>3, <2>4, StoredStays DEF Fresh
<1> QED BY <1>2, <1>3

\* A payment becomes unresolved by an approval that holds the mutex, in a settled account.
LEMMA OpensNow ==
  ASSUME TypeOK, MutexInv, KeptInv, OpenInv, [Next]_vars, ~Crash, NEW r \in Requests,
         txs'[r] \in Open, txs[r] \notin Open
  PROVE  /\ Working(r)
         /\ \A s \in Requests : s # r /\ txs[s] \in Open => jobs[s].ctx # jobs[r].ctx
<1>a. txs \in [Requests -> Statuses]
  BY DEF TypeOK, HistoryOK
<1>1. ~History(r)
  BY <1>a DEF History, Open
<1>2. PICK w \in Calls : calls[w].req = r /\ (Verified(w) \/ Recorded(w) \/ Submitted(w))
  BY <1>1, StatusMoves
<1>3. ~Recorded(w)
  BY <1>2 DEF Recorded, KeptInv, Open
<1>4. At(w, r) /\ calls[w].pc \in {"verify", "submit"}
  BY <1>2, <1>3 DEF Verified, Signs, Submitted, At, AtWork
<1>5. jobs[r].kind = "transaction"
  <2>1. Verified(w) => jobs[r].kind = "transaction"
    BY <1>2 DEF Verified
  <2>2. Submitted(w) => calls[w].pc = "submit"
    BY DEF Submitted
  <2>3. jobs[r].kind \in KindsAt(calls[w].pc)
    BY <1>4 DEF MutexInv, Places
  <2> QED BY <1>2, <1>3, <2>1, <2>2, <2>3 DEF KindsAt, AtGrant
<1>6. Chosen(r) /\ Working(r)
  BY <1>2, <1>4, <1>5 DEF Chosen, Working, AtWork
<1> QED BY <1>6 DEF OpenInv

\* Two payments of one account are not both unresolved after a step.
LEMMA ApartStays ==
  ASSUME TypeOK, MutexInv, QueueInv, KeptInv, OpenInv, [Next]_vars,
         NEW r \in Requests, NEW s \in Requests, r # s, jobs[r].ctx = jobs[s].ctx
  PROVE  Apart(r, s)'
<1>1. Apart(r, s)
  BY DEF OpenInv
<1>2. txs'[r] \notin Open \/ txs'[s] \notin Open
  <2>1. CASE Crash
    <3>1. /\ txs'[r] \in Open => disk.txs[r] \in Open
          /\ txs'[s] \in Open => disk.txs[s] \in Open
      BY <2>1, Restarted DEF Open
    <3> QED BY <1>1, <3>1 DEF Apart
  <2>2. CASE ~Crash
    <3>1. CASE txs[r] \in Open
      <4>1. txs[s] \notin Open
        BY <1>1, <3>1 DEF Apart
      <4> QED BY <2>2, <3>1, <4>1, OpensNow
    <3>2. CASE txs[s] \in Open
      <4>1. txs[r] \notin Open
        BY <1>1, <3>2 DEF Apart
      <4> QED BY <2>2, <3>2, <4>1, OpensNow
    <3>3. CASE txs[r] \notin Open /\ txs[s] \notin Open
      BY <2>2, <3>3, OpensNow DEF MutexInv, MutexOwned
    <3> QED BY <3>1, <3>2, <3>3
  <2> QED BY <2>1, <2>2
<1>3. Lines(txs', list')[r] \notin Open \/ Lines(txs', list')[s] \notin Open
  BY <1>2 DEF Lines, Open
<1>4. /\ disk'.txs[r] \notin Open \/ disk'.txs[s] \notin Open
      /\ \A i \in DOMAIN writes' : writes'[i].img.txs[r] \notin Open \/ writes'[i].img.txs[s] \notin Open
  <2>0. /\ disk.txs[r] \notin Open \/ disk.txs[s] \notin Open
        /\ \A i \in DOMAIN writes : writes[i].img.txs[r] \notin Open \/ writes[i].img.txs[s] \notin Open
    BY <1>1 DEF Apart
  <2>1. CASE writes' = writes /\ disk' = disk
    BY <2>0, <2>1
  <2>2. ASSUME NEW by, Appends(by), disk' = disk
        PROVE  /\ disk'.txs[r] \notin Open \/ disk'.txs[s] \notin Open
               /\ \A i \in DOMAIN writes' : writes'[i].img.txs[r] \notin Open \/ writes'[i].img.txs[s] \notin Open
    BY <1>3, <2>0, <2>2, AppendsEffect
  <2>3. CASE writes # <<>> /\ writes' = Tail(writes) /\ (disk' = disk \/ disk' = Head(writes).img)
    BY <2>0, <2>3, TailEffect
  <2>4. CASE disk' = disk /\ writes' = <<>>
    BY <2>0, <2>4
  <2> QED BY <2>1, <2>2, <2>3, <2>4, StoreMoves
<1> QED BY <1>2, <1>4 DEF Apart

\* Every step keeps one unresolved payment for each account.
LEMMA OpenStep ==
  ASSUME TypeOK, MutexInv, QueueInv, RecordInv, KeptInv, OpenInv, [Next]_vars
  PROVE  OpenInv'
<1>a. \A r \in Requests : jobs[r] \in Job /\ Forward(r)
  BY JobsForward DEF TypeOK, TableOK
<1>b. ASSUME NEW r \in Requests, jobs[r].stage \in {"signing", "done"}
      PROVE  jobs'[r].ctx = jobs[r].ctx /\ jobs'[r].stage \in {"signing", "done"}
  BY <1>a, <1>b DEF Forward
<1>1. ASSUME NEW r \in Requests, jobs'[r].stage \notin {"signing", "done"} PROVE Fresh(r)'
  BY <1>1, <1>b, FreshStays
<1>2. ASSUME NEW r \in Requests, NEW s \in Requests, r # s, jobs'[r].ctx = jobs'[s].ctx
      PROVE  Apart(r, s)'
  <2>1. ASSUME NEW q \in {r, s}, jobs[q].stage \notin {"signing", "done"} PROVE Apart(r, s)'
    <3>1. Fresh(q)'
      BY <2>1, FreshStays
    <3>2. /\ txs'[q] \notin Open /\ disk'.txs[q] \notin Open
          /\ \A i \in DOMAIN writes' : writes'[i].img.txs[q] \notin Open
      BY <3>1 DEF Fresh, Stored, Open
    <3> QED BY <2>1, <3>2 DEF Apart
  <2>2. CASE \A q \in {r, s} : jobs[q].stage \in {"signing", "done"}
    <3>1. jobs[r].ctx = jobs[s].ctx
      BY <1>2, <1>b, <2>2
    <3> QED BY <1>2, <3>1, ApartStays
  <2> QED BY <2>1, <2>2
<1>3. ASSUME NEW r \in Requests, NEW s \in Requests, Chosen(r)', r # s, txs'[s] \in Open
      PROVE  jobs'[s].ctx # jobs'[r].ctx
  <2>1. ~Crash
    <3> SUFFICES ASSUME Crash PROVE FALSE
      OBVIOUS
    <3>1. \A w \in Calls : calls'[w] = Idle
      BY DEF Crash
    <3>2. jobs'[r] = IF r \in Asked THEN [jobs[r] EXCEPT !.stage = "done", !.window = "failed"] ELSE jobs[r]
      BY DEF Crash
    <3>3. jobs'[r].stage # "review"
      BY <1>a, <3>2 DEF Asked, Job
    <3> QED BY <1>3, <3>1, <3>3 DEF Chosen, Idle
  <2>2. jobs[s].stage \in {"signing", "done"} /\ jobs'[s].ctx = jobs[s].ctx
    <3>1. ~Fresh(s)'
      BY <1>3 DEF Fresh, Open
    <3> QED BY <1>b, <3>1, FreshStays
  <2>3. \/ Prepared(r) \/ Chosen(r) \/ \E w \in Calls : Submit(w) /\ Submits(w) /\ calls[w].req = r
    <3>1. CASE jobs'[r].stage = "review" /\ ~Prepared(r)
      <4>1. jobs[r].stage = "review"
        BY <3>1, ReviewBegins
      <4> QED BY <1>a, <1>3, <4>1 DEF Chosen, Forward
    <3>2. ASSUME NEW w \in Calls, calls'[w].req = r, calls'[w].pc \in {"verify", "submit"},
                 ~(Submit(w) /\ Submits(w))
          PROVE  Chosen(r)
      <4>0. calls'[w].pc # "idle" /\ calls'[w].pc \in AtWork \cup AtGrant
        BY <3>2 DEF AtWork
      <4>1. CASE Approval(w)
        <5>1. calls'[w].pc = "verify" /\ calls[w].req = r
          BY <3>2, <4>0, <4>1, Reaches
        <5>2. jobs[r].stage = "review"
          BY <4>1, <5>1, ClaimsAsShown
        <5> QED BY <1>a, <1>3, <5>2 DEF Chosen, Forward
      <4>2. CASE ~Approval(w)
        <5>1. calls[w].pc = calls'[w].pc /\ calls[w].req = r
          BY <3>2, <4>0, <4>2, StepBefore
        <5>2. jobs[r].stage = "signing"
          BY <4>0, <5>1 DEF At, MutexInv, Places
        <5> QED BY <1>a, <1>3, <3>2, <5>1, <5>2 DEF Chosen, Forward
      <4> QED BY <4>1, <4>2
    <3>3. CASE \E w \in Calls : calls'[w].req = r /\ calls'[w].pc \in {"verify", "submit"}
      <4>1. PICK w \in Calls : calls'[w].req = r /\ calls'[w].pc \in {"verify", "submit"}
        BY <3>3
      <4>2. CASE Submit(w) /\ Submits(w)
        <5>1. calls[w].req = r
          <6>1. Approval(w) /\ calls'[w].pc # "idle"
            BY <4>1, <4>2 DEF Approval
          <6> QED BY <4>1, <6>1, Reaches
        <5> QED BY <4>2, <5>1
      <4>3. CASE ~(Submit(w) /\ Submits(w))
        BY <3>2, <4>1, <4>3
      <4> QED BY <4>2, <4>3
    <3> QED BY <1>3, <3>1, <3>3 DEF Chosen
  <2>4. CASE Chosen(r)
    <3>1. jobs'[r].ctx = jobs[r].ctx
      <4>1. jobs[r].stage # "none"
        <5>1. ASSUME NEW w \in Calls, calls[w].req = r, calls[w].pc \in {"verify", "submit"}
              PROVE  jobs[r].stage = "signing"
          BY <5>1 DEF At, AtWork, MutexInv, Places
        <5> QED BY <2>4, <5>1 DEF Chosen
      <4> QED BY <1>a, <4>1 DEF Forward
    <3>2. CASE txs[s] \in Open
      BY <1>3, <2>2, <2>4, <3>1, <3>2 DEF OpenInv
    <3>3. CASE txs[s] \notin Open
      <4>1. Working(s)
        BY <1>3, <2>1, <3>3, OpensNow
      <4>2. Working(r)
        BY <2>4 DEF Chosen, Working, AtWork
      <4> QED BY <1>3, <4>1, <4>2 DEF MutexInv, MutexOwned
    <3> QED BY <3>2, <3>3
  <2>5. CASE Prepared(r)
    <3>1. txs' = txs /\ jobs[r].stage = "prep" /\ jobs'[r].kind = "transaction"
      BY <1>3, <2>5 DEF Prepared, Chosen, history
    <3>2. jobs'[r].ctx = jobs[r].ctx /\ jobs[r].kind = "transaction"
      BY <1>a, <3>1 DEF Forward
    <3>3. SettledAccount(jobs[r].ctx) /\ s \in list
      BY <1>3, <2>5, <3>1, <3>2 DEF Prepared, KeptInv
    <3> QED BY <1>3, <2>2, <3>1, <3>2, <3>3 DEF SettledAccount
  <2>6. ASSUME NEW w \in Calls, Submit(w), Submits(w), calls[w].req = r
        PROVE  jobs'[s].ctx # jobs'[r].ctx
    <3>1. txs' = txs /\ jobs' = jobs /\ calls[w].pc = "uncertain"
      BY <2>6 DEF Submit, table, history
    <3>2. txs[r] = "uncertain"
      BY <2>6, <3>1 DEF RecordInv
    <3> QED BY <1>3, <3>1, <3>2 DEF OpenInv, Apart, Open
  <2> QED BY <2>3, <2>4, <2>5, <2>6
<1> QED BY <1>1, <1>2, <1>3 DEF OpenInv

\* Over approvals, crashes, failed writes and cleared history, an account never has two payments
\* unresolved.  The assumption is that no write of "clear history" is refused.
THEOREM OpenTheorem ==
  ASSUME MaxClearFailures = 0
  PROVE  Spec => []OneOpenPayment
<1> DEFINE Inv == TypeOK /\ MutexInv /\ QueueInv /\ RecordInv /\ KeptInv /\ OpenInv
<1>1. Init => Inv
  <2>1. Init => RecordInv
    BY DEF Init, RecordInv, Idle, Unsent
  <2>2. Init => KeptInv
    BY DEF Init, KeptInv, Idle, Open
  <2>3. Init => OpenInv
    BY DEF Init, OpenInv, Fresh, Stored, Apart, Chosen, Open
  <2> QED BY <2>1, <2>2, <2>3, InitTypes, MutexInductive, QueueInductive
<1>2. Inv /\ [Next]_vars => Inv'
  BY StepTypes, MutexInductive, QueueInductive, RecordStep, KeptStep, OpenStep
<1>3. Inv => OneOpenPayment
  BY DEF OpenInv, OneOpenPayment, Apart
<1> QED BY <1>1, <1>2, <1>3, PTL DEF Spec

=============================================================================
