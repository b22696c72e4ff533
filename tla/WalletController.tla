-------------------------- MODULE WalletController --------------------------
(* The wallet's worker, src/apps/extension/src/background.ts: requests of pages and of the wallet's
   own windows become jobs, a person reviews each in a window and approves, changes or rejects it,
   and an approval runs through verification, signature, two saves and a broadcast.  Every `await`
   of the code is a step boundary here; between two of them the wallet may lock, change account or
   network, lose the page, or reload.

   A transaction's content is its `quote`: the number of the review it comes from.  `Requests` names
   the requests of a run, each asked once; `Calls` the interface messages handled at one time. *)
EXTENDS Naturals, Sequences, FiniteSets

CONSTANTS
  Requests,        \* requests of pages and of the wallet itself
  Pages,           \* documents that may connect; a reload of one is a new connection
  NoPage,          \* the wallet's own interface, as the asker of a request
  Calls,           \* messages of confirmation windows handled at one time
  Accounts, Networks,
  NoNetwork,       \* an account's grant to a site that has none
  First,           \* the account and network selected at the start
  Kinds,           \* kinds of requests: among "connect", "transaction", "proof", "session"
  Events,          \* what may happen around a request: among "lock", "select", "switch", "revoke",
                   \* "leave", "cancel", "expire", "retip", "clear", "crash" and "write", a refused write
  NoRequest,
  MaxEvents,       \* how many of `Events` happen
  MaxClearFailures \* writes of "clear history" the storage refuses

Contexts == [account : Accounts, network : Networks]

ASSUME ControllerConstants ==
  /\ First \in Contexts /\ NoPage \notin Pages /\ NoRequest \notin Requests
  /\ NoNetwork \notin Networks
  /\ Kinds \subseteq {"connect", "transaction", "proof", "session"}
  /\ {MaxEvents, MaxClearFailures} \subseteq Nat
  /\ Calls \cap {"clear", "key", "switch", "other"} = {}

VARIABLES
  session,    \* SecretSession: is the secret held, and the epoch
  ctx,        \* the selected account on the active network
  grants,     \* for each site, the network each account is connected to it on
  pending,    \* pendingGrants: sites whose grant is being saved
  pages,      \* Connection: is the document alive, and its revision
  jobs,       \* the jobs, from their creation on
  busy,       \* walletBusy
  key,        \* the operation that holds keyBusy
  switching,  \* where the network switch stands
  calls,      \* where each message stands
  mint,       \* the request whose mint session runs
  txs,        \* the transaction of each request: its status
  list,       \* state.transactions
  clear,      \* "clear history" awaiting its save: the list it started from
  disk,       \* what browser.storage.local holds
  writes,     \* the save queue: snapshots in call order
  answer,     \* what the asker was last told
  signed,     \* (history) <<request, quote signed, quote on the screen>>
  wire,       \* (history) transactions whose bytes left
  over,       \* (history) requests something ended: a lock, a switch, a closed page, a refusal...
  left        \* what remains of each bound

vars == <<session, ctx, grants, pending, pages, jobs, busy, key, switching, calls, mint, txs, list,
          clear, disk, writes, answer, signed, wire, over, left>>

person == <<session, ctx, grants, pending, pages, key, switching>>
table == <<jobs, busy, answer>>
history == <<txs, list, clear>>
store == <<disk, writes>>
ghosts == <<signed, wire, over>>

Open == {"signed", "uncertain", "submitted"}

\* `stage` is "prep" until the job is in the table, then its phase, then "done".  `window` is the
\* promise windowReady, which createJob still awaits after the job was finished.
Blank == [stage |-> "none", kind |-> "none", page |-> NoPage, ctx |-> First, epoch |-> 0,
          rev |-> 0, cancelled |-> FALSE, expired |-> FALSE, quote |-> 0, turn |-> 0,
          window |-> "none"]
Idle == [pc |-> "idle", req |-> NoRequest, shown |-> 0, quote |-> 0, io |-> "none"]
\* `late` is history: the wallet was locked since the operation began.
NoKey == [op |-> "none", saving |-> FALSE, epoch |-> 0, ctx |-> First, late |-> FALSE]
NoClear == [on |-> FALSE, previous |-> {}]

Init ==
  /\ session \in [held : BOOLEAN, epoch : {0}] /\ ctx = First
  /\ grants \in [Pages -> {[a \in Accounts |-> NoNetwork],
                            [a \in Accounts |-> IF a = First.account THEN First.network ELSE NoNetwork]}]
  /\ pending = {} /\ pages = [p \in Pages |-> [alive |-> TRUE, rev |-> 0]]
  /\ jobs = [r \in Requests |-> Blank] /\ busy = FALSE
  /\ key = NoKey /\ switching = "no" /\ calls = [w \in Calls |-> Idle]
  /\ mint = NoRequest /\ txs = [r \in Requests |-> "none"] /\ list = {} /\ clear = NoClear
  /\ disk = [txs |-> txs, grants |-> grants, ctx |-> ctx] /\ writes = <<>>
  /\ answer = [r \in Requests |-> "none"]
  /\ signed = {} /\ wire = {} /\ over = {}
  /\ left = [events |-> MaxEvents, clears |-> MaxClearFailures]
-----------------------------------------------------------------------------
(* Checks. *)

InTable(r) == jobs[r].stage \in {"review", "signing"}

\* permitted(): the document lives, no grant of it is being saved, and it has one for this context.
Permitted(p) == pages[p].alive /\ p \notin pending /\ grants[p][ctx.account] = ctx.network

\* current(): what the code checks of a job after every await.
Current(r) ==
  LET j == jobs[r] IN
    /\ ~j.cancelled /\ session.epoch = j.epoch /\ ~j.expired /\ ctx = j.ctx
    /\ j.page \in Pages =>
         /\ pages[j.page].alive /\ pages[j.page].rev = j.rev
         /\ j.kind = "connect" \/ Permitted(j.page)

\* stillUnlocked().
Unlocked(r) == session.held /\ session.epoch = jobs[r].epoch

\* requireSettledAccount(): nothing this account signed here is unresolved.
SettledAccount_Skipped(c) == TRUE
SettledAccount(c) == \A r \in list : txs[r] \in Open => jobs[r].ctx # c

\* changingAccountAllowed().
ChangingAllowed == key.op = "none" /\ \A r \in Requests : jobs[r].stage # "signing"

Spend(what) == left[what] > 0 /\ left' = [left EXCEPT ![what] = @ - 1]
Event(kind) == kind \in Events /\ Spend("events")
Asked == {r \in Requests : jobs[r].stage # "none"}
AskedBy(p) == {r \in Asked : jobs[r].page = p}
-----------------------------------------------------------------------------
(* finish(), cancel(), invalidate() and save(). *)

\* finish(), but for the mutex: replies and drops the job.
Reply(r, value) ==
  IF InTable(r)
  THEN jobs' = [jobs EXCEPT ![r].stage = "done"] /\ answer' = [answer EXCEPT ![r] = value]
  ELSE UNCHANGED <<jobs, answer>>

\* invalidate(): cancels each job; one under review is refused at once and releases the mutex, one
\* being signed is only marked.
Invalidate(which) ==
  LET hit == {r \in which : InTable(r)}
      refused == {r \in hit : jobs[r].stage = "review"}
  IN /\ jobs' = [r \in Requests |->
                   IF r \notin hit THEN jobs[r]
                   ELSE [jobs[r] EXCEPT !.cancelled = TRUE,
                                        !.stage = IF r \in refused THEN "done" ELSE @]]
     /\ answer' = [r \in Requests |-> IF r \in refused THEN "refused" ELSE answer[r]]
     /\ busy' = (busy /\ \A r \in refused : jobs[r].kind = "connect")

Lines(t, l) == [r \in Requests |-> IF r \in l THEN t[r] ELSE "none"]
Save(by) == writes' = Append(writes,
  [img |-> [txs |-> Lines(txs', list'), grants |-> grants', ctx |-> ctx'], by |-> by])

Go(w, pc) == calls' = [calls EXCEPT ![w].pc = pc, ![w].io = "none"]
Rest(w) == calls' = [calls EXCEPT ![w] = Idle]
-----------------------------------------------------------------------------
(* createJob(). *)

\* A site with a grant, or the wallet itself, asks; a site without one may only ask to connect.
Ask(r, kind, p) ==
  /\ jobs[r].stage = "none"
  /\ p \in Pages => pages[p].alive
  /\ IF kind = "connect"
     THEN p \in Pages /\ ~(Permitted(p) /\ session.held) /\ UNCHANGED busy
     ELSE /\ ~busy /\ busy' = TRUE
          /\ IF p \in Pages THEN Permitted(p) ELSE kind = "transaction" /\ switching = "no"
  /\ jobs' = [jobs EXCEPT ![r] = [Blank EXCEPT !.stage = "prep", !.kind = kind, !.page = p,
                !.ctx = ctx, !.epoch = session.epoch, !.rev = IF p \in Pages THEN pages[p].rev ELSE 0]]
  /\ UNCHANGED <<person, answer, calls, mint, history, store, ghosts, left>>

\* The reads that prepare the review are back: the job enters the table, its window opens.
Prepared(r) ==
  /\ jobs[r].stage = "prep" /\ Current(r)
  /\ jobs[r].kind \in {"transaction", "session"} => SettledAccount(jobs[r].ctx)
  /\ jobs' = [jobs EXCEPT ![r].stage = "review", ![r].window = "opening"]
  /\ UNCHANGED <<person, busy, answer, calls, mint, history, store, ghosts, left>>

\* A read fails, or the context moved: nothing was inserted, so the mutex is this job's.
NotPrepared(r) ==
  /\ jobs[r].stage = "prep"
  /\ jobs' = [jobs EXCEPT ![r].stage = "done"]
  /\ answer' = [answer EXCEPT ![r] = "refused"]
  /\ busy' = (busy /\ jobs[r].kind = "connect")
  /\ UNCHANGED <<person, calls, mint, history, store, ghosts, left>>

WindowOpens(r) ==
  /\ jobs[r].window = "opening"
  /\ jobs' = [jobs EXCEPT ![r].window = "open"]
  /\ UNCHANGED <<person, busy, answer, calls, mint, history, store, ghosts, left>>

\* The window cannot be opened.  A job finished meanwhile released the mutex, which may by now be
\* another operation's.
Owned_Always(r) == TRUE
Owned(r) == InTable(r)
WindowFails(r) ==
  /\ jobs[r].window = "opening"
  /\ jobs' = [jobs EXCEPT ![r].window = "failed", ![r].stage = "done"]
  /\ answer' = [answer EXCEPT ![r] = "refused"]
  /\ busy' = (busy /\ (jobs[r].kind = "connect" \/ ~Owned(r)))
  /\ UNCHANGED <<person, calls, mint, history, store, ghosts, left>>
-----------------------------------------------------------------------------
(* handleUI() of a confirmation window: reviewSender() awaits the window, then approve(), retip() or
   reject. *)

\* A message arrives; the window shows the quote `shown`, which may not be the latest.
Message(w, r, what, shown) ==
  /\ calls[w] = Idle /\ jobs[r].stage = "review" /\ ~jobs[r].expired /\ switching = "no"
  /\ jobs[r].window # "failed" /\ shown <= jobs[r].quote
  /\ IF what = "retip" THEN jobs[r].kind \in {"transaction", "session"} /\ Event("retip")
     ELSE UNCHANGED left
  /\ calls' = [calls EXCEPT ![w] = [Idle EXCEPT !.pc = what, !.req = r, !.shown = shown]]
  /\ UNCHANGED <<person, table, mint, history, store, ghosts>>

\* reviewSender() after its await: the same request, under review, in its context.
Reviewed(w, what) ==
  LET r == calls[w].req IN
    /\ calls[w].pc = what /\ jobs[r].window # "opening"
    /\ jobs[r].window = "open" /\ jobs[r].stage = "review" /\ ~jobs[r].expired /\ Current(r)

\* It is not: the message fails and nothing changes.  A connection also needs the wallet unlocked.
MessageRefused(w) ==
  /\ \/ /\ calls[w].pc \in {"approve", "retip", "reject"}
        /\ jobs[calls[w].req].window # "opening" /\ ~Reviewed(w, calls[w].pc)
     \/ Reviewed(w, "approve") /\ jobs[calls[w].req].kind = "connect" /\ ~Unlocked(calls[w].req)
  /\ Rest(w)
  /\ UNCHANGED <<person, table, mint, history, store, ghosts, left>>

Reject(w) ==
  /\ Reviewed(w, "reject")
  /\ Invalidate({calls[w].req}) /\ over' = over \cup {calls[w].req} /\ Rest(w)
  /\ UNCHANGED <<person, mint, history, store, signed, wire, left>>

\* retip(): the operation is prepared again; meanwhile an approval or a newer choice may start.
Retip(w) ==
  LET r == calls[w].req IN
    /\ Reviewed(w, "retip")
    /\ jobs' = [jobs EXCEPT ![r].turn = @ + 1]
    /\ calls' = [calls EXCEPT ![w].pc = "retipping", ![w].quote = jobs[r].turn + 1]
    /\ UNCHANGED <<person, busy, answer, mint, history, store, ghosts, left>>

\* A newer choice, or an approval that started meanwhile, wins over this one.
RetipWins(w) == LET j == jobs[calls[w].req] IN j.stage = "review" /\ j.turn = calls[w].quote
Retipped(w) ==
  LET r == calls[w].req IN
    /\ calls[w].pc = "retipping" /\ Rest(w)
    /\ \/ Current(r) /\ RetipWins(w) /\ jobs' = [jobs EXCEPT ![r].quote = calls[w].quote]
       \/ UNCHANGED jobs
    /\ UNCHANGED <<person, busy, answer, mint, history, store, ghosts, left>>

\* approve(), claiming a payment, a sign-in or a vault authorization: only the first of two
\* approvals does; consume() would refuse a second one too, and so finish the first one's request.
DigestIs_Any(w) == TRUE
DigestIs(w) == jobs[calls[w].req].quote = calls[w].shown
FirstClaim_Any(w) ==
  calls[w].pc = "approve" /\ jobs[calls[w].req].window = "open" /\ Current(calls[w].req)
FirstClaim(w) == Reviewed(w, "approve")
Claim(w) ==
  LET r == calls[w].req IN
    /\ FirstClaim(w) /\ jobs[r].kind \in {"transaction", "proof"}
    /\ IF DigestIs(w) /\ Unlocked(r) /\ jobs[r].stage = "review"
       THEN /\ jobs' = [jobs EXCEPT ![r].stage = "signing"] /\ UNCHANGED <<busy, answer>>
            /\ calls' = [calls EXCEPT ![w].pc = "verify", ![w].quote = jobs[r].quote]
       ELSE Reply(r, "refused") /\ busy' = FALSE /\ Rest(w)
    /\ UNCHANGED <<person, mint, history, store, ghosts, left>>

\* The last of recheck(), wasm(), authorizePurchase() and walletClear() answers: from here to the
\* signature nothing awaits.
Signs(w) ==
  LET r == calls[w].req IN
    /\ calls[w].pc = "verify" /\ Current(r) /\ Unlocked(r)
    /\ signed' = signed \cup {<<r, calls[w].quote, calls[w].shown>>}
Verified(w) ==
  LET r == calls[w].req IN
    /\ Signs(w) /\ jobs[r].kind = "transaction"
    /\ txs' = [txs EXCEPT ![r] = "signed"] /\ list' = list \cup {r}
    /\ UNCHANGED <<person, clear>> /\ Save(w) /\ Go(w, "signed")
    /\ UNCHANGED <<table, mint, disk, wire, over, left>>

\* approveSignIn() and approveSolanaVault(): the signature is the answer, nothing is sent.
Proved(w) ==
  LET r == calls[w].req IN
    /\ Signs(w) /\ jobs[r].kind = "proof"
    /\ Reply(r, "result") /\ busy' = FALSE /\ Rest(w)
    /\ UNCHANGED <<person, history, store, mint, wire, over, left>>

\* Any of those reads fails, or the context moved.
NotVerified(w) ==
  /\ calls[w].pc = "verify"
  /\ Reply(calls[w].req, "refused") /\ busy' = FALSE /\ Rest(w)
  /\ UNCHANGED <<person, mint, history, store, ghosts, left>>

Recorded_Unmarked(w) ==
  /\ calls[w].pc = "signed" /\ calls[w].io = "ok" /\ calls' = [calls EXCEPT ![w].pc = "uncertain"]
  /\ UNCHANGED <<person, table, mint, history, store, ghosts, left>>
\* The save before any broadcast answers; the second save marks the payment as perhaps sent.
Recorded(w) ==
  LET r == calls[w].req
      goes == calls[w].io = "ok" /\ Current(r) /\ Unlocked(r)
  IN /\ calls[w].pc = "signed" /\ calls[w].io # "none"
     /\ txs' = [txs EXCEPT ![r] = IF goes THEN "uncertain" ELSE "cancelled"]
     /\ UNCHANGED <<person, list, clear>> /\ Save(w) /\ Go(w, IF goes THEN "uncertain" ELSE "undo")
     /\ UNCHANGED <<table, mint, disk, ghosts, left>>

\* submitOnce(): the bytes leave the wallet, once.
Submits_NoCheck(w) == calls[w].io = "ok"
Submits(w) == calls[w].io = "ok" /\ Current(calls[w].req) /\ Unlocked(calls[w].req)
Submit(w) ==
  LET r == calls[w].req IN
    /\ calls[w].pc = "uncertain" /\ calls[w].io # "none"
    /\ IF Submits(w)
       THEN wire' = wire \cup {r} /\ Go(w, "submit") /\ UNCHANGED table
       ELSE Reply(r, "unknown") /\ busy' = FALSE /\ Rest(w) /\ UNCHANGED wire
    /\ UNCHANGED <<person, mint, history, store, signed, over, left>>

\* The acknowledgment, or its absence, is recorded.
Submitted(w) ==
  /\ calls[w].pc = "submit"
  /\ \E s \in {"submitted", "uncertain"} : txs' = [txs EXCEPT ![calls[w].req] = s]
  /\ UNCHANGED <<person, list, clear>> /\ Save(w) /\ Go(w, "told")
  /\ UNCHANGED <<table, mint, disk, ghosts, left>>

Told(w) ==
  /\ calls[w].pc = "told" /\ calls[w].io # "none"
  /\ Reply(calls[w].req, IF calls[w].io = "ok" THEN "result" ELSE "unknown")
  /\ busy' = FALSE /\ Rest(w)
  /\ UNCHANGED <<person, mint, history, store, ghosts, left>>

\* The save of the cancellation answers; when it fails the request is not finished.
Undone(w) ==
  /\ calls[w].pc = "undo" /\ calls[w].io # "none" /\ busy' = FALSE /\ Rest(w)
  /\ IF calls[w].io = "ok" THEN Reply(calls[w].req, "refused") ELSE UNCHANGED <<jobs, answer>>
  /\ UNCHANGED <<person, mint, history, store, ghosts, left>>
-----------------------------------------------------------------------------
(* approve() of a connection, and approveSession(). *)

Granted(p, network) == grants' = [grants EXCEPT ![p][ctx.account] = network]

Connect(w) ==
  LET r == calls[w].req
      p == jobs[r].page
  IN /\ Reviewed(w, "approve") /\ jobs[r].kind = "connect" /\ Unlocked(r)
     /\ jobs' = [jobs EXCEPT ![r].stage = "signing"] /\ pending' = pending \cup {p}
     /\ Granted(p, ctx.network)
     /\ UNCHANGED <<session, ctx, pages, key, switching, history>> /\ Save(w) /\ Go(w, "grant")
     /\ UNCHANGED <<busy, answer, mint, disk, ghosts, left>>

\* The grant is saved: it counts from here on, or is withdrawn from the account it was given for.
Connected(w) ==
  LET r == calls[w].req
      p == jobs[r].page
      stands == calls[w].io = "ok" /\ Current(r) /\ Unlocked(r)
  IN /\ calls[w].pc = "grant" /\ calls[w].io # "none"
     /\ IF stands
        THEN /\ pending' = pending \ {p} /\ Reply(r, "result") /\ Rest(w)
             /\ UNCHANGED <<grants, writes, busy>>
             /\ UNCHANGED <<session, ctx, pages, key, switching, history>>
        ELSE /\ grants' = [grants EXCEPT ![p][jobs[r].ctx.account] = NoNetwork]
             /\ UNCHANGED <<session, ctx, pending, pages, key, switching, history>>
             /\ Save(w) /\ Go(w, "ungrant") /\ UNCHANGED table
     /\ UNCHANGED <<mint, disk, ghosts, left>>

NotConnected(w) ==
  LET r == calls[w].req IN
    /\ calls[w].pc = "ungrant" /\ calls[w].io # "none"
    /\ pending' = pending \ {jobs[r].page} /\ Reply(r, "refused") /\ Rest(w)
    /\ UNCHANGED <<session, ctx, grants, pages, key, switching, busy, mint, history, store, ghosts, left>>

\* A session's record is saved before it starts; a refusal before that finishes the request.
ClaimSession(w) ==
  LET r == calls[w].req IN
    /\ FirstClaim(w) /\ jobs[r].kind = "session"
    /\ \/ /\ DigestIs(w) /\ Unlocked(r)
          /\ jobs' = [jobs EXCEPT ![r].stage = "signing"]
          /\ UNCHANGED <<person, history, busy, answer>> /\ Save(w) /\ Go(w, "record")
       \/ /\ Reply(r, "refused") /\ busy' = FALSE /\ Rest(w) /\ UNCHANGED <<person, history, writes>>
    /\ UNCHANGED <<mint, disk, ghosts, left>>

\* The session starts and keeps the mutex; or its record, which stays in storage, ends at once.
StartSession(w) ==
  LET r == calls[w].req IN
    /\ calls[w].pc = "record" /\ calls[w].io # "none"
    /\ IF calls[w].io = "ok" /\ ~Current(r)
       THEN UNCHANGED <<person, history, table, mint>> /\ Save(w) /\ Go(w, "unrecord")
       ELSE /\ UNCHANGED <<person, history, writes>> /\ Rest(w)
            /\ IF calls[w].io = "ok"
               THEN mint' = r /\ Reply(r, "result") /\ UNCHANGED busy
               ELSE UNCHANGED mint /\ Reply(r, "refused") /\ busy' = FALSE
    /\ UNCHANGED <<disk, ghosts, left>>

NotStarted(w) ==
  /\ calls[w].pc = "unrecord" /\ calls[w].io # "none"
  /\ Reply(calls[w].req, "refused") /\ busy' = FALSE /\ Rest(w)
  /\ UNCHANGED <<person, mint, history, store, ghosts, left>>

\* run() settles: only then is the mutex released.
SessionEnds ==
  /\ mint # NoRequest /\ mint' = NoRequest /\ busy' = FALSE
  /\ UNCHANGED <<person, jobs, answer, calls, history, store, ghosts, left>>
-----------------------------------------------------------------------------
(* What ends requests: ended(), changeAccountContext(), revokeOrigin(), the port, tab, window and
   alarm listeners. *)

\* lock(), or the unlock's deadline.
Lock ==
  /\ Event("lock")
  /\ session' = [held |-> FALSE, epoch |-> session.epoch + 1]
  /\ key' = [key EXCEPT !.late = @ \/ key.op # "none"]
  /\ Invalidate(Requests) /\ over' = over \cup Asked
  /\ UNCHANGED <<ctx, grants, pending, pages, switching, calls, mint, history, store, signed, wire>>

\* The site's grant goes from every account, and its requests end.
Revoke(p) ==
  /\ Event("revoke")
  /\ grants' = [grants EXCEPT ![p] = [a \in Accounts |-> NoNetwork]]
  /\ pages' = [pages EXCEPT ![p].rev = @ + 1]
  /\ Invalidate(AskedBy(p)) /\ over' = over \cup AskedBy(p)
  /\ UNCHANGED <<session, ctx, pending, key, switching, history>> /\ Save("other")
  /\ UNCHANGED <<calls, mint, disk, signed, wire>>

\* The page closes, navigates or disconnects.
Leave(p) ==
  /\ Event("leave") /\ pages[p].alive
  /\ pages' = [pages EXCEPT ![p].alive = FALSE]
  /\ Invalidate(AskedBy(p)) /\ over' = over \cup AskedBy(p)
  /\ UNCHANGED <<session, ctx, grants, pending, key, switching, calls, mint, history, store, signed, wire>>

\* Its next document opens another channel.
Return(p) ==
  /\ ~pages[p].alive /\ switching = "no"
  /\ pages' = [pages EXCEPT ![p] = [alive |-> TRUE, rev |-> @.rev + 1]]
  /\ UNCHANGED <<session, ctx, grants, pending, key, switching, table, calls, mint, history, store,
                 ghosts, left>>

\* The page cancels its request (also while its review is prepared), the review's window closes, or
\* a session's window reloads before the start.
CancelRequest(r) ==
  /\ Event("cancel") /\ jobs[r].stage \in {"prep", "review", "signing"}
  /\ over' = over \cup {r}
  /\ IF InTable(r) THEN Invalidate({r})
     ELSE jobs' = [jobs EXCEPT ![r].cancelled = TRUE] /\ UNCHANGED <<busy, answer>>
  /\ UNCHANGED <<person, calls, mint, history, store, signed, wire>>

\* Two minutes passed since the review was prepared.
Expire(r) ==
  /\ Event("expire") /\ InTable(r) /\ ~jobs[r].expired
  /\ jobs' = [jobs EXCEPT ![r].expired = TRUE] /\ over' = over \cup {r}
  /\ UNCHANGED <<person, busy, answer, calls, mint, history, store, signed, wire>>

\* The alarm cancels every job that is no longer current.
Alarm ==
  LET stale == {r \in Requests : InTable(r) /\ ~Current(r) /\ ~jobs[r].cancelled} IN
    /\ stale # {} /\ Invalidate(stale)
    /\ UNCHANGED <<person, calls, mint, history, store, ghosts, left>>
-----------------------------------------------------------------------------
(* Operations that hold keyBusy, and the network switch. *)

\* `unlock` proves the password; `account-select` and the actions that add an account open the
\* wallet's words first.
KeyBegins(op, c) ==
  /\ key.op = "none" /\ switching = "no"
  /\ \/ op = "unlock" /\ ~session.held /\ c = ctx /\ UNCHANGED left
     \/ /\ op \in {"select", "add"} /\ Event("select") /\ session.held /\ ChangingAllowed
        /\ c.account # ctx.account /\ c.network = ctx.network
        /\ op = "add" => ~busy
  /\ key' = [NoKey EXCEPT !.op = op, !.epoch = session.epoch, !.ctx = c]
  /\ UNCHANGED <<session, ctx, grants, pending, pages, switching, table, calls, mint, history, store,
                 ghosts>>

\* The words are open.  Only in the epoch it began in does it go on: an unlock to its save, a change
\* of account to changeAccountContext() and its save.
KeyProved ==
  /\ key.op # "none" /\ ~key.saving
  /\ IF session.epoch = key.epoch /\ (key.op = "unlock" \/ session.held)
     THEN /\ IF key.op = "unlock" THEN UNCHANGED <<session, ctx, table, over>> /\ key' = [key EXCEPT !.saving = TRUE]
             ELSE /\ session' = [session EXCEPT !.epoch = @ + 1] /\ ctx' = key.ctx
                  /\ Invalidate(Requests) /\ over' = over \cup Asked
                  /\ key' = [key EXCEPT !.saving = TRUE, !.ctx = ctx]
          /\ UNCHANGED <<grants, history>> /\ Save("key")
     ELSE key' = NoKey /\ UNCHANGED <<session, ctx, grants, table, history, writes, over>>
  /\ UNCHANGED <<pending, pages, switching, calls, mint, disk, signed, wire, left>>

KeyFails ==
  /\ key.op # "none" /\ ~key.saving /\ key' = NoKey
  /\ UNCHANGED <<session, ctx, grants, pending, pages, switching, table, calls, mint, history, store,
                 ghosts, left>>

\* install(): refused when the epoch moved since the password was asked.
Install_AnyEpoch == session' = [session EXCEPT !.held = TRUE]
Install == session' = [session EXCEPT !.held = (@ \/ session.epoch = key.epoch)]

\* switch-network: what is bound to the old network ends, then the wallet moves, or stays when the
\* new one does not answer; once that is saved every page is disconnected.
SwitchBegins ==
  /\ Event("switch") /\ ~busy /\ key.op = "none" /\ switching = "no"
  /\ switching' = "moving" /\ Invalidate(Requests) /\ over' = over \cup {r \in Asked : InTable(r)}
  /\ UNCHANGED <<session, ctx, grants, pending, pages, key, calls, mint, history, store, signed, wire>>

SwitchMoves(n) ==
  /\ switching = "moving" /\ UNCHANGED <<grants, history>>
  /\ IF n # ctx.network
     THEN ctx' = [ctx EXCEPT !.network = n] /\ switching' = "saving" /\ Save("switch") /\ over' = over \cup Asked
     ELSE switching' = "no" /\ UNCHANGED <<ctx, writes, over>>
  /\ UNCHANGED <<session, pending, pages, key, table, calls, mint, disk, signed, wire, left>>

SwitchEnds ==
  /\ switching = "saved" /\ switching' = "no"
  /\ pages' = [p \in Pages |-> [pages[p] EXCEPT !.alive = FALSE]]
  /\ Invalidate({r \in Requests : jobs[r].page \in Pages})
  /\ over' = over \cup {r \in Asked : jobs[r].page \in Pages}
  /\ UNCHANGED <<session, ctx, grants, pending, key, calls, mint, history, store, signed, wire, left>>
-----------------------------------------------------------------------------
(* History, storage and restarts. *)

\* syncHistory() resolves a line: what left becomes final, what never left expires with its era,
\* long after its approval.
History(r) ==
  /\ r \in list /\ txs[r] \in {"uncertain", "submitted"}
  /\ r \in wire \/ \A w \in Calls : calls[w].req # r
  /\ txs' = [txs EXCEPT ![r] = "final"] /\ UNCHANGED <<person, list, clear>> /\ Save("other")
  /\ UNCHANGED <<table, calls, mint, disk, ghosts, left>>

\* clear-history: the account's final lines leave the list, unless the save fails.
ClearHistory ==
  /\ Event("clear") /\ session.held /\ ChangingAllowed /\ switching = "no" /\ ~clear.on
  /\ list' = {r \in list : jobs[r].ctx # ctx \/ txs[r] \in Open}
  /\ list' # list /\ clear' = [on |-> TRUE, previous |-> list]
  /\ UNCHANGED <<person, txs>> /\ Save("clear")
  /\ UNCHANGED <<table, calls, mint, disk, ghosts>>

\* The first write of the queue lands, and whoever awaits it hears of it.
Answered(by, io) ==
  /\ calls' = [w \in Calls |-> IF w = by THEN [calls[w] EXCEPT !.io = io] ELSE calls[w]]
  /\ switching' = IF by # "switch" THEN switching ELSE IF io = "ok" THEN "saved" ELSE "no"
  /\ key' = IF by = "key" THEN NoKey ELSE key
  /\ IF by = "key" /\ key.op = "unlock" /\ io = "ok" THEN Install ELSE UNCHANGED session
  /\ ctx' = IF by = "key" /\ key.op # "unlock" /\ io = "failed" THEN key.ctx ELSE ctx
  /\ list' = IF by = "clear" /\ io = "failed" THEN clear.previous ELSE list
  /\ clear' = IF by = "clear" THEN NoClear ELSE clear

Land ==
  /\ writes # <<>> /\ disk' = Head(writes).img /\ writes' = Tail(writes)
  /\ Answered(Head(writes).by, "ok")
  /\ UNCHANGED <<grants, pending, pages, table, mint, txs, ghosts, left>>

WriteFails ==
  /\ writes # <<>> /\ writes' = Tail(writes)
  /\ IF Head(writes).by = "clear" THEN Spend("clears") ELSE Event("write")
  /\ Answered(Head(writes).by, "failed")
  /\ UNCHANGED <<grants, pending, pages, table, mint, txs, disk, ghosts>>

\* The worker dies.  What it knew is what storage holds; a payment never marked as perhaps sent is
\* cancelled as it loads (readState).
Crash ==
  /\ Event("crash")
  /\ session' = [held |-> FALSE, epoch |-> session.epoch + 1]
  /\ ctx' = disk.ctx /\ grants' = disk.grants /\ pending' = {}
  /\ pages' = [p \in Pages |-> [pages[p] EXCEPT !.alive = FALSE]]
  /\ list' = {r \in Requests : disk.txs[r] # "none"}
  /\ txs' = [r \in Requests |-> CASE disk.txs[r] = "none" -> IF txs[r] = "final" THEN "final" ELSE "none"
                                   [] disk.txs[r] = "signed" -> "cancelled"
                                   [] OTHER -> disk.txs[r]]
  /\ jobs' = [r \in Requests |-> IF r \in Asked THEN [jobs[r] EXCEPT !.stage = "done",
                                                        !.window = "failed"] ELSE jobs[r]]
  /\ over' = over \cup Asked
  /\ busy' = FALSE /\ key' = NoKey /\ switching' = "no" /\ clear' = NoClear /\ writes' = <<>>
  /\ calls' = [w \in Calls |-> Idle] /\ mint' = NoRequest
  /\ UNCHANGED <<answer, disk, signed, wire>>
-----------------------------------------------------------------------------
Approval(w) ==
  \/ Claim(w) \/ Verified(w) \/ Proved(w) \/ NotVerified(w) \/ Recorded(w) \/ Submit(w) \/ Submitted(w)
  \/ Told(w) \/ Undone(w) \/ Connect(w) \/ Connected(w) \/ NotConnected(w)
  \/ ClaimSession(w) \/ StartSession(w) \/ NotStarted(w)

Next ==
  \/ \E r \in Requests, k \in Kinds, p \in Pages \cup {NoPage} : Ask(r, k, p)
  \/ \E r \in Requests : Prepared(r) \/ NotPrepared(r) \/ WindowOpens(r) \/ WindowFails(r)
  \/ \E w \in Calls, r \in Requests, what \in {"approve", "retip", "reject"}, q \in 0..MaxEvents :
       Message(w, r, what, q)
  \/ \E w \in Calls : MessageRefused(w) \/ Reject(w) \/ Retip(w) \/ Retipped(w) \/ Approval(w)
  \/ SessionEnds \/ Lock \/ Alarm
  \/ \E p \in Pages : Revoke(p) \/ Leave(p) \/ Return(p)
  \/ \E r \in Requests : CancelRequest(r) \/ Expire(r) \/ History(r)
  \/ \E op \in {"unlock", "select", "add"}, c \in Contexts : KeyBegins(op, c)
  \/ KeyProved \/ KeyFails \/ SwitchBegins \/ SwitchEnds
  \/ \E n \in Networks : SwitchMoves(n)
  \/ ClearHistory \/ Land \/ WriteFails \/ Crash

Spec == Init /\ [][Next]_vars
-----------------------------------------------------------------------------
(* Properties. *)

\* The mutex `walletBusy` is held exactly while one operation works: a review being prepared or on
\* the screen, an approval up to its last save, or a mint session.  No failure releases the mutex
\* another operation took meanwhile (the catch of createJob), and none keeps it.
AtWork == {"verify", "signed", "uncertain", "submit", "told", "undo", "record", "unrecord"}
Working(r) ==
  /\ jobs[r].kind # "connect"
  /\ \/ jobs[r].stage \in {"prep", "review"}
     \/ \E w \in Calls : calls[w].req = r /\ calls[w].pc \in AtWork
     \/ mint = r
MutexOwned ==
  /\ \A r, s \in Requests : Working(r) /\ Working(s) => r = s
  /\ busy <=> \E r \in Requests : Working(r)

\* A request is signed at most once, and what is signed is the quote on the screen that approved it,
\* whatever tips were chosen and approvals repeated meanwhile.
SignsAsShown ==
  \A s \in signed : s[2] = s[3] /\ \A t \in signed : t[1] = s[1] => t = s

\* After a lock, a change of account or network, a revocation, a closed page, a cancellation or an
\* expiry that met a request, the request is neither signed nor sent.
NothingAfterEnd ==
  [][\A r \in over : /\ r \in wire' => r \in wire
                     /\ \A s \in signed' \ signed : s[1] # r]_vars

\* A lock wins over an unlock that was being proved or saved when it came.
LockWins == [][session'.held /\ ~session.held => ~key.late]_vars

\* A payment a site was told is not submitted, or that history calls cancelled, never left.
NotSubmittedIsTrue ==
  \A r \in wire : answer[r] # "refused" /\ txs[r] # "cancelled" /\ disk.txs[r] # "cancelled"

\* A payment whose bytes left stays in the history, in memory and in storage, until it is final and
\* the person clears it: the gate of the next operation reads it there.
SentIsKept ==
  \A r \in wire :
    /\ txs[r] \in {"uncertain", "submitted", "final"}
    /\ r \notin list => txs[r] = "final"
    /\ disk.txs[r] \in {"uncertain", "submitted", "final"} \/ txs[r] = "final"

\* Over approvals, crashes, failed writes and cleared history, an account never has two
\* payments unresolved.
OneOpenPayment ==
  \A r, s \in {x \in Requests : txs[x] \in Open} : jobs[r].ctx = jobs[s].ctx => r = s

\* Clearing the history keeps unresolved entries, which gate the next operation.
UnresolvedStay == [][\A r \in list : txs[r] \in Open => r \in list']_vars
=============================================================================
