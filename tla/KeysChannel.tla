----------------------------- MODULE KeysChannel -----------------------------
(* The channel between a dapp page and the wallet of Qlyphs Keys: the provider of apps/keys/src/sdk.ts
   in the page, the popup document of connect.ts, and the wallet worker behind its port.

   Page and popup post messages to each other's window, in order each way.  A window may reload, or
   die without saying so; a message to a document that does not listen yet is lost, and one for the
   next document reaches it.  The popup's port to the worker is one step here, but the worker notices
   a dead document only later.  Windows and documents are numbered in the order they open. *)
EXTENDS Naturals, Sequences, SequencesExt, FiniteSets

CONSTANTS
  Requests,
  None,
  Kind,              \* "write", "session" (a mint session) or "sign"
  MaxWins, MaxDocs, MaxLeaves, MaxResets  \* bounds

ASSUME ChannelConstants ==
  /\ Kind \in [Requests -> {"write", "session", "sign"}]
  /\ None \notin Requests
  /\ {MaxWins, MaxDocs, MaxLeaves, MaxResets} \subseteq Nat

VARIABLES
  \* The page.
  req, queue,           \* outstanding and settled requests; those not forwarded, in order
  popup, ready, known,  \* the window it holds (0: none), its state, the document it saw
  deadline, watching,   \* readyTimer and the poll of popup.closed run
  session,              \* the mint session shown, by the document it is bound to (0: none)
  announced,            \* the document the window last announced to this page
  \* The popup.
  win, doc,             \* the open window, the document listening in it (0: none)
  port, gated,          \* its wallet channel is open; writes that wait for the build check
  \* The wallet.
  at,                   \* where each request is, and for which document
  running,              \* the document whose channel runs a mint session
  \* Messages, and bounds.
  toPopup, toDapp, count
page == <<req, queue, popup, ready, known, deadline, watching, session, announced>>
window == <<win, doc, port, gated>>
wallet == <<at, running>>
vars == <<page, window, wallet, toPopup, toDapp, count>>

Init ==
  /\ req = [r \in Requests |-> "new"] /\ queue = <<>>
  /\ popup = 0 /\ ready = FALSE /\ known = 0 /\ deadline = FALSE /\ watching = FALSE /\ session = 0 /\ announced = 0
  /\ win = 0 /\ doc = 0 /\ port = FALSE /\ gated = {}
  /\ at = [r \in Requests |-> [stage |-> "none", doc |-> 0]] /\ running = 0
  /\ toPopup = <<>> /\ toDapp = <<>>
  /\ count = [wins |-> 0, docs |-> 0, leaves |-> 0, resets |-> 0]

Outstanding == {r \in Requests : req[r] \in {"queued", "forwarded"}}
Forwarded == {r \in Requests : req[r] = "forwarded"}
ToPopup(type, r, d) == [type |-> type, r |-> r, doc |-> d]
FromPopup(type, d, r, a) == [from |-> win, type |-> type, doc |-> d, r |-> r, answer |-> a]
-----------------------------------------------------------------------------
(* The page: sdk.ts *)

\* What a request whose reply is lost may still claim; a request that is no write reports no outcome,
\* which claims as little as "unknown".
Lost(r) == IF req[r] = "queued" THEN "not-submitted" ELSE "unknown"
Settled(told) == [r \in Requests |-> IF r \in told THEN Lost(r) ELSE req[r]]
Unqueued_Kept(r) == queue
Unqueued(r) == RemoveFirst(queue, r)

\* flush(): with the popup ready, everything queued in q is posted.
Flushes(rs, q, posts, up) ==
  IF up /\ win' # 0 /\ popup' = win'
  THEN /\ req' = [r \in Requests |-> IF r \in ToSet(q) THEN "forwarded" ELSE rs[r]]
       /\ queue' = <<>>
       /\ toPopup' = posts \o [i \in 1..Len(q) |-> ToPopup("request", q[i], 0)]
  ELSE req' = rs /\ queue' = q /\ toPopup' = posts

\* close(): the popup is gone, and what waited for it fails.
Closed ==
  /\ popup' = 0 /\ ready' = FALSE /\ deadline' = FALSE /\ watching' = FALSE /\ session' = 0
  /\ req' = Settled(Outstanding) /\ queue' = <<>>
  /\ UNCHANGED known

\* request() with ensurePopup() and openPopup(): the named window is reused when it is open; one that
\* announced itself to this page is ready, another is asked to.
Ask(r) ==
  /\ req[r] = "new"
  /\ LET keep == popup # 0 /\ win = popup
         new == win = 0
         hello == ~keep /\ ~new /\ announced = 0
     IN /\ new => count.wins < MaxWins
        /\ win' = (IF new THEN count.wins + 1 ELSE win)
        /\ count' = [count EXCEPT !.wins = IF new THEN @ + 1 ELSE @]
        /\ popup' = win' /\ watching' = TRUE
        /\ announced' = (IF new THEN 0 ELSE announced)
        /\ known' = (IF keep THEN known ELSE announced')
        /\ ready' = (IF keep THEN ready ELSE announced' # 0)
        /\ deadline' = (IF keep THEN deadline ELSE announced' = 0)
        /\ Flushes([req EXCEPT ![r] = "queued"], Append(queue, r),
                   toPopup \o (IF hello THEN <<ToPopup("hello", None, 0)>> ELSE <<>>), ready')
  /\ UNCHANGED <<session, doc, port, gated, wallet, toDapp>>

\* The browser blocks the popup.
Blocked(r) ==
  /\ req[r] = "new" /\ ~(popup # 0 /\ win = popup)
  /\ req' = [req EXCEPT ![r] = "not-submitted"]
  /\ popup' = 0
  /\ UNCHANGED <<queue, ready, known, deadline, watching, session, announced, window, wallet, toPopup, toDapp, count>>

\* stop(): the request's timeout, or the dapp's abort.
Stop(r) ==
  /\ r \in Outstanding
  /\ req' = Settled({r}) /\ queue' = Unqueued(r)
  /\ toPopup' = IF req[r] = "forwarded" /\ ready /\ popup # 0 /\ win = popup
                THEN Append(toPopup, ToPopup("cancel", r, 0)) ELSE toPopup
  /\ UNCHANGED <<popup, ready, known, deadline, watching, session, announced, window, wallet, toDapp, count>>

\* The poll: the window was closed, or another could not be opened.
Poll ==
  /\ watching /\ (popup = 0 \/ win # popup)
  /\ Closed
  /\ UNCHANGED <<announced, window, wallet, toPopup, toDapp, count>>

\* pagehide, then the page's next document: only the stop of its session is accepted from a page that
\* left; messages on their way reach the next document or nobody.
PageLeaves ==
  /\ count.leaves < MaxLeaves /\ count' = [count EXCEPT !.leaves = @ + 1]
  /\ Closed
  /\ announced' = 0
  /\ toPopup' = IF popup # 0 /\ win = popup /\ ready /\ session # 0
                THEN Append(toPopup, ToPopup("stop", None, session)) ELSE toPopup
  /\ toDapp' \in {toDapp, <<>>}
  /\ UNCHANGED <<window, wallet>>

\* The announcements the page's own listener keeps, from the window that is open.
Announced(m) ==
  announced' = IF m.from # win THEN announced
               ELSE IF m.type = "ready" THEN m.doc ELSE IF m.type = "leave" THEN 0 ELSE announced

\* A document announced itself: another than the known one replaced it.
OnReady_SameSession(m) ==
  /\ known' = m.doc /\ ready' = TRUE /\ deadline' = FALSE
  /\ Flushes(IF m.doc = known THEN req ELSE Settled(Forwarded), queue, toPopup, TRUE)
  /\ UNCHANGED session
OnReady(m) ==
  /\ known' = m.doc /\ ready' = TRUE /\ deadline' = FALSE
  /\ Flushes(IF m.doc = known THEN req ELSE Settled(Forwarded), queue, toPopup, TRUE)
  /\ session' = IF m.doc = known THEN session ELSE 0
OnLeave_NoDeadline(m) ==
  /\ ready' = FALSE /\ session' = 0
  /\ UNCHANGED <<req, queue, toPopup, known, deadline>>
OnLeave(m) ==
  /\ ready' = FALSE /\ session' = 0 /\ deadline' = TRUE
  /\ UNCHANGED <<req, queue, toPopup, known>>
OnReset(m) ==
  /\ req' = Settled(Outstanding) /\ queue' = <<>> /\ session' = 0
  /\ UNCHANGED <<toPopup, known, ready, deadline>>
OnEvent(m) ==
  /\ session' = IF ready THEN m.doc ELSE session
  /\ UNCHANGED <<req, queue, toPopup, known, ready, deadline>>
OnReply(m) ==
  /\ req' = IF m.r \in Outstanding THEN [req EXCEPT ![m.r] = m.answer] ELSE req
  /\ queue' = Unqueued(m.r)
  /\ session' = IF m.r \in Outstanding /\ Kind[m.r] = "session" /\ m.doc # 0 THEN m.doc ELSE session
  /\ UNCHANGED <<toPopup, known, ready, deadline>>

\* The page's listeners take the next message; the provider's ignores one from another window.
PageReads ==
  /\ toDapp # <<>> /\ toDapp' = Tail(toDapp)
  /\ UNCHANGED <<popup, watching, window, wallet, count>>
  /\ LET m == Head(toDapp) IN
       /\ Announced(m)
       /\ IF popup = 0 \/ m.from # popup
          THEN UNCHANGED <<req, queue, toPopup, known, ready, deadline, session>>
          ELSE \/ m.type = "ready" /\ OnReady(m)
               \/ m.type = "leave" /\ OnLeave(m)
               \/ m.type = "reset" /\ OnReset(m)
               \/ m.type = "event" /\ OnEvent(m)
               \/ m.type = "reply" /\ OnReply(m)
-----------------------------------------------------------------------------
(* The popup: connect.ts *)

Says(m) == toDapp' = Append(toDapp, m)

\* The wallet channel of the document closes: the worker drops its reviews and stops its session.
Dropped(d) == [r \in Requests |-> IF at[r] = [stage |-> "review", doc |-> d]
                                  THEN [at[r] EXCEPT !.stage = "gone"] ELSE at[r]]
PortCloses ==
  /\ port' = FALSE /\ gated' = {}
  /\ at' = Dropped(doc) /\ running' = IF running = doc THEN 0 ELSE running

\* A document starts: it announces itself.
Load ==
  /\ win # 0 /\ doc = 0 /\ count.docs < MaxDocs
  /\ doc' = count.docs + 1
  /\ count' = [count EXCEPT !.docs = @ + 1]
  /\ Says(FromPopup("ready", doc', None, ""))
  /\ UNCHANGED <<page, win, port, gated, wallet, toPopup>>

\* leave(): the document goes, by a reload or with its window.
Leaves ==
  /\ win # 0 /\ doc # 0
  /\ doc' = 0 /\ win' \in {win, 0}
  /\ PortCloses
  /\ Says(FromPopup("leave", doc, None, ""))
  /\ toPopup' = IF win' = 0 THEN <<>> ELSE toPopup
  /\ UNCHANGED <<page, count>>

\* The document or the window dies without a word; the worker learns of it later.
Crash ==
  /\ win # 0 /\ doc' = 0 /\ win' \in IF doc = 0 THEN {0} ELSE {win, 0}
  /\ port' = FALSE /\ gated' = {}
  /\ toPopup' = IF win' = 0 THEN <<>> ELSE toPopup
  /\ UNCHANGED <<page, wallet, toDapp, count>>
HostGone ==
  /\ \E d \in {at[r].doc : r \in Requests} \cup {running} :
       /\ d # 0 /\ d # doc
       /\ at' = Dropped(d) /\ running' = IF running = d THEN 0 ELSE running
  /\ wallet' # wallet
  /\ UNCHANGED <<page, window, toPopup, toDapp, count>>

\* expectReady(): a window whose document stays silent is closed, with what waits for it.
ReadyDeadline ==
  /\ deadline /\ ~ready /\ popup # 0
  /\ Closed
  /\ IF win = popup
     THEN win' = 0 /\ doc' = 0 /\ PortCloses /\ toPopup' = <<>>
     ELSE UNCHANGED <<window, wallet, toPopup>>
  /\ UNCHANGED <<announced, toDapp, count>>

\* A request goes to the wallet, or a write first waits for the build check.
ToWallet(r) == at' = [at EXCEPT ![r] = [stage |-> "review", doc |-> doc]]
OnRequest(m) ==
  /\ port' = TRUE
  /\ \/ ToWallet(m.r) /\ UNCHANGED gated
     \/ gated' = gated \cup {m.r} /\ UNCHANGED at
  /\ UNCHANGED <<running, toDapp>>
OnCancel(m) ==
  IF m.r \in gated \/ (port /\ at[m.r] = [stage |-> "review", doc |-> doc])
  THEN /\ gated' = gated \ {m.r}
       /\ at' = [at EXCEPT ![m.r].stage = IF @ = "review" THEN "gone" ELSE @]
       /\ Says(FromPopup("reply", 0, m.r, "not-submitted"))
       /\ UNCHANGED <<port, running>>
  ELSE UNCHANGED <<port, gated, wallet, toDapp>>
OnHello(m) ==
  /\ Says(FromPopup("ready", doc, None, ""))
  /\ UNCHANGED <<port, gated, wallet>>
\* stopLeft(): from a page that left, only for the session this channel runs.
OnStop(m) ==
  IF port /\ running = doc /\ m.doc = doc
  THEN running' = 0 /\ Says(FromPopup("event", 0, None, "")) /\ UNCHANGED <<port, gated, at>>
  ELSE UNCHANGED <<port, gated, wallet, toDapp>>
PopupReads ==
  /\ win # 0 /\ toPopup # <<>> /\ toPopup' = Tail(toPopup)
  /\ LET m == Head(toPopup) IN
       IF doc = 0 THEN UNCHANGED <<port, gated, wallet, toDapp>>
       ELSE \/ m.type = "request" /\ OnRequest(m)
            \/ m.type = "cancel" /\ OnCancel(m)
            \/ m.type = "hello" /\ OnHello(m)
            \/ m.type = "stop" /\ OnStop(m)
  /\ UNCHANGED <<page, win, doc, count>>

\* The build check answers: the write goes on, or the window is outdated and refuses it.
GateOpens(r) ==
  /\ r \in gated /\ gated' = gated \ {r}
  /\ \/ ToWallet(r) /\ UNCHANGED toDapp
     \/ Says(FromPopup("reply", 0, r, "not-submitted")) /\ UNCHANGED at
  /\ UNCHANGED <<page, win, doc, port, running, toPopup, count>>

\* The wallet closes the channel, and the popup says so.
Reset ==
  /\ port /\ count.resets < MaxResets /\ count' = [count EXCEPT !.resets = @ + 1]
  /\ PortCloses
  /\ Says(FromPopup("reset", 0, None, ""))
  /\ UNCHANGED <<page, win, doc, toPopup>>
-----------------------------------------------------------------------------
(* The wallet, as its channel sees it (WalletController models it): it carries out a reviewed request
   or refuses it, and tells the document that asked while it is there. *)

Hears(d) == port /\ d = doc

CarryOut(r) ==
  /\ at[r].stage = "review"
  /\ IF Kind[r] = "session"
     THEN /\ running = 0 /\ running' = at[r].doc
          /\ at' = [at EXCEPT ![r].stage = "told"]
          /\ toDapp' = IF Hears(at[r].doc)
                       THEN toDapp \o <<FromPopup("reply", doc, r, "ok"), FromPopup("event", doc, None, "")>>
                       ELSE toDapp
     ELSE at' = [at EXCEPT ![r].stage = "done"] /\ UNCHANGED <<running, toDapp>>
  /\ UNCHANGED <<page, window, toPopup, count>>
Tell(r) ==
  /\ at[r].stage = "done" /\ at' = [at EXCEPT ![r].stage = "told"]
  /\ IF Hears(at[r].doc)
     THEN \E a \in {"ok", "unknown"} : Says(FromPopup("reply", 0, r, a))
     ELSE UNCHANGED toDapp
  /\ UNCHANGED <<page, window, running, toPopup, count>>
Refuse(r) ==
  /\ at[r].stage = "review" /\ at' = [at EXCEPT ![r].stage = "gone"]
  /\ IF Hears(at[r].doc) THEN Says(FromPopup("reply", 0, r, "not-submitted")) ELSE UNCHANGED toDapp
  /\ UNCHANGED <<page, window, running, toPopup, count>>
SessionEnds ==
  /\ running # 0 /\ running' = 0
  /\ IF Hears(running) THEN Says(FromPopup("event", 0, None, "")) ELSE UNCHANGED toDapp
  /\ UNCHANGED <<page, window, at, toPopup, count>>

Next ==
  \/ \E r \in Requests : Ask(r) \/ Blocked(r) \/ Stop(r) \/ GateOpens(r) \/ CarryOut(r) \/ Tell(r) \/ Refuse(r)
  \/ Poll \/ PageLeaves \/ PageReads \/ ReadyDeadline
  \/ Load \/ Leaves \/ Crash \/ HostGone \/ PopupReads \/ Reset \/ SessionEnds

\* The browser delivers the page's messages and runs its timers; the requests' own timeouts, the
\* popup and the wallet owe nothing.
Fairness == WF_vars(PageReads) /\ WF_vars(Poll) /\ WF_vars(ReadyDeadline)
Spec == Init /\ [][Next]_vars /\ Fairness
-----------------------------------------------------------------------------
(* Properties *)

Carried == {r \in Requests : at[r].stage \in {"done", "told"}}
Channel == INSTANCE OneShotRequests WITH
  done <- Carried,
  answer <- [r \in Requests |-> CASE req[r] = "new" -> "none" [] r \in Outstanding -> "open"
                                  [] OTHER -> req[r]]

\* The channel keeps the promise of a WriteOutcome (lost(), sdk.ts:285): whatever reloads, crashes,
\* resets and late messages do, `not-submitted` is only said of a request the wallet never carries
\* out, a success only of one it did, and each request is answered and carried out once.
OutcomesAreTrue == Channel!Spec

\* A mint session shown as running is bound to the document the page talks to, and with no message
\* on its way from that document the wallet does run it (setSession, sdk.ts:253).
ShownSessionRuns ==
  session # 0 /\ ready =>
    /\ session = known
    /\ (toDapp = <<>> /\ win = popup /\ doc = known) => running = session

\* No request waits in the page for a popup that never comes: it is forwarded or answered, without
\* its own timeout (expectReady and the poll, sdk.ts:404).
QueuedMoves == \A r \in Requests : req[r] = "queued" ~> req[r] # "queued"
=============================================================================
