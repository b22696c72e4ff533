# Verification of the Qlyphs wallet

TLA+ models of the Qlyphs wallet (the browser extension, Qlyphs Keys, its light client and the
native token protocol they rest on), the TLC runs that check them on small instances, and the TLAPS
proofs of what holds for every instance. Paths are relative to the repository's root; those of the
extension are under `apps/extension/src`.

## The system

| Component | State it keeps | What makes it correct | Model |
|---|---|---|---|
| Mint session controller, `mint-session.ts` | one session record: a counter of signatures, attempts with status, hash, birth block, inclusion, finality and doubt | a payment that may have left is never forgotten; no signature beyond the limits, on an unverified outcome, or after a stop; the approved lots and spend are caps on every fork, whatever the node says; the ledger always loads | `MintLedger`, `MintSession`, `MintSpend` |
| Chain search, `mint-session-chain.ts` | none | what it concludes holds of the tip's chain at the time of the read | its conclusions, in `MintSession` and `MintSpend` |
| Wallet controller, `background.ts`, with `requests.ts`, `review-tip.ts`, `vault.ts` | accounts, history lines, session records, the save queue, jobs under review, the mutex `walletBusy`, the secret and its epoch | one approval signs at most once, and what was shown; an account's next operation waits for the fate of the last; no secret outlives its lock, no late unlock revives one | `WalletController`; the history task in `MintSession` |
| Account book, `accounts.ts`, `linked-wallets.ts`, `passkey-vault.ts`, `account-backup.ts` and their handlers | the accounts, what decrypts each, the links between wallets | the stored book loads; no reported account or link is lost; each backup restores | `AccountBook` |
| Qlyphs Keys, `apps/keys/src` | requests in flight, the popup's document, the session shown | no request is replayed, each is settled once, a lost payment is reported as unknown | `KeysChannel` over `OneShotRequests` |
| Light client, `apps/native/src/pq`, `apps/native/web/pq-guard.ts` | a cursor of the last checkpoint, shared by windows | what is authorized is final and recent; windows never go back | `Attestation` |
| Native protocol, `packages/native/src` | the reducer's tokens, offers, tickets, lots; the fee schedule | the reader never halts; trades are atomic; paid lots are minted; prices and roles follow their notice | `TokenLedger`, `TokenReader`; `FeeSchedule`, `FeeReader` |
| SDK, page bridge, trade machine, user interface, validators, codecs, storage proofs | see "Not modelled" | | |

The parts interact through three channels. Pages reach the worker by messages (page, content script,
worker; or page, popup, shared worker). The worker's operations share one memory: every `await` is a
point where the others run, and every operation saves the whole memory through one queue. The chain
reaches the wallet through a node, two witnesses and an indexer, which answer late; the node may lie.

What is hard, and what tests hardly reach: a payment whose bytes left with no proof that they did;
worker deaths between two writes; writes that fail, or land behind another operation's; a stop, a
lock, a switch or a second approval during an await; two tasks that resolve the same payment;
reorganizations between a verdict and its use; a load check that archives the whole ledger when it
finds a record impossible; popups that reload with requests under way; several windows over one
cursor; a native chain that approves what the token state no longer backs. `PROJECT.json` lists these
hazards one by one, each at its line, with the properties that cover it.

## What is modelled

The modules stand beside one another: each takes as given what the module of the next component
checks, and says so in its header.

    OneShotRequests <== KeysChannel --(a reviewed request)--> WalletController
    WalletController --(approveSession, history)--> MintSession --(a verdict)--> MintSpend
    MintSession: MintLedger        FeeReader: FeeSchedule        TokenReader: TokenLedger

### MintLedger and MintSession: one session from approval to the last final line

`Record` and `Attempt` are `MintSessionRecord` and `MintAttempt` without amounts; `Journal` is the
history's line for each payment. The operators of `MintLedger` are the code's functions: `DoubtFrom`,
`DoubtOpen`, `RacesExhausted`, `Contradicts`, `ResolveFromJournal` (over an ended record),
`ValidRecord` (the load check: `checkRecord`, `checkAttempt`, `raceRuleChecked`, and the counters that
the snapshot's parser compares), `EndUnowned`, `LoadRecord`, `LoadJournal` and `SettledNow`.

A *place* abstracts a position on one fork: `Height` is its block's height, `Effect` what a payment
does there. Two places at one height are two forks. A payment is born on the block its predecessor
was found in (`parent`), so it can only run above that block, on that fork; this is what an era born
at an exact block gives the code.

| Code | `MintSession` |
|---|---|
| memory: the record and the history lines | `rec`, `journal` |
| `browser.storage.local` and the `save()` queue | `disk`, `writes` (snapshots in call order, the awaited one marked) |
| the controller's place in `pass()`, `sign()`, `end()`, then in `settleRound()` | `pc`, with the awaited write's answer in `io` |
| `stopReason`, `released`, `unverifiedAt` | `stopWith`, `released`, `unverifiedAt` |
| `syncHistory()`, single flight | `sync` |
| best chain, finalized height, ended eras | `chain`, `final`, `closed` |
| what left the wallet, what was signed, over its whole life | `wire`, `signatures` (history of the run; no code reads them) |

Actions follow the code from one await to the next. `Approve`, `Approved`, `Refused` are
`approveSession`; `Pass` is P1 with `refreshFinality`, `Follow` is P2, `Ready` is P3, `Tip` and
`Judged` are P4-P6 and the early verdict of P3, `Quit` is every refusal up to P9, `Reserve` is P10,
`Sign` and `SignRefused` are P11-P13, `MarkUncertain` and `Release` are P14, `Submitted` is P15;
`Withhold` is a write that failed or a stop found after one. `EndWritten` is the two tries of the
end's write. The settle task is `RoundStarts`, `Found`, `Classify`, `Verdict`, `RoundEnds`,
`RoundFails`, `SettleStops`; its reads and their use are separate steps, since the history task runs
between them. For the controller a read and its use are one step: while it runs nothing else writes
its record, and what the chain does between the read and its use it may as well do after.
`SyncStart`, `SyncReport`, `SyncFinal`, `SyncSave` are `syncHistory` around its awaits; the report is
drawn when the question is asked, so it may be stale when it is used. `Land`, `OtherSave` and `Crash`
are storage, any other operation that saves, and the worker's death with `readState` after it.

The indexer answers `pending`, `included`, `finalized`, `expired` or `indexer-unavailable`
(`packages/native/src/public.ts:63`); a failed call is `unknown`. The model keeps one name for
answers the code treats alike: `pending` also for unknown, `included` also for unavailable. The
second question of `syncHistory`, asked after the finalized height passed the payment's last block,
is answered truly; the first may lag in any way but never runs ahead.

Left out here: amounts and a node that lies (`MintSpend`), the read and attestation budgets (a
refusal of `Quit`), several sessions (`endStale`, `pruneSettled`), and what else a network switch, a
reset or an update does. The settle task may be aborted at any time.

### MintSpend: amounts, verdicts and a node that lies

The chain is a tree of blocks, `blocks`, each with its parent, the line down to the root, the token's
current right, the lots minted, what the owner holds, the owner's nonce, and what its transactions
are. The node may name any position for a payment, on any fork; it may report any fate; the nonce it
first gives may be ahead (`first`); any block may be called final. The two witnesses attest the state
of any block and are honest, and what is checked against an attested hash is true: `Proven` is
`proveInclusion`, the test on the line in `Admit` is `proveLineage`.

| Code | `MintSpend` |
|---|---|
| `classifyAt`, `classifyExact`, with the attested block and its parent | `ShowsLot`; `ShowsMint`, `ShowsAnomaly`, `ShowsLoss`, `ShowsFailure`, in the order of `Exact` |
| `classify()`, `judge()` | `Outcomes`, `Judge` |
| P5, P7, P8 and the reservation, in `pass()` | `Admit` |
| `follow()` and the settle task's search | `Include`, `Fate` |
| `doubtFrom`, `doubtOpen`, on the node's word or history's | `Doubted` |
| `protocolBound`, `protocolSpent`, `protocolReserved`, the clamp of `sessionSnapshot`, the parser's two checks | `Bound`, `Spent`, `Bounded`, `Reserved`, `SpendLoads` |

A payment runs on a fork above its birth when its nonce is next there: it mints with the current
right, comes too late, or fails for a reason of its own. Others buy lots, waste rights (a bare
creation), send lots to the owner, and act for the owner from another installation. A right cannot be
used in the block that made it, as in `useRights` (`packages/native/src/protocol.ts`).

One lot is one unit; the native charge of each payment is `Ticket`; the network fee is never part of
the cap, in the code either. What history resolves after the end only lowers what may be charged, so
it is left out, like payments cancelled before release.

### WalletController: requests, reviews and approvals

A request is a job with a `stage`: preparing (`createJob`), under review, signing, done. Its window
opens or fails on its own. A message of a window (`calls`) goes through `reviewSender`, then
`approve`, `retip` or reject; an approval goes through `Claim`, `Verified`, `Recorded`, `Submits`,
`Submit`, `Submitted`, `Told`, or back through `NotVerified` and `Undone`, with its two saves between.
`quote` numbers the review a window shows, so that a re-tip during an approval can be told apart.
`session.epoch` moves with each lock and account change, as in `SecretSession`. `key` is the operation
that holds `keyBusy`, `switching` the network switch, `clear` the clearing of the history, `mint` the
request whose mint session runs.

Around each request come the events of `Events`: a lock, an account change or unlock, a network
switch, a revoked permission, a closed page, a cancellation, an expired review, a re-tip, a cleared
history, a worker's death, a write that storage refuses. `over` remembers the requests one of them
ended; `wire` what left.

Left out: the wallet's reset, endpoints and settings, the arithmetic of tips, the content of an
operation (its number stands for it). The popup of a wallet is one kind of asker, `NoPage`.

### AccountBook: wallets, links, passkeys and backups

A vault is its root, its format version and the password that opens it; a link names the root it
opens; a passkey names the root it was made for. `keyBusy` orders the operations, but each waits
inside, for a derivation and for its save, while locks, acknowledged backups and other work's saves go
on: `Switches`, `Adds`, `Unlock`, `Links`, `Upgrades`, `SetsPasskey`, `Completes`. `OpEnds`, `Undone`,
`WorkFails` and `Answers` are what follows the answer of storage, including the undoing of
`account-select`. `AddWallet` appends the records of a new root, or all those of a backup at once.
`Loads` is `readState`'s checks on a stored book, slightly stricter than the code about the passkey of
the active account, so a run that passes shows no less. `told` holds what a page was told.

Left out: names, site permissions, the ciphers, and the waits for a mint session to stop.
Beginning and completing the use of a passkey is one step where nothing else can change between.

### KeysChannel and OneShotRequests: a page, its popup and the wallet

The variables follow the three documents: the page (`sdk.ts`: requests, queue, popup, deadline, poll,
session shown), the popup (`connect.ts`: the document in the window, its wallet channel, requests
behind the build check) and the worker (where each request stands, the session that runs). `toPopup`
and `toDapp` are the two message queues: a message may reach the next document, or none. `Leaves`,
`Crash`, `HostGone`, `PageLeaves`, `Reset`, `ReadyDeadline`, `Stop` are the reload, the silent death,
its discovery, navigation, the wallet's reset, a silent popup and a request's timeout.

`OneShotRequests` is what a dapp may conclude from an answer (the documentation of `WriteOutcome`):
each request is answered once, a success means it was done, `not-submitted` that it never was and
never will be. `OutcomesAreTrue` is `Channel!Spec`, with a mapping that reads `done` from the worker
and `answer` from the page: the channel implements it.

Left out: the hub's overlays, wallet setup during a connection, the limit of eight requests. The hop
between popup and worker is one step: the port between them delivers in order or closes.

### Attestation: witnesses, checkpoints and the cursor

Witnesses sign statements about final or best blocks for one call; they lag, and the faulty ones may
sign anything. Statements may be delivered late, for another call, or mixed. A call goes through
asking, verification (`Verified`: `verifyStatements`, with lifetime, clock skew, policy and
agreement), the cursor transaction, and its conclusion, in several windows of different builds over
one store. Times are small integers; the device's clock may be ahead.

Left out: hashes, keys, the codec of snapshots, the services around a witness. The aggregator that
carries statements is the one that may mix them.

### TokenLedger and TokenReader: tokens along a chain that rolls back

`TokenLedger` is `applyOperation` without fees: deployments of each policy, mints, transfers, offers
and reservations, purchases prepared as native proposals, lots with their rights and tickets, the
releases at the start of a block (`BlockStart`), and `assertInvariants`. `TokenReader` is
`NativeIndexer`: `apply` block by block, finality, `rollback`, and `prepareBuy` at one block for a
proposal that runs at another. The native pallets' part (multisigs, proposals, payments) is rolled
back with the block. The index of a right's anchor is left out, since a right moves at most once in a
block; a restored reader's shorter history only refuses more rollbacks.

### FeeSchedule and FeeReader: prices and their governance

`FeeSchedule` is `packages/native/src/fee-schedule.ts`: `GenesisFeeState`, the block-start step
`StepFees` with its parts in the code's order (resets, guardian, operator, rate, end of the overlap),
`CheckFeeState`, what an operation may pay (`AllowedFees`, with the reducer's choice between fixed and
scheduled fees in `AcceptedFees`), what a wallet quotes (`QuotedFees`, from `commands.ts`), and the
checks and effects of `FEE_RATE` and of the five `FEE_ADMIN` actions. `FeeRulesAssumption` is
`checkFeeRules`: what a schedule must satisfy to be read at all. `FeeReader` is `NativeIndexer` as far
as the fee state goes: `states` is the state at the end of each block, each governance operation one
action, `Rollback` is `rollback` (to any earlier block, which is more than the code allows). A refused
operation changes only the journal, which is left out.

One operation kind stands for all: `FeeAt` is its fee at a rate, `LegacyFee` its fixed fee. `Rates`
holds the rates `checkRate` accepts, `STEP_NUM`/`STEP_DEN` are the code's 5/4. A posted rate's
extrinsic index, which only tells grids apart for display, is left out.

## The runs

Every passing run stops on bounds that are named constants, so `CHECK_DEADLOCK FALSE` is set: a
settled session, an answered request or a chain at `MaxHeight` does stop.

| Run | Shows | Instance |
|---|---|---|
| `session_ledger` | the record always loads; a payment that left is told in history and ledger, in memory and in storage; signatures are counted durably; nothing leaves after a stop; each signature stands on verified payments of its chain | 2 payments for 1 lot, forks `raceA`/`lotB` then `lotC`/`failD`, one each of crash, failed write, foreign save, reorganization, rival; stops with and without settle task; no history pass |
| `session_history` | final lines are true; they put each verdict the final chain contradicts in doubt; verdicts and doubts are never withdrawn while history and the settle task race | 2 payments, 2 history passes, forks `raceA`/`lotB`, 1 reorganization, 1 rival |
| `session_live` | the account opens only over settled payments; late reports replace no final line; a session comes to rest; each payment that left becomes final | 1 payment, 1 crash, 1 failed write, 1 rival, history passes for ever |
| `session_height` | a counterexample, see below | 1 payment, 1 reorganization, 2 history passes |
| `spend` | no fork mints or costs more than approved; verdicts are true; doubt never breaks the record | 3 lots at fees 1, 2, 3, ticket 2, 2 lots in 3 attempts for 8 units; every tree of 4 blocks with 2 transactions each, 2 of them others' |
| `wallet_requests` | the mutex has one owner; what is signed was shown, once; a request told `not-submitted` never left; what left is kept; one unresolved payment per account; nothing after an end; a lock wins | 2 requests of a page or the wallet, of 4 kinds, 2 windows, 2 accounts, 2 networks, any one of 11 events at any point; requests and windows are interchangeable (`SYMMETRY`) |
| `wallet_clear` | a counterexample, see below | 2 payments, 1 window, 1 refused write |
| `accounts` | the stored book loads; reported accounts stay, linked; backups restore | 2 roots, 2 passwords, an empty or three older books, 4 operations, 2 writes at once |
| `keys` | the channel implements `OneShotRequests`; a session shown is the one that runs; no request waits in the page for ever | a session and a payment, 2 windows, 2 documents of the popup, 1 navigation, 1 reset |
| `attest` | purchases stand on final, recent blocks; windows never go back | 2 witnesses, 1 faulty, 2 windows of 2 builds, forks, a clock 3 units ahead, 4 time units |
| `native` | the reader never halts; trades are atomic; paid lots are minted; remaining lots stay buyable | 2 accounts (symmetric), 1 multisig, 2 lots, 3 operations, 3 blocks, 1 rollback |
| `fee` | quoted fees are accepted through the grace; rates and rotations are announced; a freeze holds; the reader never halts | 3 operations, 7 blocks, 3 rates, `Delay` 2, `GuardianDelay` 3, a reset, 1 rollback |

Why these sizes are enough to be of use:

- *Sessions.* A rule about one payment needs one; the rules between payments need a predecessor and a
  successor. One crash suffices: the restart state does not depend on how many went before, and a
  session never resumes. `MaxQueue` = 1 lets one foreign write queue before or behind an awaited one,
  the only orders that matter to it. History runs and the session's faults are checked apart, since
  together they do not finish; history reads and writes only lines and ended records.
- *Spend.* Two lots and a retry is the least that can exceed a cap: a race lost on one fork and won on
  another, with a later lot dearer than the earlier. Five blocks with one transaction each, and four
  blocks with three, pass too; they only take longer. Removing one of the checks of `Admit` (lineage,
  balance, height) alone breaks nothing in this run: they cover for one another. Removing `Proven`,
  or any condition that the mutants change, does.
- *Requests.* A hazard here is one event at the wrong point of one approval with another request
  beside it. Two events of a kind the code treats separately are not explored.
- *Accounts.* Two roots make an anchor and a link; two writes make one land behind another.
- *Channel.* Two windows and two documents allow every confusion of an old one with its successor.
- *Attestation.* Recency needs a clock: 4 units exceed a lifetime and a request.
- *Tokens.* Three operations make an offer, a purchase and an end of it, or two lots; the rollback may
  fall between any two.

**Fairness.** `session_live` assumes that storage answers each write; that every read answers or runs
into its timeout, so the controller and the settle task keep stepping; that the approved duration and
the unlock deadline stop every session (`Stop`) and the retention every settle task (`SettleStops`);
that the chain finalizes and eras end; that the wallet asks its history again as long as a line is
open, and that the indexer, asked again and again, in the end answers with the final word (strong
fairness of `CatchesUp`: an indexer that lags for ever frees no account, in the code either). `keys`
assumes only that the browser delivers the page's messages and runs the page's timers; the popup, the
wallet and the request's own timeout owe nothing.

**Findings.** Both are disagreements of the code with its own comments.

- `session_height`: `syncHistory` says a final line keeps only the height of the report that made it
  final (`background.ts:853-854`). The old height is dropped only in the branch that asks a second
  time, so a payment reported in a block, reorganized out and then directly reported `expired` keeps
  the height of the block that left. Records compare that height only with lines that are
  `finalized`, so no other property is affected.
- `wallet_clear`: clearing the history keeps unresolved entries, says `background.ts:3528`. When its
  save fails it restores the list it read before; a payment approved while that save waited is not in
  it, and gates nothing any more. `wallet_requests` clears the history too, with writes of the
  clearing that succeed (`MaxClearFailures` = 0), where `SentIsKept` and `OneOpenPayment` hold.

## The proofs

Each theorem holds for every value of the constants that the modules' assumptions allow. A component's
proofs are in `<Component>_proofs`; `Installation_proofs` holds those of the two components an
installation stores apart from its sessions, `Attestation` and `AccountBook`; `FiniteSums_proofs` holds
the lemmas about sums and finite sets, which the spend, the tokens and the account book use.

**Sessions.** `MintSession_proofs` first says what each ledger operator returns: a record with the same
attempts and the same count, whatever it does to their fate. It proves `TypeCorrect`. Type correctness
alone is not inductive: `Reserve` adds attempt `Last + 1`, which stays within the bound only if the
record holds its first attempts without a gap and counted each. `Owned` says that, and who owns the
bytes: before `Release` nothing of the last attempt left; each stage of the controller implies a running
record; no stage that answers a read also waits for a write. `OwnedStep` classifies every step for later
proofs: it changes the count only by reserving, the wire only by releasing, signs only from `reserve`
without a stop, and queues at most one snapshot of the memory it leaves.

The rest of the module proves every safety and action property the session runs check. The invariant,
`Faithful`, is built in layers:

- `Remembered`, for `ReleasedIsTold` and `StopIsFinal`: every queued snapshot tells each payment that
  left; while a write is awaited, the snapshots from it on tell the payment about to leave; at most one
  write is awaited; no snapshot counts more signatures than the memory. The step that matters is
  `Release`: the awaited write landed, so storage and all that is queued tell the payment.
- `Ruling`, for `LedgerTheorem`, `VerdictsTheorem` and `GroundTheorem`: memory, storage and every queued
  snapshot keep `Rules`, the load check in the form the steps preserve (an attempt with a successor
  admits it, a doubt is marked on the record, fewer lots than approved minted before the last). `Stands`
  and `Placing` say where each stage of the controller finds the last attempt. A record the check would
  reject is replaced by an empty one, so without this nothing about restarts can be proved.
- `Durable`, for `LeftTheorem` and `CountedTheorem`: a ledger that says a payment may have left, or
  counts its signature, is wherever a restart may read once the awaited write landed.
- `Linked` and `Truthful`, for `TruthTheorem`, `FreeTheorem` and `CorrectTheorem`: a payment in a block
  stands above all payments before it; every line of the history, in memory, in storage, in the queued
  writes and in the report the history task holds over an await, says nothing the final chain denies.

`HistoryIsKept` follows from the types.

**Spend.** `MintSpend_proofs` proves `VerdictsAreTrue`, `CapsAreHeld`, `SpendLoadsHolds` and `SpendTypes`
for every tree of blocks, whatever the node says. `IInv` says:

- `Ancestry`, `Rights`, `Runs`: along a line, heights and nonces grow; a right is a place of its line
  and determines how many lots were minted; what runs is past its nonce, so a payment runs at most
  once on a line.
- `Made`: a right made by a payment of the session is of a payment that minted, one lot above its own.
  This is why a right at the payment's position, with one lot more, shows that it minted, and why a
  right used in between shows that it did not.
- `Won`, `Mints`, `Born`, `Placed`: who won on a line was born on it, and a payment admitted later
  was born above the proven positions of all before it.

When the last payment was admitted, each earlier one had a verdict on that line; on any fork where the
last one wins, all earlier payments that won did so on its line (`WonBefore`). Fewer than `MaxLots` of
them minted, which is `LotsAreCapped`. For the money, `Afforded` adds that each payment was affordable
above the sum of all that had minted when it was signed: `Bound` is the largest sum of that many
charges, so no less than theirs. Since lots and earlier verdicts never change, it stays true, and it
bounds both what any fork costs and the record's own sums, whatever is in doubt.

A sum is a fold over a finite set in the order `CHOOSE` takes it. `FiniteSums_proofs` shows, by a
smallest counterexample, that the fold has a function to build, that it is unique, and hence that a sum
grows by each member added, in any order, depends on the summands alone, and is the sum of its parts.

**Approvals.** `WalletController_proofs` proves the seven properties of `wallet_requests` for any
requests, windows, accounts, networks and events. Each layer says what a message that awaits something
still owns:

- `MutexInv`: at most one request is between its preparation and its end, and `walletBusy` is held
  exactly then, although `finish`, `invalidate` and the messages of several windows all release it.
- `SignInv`: a message that reached the verification claimed its request under review, with the quote
  on its screen, so a request is signed once, as shown. `KeyInv`: an operation that holds the key
  began in this epoch, or a lock met it.
- `QueueInv`, `EndInv`: whoever awaits a write has exactly one in the queue; what an event ended cannot
  be current again while its operation goes on, whatever it awaits.
- `RecordInv`, `KeptInv`, `OpenInv`: what left is in no refusing step and recorded as not submitted in
  no copy; it is in the list and in every snapshot on its way; two requests of one account are never
  both open. `KeptTheorem` and `OpenTheorem` assume `MaxClearFailures = 0`: that no write of "clear
  history" is refused. This is exactly what the run `wallet_clear` shows the code needs.

**Channel.** `KeysChannel_proofs` proves the refinement `OutcomesAreTrue` step by step: every request is
in one place (with the page, posted, behind the build check, with the wallet, or dropped for good), and
an answer on its way warrants what it says. For `ShownSessionRuns` the messages on their way are
ordered: documents speak in turn, each announcing itself after the last word of the one before
(`InTurn`), so the page never takes the word of one document for another's (`Heard`), and the last word
about sessions from the open document is so (`Told`).

**Attestation.** `Installation_proofs` proves `AuthorizationsNeverGoBack` from the cursor transaction
alone: no result is above the cursor (`Below`), so a call whose checkpoint was accepted stands at or
above every result there was when it was asked (`Above`). `AuthorizedIsVouched` needs `VInv`: what a
sound witness signed for a call it signed since the call was asked, and the device's clock, corrected
by the statements, is at most one request ahead of what the call compares. One sound witness is enough,
as every witness must agree.

**Account book.** `Installation_proofs` also proves the three properties of the run `accounts` for any
roots, passwords, numbers of accounts and operations, and any books an earlier version may have left.
Two writers share the book: the operation that holds `keyBusy`, and everything else (the acknowledgement
of a backup, other work's saves), whose snapshots may be queued on either side of the operation's own.
An operation that fails restores what it read before it waited. `BookInv` is what makes that harmless:

- `BooksOK`: memory, storage, every queued snapshot and the book an operation may restore are all
  `Good`: they pass `readState`, and below each account of a root are all smaller numbers. `Loads` alone
  is not inductive, as an undone operation or a late write brings an older book back. Numbering without
  a gap (`Gapless`) also says that the next derivation stays below the number of accounts.
- `ToldOK`: what was reported is in the book an operation may restore and in every queued snapshot too,
  except the empty one a reset writes. So restoring loses no account, whichever write failed.
- `OwnOK`: at most one queued write is the operation's own, and every snapshot from it on opens the same
  accounts as memory. When it lands, what is reported then is stored and stays so, whatever lands next.
- `FrameOK`: an unlock, a link or a passkey restores only the access, root and passkey it changed, on
  records that others may have acknowledged meanwhile. Records keep their root, number and position,
  and the anchor stays, so what it restores fits the book it finds (`UndoneIs`).
- `OpOK`, `SessionOK`: what was asked for still exists when it runs (the account selected, the root
  linked), and no secret is held while a first wallet is added or a wallet reset.

A lemma for each way to write the book says that it stays `Good` and which accounts it opens. The
rewriting of records (`ReplaceRoot`, `SetAccessPasskey`, the acknowledgement) is one argument, since
all keep the frame (`FrameKeeps`).

**Fees.** `FeeReader_proofs` proves the five properties of the run and `TwoFeesAtMost` for every
schedule `checkFeeRules` accepts, any chain and any number of operations, resets and rollbacks. Each
relates a block to earlier ones while the next state depends only on the last; `Chain` says what the
tip must remember of them:

- `GoodState` strengthens `CheckFeeState`: roles are apart, exactly the resets due are applied, what
  is pending is still to come, and the rates keep their distances: a pending rate is one step from the
  current one, belongs to an operator and takes effect at least `delay` after the current one did.
- `Shown`: what is pending now was pending at every block since its notice began; when it takes
  effect, that is `RateNotice` and `RoleNotice`.
- `Quoted`: the rate of a block at most `grace` ago is the current or the previous one. Since
  `grace < delay`, an overlap ends before the next promotion, and the fixed fees are gone by the first.
- `FreezeKept`: a frozen operator comes back only by a rotation posted after the freeze, one delay
  later, and a pending rate needs an operator, so it takes effect a second delay later.

A lemma for each part of the block-start step and each operation says what it keeps; `Rollback` keeps
a prefix of the chain, on which every part of `Chain` still speaks of the same blocks.

**Tokens.** `TokenReader_proofs` proves the four properties of the run `native` for any accounts,
multisigs, symbols, caps, lots, fees, and numbers of blocks, receipts and rollbacks. A rollback may
bring back any block down to the finalized one, so `IInv` says of every block, not of the tip alone,
what the reader relies on:

- `Supplied`: of each asset, what accounts hold and offers lock is what was minted. Every operation is
  shown to move a sum by what one account gains or loses; the start of a block pays many sellers at
  once, where the expired amounts are summed by seller (`SumParts`). This is why the reader's check of
  the supply never fails.
- `Named`: a symbol or a number names one asset.
- `Righted`: one lot was minted for each settlement, for that lot's fee; the right to the next is of
  this block or an earlier one, and its ticket does not exist, as a created ticket names a block below.
- `Traded`: a ticket has the terms of its native proposal, and is locked exactly while that can be
  approved. So a purchase that the chain lets through finds the tokens locked.
- `Follows`, between any two blocks of the chain: a ticket old enough for the lower one is there too,
  and a lot quoted there is unchanged unless its ticket was created since. The first makes a prepared
  purchase good on every fork from the finalized block on (the ticket it was prepared for is there);
  the second makes a settlement that runs the one use of its right.

Two parts carry the induction: `LedgerMoves`, `TradeMoves` and `UseMoves` show that a receipt leaves
its block sound and takes nothing away that earlier blocks vouch for (`Moves`), and `AppliedKeeps`
lifts that to the chain, once for all receipts.

**Assumptions.** Those the modules declare of their constants (`LedgerAssumption`, `SessionAssumption`,
`SpendAssumption`, `ControllerConstants`, `ChannelConstants`, `AttestationConstants`,
`FeeRulesAssumption`, `NoneAssumption`, `FeeReaderAssumption`, `LedgerConstants`, `ReaderConstants`,
`AccountBookConstants`, `BooksFound`), which the runs evaluate, and `MaxClearFailures = 0` where a
theorem states it. `LedgerConstants` and `ReaderConstants` say nothing of the accounts, caps and fees
but their types, that a cap is a whole number of lots, as `progressiveMintQuote` requires, and that
`None` is none of the values. `BooksFound` is about the stored book a first start finds: it passes
`readState`, as otherwise it is not loaded, and its accounts are numbered without a gap. The second is
what `nextDerivation` and a restore produce; `readState` does not check it, and from a book with a gap
`BackupsRestore` would fail at once.

**Only model-checked.** Every invariant, action property and refinement that a passing run checks is a
theorem. What stays with TLC is liveness (`SessionRests`, `AccountFrees`, `QueuedMoves`), which is out of
the prover's reach, and the two violations, which are behaviours to exhibit.

## Not modelled

- **User interface** (`ui.ts`, `mint-session-view.ts`, `sculpture.ts`, `motion.ts`): it shows the
  worker's state and owns none that a property here reads. What it sends are the messages of
  `WalletController` and `AccountBook`.
- **Validators and codecs** (`packages/provider`, `packages/chain`, `packages/sdk/src/validation.ts`,
  `packages/native/src/codec.ts`, schemas, the generated WebAssembly glue) and **storage proofs**
  (`proof/`): functions from bytes to values or a refusal, without states. The models take their
  result: a decoded message, a proven position.
- **SDK** (`packages/sdk`): parsing and a polling loop. What it is told is decided in
  `WalletController` and in the history task.
- **Page bridge** (`provider.ts`, `content.ts`, `site-session.ts`): it carries the requests that are
  `Ask` and `CancelRequest` of `WalletController`, and a stream of events.
- **Trade machine** (`packages/shared/src/trade-machine.ts`): a pure table of transitions and effects.
  Neither what executes its effects nor what orders and repeats its events is in the repository.
- **Budgets of a session**: the attestation calls of a rolling minute and the backoff of failed
  reads. They decide how long a session waits, or that it ends, which is `Quit` at any point.
- Wallet reset, endpoints and settings; several mint sessions at once; restoration of a reader from a
  checkpoint; deployment and build scripts.

The implementation is 36917 lines, of which the interface alone is 5579 and the kinds of code above
most of the rest. The map covers the parts that keep state across calls: about one line in seven, and
it does not reach one in three without modelling shape checks and layout.
