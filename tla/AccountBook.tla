----------------------------- MODULE AccountBook -----------------------------
(* The wallets of an installation (apps/extension: accounts.ts, linked-wallets.ts, account-backup.ts,
   passkey-vault.ts and the handlers of background.ts that change them).  One root, the anchor, owns
   the password and the passkey of the installation; every other root is linked to it, and each root
   has accounts derived from it.  A handler holds `keyBusy` from its first check to its answer and
   waits in between, for cryptography and for its save; the lock, the acknowledgement of a backup and
   the saves of other work do not wait for it.

   Ciphers, names and site permissions are left out: a vault is its root, its version and the
   password that opens it, a link is the root it opens, a passkey the root it was made for. *)
EXTENDS Integers, Sequences, FiniteSets, FiniteSetsExt

CONSTANTS
  Roots, Passwords,
  NoRoot,       \* no root
  Installed,    \* the books an earlier version of the wallet may have left
  MaxAccounts,  \* MAX_ACCOUNTS
  MaxQueue,     \* bound: writes under way at once
  MaxKeyOps     \* bound: operations begun

ASSUME AccountBookConstants == NoRoot \notin Roots /\ MaxAccounts \in Nat \ {0}

VARIABLES
  book,     \* `state`: its records, the position of the active one, its access
  disk,     \* the stored wallet
  queue,    \* the snapshots save() has queued; one of them may be the running operation's
  session,  \* whether the secret of a root is held, and accessReady
  op,       \* the operation that holds keyBusy; `live` while the epoch it began in lasts
  told,     \* the accounts a handler has reported, with what opens them
  ops       \* bound
bookVars == <<book, disk, queue, session, op, told, ops>>

NoAccess == [owner |-> NoRoot, wallets |-> {}]
NoBook   == [records |-> {}, active |-> 0, access |-> NoAccess]
Vault(root, version, pw) == [root |-> root, version |-> version, password |-> pw]
Record(vault, index, pos, backed, passkey) ==
  [vault |-> vault, index |-> index, pos |-> pos, backed |-> backed, passkey |-> passkey]

Identity(r) == <<r.vault.root, r.index>>
Accounts(b) == {Identity(r) : r \in b.records}
Active(b)   == CHOOSE r \in b.records : r.pos = b.active
RootRecords(b) == {r \in b.records : r.index = 0}
Of(b, root) == {r \in b.records : r.vault.root = root}

\* accessRecord(): the root that owns access, before there is one the oldest.
AccessRecord(b) ==
  IF b.access # NoAccess THEN CHOOSE r \in RootRecords(b) : r.vault.root = b.access.owner
  ELSE CHOOSE r \in RootRecords(b) : \A s \in RootRecords(b) : r.pos <= s.pos
Anchor(b) == AccessRecord(b).vault.root
Opens(b, root) == root = Anchor(b) \/ root \in b.access.wallets
UnlinkedWallets(b) == {r \in RootRecords(b) : ~Opens(b, r.vault.root)}

Locked == [secret |-> NoRoot, ready |-> FALSE]
Unlocked   == session.secret # NoRoot
IsUnlocked == Unlocked /\ session.ready /\ UnlinkedWallets(book) = {}
-----------------------------------------------------------------------------
(* The book *)

NextPos(b) == Max({0} \cup {r.pos : r \in b.records}) + 1
\* Mutant: counts the accounts of every wallet.
NextDerivation_Count(b) == Cardinality(b.records)
NextDerivation(b) == Max({r.index : r \in Of(b, Active(b).vault.root)}) + 1

Select(b, account) == [b EXCEPT !.active = (CHOOSE r \in b.records : Identity(r) = account).pos]
\* The first account of a root, or the accounts of a backup, `selected` the one it showed.
WalletRecords(b, w) ==
  {Record(w.vault, i, NextPos(b) + i, ~w.created, NoRoot) : i \in 0..(w.size - 1)}
AddWallet(b, w) ==
  [b EXCEPT !.records = @ \cup WalletRecords(b, w), !.active = NextPos(b) + w.selected]
AddDerived(b) ==
  LET from == Active(b)
  IN [b EXCEPT !.records = @ \cup {Record(from.vault, NextDerivation(b), NextPos(b), TRUE, from.passkey)},
               !.active = NextPos(b)]

\* A passkey opens the installation: every account of the anchor has it.
SetAccessPasskey(b, passkey) ==
  [b EXCEPT !.records = {IF r.vault.root = Anchor(b) THEN [r EXCEPT !.passkey = passkey] ELSE r : r \in @}]
\* Mutant: only the active account's.
ReplaceRoot_Active(b, vault) ==
  [b EXCEPT !.records = {IF r.vault.root = vault.root /\ r.pos = b.active
                         THEN [r EXCEPT !.vault = vault] ELSE r : r \in @}]
ReplaceRoot(b, vault) ==
  [b EXCEPT !.records = {IF r.vault.root = vault.root THEN [r EXCEPT !.vault = vault] ELSE r : r \in @}]

\* What readState() refuses to load: validateAccounts(), validatePasskey() and the checks on access.
Loads(b) ==
  /\ Cardinality(b.records) <= MaxAccounts
  /\ b.records # {} => \E r \in b.records : r.pos = b.active
  /\ \A r, s \in b.records : Identity(r) = Identity(s) \/ r.pos = s.pos => r = s
  /\ \A r \in b.records :
       /\ r.index < MaxAccounts
       /\ r.index > 0 => \E s \in RootRecords(b) : s.vault = r.vault
       /\ r.passkey \in {NoRoot, r.vault.root}
  /\ b.access # NoAccess =>
       LET roots == {r.vault.root : r \in RootRecords(b)}
       IN b.access.owner \in roots /\ b.access.wallets \subseteq roots \ {b.access.owner}

\* The accounts of each root are numbered from 0, so that its backup restores them all.
Restores(b) ==
  \A r \in RootRecords(b) :
    {s.index : s \in Of(b, r.vault.root)} = 0..(Cardinality(Of(b, r.vault.root)) - 1)

Vaults  == [root : Roots, version : {1, 2}, password : Passwords]
Records == [vault : Vaults, index : Nat, pos : Nat, backed : BOOLEAN, passkey : Roots \cup {NoRoot}]
Books   == [records : SUBSET Records, active : Nat,
            access : [owner : Roots \cup {NoRoot}, wallets : SUBSET Roots]]
\* An earlier version left what readState() loads, and numbered accounts as this one does.
ASSUME BooksFound ==
  \A b \in Installed :
    b \in Books /\ IsFiniteSet(b.records) /\ b.records # {} /\ Loads(b) /\ Restores(b)
-----------------------------------------------------------------------------
(* Saves: each takes a snapshot and waits for its turn *)

NoOp == [kind |-> "none", with |-> NoRoot, stage |-> "none", live |-> FALSE, prev |-> NoBook]
Busy == op.kind # "none"
Resetting == op.kind = "reset"
Saves(b, own) == queue' = Append(queue, [book |-> b, own |-> own])
OtherSave ==
  /\ ~Resetting /\ Len(queue) < MaxQueue /\ book # NoBook
  /\ Saves(book, FALSE)
  /\ UNCHANGED <<book, disk, session, op, told, ops>>

\* A handler checks and begins; `with` is what it was asked for, `prev` the book it may have to restore.
Begins(kind, with) ==
  /\ ~Busy /\ ops < MaxKeyOps /\ ops' = ops + 1
  /\ op' = [kind |-> kind, with |-> with, stage |-> "work", live |-> TRUE, prev |-> book]
At(kind, stage) == op.kind = kind /\ op.stage = stage
\* Its work done, it changes the book and saves it.
Changes(b) ==
  /\ book' = b /\ Saves(b, TRUE)
  /\ op' = [op EXCEPT !.stage = "saving"]
OpEnds == op' = NoOp

\* Mutant: a failed switch leaves the other accounts as they are.
Undone_ActiveOnly ==
  IF op.kind = "select"
  THEN [book EXCEPT !.active = op.prev.active,
                    !.records = {r \in @ : Identity(r) # op.with} \cup {Active(op.prev)}]
  ELSE op.prev
\* What a handler restores when its save fails: one that switches, the accounts it found; another,
\* the access, root and passkey.
Undone ==
  IF op.kind \in {"select", "derive", "add"} THEN op.prev
  ELSE LET auth == AccessRecord(op.prev)
       IN [SetAccessPasskey(ReplaceRoot(book, auth.vault), auth.passkey) EXCEPT !.access = op.prev.access]
-----------------------------------------------------------------------------
(* Accounts *)

SelectAccount(account) ==
  /\ IsUnlocked /\ account \in Accounts(book) \ {Identity(Active(book))}
  /\ Begins("select", account)
  /\ UNCHANGED <<book, disk, queue, session, told>>
Derive ==
  /\ IsUnlocked /\ Active(book).backed /\ Cardinality(book.records) < MaxAccounts
  /\ Begins("derive", NoRoot)
  /\ UNCHANGED <<book, disk, queue, session, told>>
\* A switch moves the epoch, as a lock does, and keeps the secret.
Switches ==
  /\ At("select", "work") \/ At("derive", "work")
  /\ IsUnlocked /\ op.live
  /\ IF op.kind = "select" THEN Changes(Select(book, op.with))
     ELSE NextDerivation(book) < MaxAccounts /\ Changes(AddDerived(book))
  /\ UNCHANGED <<disk, session, told, ops>>

\* create, import and restore: the first wallet, or another of an unlocked installation.  A backup
\* holds the first `size` accounts of its root.
Add(root, pw, created, size, selected) ==
  /\ IF book = NoBook THEN TRUE ELSE IsUnlocked /\ Active(book).backed
  /\ Cardinality(book.records) < MaxAccounts
  /\ created => size = 1
  /\ Begins("add", [vault |-> Vault(root, 2, pw), created |-> created, size |-> size, selected |-> selected])
  /\ UNCHANGED <<book, disk, queue, session, told>>
Adds ==
  /\ At("add", "work") /\ op.live
  /\ LET w      == op.with
         root   == w.vault.root
         first  == book = NoBook
         access == IF first THEN [owner |-> root, wallets |-> {}]
                   ELSE [owner |-> Anchor(book), wallets |-> book.access.wallets \cup {root}]
     IN /\ Of(book, root) = {} /\ Cardinality(book.records) + w.size <= MaxAccounts
        /\ first \/ Unlocked
        /\ session' = IF first THEN Locked ELSE session
        /\ Changes(AddWallet([book EXCEPT !.access = access], w))
  /\ UNCHANGED <<disk, told, ops>>

\* ack: it does not wait for the operation that holds keyBusy.
Ack ==
  /\ book # NoBook /\ IsUnlocked /\ ~Active(book).backed /\ Len(queue) < MaxQueue
  /\ LET b == [book EXCEPT !.records = {IF r.pos = book.active THEN [r EXCEPT !.backed = TRUE] ELSE r : r \in @}]
     IN book' = b /\ Saves(b, FALSE)
  /\ UNCHANGED <<disk, session, op, told, ops>>
-----------------------------------------------------------------------------
(* The password and the passkey *)

\* An installation of several unlinked roots proves each password in turn, once unlocked.
Unlock(pw) ==
  /\ book # NoBook
  /\ IF Unlocked /\ UnlinkedWallets(book) # {}
     THEN \E r \in UnlinkedWallets(book) :
            /\ \A s \in UnlinkedWallets(book) : r.pos <= s.pos
            /\ r.vault.password = pw /\ Begins("link", r.vault.root)
     ELSE AccessRecord(book).vault.password = pw /\ Begins("unlock", NoRoot)
  /\ UNCHANGED <<book, disk, queue, session, told>>
Links ==
  /\ At("link", "work") /\ op.live /\ Unlocked
  /\ Changes([book EXCEPT !.access = [owner |-> Anchor(book), wallets |-> @.wallets \cup {op.with}]])
  /\ UNCHANGED <<disk, session, told, ops>>

\* The roots the password opens too are linked with it, and an old vault is encrypted again.
Upgraded(b) ==
  LET auth == AccessRecord(b).vault
      same == {r \in UnlinkedWallets(b) : r.vault.password = auth.password}
  IN ReplaceRoot([b EXCEPT !.access = [owner |-> auth.root,
                                       wallets |-> @.wallets \cup {r.vault.root : r \in same}]],
                 [auth EXCEPT !.version = 2])
Upgrades ==
  /\ At("unlock", "work") /\ op.live
  /\ IF UnlinkedWallets(Upgraded(book)) = {}
     THEN book' = Upgraded(book) /\ op' = [op EXCEPT !.stage = "verify"] /\ UNCHANGED queue
     ELSE Changes(Upgraded(book))
  /\ UNCHANGED <<disk, session, told, ops>>
Verifies ==
  /\ At("unlock", "verify") /\ Changes(book)
  /\ UNCHANGED <<disk, session, told, ops>>

PasskeyUnlock ==
  /\ book # NoBook /\ AccessRecord(book).passkey # NoRoot
  /\ Begins("passkey", NoRoot)
  /\ UNCHANGED <<book, disk, queue, session, told>>
\* installUnlock(): refused when a lock came between.
Installs == IF op.live THEN session' = [secret |-> Anchor(book), ready |-> UnlinkedWallets(book) = {}]
            ELSE UNCHANGED session
PasskeyOpens ==
  /\ At("passkey", "work") /\ Installs /\ OpEnds
  /\ UNCHANGED <<book, disk, queue, told, ops>>
SetPasskey(pw, enroll) ==
  /\ book # NoBook /\ IsUnlocked /\ AccessRecord(book).vault.password = pw
  /\ enroll => Active(book).backed /\ AccessRecord(book).passkey = NoRoot
  /\ Begins("passkey-set", IF enroll THEN Anchor(book) ELSE NoRoot)
  /\ UNCHANGED <<book, disk, queue, session, told>>
SetsPasskey ==
  /\ At("passkey-set", "work") /\ IsUnlocked /\ op.live
  /\ Changes(SetAccessPasskey(book, op.with))
  /\ UNCHANGED <<disk, session, told, ops>>

\* The last root linked, the secret opens all: the unlock is complete.
Completes ==
  /\ At("link", "confirm") /\ OpEnds
  /\ session' = IF op.live THEN [session EXCEPT !.ready = TRUE] ELSE session
  /\ told' = told \cup {a \in Accounts(book) : op.live}
  /\ UNCHANGED <<book, disk, queue, ops>>
-----------------------------------------------------------------------------
(* Ends, writes, locks and restarts *)

\* An error of the work; one of a verification after the change undoes it, or locks.
WorkFails ==
  /\ Busy /\ op.stage \in {"work", "verify", "confirm"} /\ ~Resetting /\ OpEnds
  /\ book' = IF op.stage = "verify" THEN Undone ELSE book
  /\ session' = IF op.stage = "confirm" THEN Locked ELSE session
  /\ UNCHANGED <<disk, queue, told, ops>>

Reported(b) == {a \in Accounts(b) : Opens(b, a[1])}
\* What the handler does once its own write ended.
Answers(ok) ==
  CASE ~ok -> OpEnds /\ book' = (IF Resetting THEN book ELSE Undone) /\ UNCHANGED <<session, told>>
    [] ok /\ Resetting -> OpEnds /\ book' = NoBook /\ told' = {} /\ UNCHANGED session
    [] ok /\ op.kind = "link" ->
         /\ UNCHANGED <<book, session>>
         /\ IF op.live /\ UnlinkedWallets(book) = {}
            THEN op' = [op EXCEPT !.stage = "confirm"] /\ UNCHANGED told
            ELSE OpEnds /\ told' = IF op.live THEN told \cup Reported(book) ELSE told
    [] ok /\ (op.kind = "unlock" \/ (op.kind = "add" /\ op.prev = NoBook)) ->
         /\ Installs /\ OpEnds /\ UNCHANGED book
         /\ told' = IF op.live THEN told \cup Reported(book) ELSE told
    [] OTHER -> OpEnds /\ told' = told \cup Reported(book) /\ UNCHANGED <<book, session>>
WriteEnds(ok) ==
  /\ queue # <<>> /\ queue' = Tail(queue)
  /\ disk' = IF ok THEN Head(queue).book ELSE disk
  /\ IF Head(queue).own THEN Answers(ok) ELSE UNCHANGED <<book, op, session, told>>
  /\ UNCHANGED ops

\* The lock, or the end of the unlock's time.
LockNow == session' = Locked /\ op' = IF Busy THEN [op EXCEPT !.live = FALSE] ELSE op
Lock ==
  /\ Unlocked \/ (Busy /\ op.live)
  /\ LockNow
  /\ UNCHANGED <<book, disk, queue, told, ops>>

\* wallet-reset: of one locked wallet; it waits for the writes under way, and none begins meanwhile.
ResetBegins ==
  /\ book # NoBook /\ ~IsUnlocked /\ Cardinality(book.records) = 1
  /\ Begins("reset", NoRoot) /\ session' = Locked
  /\ UNCHANGED <<book, disk, queue, told>>
ResetWrites ==
  /\ At("reset", "work") /\ queue = <<>>
  /\ Saves(NoBook, TRUE) /\ op' = [op EXCEPT !.stage = "saving"]
  /\ UNCHANGED <<book, disk, session, told, ops>>

\* The service worker ends and starts again; the write under way may have reached the disk.
Restart ==
  \E landed \in BOOLEAN :
    /\ landed => queue # <<>>
    /\ LET b == IF landed THEN Head(queue).book ELSE disk
       IN disk' = b /\ book' = b /\ told' = IF b = NoBook THEN {} ELSE told
    /\ queue' = <<>> /\ session' = Locked /\ op' = NoOp
    /\ UNCHANGED ops

BookInit ==
  /\ book \in Installed \cup {NoBook} /\ disk = book
  /\ queue = <<>> /\ session = Locked /\ op = NoOp /\ told = {} /\ ops = 0
BookNext ==
  \/ \E a \in Accounts(book) : SelectAccount(a)
  \/ Derive \/ Switches \/ Adds \/ Ack
  \/ \E root \in Roots, pw \in Passwords, created \in BOOLEAN, size \in 1..MaxAccounts :
       \E selected \in 0..(size - 1) : Add(root, pw, created, size, selected)
  \/ \E pw \in Passwords : Unlock(pw) \/ \E enroll \in BOOLEAN : SetPasskey(pw, enroll)
  \/ Links \/ Upgrades \/ Verifies \/ PasskeyUnlock \/ PasskeyOpens \/ SetsPasskey \/ Completes
  \/ WorkFails \/ (\E ok \in BOOLEAN : WriteEnds(ok)) \/ OtherSave \/ Lock
  \/ ResetBegins \/ ResetWrites \/ Restart
BookSpec == BookInit /\ [][BookNext]_bookVars
-----------------------------------------------------------------------------
(* Properties *)

\* The wallet a restart finds always loads, and so would the one in memory: readState() refuses
\* another whole (background.ts:376).
BookLoads == Loads(disk) /\ Loads(book)

\* An account a handler reported stays, in memory and stored, with the link that opens it, whatever
\* fails or restarts later, until a reset archives it (background.ts:2916, 3097, 3186).
AddedStay ==
  \A a \in told : \A b \in {book, disk} : a \in Accounts(b) /\ Opens(b, a[1])

\* The backup of any wallet, made at any time, is one that restores (account-backup.ts:53).
BackupsRestore == \A b \in {book, disk} : Restores(b)
=============================================================================
