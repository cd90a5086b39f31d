---------------------------- MODULE WalletActor ----------------------------
(***************************************************************************)
(* One wallet: its row in `wallets`, its rows in `ledgers`, and the        *)
(* WalletActor activations that serve it (internal/actors/wallet.go).      *)
(*                                                                         *)
(* The handler of a debit or credit message is cut where it talks to the   *)
(* database, because that is where anything else can interleave: the       *)
(* idempotency look-up (findLedger), the load of the row (current), and    *)
(* the version-guarded write (persist).  Between them other activations,   *)
(* a crash, and out-of-band SQL may run.  The cluster keeps one activation *)
(* per wallet; Activations is a parameter so that what does not depend on  *)
(* that promise can be told from what does.                                *)
(*                                                                         *)
(* Left out: uuid syntax, purposes, currencies, timestamps and wording; a  *)
(* message that does not parse is one whose form is "malformed".           *)
(***************************************************************************)
EXTENDS Integers, Sequences

CONSTANTS Activations,        \* live instances of this wallet's grain
          Messages,           \* the debit and credit messages it may receive
          InitialRows,        \* the rows the wallet may start with
          MaxInt64,           \* largest balance a BIGINT column holds
          maxVersionRetries,  \* wallet.go:23
          MaxTouches          \* bound on out-of-band writes of the row

VARIABLES row,      \* the wallets row
          ledger,   \* the ledgers rows of this wallet, in insertion order
          wallet,   \* wallet[a]: the activation's in-memory copy of the row
          job,      \* job[a]: the message being handled and how far it is
          reply,    \* the answer given last
          opening,  \* the balance the wallet started with (history)
          touches   \* out-of-band writes so far

vars == <<row, ledger, wallet, job, reply, opening, touches>>

-----------------------------------------------------------------------------
(* Data                                                                    *)

Statuses == {"active", "suspended", "none"}  \* "none": no such row
Actions == {"debit", "credit"}
Forms == {"ok", "malformed", "misrouted"}

Definitive == {"insufficient_funds", "inactive_wallet", "wallet_not_found",
               "wallet_mismatch", "checksum_mismatch", "invalid_message"}
Transient == {"version_conflict", "internal_error"}
Codes == {"ok"} \union Definitive \union Transient

\* An int64 sum: one addition of in-range values leaves the range by at most
\* one turn.
Wrap(n) ==
    IF n > MaxInt64 THEN n - 2 * (MaxInt64 + 1)
    ELSE IF n < -MaxInt64 - 1 THEN n + 2 * (MaxInt64 + 1)
    ELSE n

Int64 == (-MaxInt64 - 1) .. MaxInt64

\* The SHA-256 is taken to be collision free: the checksum is what it hashes.
ComputeChecksum(w) == <<w.actual, w.available, w.processing, w.version>>
NoChecksum == <<>>   \* the empty string of a row that predates checksums

Checksums == {NoChecksum} \union (Int64 \X Int64 \X Int64 \X Nat)

Wallets == [actual : Int64, available : Int64, processing : Int64,
            version : Nat, checksum : Checksums, status : Statuses]

NoWallet == [actual |-> 0, available |-> 0, processing |-> 0, version |-> 0,
             checksum |-> NoChecksum, status |-> "none"]

NoMessage == [key |-> "none", action |-> "credit", amount |-> 0, form |-> "malformed"]

Idle == [pc |-> "idle", msg |-> NoMessage, attempt |-> 0]

Delta(m) == IF m.action = "debit" THEN -m.amount ELSE m.amount

Reply(m, code, initial, updated) ==
    [key |-> m.key, code |-> code, initial |-> initial, updated |-> updated]

NoReply == Reply(NoMessage, "internal_error", 0, 0)   \* tells nothing

MessageKeys == {m.key : m \in Messages}

LedgerEntries == [key : MessageKeys, action : Actions, amount : 1 .. MaxInt64,
                  initial : 0 .. MaxInt64, updated : 0 .. MaxInt64]

\* Rows as Create and the migrations leave them: balances that add up, and a
\* checksum that is right or not there yet.
Sound(w) ==
    /\ w.actual \in 0 .. MaxInt64
    /\ w.available \in 0 .. MaxInt64
    /\ w.actual = w.available + w.processing
    /\ w.checksum = NoChecksum \/ w.checksum = ComputeChecksum(w)

ASSUME BoundsAssumption ==
    /\ MaxInt64 \in Nat
    /\ maxVersionRetries \in Nat \ {0}
    /\ MaxTouches \in Nat

\* A key belongs to one operation: the service draws it with the leg.
ASSUME MessagesAssumption ==
    /\ Messages \subseteq [key : MessageKeys, action : Actions, amount : Int64, form : Forms]
    /\ \A m, n \in Messages : m.key = n.key => m = n

ASSUME RowsAssumption == \A w \in InitialRows : w \in Wallets /\ Sound(w)

LedgerRows == {ledger[i] : i \in 1 .. Len(ledger)}

AppliedKeys == {e.key : e \in LedgerRows}

-----------------------------------------------------------------------------
(* The handler                                                             *)

\* Answer without success.  The answer carries no balances.
Fail(a, code) ==
    /\ reply' = Reply(job[a].msg, code, 0, 0)
    /\ job' = [job EXCEPT ![a] = Idle]

\* The checks apply() makes on the message alone.
Precheck(m) ==
    IF m.form = "malformed" \/ m.amount <= 0 THEN "invalid_message"
    ELSE IF m.form = "misrouted" THEN "wallet_mismatch"
    ELSE "ok"

Receive(a, m) ==
    /\ job[a].pc = "idle"
    /\ \/ /\ Precheck(m) = "ok"
          /\ job' = [job EXCEPT ![a] = [pc |-> "find", msg |-> m, attempt |-> 0]]
          /\ UNCHANGED reply
       \/ /\ Precheck(m) # "ok"
          /\ reply' = Reply(m, Precheck(m), 0, 0)
          /\ UNCHANGED job
    /\ UNCHANGED <<row, ledger, wallet, opening, touches>>

\* Broken variant: the look-up is skipped, every message counts as new.
findLedgerSkipped(a) ==
    /\ job[a].pc = "find"
    /\ job' = [job EXCEPT ![a].pc = "load"]
    /\ UNCHANGED <<row, ledger, wallet, reply, opening, touches>>

\* The idempotency look-up: once per message, before the retry loop.
findLedger(a) ==
    /\ job[a].pc = "find"
    /\ \/ \E e \in LedgerRows :
            /\ e.key = job[a].msg.key
            /\ reply' = Reply(job[a].msg, "ok", e.initial, e.updated)
            /\ job' = [job EXCEPT ![a] = Idle]
       \/ /\ job[a].msg.key \notin AppliedKeys
          /\ job' = [job EXCEPT ![a].pc = "load"]
          /\ UNCHANGED reply
       \/ Fail(a, "internal_error")
    /\ UNCHANGED <<row, ledger, wallet, opening, touches>>

\* Broken variant: load() forgets the status.
LoadVerdictNoStatus(w) ==
    IF w.status = "none" THEN "wallet_not_found"
    ELSE IF w.checksum # NoChecksum /\ w.checksum # ComputeChecksum(w)
         THEN "checksum_mismatch"
    ELSE "ok"

\* What load() says of the row: a refusal, or "ok".
LoadVerdict(w) ==
    IF w.status = "none" THEN "wallet_not_found"
    ELSE IF w.status # "active" THEN "inactive_wallet"
    ELSE IF w.checksum # NoChecksum /\ w.checksum # ComputeChecksum(w)
         THEN "checksum_mismatch"
    ELSE "ok"

\* The tail of the loop body up to persist: the funds check on wallet w.
CheckFunds(a, w) ==
    IF job[a].msg.action = "debit" /\ w.available < job[a].msg.amount
    THEN Fail(a, "insufficient_funds")
    ELSE /\ job' = [job EXCEPT ![a].pc = "persist"]
         /\ UNCHANGED reply

\* current(): the copy if there is one, else the row, checked once and kept.
current(a) ==
    /\ job[a].pc = "load"
    /\ \/ /\ wallet[a].status = "active"
          /\ CheckFunds(a, wallet[a])
          /\ UNCHANGED wallet
       \/ /\ wallet[a].status = "none"
          /\ LoadVerdict(row) = "ok"
          /\ wallet' = [wallet EXCEPT ![a] = row]
          /\ CheckFunds(a, row)
       \/ /\ wallet[a].status = "none"
          /\ LoadVerdict(row) # "ok"
          /\ Fail(a, LoadVerdict(row))
          /\ UNCHANGED wallet
       \/ /\ wallet[a].status = "none"
          /\ Fail(a, "internal_error")
          /\ UNCHANGED wallet
    /\ UNCHANGED <<row, ledger, opening, touches>>

\* Broken variant: the checksum is stamped before the version moves.
NextWalletStampedEarly(w, m) ==
    LET n == [w EXCEPT !.available = Wrap(@ + Delta(m)),
                       !.actual = Wrap(@ + Delta(m))]
    IN [n EXCEPT !.checksum = ComputeChecksum(n), !.version = @ + 1]

\* The wallet persist() is about to write, from copy w.
NextWallet(w, m) ==
    LET n == [w EXCEPT !.available = Wrap(@ + Delta(m)),
                       !.actual = Wrap(@ + Delta(m)),
                       !.version = @ + 1]
    IN [n EXCEPT !.checksum = ComputeChecksum(n)]

\* Broken variant: the UPDATE is not guarded by the version.
CommitUnguarded(a) ==
    LET w == wallet[a]
        m == job[a].msg
        n == NextWallet(w, m)
    IN /\ row.status # "none"
       /\ row' = [row EXCEPT !.available = n.available, !.actual = n.actual,
                             !.version = n.version, !.checksum = n.checksum]
       /\ ledger' = Append(ledger, [key |-> m.key, action |-> m.action,
                                    amount |-> m.amount, initial |-> w.actual,
                                    updated |-> n.actual])

\* The database transaction of persist(): both rows or neither.
Commit(a) ==
    LET w == wallet[a]
        m == job[a].msg
        n == NextWallet(w, m)
    IN /\ row.status # "none"
       /\ row.version = w.version
       /\ row' = [row EXCEPT !.available = n.available, !.actual = n.actual,
                             !.version = n.version, !.checksum = n.checksum]
       /\ ledger' = Append(ledger, [key |-> m.key, action |-> m.action,
                                    amount |-> m.amount, initial |-> w.actual,
                                    updated |-> n.actual])

\* Committed and acknowledged: the copy moves on with the row.
persistCommitted(a) ==
    /\ Commit(a)
    /\ wallet' = [wallet EXCEPT ![a] = NextWallet(@, job[a].msg)]
    /\ reply' = Reply(job[a].msg, "ok", wallet[a].actual,
                      NextWallet(wallet[a], job[a].msg).actual)
    /\ job' = [job EXCEPT ![a] = Idle]

\* Broken variant: a lost acknowledgement is reported as a refusal.
persistUnacknowledgedRefused(a) ==
    /\ Commit(a)
    /\ wallet' = [wallet EXCEPT ![a] = NoWallet]
    /\ Fail(a, "insufficient_funds")

\* Committed, but the acknowledgement was lost: the caller sees an error.
persistUnacknowledged(a) ==
    /\ Commit(a)
    /\ wallet' = [wallet EXCEPT ![a] = NoWallet]
    /\ Fail(a, "internal_error")

\* Zero rows affected: drop the copy, and retry while attempts are left.
persistConflict(a) ==
    /\ row.status = "none" \/ row.version # wallet[a].version
    /\ wallet' = [wallet EXCEPT ![a] = NoWallet]
    /\ \/ /\ job[a].attempt + 1 < maxVersionRetries
          /\ job' = [job EXCEPT ![a].pc = "load", ![a].attempt = @ + 1]
          /\ UNCHANGED reply
       \/ /\ job[a].attempt + 1 >= maxVersionRetries
          /\ Fail(a, "version_conflict")
    /\ UNCHANGED <<row, ledger>>

\* Broken variant: the copy moves on although nothing was written.
persistFailedKeepsCopy(a) ==
    /\ wallet' = [wallet EXCEPT ![a] = NextWallet(@, job[a].msg)]
    /\ Fail(a, "internal_error")
    /\ UNCHANGED <<row, ledger>>

\* Any other error, rolled back.
persistFailed(a) ==
    /\ wallet' = [wallet EXCEPT ![a] = NoWallet]
    /\ Fail(a, "internal_error")
    /\ UNCHANGED <<row, ledger>>

\* Broken variant: the result of the addition is not looked at.
GoesNegativeUnchecked(w) == FALSE

GoesNegative(w) == w.available < 0 \/ w.actual < 0

persist(a) ==
    /\ job[a].pc = "persist"
    /\ \/ /\ GoesNegative(NextWallet(wallet[a], job[a].msg))
          /\ wallet' = [wallet EXCEPT ![a] = NoWallet]
          /\ Fail(a, "insufficient_funds")
          /\ UNCHANGED <<row, ledger>>
       \/ /\ ~GoesNegative(NextWallet(wallet[a], job[a].msg))
          /\ \/ persistCommitted(a)
             \/ persistUnacknowledged(a)
             \/ persistConflict(a)
             \/ persistFailed(a)
    /\ UNCHANGED <<opening, touches>>

-----------------------------------------------------------------------------
(* The environment                                                         *)

\* The activation dies with what it had in memory; the message dies with it.
Crash(a) ==
    /\ wallet' = [wallet EXCEPT ![a] = NoWallet]
    /\ job' = [job EXCEPT ![a] = Idle]
    /\ UNCHANGED <<row, ledger, reply, opening, touches>>

\* Operators change a wallet's status by SQL: no code in the service does.
SetStatus(s) ==
    /\ row.status # "none"
    /\ row' = [row EXCEPT !.status = s]
    /\ UNCHANGED <<ledger, wallet, job, reply, opening, touches>>

\* An out-of-band write that keeps the row's books: it moves no money, takes
\* a new version and stamps the checksum, as maintenance SQL should.
Touch ==
    /\ touches < MaxTouches
    /\ row.status # "none"
    /\ LET t == [row EXCEPT !.version = @ + 1]
       IN row' = [t EXCEPT !.checksum = ComputeChecksum(t)]
    /\ touches' = touches + 1
    /\ UNCHANGED <<ledger, wallet, job, reply, opening>>

-----------------------------------------------------------------------------

Init ==
    /\ row \in InitialRows
    /\ ledger = <<>>
    /\ wallet = [a \in Activations |-> NoWallet]
    /\ job = [a \in Activations |-> Idle]
    /\ reply = NoReply
    /\ opening = row.actual
    /\ touches = 0

Handle(a) == findLedger(a) \/ current(a) \/ persist(a)

Next ==
    \/ \E a \in Activations :
        \/ \E m \in Messages : Receive(a, m)
        \/ Handle(a)
        \/ Crash(a)
    \/ \E s \in {"active", "suspended"} : SetStatus(s)
    \/ Touch

Spec == Init /\ [][Next]_vars

-----------------------------------------------------------------------------
(* Properties                                                              *)

\* Every variable stays in its type; in particular a loaded copy is always of
\* an active wallet, so the status test current() makes on a kept copy
\* (wallet.go:155) has nothing to catch.
TypeOK ==
    /\ row \in Wallets
    /\ ledger \in Seq(LedgerEntries)
    /\ wallet \in [Activations -> Wallets]
    /\ \A a \in Activations : wallet[a].status \in {"active", "none"}
    /\ job \in [Activations -> [pc : {"idle", "find", "load", "persist"},
                               msg : Messages \union {NoMessage},
                               attempt : 0 .. maxVersionRetries]]
    /\ reply \in [key : MessageKeys \union {"none"}, code : Codes,
                 initial : 0 .. MaxInt64, updated : 0 .. MaxInt64]
    /\ opening \in 0 .. MaxInt64
    /\ touches \in 0 .. MaxTouches

\* The ledger is a chain: each row starts where the one before it ended, the
\* first at the opening balance, and the wallet's balance is where the last
\* one ends.  This is what a lost update would break: two writers that read
\* the same version (persist, wallet.go:229-241).
LedgerChains ==
    /\ \A i \in 1 .. Len(ledger) :
        ledger[i].initial = IF i = 1 THEN opening ELSE ledger[i - 1].updated
    /\ row.actual = IF ledger = <<>> THEN opening ELSE ledger[Len(ledger)].updated

\* Balances never go below zero nor past the int64 range, available and
\* processing always add up to actual (models/wallet.go:21), and each ledger
\* row records exactly its amount: an addition that wraps is never written
\* (persist, wallet.go:223).
BooksBalance ==
    /\ row.actual \in 0 .. MaxInt64
    /\ row.available \in 0 .. MaxInt64
    /\ row.actual = row.available + row.processing
    /\ \A i \in 1 .. Len(ledger) :
        ledger[i].updated = ledger[i].initial + Delta(ledger[i])

\* The service never writes a row its own integrity check would refuse
\* (ComputeChecksum in persist, wallet.go:221, against load, wallet.go:185).
ChecksumMatches == row.checksum = NoChecksum \/ row.checksum = ComputeChecksum(row)

\* A copy is never ahead of the row, and a copy of the row's version holds the
\* row's money: the version guard of persist() is enough to make the balances
\* it computed from the copy the right ones.
CopyTracksVersion ==
    \A a \in Activations :
        wallet[a].status = "active" =>
            /\ wallet[a].version <= row.version
            /\ wallet[a].version = row.version =>
                /\ wallet[a].actual = row.actual
                /\ wallet[a].available = row.available
                /\ wallet[a].processing = row.processing

\* No idempotency key is applied twice, whatever is redelivered, lost after
\* its commit, or interrupted (apply, wallet.go:118-124).
AppliedOnce ==
    \A i, j \in 1 .. Len(ledger) : ledger[i].key = ledger[j].key => i = j

\* An activation past the look-up holds a key that is not in the ledger: with
\* one activation nothing can apply it in between.
PendingNotApplied ==
    \A a \in Activations :
        job[a].pc \in {"load", "persist"} => job[a].msg.key \notin AppliedKeys

\* The wallet is an Account: its answers that settle a leg are the account's
\* answers, the others tell the orchestrator nothing.
Acc == INSTANCE Account WITH
    Keys <- MessageKeys,
    Effect <- [k \in MessageKeys |->
                  Delta(CHOOSE m \in Messages : m.key = k)],
    balance <- row.actual,
    applied <- {[key |-> e.key, initial |-> e.initial, updated |-> e.updated] :
                   e \in LedgerRows},
    told <- IF reply.code \in Transient THEN <<>>
            ELSE <<[key |-> reply.key, ok |-> reply.code = "ok",
                    initial |-> reply.initial, updated |-> reply.updated]>>

\* WalletActor implements Account: at most one effect per key, never below
\* zero, and a settled answer is true when it is given.
AccountSpec == Acc!Spec
=============================================================================
