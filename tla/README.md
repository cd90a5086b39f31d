# TLA+ specifications of the distributed wallet service

These modules model the engine of the wallet service: the wallet actors that
change balances, the transaction actors that drive multi-leg transfers, the
recovery that picks up interrupted ones, the service that accepts and reverses
transactions, the read cache in front of the database, the balances a
transaction reports, and the life of a replica's process with its partitions and
callbacks. TLC checks them on small instances; TLAPS proves, for instances of
every size, the safety of the wallet, the transaction, the read cache and the
process, and that the first two implement their abstract specifications.
`PROJECT.json` maps every definition to the lines it models.

## The system and its modules

| Part | Source (under `src/`) | Module |
| --- | --- | --- |
| WalletActor: one activation per wallet, applies one leg at a time | `internal/actors/wallet.go` | `WalletActor`, abstract `Account` |
| TransactionActor: debits, then credits, or reversals; writes the outcome | `internal/actors/transaction.go` | `TransactionActor`, abstract `AtomicTransfer` |
| Dead letters, recovery manager, sweeper | `internal/actors/dead_letter.go`, `internal/recovery/recovery.go` | `Recovery` |
| The above composed, with a network and wallets that fail | | `TransactionSystem` |
| Initiating and reversing transactions | `internal/services/transaction.go`, `internal/types/money.go` | `TransactionService` |
| Balances of a transaction, from wallet replies and from the ledger | `movements()` in `internal/actors/transaction.go`, `internal/services/balances.go` | `Movements`, on top of `TransactionSystem` |
| Redis read cache, the reads that fill it, the writes that invalidate it | `dpk/cache`, `internal/services`, `internal/actors` | `ReadCache` |
| Callback delivery | `internal/webhook/webhook.go` | `Webhook` |
| Boot, serving, shutdown, partition maintenance | `cmd`, `internal/db/partitions.go`, `internal/cluster/cluster.go` | `Server`, on top of `Webhook` |
| Proofs about the wallet | | `WalletActorProofs` |
| Proofs about the transaction, the last on top of the others | | `HandlerProofs`, `TransactionProofs`, `PlanProofs`, `DeliveryProofs`, `AtomicityProofs` |
| Proofs about the cache and the process | | `ReadCacheProofs`, `ServerProofs` |

The modules named `MC...` only give constants their values and bounds. Operators
named `...Unguarded`, `...Skipped` and so on, commented "Broken variant", are
deliberate bugs; each must make TLC violate the property `PROJECT.json` pairs it
with.

### WalletActor

`row`, `ledger` are the wallet's rows in PostgreSQL; `wallet[a]`, `job[a]` are
the in-memory copy and the message in hand of activation `a`; `reply` is what
senders were told. `Receive`, `current`, `load`, `findLedger`, `persist` and the
retry loop of `apply` are separate actions, because another activation, a crash
or an SQL statement can come between any two database calls. The commit may
succeed with its acknowledgement lost (`persistUnacknowledged`). Balances are
int64: additions wrap at `MaxInt64`. The version and the checksum are modelled,
the hash only as an injective function of what it covers.

`Account` is the promise: each key takes effect at most once, atomically, and
every acknowledged application has taken effect.

### TransactionActor, Recovery, TransactionSystem

One transaction. `row` is its row (status, plan with reversal keys, whether it
is flagged for reconciliation, whether `updated_at` has gone stale); `ledger` the
keys that wallets have applied; `actor` the current activation; `inbox[l]` the
operations on their way to leg `l`'s wallet; `mail` the messages to the
orchestrator; `mgr[r]` each replica's recovery goroutine; `callbacks` the
outcomes announced. A handler is one action with everything it does, except
that `finalize` is split at its retried database transaction and `recover()` at
its statements. Faults are charged to a budget, `MaxFaults`, which bounds each
kind, and the number of steps that have any fault (`any`):

| Kind | Fault |
| --- | --- |
| `crash` | the orchestrator's node, or the API node in `dispatch`, dies |
| `db` | a statement fails, or commits without acknowledgement |
| `place` | the cluster cannot place a grain |
| `again` | a wallet answers with a transient error |
| `dead` | an operation is undeliverable and dead-lettered |
| `lost`, `dup` | an operation vanishes, or is delivered twice |
| `plan` | the write of the reversal keys fails |

Three switches state assumptions that the passing runs rely on (`stale_plan`
lifts the second and the third, `transfer_give_up` the third, and the limits
below tell what the first hides):

* `Reordering`: operations of a lost orchestrator may arrive after those of the
  one that took over. Off: a wallet's inbox is a queue.
* `StalePlans`: `recover()` may send a plan that has changed since it read it.
  Off: it sends the stored one.
* `LiveRedrive`: the sweeper may act on a transaction whose orchestrator is
  alive and ticking. Off: a live orchestrator's heartbeat keeps `updated_at`
  fresh, which is what the two-minute `StaleAfter` is for.

`MaxAttempts = 0` stands for a recovery that never gives up. (In the code zero
means the default, five; attempts are only counted towards giving up, so the
runs either cannot reach the limit or set it to one.)

`AtomicTransfer` is the promise: a transaction ends once, in success with every
leg moved, in failure with none, or flagged; and after a success or an unflagged
failure nothing moves again.

### TransactionService

Callers initiate requests (`ValidateTransactionRequest` with conversion to minor
units, `ValidateWallets`, `dispatch`) and reverse finished transactions. The
statements of `Reverse` are separate actions: read the original, look for a
reversal, read ledger and balances, insert. The orchestrator is reduced to all
debits, then all credits or an undo, or a flagged failure. `markReversed`
happens in the step that writes a reversal's success, as in the code's database
transaction.

### Movements

The same steps of the same transaction, with what `TransactionSystem` leaves
out: `book` is the ledger in the order of its ids with the balances of each row,
`answers[w]` the replies of a wallet in the order it gave them, `observed` the
replies the activation numbered. `movements` folds those, `walletBalances` folds
the ledger rows, and `fromLedger` is the test by which the callback uses the
latter. `replayed` only records that some wallet answered from an old row.

### ReadCache

`rows[e]` is the sequence of the versions of a transaction, a wallet or a
wallet's metadata, each with its age; `cache[k]` the Redis key with its
remaining life; `caller[c]` a request between its database read and its last
`Set`; `actor[a]` an actor between its commit and its `Delete`; `enabled[n]`
whether replica `n` reached Redis when it booted. `newest[o]` is the payment that `findByOrderID` takes for `order_id` `o`, the
last created: payments may share an `order_id`, and then they share its key.
Every cache call may fail to reach Redis, which the code only logs. An outdated
entry's `why` is history: `late`, it was written by a reader that loaded the row
before it changed; `unsent`, a `Delete` of it was not made or did not reach
Redis; `unnamed`, `alreadyFinal`, which knows the original of a reversal by RRN
and order, did not name it. Time is unbounded, because only ages and remaining
lives up to the longest TTL matter. The one assumption on time is `MaxLoad`, the
longest a request dwells between its read and its last `Set`, or an actor
between its commit and its `Delete`.

### Server and Webhook

`phase[n]` is how far `main` and `Run` have come on replica `n`; `requests`
counts what each server has in flight; `cause[n]` tells which case of the
`select` ended serving; `expired[n]` that HTTP's `Shutdown` returned at its
deadline. `partitions` are named by how many months ahead they are, so that time
is unbounded; `due[n]` is the daily ticker and `sinceOk` the days since
`EnsurePartitions` last succeeded, at most `MaxOutage`. A callback is a goroutine
on a replica: queued for a build slot, building, posting, sleeping, and ended by
an acknowledgement, by its last attempt, by a payload that cannot be encoded, or
by the end of its process.

## What is checked

Passing runs:

| Run | Instance | Shows |
| --- | --- | --- |
| `wallet_single` | one activation, valid, malformed and repeated messages, crash, lost acknowledgement | refines `Account`; no key is applied twice |
| `wallet_split` | two activations of one wallet at once | ledger is a chain, books balance, checksum right, version guard sufficient |
| `transfer_faults` | 1 debit, 1 credit; `crash`, `db`, `place`, `again`, `dead`, each once, in up to three steps; fair | refines `AtomicTransfer`; reversal keys are stored before use; exactly one copy of each awaited leg is under way; resumed reversals stay reversals; callbacks tell the truth; every dispatched transaction is completed |
| `transfer_legs` | 2 debits of one wallet, 1 credit; one of the same faults | credits only after all debits; success and failure mean what they say, leg for leg; the balances in the callback are the ledger's |
| `transfer_give_up` | `dup`, `db`; recovery gives up after one attempt on a live orchestrator | outcomes are never overwritten; a success is complete |
| `service` | 4 wallets, 2 currencies, 3 transactions, one caller | money is conserved per currency; balances are explained by the payments that stand; a transaction is undone at most once |
| `read_cache` | 2 replicas, 1 request at a time, a payment with its reversal or with a second payment of its `order_id`, or a wallet; restarts, unreached calls, lost acknowledgements | a superseded version is served for less than `MaxLoad` plus its TTL; it is about to be deleted, late, unsent, or the id key of a reversed payment; a hit is of a row that has the key looked up, never an unfinished transaction, and the row the database finds unless its `order_id` was repeated |
| `server` | 1 replica that restarts, 2 callbacks for 1 build slot, 3 attempts, months of 2 days, an outage of up to 4 days; fair | the current month has partitions whenever the replica is in the cluster; accepted requests are answered before it leaves; a shutdown ends unless a gRPC request in flight holds it for ever; no more builds run than there are slots; every callback ends |

Runs in which TLC finds the property violated, because the code does not do
what a document or comment says:

| Run | Property | What happens |
| --- | --- | --- |
| `lost_operation` | `Completes` | an operation that vanishes without a dead letter is never re-sent, while the orchestrator's heartbeat keeps the sweeper away |
| `stale_plan` | `ResumesReversing` | with `StalePlans` and `LiveRedrive`: recovery acts on a live orchestrator and sends the plan it read before the reversal keys were stored; the new activation goes forward |
| `double_reversal` | `OneLiveReversal` | two concurrent calls of `Reverse` both dispatch |
| `order_repeated` | `OrderUnused` | a repeated `order_id` is accepted |

### Limits

The same modules show more limits that have no run of their own. The first
four are reproduced by changing a configuration or its fault budget as stated,
the fifth by dropping a premise.

* One `plan` fault in the budget violates `KeysPersistedFirst`: `persistPlan`
  only logs its error (`transaction.go:620`).
* One `dup` and one `crash` violate `SuccessMeansApplied`: a duplicate that
  applies a refused leg just before a resumed reversal leaves no leg marked
  failed (`transaction.go:278`).
* `Reordering = TRUE` in `MCTransferLegs.cfg` violates `FailedMeansUndone`: a
  lost orchestrator's copy of a leg applies after its successor's copy was
  refused and the failure written. `README.md:222` says that "even a
  late-arriving original message is absorbed idempotently by the wallet".
* `transfer_give_up` with `CallbacksAgree`: `markFailed` announces a failure
  even if its guarded `UPDATE` matched no row (`recovery.go:170`). With
  `FailedMeansUndone`: `giveUp` counts ledger rows and writes in two statements
  (`recovery.go:143`).
* `CallbackMatchesLedger` without its premise `~replayed` fails in
  `transfer_legs`: a wallet commits a debit but answers with an error, answers a second debit,
  and answers the re-sent first one from its ledger row. By the order of the
  replies the first debit is now the last movement, and the callback gives its
  balance as the final one. `README.md:581` says of the callback's balances that
  "GET and recovery derive the same data from the ledger".
* `balances.go:49` says "For a reversed transaction both ends match". They do
  only if no other transaction moved the wallet between a leg and its reversal.
* `server.go:25` says that `Run` "drains everything". Callbacks are not waited
  for: what the notifier still holds is lost at every shutdown (`ProcessEnds`).
  `ResendCallback` is the remedy.
* `GracefulStop` (`server.go:78`) has no deadline. A gRPC call that does not
  return, such as a health `Watch` or a reflection stream that its client keeps
  open (`grpc.go:34`) or a database call without a timeout, keeps the replica in
  its shutdown: `Exits` claims an end only for replicas that are not held so.
* A reversal whose commit was acknowledged only on a later attempt leaves its
  original under the id key until the TTL ends (`transaction.go:731`): the case
  `unnamed` of `InvalidatedUnlessLate`.
* With a repeated `order_id`, reading the older payment by id or RRN fills the
  order key that both share. Look-ups by order then answer with the older one
  for a TTL after each such read: the exception in `AnswersLookup`.
* The status of a wallet is tested when its actor loads the row. A wallet
  suspended by SQL keeps paying while the activation lives, although
  `README.md:183` says that status is re-checked at apply time.
* A tick that finds nothing outstanding does not re-arm the timer
  (`transaction.go:488`). If a leg that was refused turns out to be applied just
  after it, and its reversal cannot be placed, no timer sends that reversal
  again. In the code this takes a second debit whose reversal ends at that
  moment; the model reaches it more easily, because `mail` is a set and not a
  queue, so no run combines `dup` and `place`.

### Bounds

The interesting orders need one fault of a kind at a time and one leg on each
side of the debit/credit boundary; `transfer_legs` adds the second debit, which
partial application needs, with `Debits` as a symmetry set (the debits are
equal, and no step adds two replies or two ledger rows at once, so that nothing
depends on their order). In `transfer_faults` every three of the five faults
meet, each once, and more where one step has several. `finalizeAttempts` and `maxVersionRetries` have the
code's values. The wallet's messages use keys that repeat and amounts that fit,
overdraw and overflow. In `service`, int64 is cut to six bits; requests have at
most two legs a side, for which a wrapped sum is never positive. Three debits
could wrap to a small positive sum: `MoneyConserved` does not cover that.

In `read_cache` a behaviour changes the wallet, the payment and its reversal, or
the two payments of one `order_id`. The wallet shares no key and no row with the
rest. A second payment and a reversal together are left to the theorems (TLC passes
without that restriction too, in 936,000 states). `View` leaves out the ages
that no property can read. TTLs of one and two units against a dwell of one make every
order of expiry, `Set` and `Delete` happen. One request at a time suffices:
requests meet only through the keys, each entry of which has one writer.

In `server` one replica is enough: replicas share nothing but the partitions,
and another replica only adds successes of `EnsurePartitions` (the theorems
hold for any number). Two callbacks contend for the one build slot. Two days a
month make the day within the month matter; `MaxOutage` is the longest that
`MonthsAhead` can bridge.

### Fairness

`FairSpec` requires that an actor keeps reading its mailbox, in order, so no
kind of message starves another (Proto.Actor's mailbox is a queue); that timers
fire; that wallets, sweepers and recovery goroutines keep running; and that an
undeliverable message is dropped or dead-lettered. No fault and no caller is
ever obliged to act. For `start`, `collect` and `tick` weak fairness is written
out (`[]<>` nothing to read, or `[]<>` one is read), which is equivalent and
much cheaper for TLC.

`ServerFairness` requires that `Run` goes on to its next statement once it may,
and that builds, posts and sleeps end (posts have a timeout of ten seconds;
builds may read the ledger, and that this ends is assumed of the database). A
callback waiting for a build slot gets strong fairness: the
senders blocked on a Go channel are served in order. Nothing is assumed of HTTP
handlers, for which `Shutdown` has a deadline, nor of gRPC handlers, for which
`GracefulStop` has none. Nobody is obliged to boot, to send a
signal, to accept a request, or to answer a callback.

## What is proved

Each theorem states a property that a run checks, without the run's bounds: for
every number of legs, managers, replicas, keys and messages, and every budget of
faults its hypotheses do not exclude. A hypothesis is there only where the
property is false without it, and names the fault that breaks it.

### The wallet

`WalletActorProofs` proves, for every set of messages, integer width, number of
activations and initial row that `WalletActor`'s assumptions allow:

| Theorem | Property | Assuming |
| --- | --- | --- |
| `TypeCorrect` | `TypeOK` | |
| `NoLostUpdate` | `LedgerChains`: the ledger is a chain from the opening balance to the row's | |
| `BooksAlwaysBalance` | `BooksBalance`: a wrapped addition is never committed | |
| `ChecksumAlwaysMatches` | `ChecksumMatches` | |
| `VersionGuardSuffices` | `CopyTracksVersion`: a copy with the row's version has the row's money | |
| `AtMostOnce` | `AppliedOnce` | one activation |
| `LookUpStaysTrue` | `PendingNotApplied` | one activation |
| `WalletIsAnAccount` | `AccountSpec`: the actor implements `Account` | one activation |

None of the first five is inductive alone. `LedgerChains` needs that the copy
`persist` computes from has the row's money whenever it has the row's version,
which is `CopyTracksVersion`; that holds because no copy is ever ahead of the row,
so a stale copy cannot catch up. `BooksBalance` needs that the copy's own books
are sound and the message's amount is positive, which is `MemorySound`. The
inductive invariant `IInv` (theorem `Invariance`) is the conjunction of the
five and `MemorySound`, and its proof has one lemma per kind of step.

`AtMostOnce` uses `KeyInv`, which adds `PendingNotApplied` to `AppliedOnce`: an
activation past the ledger look-up holds a key that is not in the ledger. With
one activation nobody else can put it there. With two, the other can: the
look-up is made once, outside the retry loop, and the index on
`idempotency_key` is not unique. The hypothesis `OneActivation` is therefore
necessary; it is the cluster's promise, not this code's.

The refinement maps a wallet to its row's balance, the entries of its ledger and
its last answer, if that answer settles a leg. Only a commit moves the account,
and it must do so as `Account` allows: under a new key, and without overdrawing.
An answer must be true when it is given, a refusal included, for which
`CheckedInv` adds that a message `apply` turns away unread was never applied.

### The transaction

A handler of the orchestrator is a composition of functions on its own state
and the wallets' inboxes. `HandlerProofs` states once what each of them
(`send`, `armTimeout`, `drawKeys`, `persistPlan`, `advance`, `resume`, `record`
and so on) returns and leaves alone, and reduces every handler to one of a few cases
(`HandledCases`); `TransactionProofs` reduces `Next` to its steps (`StepCases`). What
follows uses these facts and no definition of a handler.
`PlanProofs` and `DeliveryProofs` both extend `TransactionProofs`, and
`AtomicityProofs` extends the two.

| Theorem | Property | Module | Assuming |
| --- | --- | --- | --- |
| `TransactionTypes` | `TypeOK` | `TransactionProofs` | |
| `OutcomeIsFinal` | `OneOutcome` | `TransactionProofs` | |
| `CreditsWaitForDebits` | `CreditsAfterDebits` | `TransactionProofs` | |
| `ReversalKeysArePersisted` | `KeysPersistedFirst` | `PlanProofs` | `PlansAreSaved` |
| `ReversalsAreResumed` | `ResumesReversing` | `PlanProofs` | `PlansAreSaved` |
| `CallbacksTellTheOutcome` | `CallbacksAgree` | `TransactionProofs` | `MaxAttempts = 0` |
| `OneCopyAlways` | `OneCopyUnderWay` | `AtomicityProofs` | `Orderly`, no lost operation |
| `SuccessIsApplied` | `SuccessMeansApplied` | `AtomicityProofs` | `Orderly` |
| `FailureIsUndone` | `FailedMeansUndone` | `AtomicityProofs` | `Orderly` |
| `TransfersAreAtomic` | `AtomicSpec`: the system implements `AtomicTransfer` | `AtomicityProofs` | `Orderly` |

`PlansAreSaved` says that `persistPlan` does not fail and that `recover` sends no
outdated plan; `MaxAttempts = 0` that recovery does not give up; `Orderly` both, and
that the network neither duplicates nor reorders. Crashes, restarts, failing
statements, unplaced grains, undecided wallets, dead letters and lost operations
are allowed by all of them, in any number. What happens without them is under
Limits and in `stale_plan`.

The argument, one inductive invariant after the other:

* `TypeInv` (this and the next two in `TransactionProofs`): types; stronger than `TypeOK`, which leaves open that a wallet's queue
  is a sequence.
* `CreditInv`: in the crediting stage every debit is marked applied; a mark, or an
  answer "ok" (`OkTrue`), means a ledger row; so whatever first makes a credit possible
  finds the debits in the ledger, which loses nothing.
* `Patient`: no manager counts attempts.
* `PlanInv` (`PlanProofs`): the orchestrator's reversal keys are the stored ones, what is in the
  ledger or on its way to a wallet carries the stored key, and a `Start` that an idle
  activation can still read carries the stored plan. The last is what makes a resumed
  reversal a reversal, and what `StalePlans` breaks.
* `CopyInv` (`DeliveryProofs`): of a leg the orchestrator waits for there is either
  one operation of this activation, the last in the wallet's queue, or one answer, or
  nothing where operations may be lost; of any other leg there is nothing. Operations
  of earlier activations come before it, which is why reordering must be excluded.
* `DoomInv` (`AtomicityProofs`): a leg marked failed is not applied and never will be (`NoneLeft`: not
  in the ledger and no original operation in its wallet's queue). It needs `CopyInv`
  because an answer "refused" proves this only if nothing else of the leg is under
  way. From it, at the moment the orchestrator is finalized, either every leg is
  applied without a reversal key (`AllApplied`) or every leg is out or reversed
  under its stored key (`Undone`), and both are stable.

`AtomicInv` is their conjunction. The refinement maps the row's outcome and each
leg's net effect; `AtomicStep` shows that a step applies or reverses at most one
leg, only while the transaction is open or flagged, and that the outcome is
written when all legs are in or none is.

### The read cache

`ReadCacheProofs` proves, for every number of replicas, requests, payments,
reversals and wallets and every TTL and `MaxLoad`:

| Theorem | Property |
| --- | --- |
| `CacheTypes` | `TypeOK` |
| `StalenessIsBounded` | `StaleBounded` |
| `EveryKeyIsInvalidated` | `InvalidatedUnlessLate` |
| `HitsAnswerTheLookup` | `AnswersLookup` |

`StaleBounded` compares the age of a change with a constant, but time passes. The
inductive form compares it with what the entry has used up: a request that has taken
`age` holds a row whose next version is at most that old (`Loaded`), and an entry
with `left` to live misses a version at most `MaxLoad + ttl(k) - left` old (`Cached`).
A clock tick moves both sides by one. `Covered` is the invalidation property of
one entry. An entry that a commit outdates is among the keys its actor is about
to delete, and has a reason only when that list, a restart or a lost call leaves it
behind, or when it was put there too late. `CacheInv` is all of
this with the types. `OrderInv` says that the payment found by an `order_id` has
it and is inserted, and that one is found once some payment with it is; from it,
an entry under an order key that is of another payment proves a second insert.
`CacheInvariant` is both. `EntitiesDistinct` and `NoneIsNothing`, the assumptions
on constants, say that identifiers of different kinds differ and that `None` is
neither an entry nor a row.

### The process

`ServerProofs` proves about `Server`, for every number of replicas, requests and
callbacks:

| Theorem | Property |
| --- | --- |
| `ServerTypes` | `TypeOK` |
| `PartitionsReady` | `MonthCovered`, for every length of a month and every `MonthsAhead`, from `ServerConstants`: no outage of the maintenance is longer than `MonthsAhead` months |
| `DrainsBeforeLeaving` | `AnsweredBeforeLeaving` |
| `BuildsAreCapped` | `BuildsCapped` |

`MonthCovered` is not inductive: a day may begin. `PartitionInv` says that, while
a process is up, the months begun since the last success fit into the days
since then (`Rolled`), and that a process whose ticker has been served has at
least one day of outage left. `DayPasses` is the step that counts: it shows that
a new month still has its partitions because no more than `MonthsAhead` months can
have begun. `DrainInv` extends `AnsweredBeforeLeaving` to the phases before: once
a server has been told to stop it accepts nothing, so what its stop waited for
stays true. `SlotInv` says that a replica's used build slots are exactly its
callbacks that build, which keeps the counter in range and is why a bound on the
counter bounds the builds.

### Only model-checked

* Liveness (`Completes`, `Concludes`, `Exits`): the prover has no fairness.
* `MoneyConserved` and `BalancesExplained`, which are about sums over legs and
  wallets, and `CallbackMatchesLedger`, about a fold of the ledger: they need
  induction over data, which the prover does not have.
* `UndoneOnce` and the types of `TransactionService`: nothing puts them out of the
  prover's reach, but nobody has written the proof yet.

## What is not modelled

* HTTP and gRPC handlers, configuration, logging, connection and migration
  code, generated code: no state the other parts share.
* Profiles: one insert under UNIQUE constraints, and rows that never change, so
  that a cached profile cannot go out of date.
* Listings: reads without a cache. The date windows of the look-ups: every
  look-up is taken to be inside its window.
* What other transactions do to the wallets of a transaction while its
  balances are collected: they change the balances inside ledger rows, which
  both renderings copy.
* Text: parsing of amounts, narrations, RRNs and their collision loop.
* Several transactions over the same wallet actors at message level:
  `TransactionSystem` has one transaction and `TransactionService` several
  transactions with the orchestrator reduced to its stages.
* Two documents disagree with the code without a run: `README.md:271` says a
  third version conflict fails the leg, which is in fact re-sent; and
  `proto/actors/actors.proto:68` says a timeout fails outstanding legs, which
  `tick` does not do.

## Plan

1. Sums that wrap, and requests of type reversal, in `TransactionService`.
2. A proof of `UndoneOnce`; the lemmas about single movements below
   `CallbackMatchesLedger`.
