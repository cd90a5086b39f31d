----------------------------- MODULE Movements -----------------------------
(***************************************************************************)
(* The balances a completed transaction reports.  The callback takes them  *)
(* from the wallet replies its orchestrator collected (movements,          *)
(* internal/actors/transaction.go); a GET, a re-sent callback and recovery *)
(* fold the ledger (walletBalances, internal/services/balances.go).        *)
(*                                                                         *)
(* The transaction is TransactionSystem's, whose every step is taken over  *)
(* as it is; here legs belong to wallets with balances, the ledger has an  *)
(* order, and the orchestrator numbers the replies it collects.  A wallet  *)
(* answers in the order it handles, and its answers arrive in that order.  *)
(* Other transactions are left out: they shift the balances inside rows    *)
(* that both renderings copy.                                              *)
(***************************************************************************)
EXTENDS TransactionSystem, FiniteSetsExt, SequencesExt

CONSTANTS Wallets, WalletOf, Amount,
          Opening    \* the wallets' balances before the transaction

ASSUME MovementConstants ==
    /\ WalletOf \in [Legs -> Wallets]
    /\ Amount \in [Legs -> Nat \ {0}]
    /\ Opening \in [Wallets -> Nat]

VARIABLES book,      \* the ledgers table in the order of its ids
          answers,   \* answers[w]: results under way, in the order w sent them
          observed,  \* keys whose balances this activation collected, by seq
          replayed   \* history: did a wallet answer from an old ledger row?

mvars == <<row, ledger, actor, inbox, mail, fresh, callbacks, faults, mgr,
           book, answers, observed, replayed>>

----------------------------------------------------------------------------
Balance(w) ==
    LET mine == {i \in DOMAIN book : book[i].wallet = w}
    IN IF mine = {} THEN Opening[w] ELSE book[Max(mine)].updated

\* A reversal moves the opposite way of its leg.
Change(k) == IF (k[1] \in Credits) = (k[2] = 0) THEN Amount[k[1]] ELSE 0 - Amount[k[1]]

\* persist's ledger row.
Ledger(w, k) ==
    [wallet |-> w, key |-> k, initial |-> Balance(w), updated |-> Balance(w) + Change(k)]

----------------------------------------------------------------------------
(* What a step of the transaction adds here. *)

Booked ==
    book' = IF ledger' = ledger THEN book
            ELSE LET k == CHOOSE k \in ledger' : k \notin ledger
                 IN Append(book, Ledger(WalletOf[k[1]], k))

\* A result is read only after the earlier results of the same wallet.
Answered ==
    LET new(w) == {m \in mail' \ mail : m.kind = "result" /\ WalletOf[m.leg] = w}
        replay(m) == m.code = "ok" /\ Key(m.leg, m.key) \in ledger
    IN /\ answers' = [w \in Wallets |-> SelectSeq(answers[w], LAMBDA m : m \in mail')
                                          \o SetToSeq(new(w))]
       /\ \A w \in Wallets : \A i \in DOMAIN answers[w] :
            answers[w][i] \notin mail' => i = 1
       /\ replayed' = (replayed \/ \E w \in Wallets : \E m \in new(w) : replay(m))

\* collect numbers the replies that settle or undo a leg; a new activation
\* starts without any, and what resume finds in the ledger gets no number.
Observed ==
    LET settles == actor.stage \in Working /\ actor'.inc = actor.inc /\ actor'.up
        new == {Key(l, 0) : l \in {l \in Legs : actor'.leg[l].applied /\ ~actor.leg[l].applied}}
               \union {Key(l, actor.leg[l].rkey) :
                         l \in {l \in Legs : actor'.leg[l].reversed /\ ~actor.leg[l].reversed}}
    IN observed' = IF settles THEN observed \o SetToSeq(new) ELSE
                   IF actor'.up /\ actor'.inc = actor.inc /\ actor'.stage # "idle" THEN observed
                   ELSE <<>>

MInit == Init /\ book = <<>> /\ answers = [w \in Wallets |-> <<>>] /\ observed = <<>> /\ replayed = FALSE
MNext == Next /\ Booked /\ Answered /\ Observed
MSpec == MInit /\ [][MNext]_mvars

----------------------------------------------------------------------------
(* The two renderings, per wallet.  A wallet the transaction did not move  *)
(* has no entry.                                                           *)

NoEntry == [initial |-> 0, updated |-> 0, entries |-> 0]

Fold(rows) == IF rows = <<>> THEN NoEntry
              ELSE [initial |-> Head(rows).initial, updated |-> Last(rows).updated,
                    entries |-> Len(rows)]

\* The ledger rows of the transaction, by id.
walletBalances(w) == Fold(SelectSeq(book, LAMBDA r : r.wallet = w))

RowOf(k) == CHOOSE r \in Range(book) : r.key = k

\* Broken variant: a leg found applied on resume is passed over.
fromLedgerPassedOver == observed = <<>>

\* The callback falls back to the ledger when a leg was found applied on
\* resume, or when nothing was observed.
fromLedger ==
    \/ \E l \in Legs : actor.leg[l].applied /\ Key(l, 0) \notin Range(observed)
    \/ observed = <<>>

\* The replies, by seq.
movements(w) ==
    Fold([i \in DOMAIN SelectSeq(observed, LAMBDA k : WalletOf[k[1]] = w) |->
            RowOf(SelectSeq(observed, LAMBDA k : WalletOf[k[1]] = w)[i])])

TransactionPayload(w) == IF fromLedger THEN walletBalances(w) ELSE movements(w)

----------------------------------------------------------------------------
(* Properties. *)

\* The orchestrator hands the outcome and its balances to the notifier.
Notifies == actor.try > 0 /\ ~actor'.up /\ callbacks' # callbacks

\* The callback's balances and those later read from the ledger: the callback
\* counts every ledger row of the transaction exactly once, whatever
\* was retried, crashed or resumed; and its balances are the ledger's as long
\* as no reply was a wallet's answer from an old ledger row, which arrives
\* later than the movement it describes.
CallbackMatchesLedger ==
    [][Notifies => \A w \in Wallets :
          /\ TransactionPayload(w).entries = walletBalances(w).entries
          /\ ~replayed => TransactionPayload(w) = walletBalances(w)]_mvars

============================================================================
