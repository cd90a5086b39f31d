------------------------- MODULE TransactionService -------------------------
(***************************************************************************)
(* The transaction service (internal/services/transaction.go): callers     *)
(* initiate transactions and reverse finished ones, concurrently, while    *)
(* the transaction actors move the money.  An actor is reduced here to     *)
(* what TransactionSystem shows of it: all debits first, then all credits  *)
(* or an undo, or a transaction left for reconciliation.                   *)
(*                                                                         *)
(* A caller's reads and its insert are separate statements, so a reversal  *)
(* is one action per statement.  A rejected request changes nothing and is *)
(* no step.  Wallets' currency, merchant and status do not change.         *)
(***************************************************************************)
EXTENDS Integers, Sequences, FiniteSetsExt

CONSTANTS Wallets, Merchants, Callers,
          Exponent,    \* supported currency -> its number of minor digits
          CurrencyOf,  \* wallet -> currency
          MerchantOf,  \* wallet -> merchant that owns it
          Active,      \* the wallets whose status is active
          Opening,     \* wallet -> opening balance, in minor units
          Requests,    \* the requests callers make
          MaxInt64,    \* largest int64
          MaxTxns      \* bound on the number of transactions

ASSUME ServiceAssumption ==
    /\ MaxInt64 \in Nat \ {0}
    /\ MaxTxns \in Nat
    /\ Exponent \in [DOMAIN Exponent -> Nat]
    /\ CurrencyOf \in [Wallets -> DOMAIN Exponent]
    /\ MerchantOf \in [Wallets -> Merchants]
    /\ Opening \in [Wallets -> 0 .. MaxInt64]
    /\ Active \subseteq Wallets

VARIABLES txns,     \* the transactions table, in the order of created_at
          balance,  \* wallet -> available balance
          call      \* caller -> where its Reverse is

svars == <<txns, balance, call>>

-----------------------------------------------------------------------------
(* Amounts                                                                 *)

\* int64 arithmetic wraps.
Wrapped(n) == ((n + MaxInt64 + 1) % (2 * (MaxInt64 + 1))) - (MaxInt64 + 1)

Pow10(k) == 10 ^ k

\* An amount, units / 10^scale, is a whole number of minor units in range...
HasMinor(m, e) ==
    IF m.scale <= e
    THEN LET factor == Pow10(e - m.scale)
         IN  m.units <= MaxInt64 \div factor /\ -m.units <= (MaxInt64 + 1) \div factor
    ELSE m.units % Pow10(m.scale - e) = 0

\* ... and then this is that number.
Minor(m, e) ==
    IF m.scale <= e THEN m.units * Pow10(e - m.scale) ELSE m.units \div Pow10(m.scale - e)

\* The amounts of the legs of one action, added up; on one wallet.
Total(legs, action) ==
    MapThenSumSet(LAMBDA i : legs[i].amount, {i \in DOMAIN legs : legs[i].action = action})
WalletTotal(legs, action, w) ==
    MapThenSumSet(LAMBDA i : legs[i].amount,
                  {i \in DOMAIN legs : legs[i].action = action /\ legs[i].wallet = w})

-----------------------------------------------------------------------------
(* Initiating                                                              *)

\* The legs of a request in minor units.
PlanLegs(q) ==
    [i \in DOMAIN q.legs |->
        [wallet |-> q.legs[i].wallet, action |-> q.legs[i].action,
         amount |-> Minor(q.legs[i].amount, Exponent[q.currency]),
         initial |-> q.legs[i].initial]]

LegCurrencies(q) == {CurrencyOf[q.legs[i].wallet] : i \in DOMAIN q.legs}

\* Broken variant: the credits are compared with nothing.
BalancedDebitsOnly(q) ==
    Wrapped(Total(PlanLegs(q), "debit")) = Minor(q.total, Exponent[q.currency])

\* sum(debits) == sum(credits) == total_amount, as int64 sees it.
Balanced(q) ==
    LET debits == Wrapped(Total(PlanLegs(q), "debit"))
        credits == Wrapped(Total(PlanLegs(q), "credit"))
    IN  debits = credits /\ debits = Minor(q.total, Exponent[q.currency])

ValidateTransactionRequest(q) ==
    /\ q.currency \in DOMAIN Exponent
    /\ q.merchant \in Merchants
    /\ LET e == Exponent[q.currency]
       IN  /\ HasMinor(q.total, e) /\ HasMinor(q.fee, e)
           /\ Minor(q.total, e) > 0
           /\ Minor(q.fee, e) \in 0 .. Minor(q.total, e)
           /\ \A i \in DOMAIN q.legs :
                 HasMinor(q.legs[i].amount, e) /\ Minor(q.legs[i].amount, e) > 0
    /\ LegCurrencies(q) = {q.currency}
    /\ Balanced(q)
    /\ \E i \in DOMAIN q.legs : q.legs[i].action = "debit" /\ q.legs[i].initial
    /\ \E i \in DOMAIN q.legs : MerchantOf[q.legs[i].wallet] = q.merchant

\* Every wallet exists and is active.
ValidateWallets(legs) == \A i \in DOMAIN legs : legs[i].wallet \in Active

\* The pending row that buildTransaction makes and dispatch inserts.
dispatched(kind, order, of, legs) ==
    Append(txns, [kind |-> kind, order |-> order, of |-> of, legs |-> legs,
                  status |-> "pending", flagged |-> FALSE])

Initiate(q) ==
    /\ Len(txns) < MaxTxns
    /\ ValidateWallets(q.legs)
    /\ ValidateTransactionRequest(q)
    /\ txns' = dispatched(q.kind, q.order, q.of, PlanLegs(q))
    /\ UNCHANGED <<balance, call>>

-----------------------------------------------------------------------------
(* Reversing                                                               *)

NoCall == [pc |-> "idle", orig |-> 0]

Opposite(action) == IF action = "debit" THEN "credit" ELSE "debit"

\* The reversals of transaction o, which name it in provider_ref.
Reversals(o) == {t \in DOMAIN txns : txns[t].kind = "reversal" /\ txns[t].of = o}

\* Broken variant: the rows are repeated, not inverted.
reversalLegsRepeated(o) == txns[o].legs

\* The original's ledger rows, inverted.  A successful transaction has one row
\* for every leg of its plan (SuccessMeansApplied of TransactionSystem), so the
\* comparison of rows and plan finds no mismatch.
reversalLegs(o) ==
    [i \in DOMAIN txns[o].legs |-> [txns[o].legs[i] EXCEPT !.action = Opposite(@)]]

\* Broken variant: only a reversal that has settled stops another.
ReversibleUnlessSettled(o) ==
    Reversals(o) = {} \/ txns[Max(Reversals(o))].status # "success"

\* Only the latest reversal counts, and a failed one may be retried.
Reversible(o) ==
    Reversals(o) = {} \/ txns[Max(Reversals(o))].status = "failed"

\* Every wallet covers its reversal debits; credits are not netted.
ensureReversalFunds(o) ==
    \A w \in Wallets : balance[w] >= WalletTotal(reversalLegs(o), "debit", w)

\* Reverse reads the original,
reverseLoad(c, o) ==
    /\ call[c].pc = "idle"
    /\ txns[o].status = "success" /\ txns[o].kind # "reversal"
    /\ call' = [call EXCEPT ![c] = [pc |-> "check", orig |-> o]]
    /\ UNCHANGED <<txns, balance>>

\* looks for a reversal of it (a live one answers with a conflict),
reverseCheck(c) ==
    /\ call[c].pc = "check"
    /\ call' = [call EXCEPT ![c] =
                   IF Reversible(call[c].orig) THEN [@ EXCEPT !.pc = "funds"] ELSE NoCall]
    /\ UNCHANGED <<txns, balance>>

\* reads the ledger, the wallets and their balances,
reverseFunds(c) ==
    /\ call[c].pc = "funds"
    /\ call' = [call EXCEPT ![c] =
                   IF /\ ValidateWallets(reversalLegs(@.orig))
                      /\ ensureReversalFunds(@.orig)
                   THEN [@ EXCEPT !.pc = "insert"] ELSE NoCall]
    /\ UNCHANGED <<txns, balance>>

\* and dispatches the reversal under the original's order_id.
reverseDispatch(c) ==
    LET o == call[c].orig
    IN  /\ call[c].pc = "insert"
        /\ Len(txns) < MaxTxns
        /\ txns' = dispatched("reversal", txns[o].order, o, reversalLegs(o))
        /\ call' = [call EXCEPT ![c] = NoCall]
        /\ UNCHANGED balance

\* Any of its statements fails, or the request is cut off.
reverseFailed(c) ==
    /\ call[c].pc # "idle"
    /\ call' = [call EXCEPT ![c] = NoCall]
    /\ UNCHANGED <<txns, balance>>

-----------------------------------------------------------------------------
(* The transaction actors                                                  *)

\* Broken variant: a wallet is debited whatever it holds.
debitUncovered(t) ==
    /\ txns[t].status = "pending"
    /\ balance' = [w \in Wallets |-> balance[w] - WalletTotal(txns[t].legs, "debit", w)]
    /\ txns' = [txns EXCEPT ![t].status = "processing"]
    /\ UNCHANGED call

\* All debits have been applied: each wallet had the money.
debit(t) ==
    LET out(w) == WalletTotal(txns[t].legs, "debit", w)
    IN  /\ txns[t].status = "pending"
        /\ \A w \in Wallets : balance[w] >= out(w)
        /\ balance' = [w \in Wallets |-> balance[w] - out(w)]
        /\ txns' = [txns EXCEPT ![t].status = "processing"]
        /\ UNCHANGED call

\* A debit was refused and the applied ones are undone.
refuse(t) ==
    /\ txns[t].status = "pending"
    /\ txns' = [txns EXCEPT ![t].status = "failed"]
    /\ UNCHANGED <<balance, call>>

\* The wallets can take the legs of the action.
Fits(t, action) ==
    \A w \in Wallets : balance[w] + WalletTotal(txns[t].legs, action, w) <= MaxInt64
Paid(t, action) ==
    [w \in Wallets |-> balance[w] + WalletTotal(txns[t].legs, action, w)]

\* The final write of a successful reversal marks its original reversed in the
\* same database transaction, if it is still a success.
markReversed(t) ==
    LET o == txns[t].of
        done == [txns EXCEPT ![t].status = "success"]
    IN  IF txns[t].kind = "reversal" /\ txns[o].status = "success"
        THEN [done EXCEPT ![o].status = "reversed"]
        ELSE done

\* All credits have been applied and the outcome is written.
credit(t) ==
    /\ txns[t].status = "processing" /\ Fits(t, "credit")
    /\ balance' = Paid(t, "credit")
    /\ txns' = markReversed(t)
    /\ UNCHANGED call

\* A credit was refused and every debit is given back.
undo(t) ==
    /\ txns[t].status = "processing" /\ Fits(t, "debit")
    /\ balance' = Paid(t, "debit")
    /\ txns' = [txns EXCEPT ![t].status = "failed"]
    /\ UNCHANGED call

\* The reversal of a debit was refused: the transaction is flagged.  It keeps
\* all its debits; which part of them was reversed is left out.
leave(t) ==
    /\ txns[t].status = "processing"
    /\ txns' = [txns EXCEPT ![t].status = "failed", ![t].flagged = TRUE]
    /\ UNCHANGED <<balance, call>>

-----------------------------------------------------------------------------
(* Specification                                                           *)

Init ==
    /\ txns = <<>>
    /\ balance = Opening
    /\ call = [c \in Callers |-> NoCall]

Reverse(c) ==
    \/ \E o \in DOMAIN txns : reverseLoad(c, o)
    \/ reverseCheck(c) \/ reverseFunds(c) \/ reverseDispatch(c) \/ reverseFailed(c)

Settle(t) == debit(t) \/ refuse(t) \/ credit(t) \/ undo(t) \/ leave(t)

Next ==
    \/ \E q \in Requests : Initiate(q)
    \/ \E c \in Callers : Reverse(c)
    \/ \E t \in DOMAIN txns : Settle(t)

Spec == Init /\ [][Next]_svars

-----------------------------------------------------------------------------
(* Properties                                                              *)

Statuses == {"pending", "processing", "success", "failed", "reversed"}

\* Every variable has its type; in particular no balance is negative or out of
\* an int64's range.
TypeOK ==
    /\ txns \in Seq([kind : {"payment", "reversal"}, order : STRING, of : 0 .. MaxTxns,
                     legs : Seq([wallet : Wallets, action : {"debit", "credit"},
                                 amount : 1 .. MaxInt64, initial : BOOLEAN]),
                     status : Statuses, flagged : BOOLEAN])
    /\ Len(txns) <= MaxTxns
    /\ balance \in [Wallets -> 0 .. MaxInt64]
    /\ call \in [Callers -> [pc : {"idle", "check", "funds", "insert"}, orig : 0 .. MaxTxns]]

\* The transactions that have taken their debits and paid nothing out.
Holding == {t \in DOMAIN txns : txns[t].status = "processing" \/ txns[t].flagged}

WalletsOf(cur) == {w \in Wallets : CurrencyOf[w] = cur}

\* What the transactions that are under way or flagged hold of a currency.
Held(cur) ==
    MapThenSumSet(LAMBDA t : MapThenSumSet(LAMBDA w : WalletTotal(txns[t].legs, "debit", w),
                                           WalletsOf(cur)),
                  Holding)

\* Payments and reversals, failed, undone or settled in any order, neither
\* make nor lose money of any currency: what is not in a wallet is held by a
\* transaction still under way or flagged for reconciliation
\* (services/transaction.go:57-58).
MoneyConserved ==
    \A cur \in DOMAIN Exponent :
        MapThenSumSet(LAMBDA w : balance[w], WalletsOf(cur)) + Held(cur)
        = MapThenSumSet(LAMBDA w : Opening[w], WalletsOf(cur))

\* A wallet holds its opening balance and what the successful transactions
\* that have not been reversed moved, less what transactions under way or
\* flagged hold: a reversal takes back exactly its original, once
\* (reversalLegs, markReversed).
BalancesExplained ==
    LET moved(w, action, T) == MapThenSumSet(LAMBDA t : WalletTotal(txns[t].legs, action, w), T)
        standing == {t \in DOMAIN txns : txns[t].kind = "payment" /\ txns[t].status = "success"}
    IN  \A w \in Wallets :
            balance[w] = Opening[w] + moved(w, "credit", standing) - moved(w, "debit", standing)
                         - moved(w, "debit", Holding)

Undone(o) == Cardinality({t \in Reversals(o) : txns[t].status = "success"})

\* A transaction is undone once if its status is reversed, and otherwise not
\* at all, however often its reversal was tried (services/transaction.go:240).
UndoneOnce ==
    \A o \in DOMAIN txns : Undone(o) = IF txns[o].status = "reversed" THEN 1 ELSE 0

\* services/transaction.go:240 "one live reversal per transaction": no two
\* reversals of a transaction are under way or settled.
OneLiveReversal ==
    \A o \in DOMAIN txns : Cardinality({t \in Reversals(o) : txns[t].status # "failed"}) <= 1

\* README.md:580 "`order_id` must be unused": no two initiated transactions
\* have the same order_id.
OrderUnused ==
    \A s, t \in DOMAIN txns :
        txns[s].kind = "payment" /\ txns[t].kind = "payment" /\ txns[s].order = txns[t].order
        => s = t
=============================================================================
