------------------------ MODULE MCTransactionService ------------------------
(***************************************************************************)
(* Two currencies, of one and no minor digits, int64 cut down to six bits, *)
(* and requests good and bad: amounts of every scale, too precise ones,    *)
(* mixed currencies, unbalanced legs, a suspended wallet.                  *)
(***************************************************************************)
EXTENDS TransactionService

MCExponent == [KES |-> 1, JPY |-> 0]
MCWallets == {"a", "b", "j", "s"}
MCMerchants == {"m", "n"}
MCCurrencyOf == [a |-> "KES", b |-> "KES", j |-> "JPY", s |-> "KES"]
MCMerchantOf == [a |-> "m", b |-> "n", j |-> "m", s |-> "m"]
MCActive == {"a", "b", "j"}
MCOpening == [a |-> 20, b |-> 10, j |-> 3, s |-> 5]

Amount(units, scale) == [units |-> units, scale |-> scale]
Amounts == {Amount(1, 0), Amount(5, 1), Amount(25, 2)}

Leg(w, action, amount) ==
    [wallet |-> w, action |-> action, amount |-> amount, initial |-> action = "debit"]

\* From one wallet to another, of the same or another currency, active or not;
\* and from two wallets to one of them.
Transfers ==
    {<<Leg(p[1], "debit", x), Leg(p[2], "credit", y)>> :
        p \in {<<"a", "b">>, <<"a", "j">>, <<"a", "s">>, <<"j", "j">>}, x, y \in Amounts}
    \union
    {<<Leg("a", "debit", x), Leg("b", "debit", y), Leg("b", "credit", z)>> :
        x, y, z \in Amounts}

MCRequests ==
    {[kind |-> "payment", order |-> "o1", of |-> 0, merchant |-> "m", currency |-> cur,
      total |-> total, fee |-> Amount(0, 0), legs |-> legs] :
        cur \in {"KES", "JPY"}, total \in Amounts, legs \in Transfers}
=============================================================================
