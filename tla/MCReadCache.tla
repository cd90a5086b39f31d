---------------------------- MODULE MCReadCache ----------------------------
(* Two payments of one order, a reversal and one wallet, two replicas.     *)
EXTENDS ReadCache, TLC
CONSTANTS pay, again, rev, ord
MCUndoes == rev :> pay
MCOrderOf == pay :> ord @@ again :> ord
Symmetric == Permutations(Replicas)

\* Transactions and wallets share no key and no row, so one family at a time
\* is explored: the wallet, a payment with its reversal, a payment and then
\* another of the same order.
OneFamily ==
    \/ \A t \in Txns : Version(t) = 0
    \/ /\ \A x \in Wallets : Version(x) = 0
       /\ Version(pay) > 0
       /\ Version(rev) = 0 \/ Version(again) = 0

\* No guard reads an age, and StaleBounded only the ages of versions that can
\* succeed a cached one: not a row's first, nor a transaction's second.
Superseding(e) == SubSeq(rows[e], IF e \in Txns THEN 3 ELSE 2, Version(e))
View == <<[e \in Entities |-> <<Version(e), Superseding(e)>>], newest, enabled, cache, caller, actor>>
============================================================================
