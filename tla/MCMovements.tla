---------------------------- MODULE MCMovements ----------------------------
(* A payer whose wallet is debited twice (the amount and its fee).         *)
EXTENDS Movements
CONSTANTS payer, payee

MCWalletOf == [l \in Legs |-> IF l \in Debits THEN payer ELSE payee]
\* Equal debits: their rows still differ, in the balances before and after.
MCAmount == [l \in Legs |-> IF l \in Debits THEN 1 ELSE 2]
MCOpening == [w \in Wallets |-> 5]

\* Nothing tells the two debits apart.
Symmetric == Permutations(Debits)

NoFaults == [k \in FaultKinds |-> 0]
\* One fault of the kinds the code claims to absorb.
MCOneFault == [NoFaults EXCEPT !.crash = 1, !.db = 1, !.place = 1, !.again = 1, !.dead = 1,
                               !.any = 1]
============================================================================
