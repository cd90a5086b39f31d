------------------------- MODULE MCTransactionSystem -------------------------
(***************************************************************************)
(* Fault budgets for TransactionSystem's runs.                             *)
(***************************************************************************)
EXTENDS TransactionSystem

NoFaults == [k \in FaultKinds |-> 0]

\* A node crash and faults the code claims to absorb, any three of them.
MCFaults == [NoFaults EXCEPT !.crash = 1, !.db = 1, !.place = 1, !.again = 1, !.dead = 1,
                             !.any = 3]

\* Only a crash.
MCCrash == [NoFaults EXCEPT !.crash = 1, !.any = 1]

\* One operation vanishes with the wallet's node.
MCLost == [NoFaults EXCEPT !.lost = 1, !.any = 1]

\* One operation is delivered twice, and a statement fails; nobody crashes.
MCDupAlive == [NoFaults EXCEPT !.dup = 1, !.db = 1, !.any = 2]
=============================================================================
