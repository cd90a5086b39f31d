--------------------------- MODULE AtomicTransfer ---------------------------
(***************************************************************************)
(* What a transaction promises: it ends once, in success with every leg    *)
(* moved, in failure with none moved, or flagged for reconciliation; and   *)
(* after a success or a failure no leg moves again.  The README's          *)
(* "multi-leg, atomic transfers" in one page.                              *)
(***************************************************************************)
EXTENDS Naturals

CONSTANT Legs

VARIABLES outcome,  \* "open", "success", "failed" or "reconcile"
          net       \* net[l]: applications of leg l less its reversals

Init == outcome = "open" /\ net = [l \in Legs |-> 0]

\* A leg is applied or reversed while the transaction is open, or flagged.
Move(l) ==
    /\ outcome \in {"open", "reconcile"}
    /\ net' = [net EXCEPT ![l] = 1 - @]
    /\ UNCHANGED outcome

Succeed ==
    /\ outcome = "open" /\ \A l \in Legs : net[l] = 1
    /\ outcome' = "success" /\ UNCHANGED net

Fail ==
    /\ outcome = "open" /\ \A l \in Legs : net[l] = 0
    /\ outcome' = "failed" /\ UNCHANGED net

Flag == outcome = "open" /\ outcome' = "reconcile" /\ UNCHANGED net

Next == (\E l \in Legs : Move(l)) \/ Succeed \/ Fail \/ Flag

Spec == Init /\ [][Next]_<<outcome, net>>
=============================================================================
