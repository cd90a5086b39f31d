------------------------------ MODULE Account ------------------------------
(***************************************************************************)
(* What a wallet promises to the orchestrator: an account that carries out *)
(* each operation at most once, never below zero, and whose definite       *)
(* answers are true when they are given.  WalletActor.tla is shown to      *)
(* implement it, and TransactionActor.tla assumes no more than this of the *)
(* wallets it talks to.                                                    *)
(***************************************************************************)
EXTENDS Integers

CONSTANTS Keys,     \* idempotency keys
          Effect    \* Effect[k]: what the operation under key k adds

VARIABLES balance,  \* the money in the account
          applied,  \* the entries carried out: [key, initial, updated]
          told      \* the definite answer given last, if any: a sequence of
                    \* at most one [key, ok, initial, updated]

avars == <<balance, applied, told>>

AppliedKeys == {e.key : e \in applied}

Entry(k, before) == [key |-> k, initial |-> before, updated |-> before + Effect[k]]

Accepted(e) == <<[key |-> e.key, ok |-> TRUE, initial |-> e.initial, updated |-> e.updated]>>

Refused(k) == <<[key |-> k, ok |-> FALSE, initial |-> 0, updated |-> 0]>>

Init == balance \in Nat /\ applied = {} /\ told = <<>>

\* Carry out operation k; the answer may be given at once or get lost.
Apply(k) ==
    /\ k \notin AppliedKeys
    /\ balance + Effect[k] >= 0
    /\ balance' = balance + Effect[k]
    /\ applied' = applied \union {Entry(k, balance)}
    /\ told' \in {Accepted(Entry(k, balance)), <<>>}

\* Repeat the answer of an operation carried out earlier.
Repeat(e) ==
    /\ e \in applied
    /\ told' = Accepted(e)
    /\ UNCHANGED <<balance, applied>>

\* Refuse operation k for good: it has not been carried out.
Refuse(k) ==
    /\ k \notin AppliedKeys
    /\ told' = Refused(k)
    /\ UNCHANGED <<balance, applied>>

\* Answer something that settles nothing.
Hedge ==
    /\ told' = <<>>
    /\ UNCHANGED <<balance, applied>>

Next ==
    \/ \E k \in Keys : Apply(k) \/ Refuse(k)
    \/ \E e \in applied : Repeat(e)
    \/ Hedge

Spec == Init /\ [][Next]_avars
=============================================================================
