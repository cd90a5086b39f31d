-------------------------- MODULE TransactionSystem --------------------------
(***************************************************************************)
(* The life of one transaction: dispatched by the service                  *)
(* (internal/services/transaction.go), driven by its orchestrator, rescued *)
(* by the recovery managers, over wallets and a network that may fail.     *)
(***************************************************************************)
EXTENDS Recovery

-----------------------------------------------------------------------------
(* The service                                                             *)

Pending == [row EXCEPT !.status = "pending"]

\* dispatch: place the grain, insert the row with its plan, send Start.
dispatch ==
    /\ row.status = "none"
    /\ row' = Pending
    /\ actor' = Placed
    /\ mail' = {StartMsg(Placed.inc, FALSE, row.plan)}
    /\ UNCHANGED <<ledger, inbox, fresh, callbacks, faults, mgr>>

\* The API node dies, or loses the acknowledgement of the INSERT, before it
\* sends Start: an idle activation and a pending row are left behind.
dispatchCut ==
    /\ row.status = "none"
    /\ Charge({"crash"})
    /\ row' = Pending
    /\ actor' = Placed
    /\ UNCHANGED <<ledger, inbox, mail, fresh, callbacks, mgr>>

-----------------------------------------------------------------------------
(* Specification                                                           *)

Init ==
    /\ row = [status |-> "none", plan |-> NoReversals, flagged |-> FALSE, stale |-> FALSE]
    /\ ledger = {}
    /\ actor = [Activation(0) EXCEPT !.up = FALSE]
    /\ inbox = [l \in Legs |-> <<>>]
    /\ mail = {}
    /\ fresh = 1
    /\ callbacks = {}
    /\ faults = MaxFaults
    /\ mgr = [r \in Managers |-> NoJob]

Orchestrate ==
    /\ \/ \E m \in mail : start(m) \/ collect(m) \/ tick(m) \/ finalize(m)
       \/ TimerFires
       \/ finalWritten
    /\ UNCHANGED mgr

OrchestratorFault ==
    /\ (\E m \in mail : startFailed(m)) \/ finalFailed \/ finalUnnotified
    /\ UNCHANGED mgr

WalletStep == (\E l \in Legs : \E i \in DOMAIN inbox[l] : WalletHandles(l, i)) /\ UNCHANGED mgr

NetworkFault ==
    /\ \E l \in Legs : OperationDeadLettered(l) \/ OperationLost(l) \/ OperationDuplicated(l)
    /\ UNCHANGED mgr

Rescue ==
    \/ GoStale
    \/ \E r \in Managers : sweep(r) \/ recoverLoad(r) \/ recoverSend(r) \/ giveUp(r) \/ markFailed(r)

RescueFault == \E r \in Managers : recoverFailed(r)

Mailroom == \E m \in mail : MailLost(m) \/ \E r \in Managers : DeadLetter(m, r)

\* The transaction is over and nothing is left to happen to it.
Settled ==
    /\ completed /\ (actor.up => actor.stage = "idle") /\ mail = {}
    /\ \A l \in Legs : inbox[l] = <<>>
    /\ \A r \in Managers : mgr[r].pc = "idle"
    /\ UNCHANGED rvars

Next ==
    \/ dispatch \/ dispatchCut
    \/ Orchestrate \/ OrchestratorFault
    \/ WalletStep \/ NetworkFault
    \/ Crash \/ Mailroom
    \/ Rescue \/ RescueFault
    \/ Settled

Spec == Init /\ [][Next]_rvars

\* The messages in Ms the activation can read, and the step that reads one:
\* only the handler of a message takes it from a live activation's mailbox.
Readable(Ms) == {m \in Ms : actor.up /\ m.to = actor.inc /\ actor.try = 0}
Reads(Ms) == \E m \in Readable(Ms) : m \notin mail'

Starts == {m \in mail : m.kind = "start"}
Results(l) == {m \in mail : m.kind = "result" /\ m.leg = l}
Timeouts == {m \in mail : m.kind = "timeout"}

\* An actor reads its mailbox in order, so no message kind starves another;
\* timers fire; every wallet, sweeper and goroutine keeps running; what cannot
\* be delivered is dropped or dead-lettered.  No fault is ever owed.  (The
\* first three conjuncts are weak fairness of start, collect and tick, which
\* can run whenever they have a message to read.)
Fairness ==
    /\ []<>(Readable(Starts) = {}) \/ []<><<Reads(Starts)>>_rvars
    /\ \A l \in Legs :
        []<>(Readable(Results(l)) = {}) \/ []<><<Reads(Results(l))>>_rvars
    /\ []<>(Readable(Timeouts) = {}) \/ []<><<Reads(Timeouts)>>_rvars
    /\ WF_rvars((\E m \in mail : finalize(m)) /\ UNCHANGED mgr)
    /\ WF_rvars(TimerFires /\ UNCHANGED mgr)
    /\ WF_rvars(finalWritten /\ UNCHANGED mgr)
    /\ \A l \in Legs :
        WF_rvars((\E i \in DOMAIN inbox[l] : WalletHandles(l, i)) /\ UNCHANGED mgr)
    /\ WF_rvars(Mailroom)
    /\ WF_rvars(GoStale)
    /\ \A r \in Managers :
        /\ WF_rvars(sweep(r))
        /\ WF_rvars(recoverLoad(r) \/ recoverSend(r) \/ giveUp(r) \/ markFailed(r))

FairSpec == Spec /\ Fairness

-----------------------------------------------------------------------------
(* Properties                                                              *)

\* Applications of leg l less its reversals, as the ledger has them.
Net(l) ==
    Cardinality({k \in ledger : k[1] = l /\ k[2] = 0})
    - Cardinality({k \in ledger : k[1] = l /\ k[2] > 0})

LegStates == [done : BOOLEAN, applied : BOOLEAN, retry : BOOLEAN, failed : BOOLEAN,
              rkey : Nat, reversed : BOOLEAN]

\* Every variable has its type.
TypeOK ==
    /\ row \in [status : {"none", "pending", "processing"} \union Terminal,
                plan : [Legs -> Nat], flagged : BOOLEAN, stale : BOOLEAN]
    /\ \A k \in ledger : k \in Legs \X Nat
    /\ actor \in [inc : Nat, up : BOOLEAN, stage : Stages, armed : Stages \union {"none"},
                  leg : [Legs -> LegStates], try : 0..finalizeAttempts]
    /\ \A l \in Legs : \A i \in DOMAIN inbox[l] : inbox[l][i] \in [key : Nat, from : Nat]
    /\ \A m \in mail :
        \/ m \in [kind : {"start"}, to : Nat, resume : BOOLEAN, plan : [Legs -> Nat]]
        \/ m \in [kind : {"result"}, to : Nat, leg : Legs, key : Nat,
                  code : {"ok", "refused", "again"}]
        \/ m \in [kind : {"timeout"}, to : Nat, stage : Working]
        \/ m \in [kind : {"finalize"}, to : Nat]
    /\ fresh \in Nat
    /\ callbacks \subseteq Terminal
    /\ faults \in [FaultKinds -> Nat]
    /\ mgr \in [Managers -> [pc : {"idle", "load", "send", "count", "mark"}, attempts : Nat,
                             plan : [Legs -> Nat], moved : BOOLEAN]]

\* A credit is in the ledger, or on its way to its wallet, only once every
\* debit of the transaction is in the ledger (transaction.go:22), whatever
\* crashed and was resumed in between.
CreditsAfterDebits ==
    \A c \in Credits :
        \/ Key(c, 0) \in ledger
        \/ \E i \in DOMAIN inbox[c] : inbox[c][i].key = 0
        => \A d \in Debits : Key(d, 0) \in ledger

\* A reversal in the ledger, or on its way to a wallet, has the reversal key
\* that the stored plan gives its leg (transaction.go:366), so that a resumed
\* orchestrator finishes that reversal and never issues a second one.
KeysPersistedFirst ==
    \A l \in Legs :
        /\ \A k \in ledger : k[1] = l /\ k[2] > 0 => row.plan[l] = k[2]
        /\ \A i \in DOMAIN inbox[l] :
              inbox[l][i].key > 0 => row.plan[l] = inbox[l][i].key

\* The copies of leg l that the live orchestrator has under way: operations
\* not yet handled and answers not yet read.
UnderWay(l) ==
    Cardinality({i \in DOMAIN inbox[l] : inbox[l][i].from = actor.inc})
    + Cardinality({m \in mail : m.kind = "result" /\ m.to = actor.inc /\ m.leg = l})

\* A working orchestrator has exactly one copy under way of every leg it waits
\* for and has not marked for re-sending, and none of any other leg: no leg is
\* sent twice (transaction.go:478) and none is forgotten.
OneCopyUnderWay ==
    actor.up /\ actor.stage \in Working =>
        \A l \in Legs :
            UnderWay(l) = IF l \in outstanding(Handler) /\ ~actor.leg[l].retry THEN 1 ELSE 0

\* An activation that takes up a transaction whose stored plan has a reversal
\* key goes straight to the reversing stage and finishes the reversal
\* (README.md:222), never forward again.
ResumesReversing ==
    [][row.plan # NoReversals /\ actor.stage = "idle" /\ actor'.stage \in Working
         => actor'.stage = "reversing"]_rvars

\* A transaction reported as success has every leg applied and none reversed,
\* however often its orchestrator was lost and resumed.
SuccessMeansApplied == row.status = "success" => \A l \in Legs : Net(l) = 1

\* A transaction that failed without being flagged for reconciliation has no
\* effect: nothing applied, or everything applied also reversed, once.
FailedMeansUndone ==
    row.status = "failed" /\ ~row.flagged => \A l \in Legs : Net(l) = 0

\* The callback a merchant gets tells the outcome the row has.
CallbacksAgree == callbacks \subseteq {row.status}

\* Once a transaction has an outcome no step changes it (transaction.go:669).
OneOutcome ==
    [][completed => row'.status = row.status /\ row'.flagged = row.flagged]_rvars

\* The transaction as AtomicTransfer sees it.
Atomic == INSTANCE AtomicTransfer WITH
    outcome <- IF row.status = "success" THEN "success"
               ELSE IF row.status # "failed" THEN "open"
               ELSE IF row.flagged THEN "reconcile" ELSE "failed",
    net <- [l \in Legs |-> Net(l)]

\* Orchestrator, recovery, wallets and network together implement an atomic
\* transfer.
AtomicSpec == Atomic!Spec

\* Every transaction whose row was created is eventually completed.
Completes == row.status = "pending" ~> completed

=============================================================================
