-------------------------- MODULE TransactionActor --------------------------
(***************************************************************************)
(* One transaction and its orchestrator (internal/actors/transaction.go):  *)
(* the transactions row with its plan, the TransactionActor activation     *)
(* that currently owns the transaction, the operations it has sent to      *)
(* wallets and the messages on their way to it.                            *)
(*                                                                         *)
(* A wallet is what Account.tla promises: it applies each idempotency key  *)
(* at most once and its definite answers are true.  Which operations it    *)
(* refuses is left open, because balances, statuses and the traffic of     *)
(* other transactions decide it; transactions meet only there, so one      *)
(* transaction against such wallets stands for any number of them.         *)
(*                                                                         *)
(* A handler is one step.  It is cut only in finalize, which sleeps        *)
(* between its database attempts.  A leg's messages all go to one wallet,  *)
(* so each leg has its own queue.  Legs' amounts and wallets, wording,     *)
(* logging and movements are left out.                                     *)
(*                                                                         *)
(* Faults are bounded by MaxFaults, per kind and all together.             *)
(***************************************************************************)
EXTENDS Integers, Sequences, FiniteSets

CONSTANTS Debits, Credits,    \* the legs of the plan
          finalizeAttempts,   \* transaction.go:41
          MaxFaults,          \* how often each kind of fault may happen, and any
          Reordering          \* may messages of two activations overtake each other?

VARIABLES row,       \* the transactions row
          ledger,    \* the idempotency keys in the ledgers table
          actor,     \* the latest activation of the TransactionActor grain
          inbox,     \* inbox[l]: operations on their way to leg l's wallet
          mail,      \* messages on their way to the orchestrator
          fresh,     \* the next key uuid.New() returns
          callbacks, \* the outcomes handed to the webhook notifier
          faults     \* faults left, per kind

tvars == <<row, ledger, actor, inbox, mail, fresh, callbacks, faults>>

-----------------------------------------------------------------------------
(* Data                                                                    *)

Legs == Debits \union Credits

\* A key is a leg and a number: 0 is the key of the leg's original operation,
\* any other number a reversal key.  In a plan 0 stands for "no reversal key".
Key(l, n) == <<l, n>>
NoReversals == [l \in Legs |-> 0]

\* crash: an actor or node dies; db: a statement of the actor or of recovery
\* fails; plan: persistPlan fails; place: the cluster cannot place a grain;
\* again: a wallet answers without a verdict; dead: an operation is
\* dead-lettered; dup: an operation is delivered twice; lost: an operation
\* vanishes with its wallet's node; any: a step that has any of them.
FaultKinds == {"crash", "db", "plan", "place", "again", "dead", "dup", "lost", "any"}

\* A leg is a debit or a credit; finalize() tries at least once.
ASSUME TransactionConstants ==
    /\ Debits \intersect Credits = {}
    /\ finalizeAttempts \in Nat \ {0}
    /\ MaxFaults \in [FaultKinds -> Nat]

Stages == {"idle", "processing", "crediting", "reversing", "finalized"}
Working == {"processing", "crediting", "reversing"}
Terminal == {"success", "failed"}

NewLeg(n) == [done |-> FALSE, applied |-> FALSE, retry |-> FALSE,
              failed |-> FALSE, rkey |-> n, reversed |-> FALSE]

\* A fresh activation.
Activation(n) == [inc |-> n, up |-> TRUE, stage |-> "idle", armed |-> "none",
                  leg |-> [l \in Legs |-> NewLeg(0)], try |-> 0]

StartMsg(n, resume, plan) == [kind |-> "start", to |-> n, resume |-> resume, plan |-> plan]
ResultMsg(n, l, k, code) == [kind |-> "result", to |-> n, leg |-> l, key |-> k, code |-> code]
TimeoutMsg(n, s) == [kind |-> "timeout", to |-> n, stage |-> s]
FinalizeMsg(n) == [kind |-> "finalize", to |-> n]

completed == row.status \in Terminal

\* A step uses up one fault of every kind in K, and one of the steps that may
\* have faults.  When none of those is left, it no longer matters which faults
\* there were.
Charge(K) ==
    LET left == [k \in FaultKinds |-> IF k \in K \/ (k = "any" /\ K # {})
                                      THEN faults[k] - 1 ELSE faults[k]]
    IN /\ \A k \in FaultKinds : left[k] >= 0
       /\ faults' = IF left.any = 0 THEN [k \in FaultKinds |-> 0] ELSE left

\* What may go wrong in a handler that sends operations: the wallets in
\* unplaced cannot be placed, and the plan may not be saved.
Troubles ==
    [unplaced : IF faults.place > 0 THEN SUBSET Legs ELSE {{}},
     saved : IF faults.plan > 0 THEN BOOLEAN ELSE {TRUE}]

Cost(t) == (IF t.unplaced # {} THEN {"place"} ELSE {})
           \union (IF t.saved THEN {} ELSE {"plan"})

Beats == IF faults.db > 0 THEN BOOLEAN ELSE {TRUE}
Missed(beats) == IF beats THEN {} ELSE {"db"}

-----------------------------------------------------------------------------
(* The body of the handlers, as functions on what a handler may change:    *)
(* h.stage, h.armed, h.leg of the actor, the row, the wallets' queues, the *)
(* key counter, and whether FinalizeTransactionMsg is sent to self.        *)

Handler == [stage |-> actor.stage, armed |-> actor.armed, leg |-> actor.leg,
            row |-> row, inbox |-> inbox, fresh |-> fresh, finalize |-> FALSE]

\* Broken variant: debits and credits are not told apart.
inStageAny(h, l) == TRUE

inStage(h, l) ==
    CASE h.stage = "processing" -> l \in Debits
      [] h.stage = "crediting" -> l \in Credits
      [] OTHER -> TRUE

allDone(h) == \A l \in Legs : inStage(h, l) => h.leg[l].done
anyFailed(h) == \E l \in Legs : h.leg[l].failed
\* Broken variant: one applied debit is taken for all of them.
debitsAppliedAny(h) == \E l \in Debits : h.leg[l].applied

debitsApplied(h) == \A l \in Debits : h.leg[l].applied

\* send() for every leg in S: its reversal in the reversing stage, else its
\* original operation.  A leg whose wallet cannot be placed is marked retry.
send(h, S, unplaced) ==
    [h EXCEPT
        !.leg = [l \in Legs |-> IF l \in S
                    THEN [h.leg[l] EXCEPT !.retry = l \in unplaced]
                    ELSE h.leg[l]],
        !.inbox = [l \in Legs |-> IF l \in S \ unplaced
                    THEN Append(h.inbox[l],
                            [key |-> IF h.stage = "reversing" THEN h.leg[l].rkey ELSE 0,
                             from |-> actor.inc])
                    ELSE h.inbox[l]]]

\* Broken variant: the timer keeps the stage the handler was entered in.
armTimeoutEarly(h) == [h EXCEPT !.armed = actor.stage]

armTimeout(h) == [h EXCEPT !.armed = h.stage]

fireLegs(h, t) ==
    send(h, {l \in Legs : ~h.leg[l].done /\ inStage(h, l)}, t.unplaced)

fireCredits(h, t) ==
    armTimeout(fireLegs([h EXCEPT !.stage = "crediting"], t))

\* New reversal keys for the legs in S.  Keys carry their leg, so one number
\* serves them all.
drawKeys(h, S) ==
    [h EXCEPT !.leg = [l \in Legs |-> IF l \in S
                         THEN [h.leg[l] EXCEPT !.rkey = h.fresh] ELSE h.leg[l]],
              !.fresh = IF S = {} THEN @ ELSE @ + 1]

\* Broken variant: the keys are kept in memory only.
persistPlanSkipped(h, t) == [h EXCEPT !.row.stale = FALSE]

\* An error is only logged.
persistPlan(h, t) ==
    IF t.saved
    THEN [h EXCEPT !.row.plan = [l \in Legs |-> h.leg[l].rkey], !.row.stale = FALSE]
    ELSE h

fireReversals(h, t) ==
    LET drawn == drawKeys([h EXCEPT !.stage = "reversing"],
                          {l \in Legs : h.leg[l].applied /\ h.leg[l].rkey = 0})
        saved == persistPlan(drawn, t)
        marked == [saved EXCEPT !.leg = [l \in Legs |->
                     [saved.leg[l] EXCEPT
                        !.done = ~saved.leg[l].applied,
                        !.retry = saved.leg[l].applied /\ saved.leg[l].retry]]]
    IN armTimeout(send(marked, {l \in Legs : marked.leg[l].applied}, t.unplaced))

advance(h, t) ==
    LET g == IF h.stage \in {"processing", "crediting"} /\ anyFailed(h)
             THEN fireReversals(h, t)
             ELSE IF h.stage = "processing" THEN fireCredits(h, t)
             ELSE h
    IN IF ~allDone(h) THEN h ELSE [g EXCEPT !.finalize = allDone(g)]

outstanding(h) == {l \in Legs : ~h.leg[l].done /\ inStage(h, l)}

\* Broken variant: every outstanding leg is re-sent, in flight or not.
resendPendingAll(h, t) == send(h, outstanding(h), t.unplaced)

\* Broken variant: legs marked for re-sending are only counted.
resendPendingNone(h, t) == h

resendPending(h, t) ==
    send(h, {l \in outstanding(h) :
                h.leg[l].retry /\ (h.stage = "reversing" => h.leg[l].rkey # 0)},
         t.unplaced)

\* The heartbeat's UPDATE may fail; the error is only logged.
heartbeat(h, beats) ==
    IF beats /\ h.row.status \notin Terminal THEN [h EXCEPT !.row.stale = FALSE] ELSE h

\* The part of resume() after the ledger was read.
resume(h, t) ==
    LET seen(l, n) == Key(l, n) \in ledger
        found == [h EXCEPT !.leg = [l \in Legs |->
                    [h.leg[l] EXCEPT !.applied = seen(l, 0),
                        !.reversed = h.leg[l].rkey # 0 /\ seen(l, h.leg[l].rkey)]]]
        reversing == \E l \in Legs : h.leg[l].rkey # 0
        forward ==
            LET staged == [found EXCEPT !.stage =
                             IF debitsApplied(found) THEN "crediting" ELSE "processing",
                             !.leg = [l \in Legs |->
                                [found.leg[l] EXCEPT !.done = found.leg[l].applied]]]
            IN fireLegs(staged, t)
        backward ==
            LET missing == {l \in Legs : found.leg[l].applied /\ ~found.leg[l].reversed
                                            /\ found.leg[l].rkey = 0}
                drawn == drawKeys([found EXCEPT !.stage = "reversing"], missing)
                saved == IF missing = {} THEN drawn ELSE persistPlan(drawn, t)
                marked == [saved EXCEPT !.leg = [l \in Legs |->
                             [saved.leg[l] EXCEPT
                                !.failed = ~saved.leg[l].applied,
                                !.done = ~saved.leg[l].applied \/ saved.leg[l].reversed]]]
            IN send(marked, {l \in Legs : ~marked.leg[l].done}, t.unplaced)
    IN advance(armTimeout(IF reversing THEN backward ELSE forward), t)

-----------------------------------------------------------------------------
(* The handlers                                                            *)

\* The activation takes message m from its mailbox.
Takes(m) == m \in mail /\ actor.up /\ m.to = actor.inc /\ actor.try = 0

\* The handler's changes take effect.
Yield(m, h) ==
    /\ actor' = [actor EXCEPT !.stage = h.stage, !.armed = h.armed, !.leg = h.leg]
    /\ row' = h.row
    /\ inbox' = h.inbox
    /\ fresh' = h.fresh
    /\ mail' = (mail \ {m}) \union (IF h.finalize THEN {FinalizeMsg(actor.inc)} ELSE {})
    /\ UNCHANGED <<ledger, callbacks>>

\* The activation stops and its state is gone.  (Poison lets it drain its
\* mailbox first, but nothing it still reads has an effect.)
Poison == actor' = [Activation(actor.inc) EXCEPT !.up = FALSE]

\* The row may be started: pending, or also processing when resuming.
startable(m) ==
    row.status \in {"pending"} \union (IF m.resume THEN {"processing"} ELSE {})

\* Broken variant: the plan's reversal keys are not loaded.
startedAfresh(m) ==
    [Handler EXCEPT !.leg = [l \in Legs |-> NewLeg(0)],
                    !.row.status = "processing", !.row.stale = FALSE]

\* The activation as loadTransfers and the status UPDATE leave it.
started(m) ==
    [Handler EXCEPT !.leg = [l \in Legs |-> NewLeg(m.plan[l])],
                    !.row.status = "processing", !.row.stale = FALSE]

\* loadTransfers fails on no plan that dispatch or persistPlan wrote, so its
\* error path is left out.
start(m) ==
    /\ Takes(m)
    /\ m.kind = "start"
    /\ \/ /\ actor.stage # "idle"
          /\ m.resume /\ actor.stage \in Working
          /\ \E t \in Troubles, beats \in Beats :
                /\ Charge(Cost(t) \union Missed(beats))
                /\ Yield(m, heartbeat(resendPending(Handler, t), beats))
       \/ /\ actor.stage # "idle"
          /\ ~(m.resume /\ actor.stage \in Working)
          /\ Yield(m, Handler)
          /\ UNCHANGED faults
       \/ /\ actor.stage = "idle"
          /\ startable(m)
          /\ \E t \in Troubles :
                /\ Charge(Cost(t))
                /\ Yield(m, IF m.resume THEN resume(started(m), t)
                            ELSE advance(armTimeout(fireLegs(
                                    [started(m) EXCEPT !.stage = "processing"], t)), t))
       \/ /\ actor.stage = "idle"
          /\ ~startable(m)
          /\ Poison
          /\ mail' = mail \ {m}
          /\ UNCHANGED <<row, ledger, inbox, fresh, callbacks, faults>>

\* The status UPDATE failed, its acknowledgement was lost, or resume could not
\* read the ledger: the activation stays idle.
startFailed(m) ==
    /\ Takes(m)
    /\ m.kind = "start" /\ actor.stage = "idle"
    /\ Charge({"db"})
    /\ \/ Yield(m, Handler)
       \/ /\ startable(m)
          /\ Yield(m, [started(m) EXCEPT !.leg = actor.leg])

\* What one reply does to its leg; t is used when a late application needs a
\* reversal of its own.
record(h, m, t) ==
    LET l == m.leg
        settle(f) == [h EXCEPT !.leg[l] = f]
        leg == h.leg[l]
        matches == m.key = (IF h.stage = "reversing" THEN leg.rkey ELSE 0)
        late == drawKeys([h EXCEPT !.leg[l].applied = TRUE], {l})
    IN IF ~matches THEN h
       ELSE IF leg.done THEN
           IF ~(m.code = "ok" /\ leg.failed /\ ~leg.applied) THEN h
           ELSE IF h.stage # "reversing" THEN settle([leg EXCEPT !.applied = TRUE])
           ELSE send([persistPlan(late, t) EXCEPT !.leg[l].done = FALSE], {l}, t.unplaced)
       ELSE IF m.code = "ok" THEN
           settle(IF h.stage = "reversing"
                  THEN [leg EXCEPT !.done = TRUE, !.reversed = TRUE]
                  ELSE [leg EXCEPT !.done = TRUE, !.applied = TRUE])
       ELSE IF m.code = "refused" THEN
           settle(IF h.stage = "reversing"
                  THEN [leg EXCEPT !.done = TRUE]
                  ELSE [leg EXCEPT !.done = TRUE, !.failed = TRUE])
       ELSE settle([leg EXCEPT !.retry = TRUE])

collect(m) ==
    /\ Takes(m)
    /\ m.kind = "result"
    /\ \/ /\ actor.stage \in Working
          /\ \E t \in Troubles :
                /\ Charge(Cost(t))
                /\ Yield(m, advance(record(Handler, m, t), t))
       \/ /\ actor.stage \notin Working
          /\ Yield(m, Handler)
          /\ UNCHANGED faults

tick(m) ==
    /\ Takes(m)
    /\ m.kind = "timeout"
    /\ \/ /\ actor.stage \in Working /\ m.stage = actor.stage
          /\ outstanding(Handler) # {}
          /\ \E t \in Troubles, beats \in Beats :
                /\ Charge(Cost(t) \union Missed(beats))
                /\ Yield(m, armTimeout(heartbeat(resendPending(Handler, t), beats)))
       \/ /\ ~(actor.stage \in Working /\ m.stage = actor.stage)
             \/ outstanding(Handler) = {}
          /\ Yield(m, Handler)
          /\ UNCHANGED faults

\* The timer armed for a stage goes off.
TimerFires ==
    /\ actor.up /\ actor.armed # "none"
    /\ mail' = mail \union {TimeoutMsg(actor.inc, actor.armed)}
    /\ actor' = [actor EXCEPT !.armed = "none"]
    /\ UNCHANGED <<row, ledger, inbox, fresh, callbacks, faults>>

\* Broken variant: only a transaction that failed in every leg failed.
outcomeLenient == IF \A l \in Legs : actor.leg[l].failed THEN "failed" ELSE "success"

\* The outcome finalize() computes from its legs.
outcome == IF \E l \in Legs : actor.leg[l].failed THEN "failed" ELSE "success"

\* Broken variant: a refused reversal is not flagged.
unreconciledIgnored == FALSE

unreconciled ==
    /\ outcome = "failed"
    /\ \E l \in Legs : actor.leg[l].applied /\ ~actor.leg[l].reversed

\* finalize() up to its first database attempt.
finalize(m) ==
    /\ Takes(m)
    /\ m.kind = "finalize"
    /\ mail' = mail \ {m}
    /\ actor' = IF actor.stage \in Working /\ allDone(Handler)
                THEN [actor EXCEPT !.stage = "finalized", !.armed = "none", !.try = 1]
                ELSE actor
    /\ UNCHANGED <<row, ledger, inbox, fresh, callbacks, faults>>

\* Broken variant: the UPDATE is not guarded by is_completed.
WriteOutcomeUnguarded ==
    row' = [row EXCEPT !.status = outcome, !.flagged = unreconciled, !.stale = FALSE]

\* The final UPDATE, guarded by is_completed = FALSE.
WriteOutcome ==
    row' = IF completed THEN row
           ELSE [row EXCEPT !.status = outcome, !.flagged = unreconciled, !.stale = FALSE]

\* One attempt went through.  A row found completed stands (alreadyFinal); its
\* callback is sent here only if an earlier attempt of this actor may have
\* written it, and not if the row cannot be read back.
finalWritten ==
    /\ actor.up /\ actor.try > 0
    /\ WriteOutcome
    /\ \/ /\ callbacks' = IF ~completed \/ (row.status = outcome /\ actor.try > 1)
                          THEN callbacks \union {outcome} ELSE callbacks
          /\ UNCHANGED faults
       \/ completed /\ Charge({"db"}) /\ UNCHANGED callbacks
    /\ Poison
    /\ UNCHANGED <<ledger, inbox, mail, fresh>>

\* The attempt commits and the node dies before it notifies.
finalUnnotified ==
    /\ actor.up /\ actor.try > 0
    /\ Charge({"crash"})
    /\ WriteOutcome
    /\ Poison
    /\ UNCHANGED <<ledger, inbox, mail, fresh, callbacks>>

\* Broken variant: the callback does not wait for the write.
finalFailedNotified ==
    /\ actor.up /\ actor.try > 0
    /\ Charge({"db"})
    /\ WriteOutcome \/ UNCHANGED row
    /\ IF actor.try < finalizeAttempts
       THEN actor' = [actor EXCEPT !.try = @ + 1]
       ELSE Poison
    /\ callbacks' = callbacks \union {outcome}
    /\ UNCHANGED <<ledger, inbox, mail, fresh>>

\* One attempt reports an error, whether or not it committed; after the last
\* one the row is left to recovery.
finalFailed ==
    /\ actor.up /\ actor.try > 0
    /\ Charge({"db"})
    /\ WriteOutcome \/ UNCHANGED row
    /\ IF actor.try < finalizeAttempts
       THEN actor' = [actor EXCEPT !.try = @ + 1]
       ELSE Poison
    /\ UNCHANGED <<ledger, inbox, mail, fresh, callbacks>>

-----------------------------------------------------------------------------
(* The wallets (an Account each) and the network to them                   *)

\* The wallet handles message i of leg l's queue and answers its sender.
WalletHandles(l, i) ==
    LET m == inbox[l][i]
        k == Key(l, m.key)
        answers(code) == mail' = mail \union {ResultMsg(m.from, l, m.key, code)}
    IN /\ i = 1 \/ (Reordering /\ \A j \in 1..(i - 1) : inbox[l][j].from # m.from)
       /\ inbox' = [inbox EXCEPT ![l] = SubSeq(@, 1, i - 1) \o SubSeq(@, i + 1, Len(@))]
       /\ \/ answers("ok") /\ ledger' = ledger \union {k} /\ UNCHANGED faults
          \/ k \notin ledger /\ answers("refused") /\ UNCHANGED <<ledger, faults>>
          \/ answers("again") /\ ledger' \in {ledger, ledger \union {k}} /\ Charge({"again"})
       /\ UNCHANGED <<row, actor, fresh, callbacks>>

\* The message is dead-lettered and answered on the wallet's behalf.
OperationDeadLettered(l) ==
    LET m == Head(inbox[l])
    IN /\ inbox[l] # <<>>
       /\ Charge({"dead"})
       /\ inbox' = [inbox EXCEPT ![l] = Tail(@)]
       /\ mail' = mail \union {ResultMsg(m.from, l, m.key, "again")}
       /\ UNCHANGED <<row, ledger, actor, fresh, callbacks>>

\* The message vanishes: with the node it was sent from, or with the wallet's.
OperationLost(l) ==
    LET m == Head(inbox[l])
    IN /\ inbox[l] # <<>>
       /\ IF actor.up /\ m.from = actor.inc THEN Charge({"lost"}) ELSE UNCHANGED faults
       /\ inbox' = [inbox EXCEPT ![l] = Tail(@)]
       /\ UNCHANGED <<row, ledger, actor, mail, fresh, callbacks>>

\* The network delivers the message a second time.
OperationDuplicated(l) ==
    /\ inbox[l] # <<>>
    /\ Charge({"dup"})
    /\ inbox' = [inbox EXCEPT ![l] = Append(@, Head(@))]
    /\ UNCHANGED <<row, ledger, actor, mail, fresh, callbacks>>

=============================================================================
