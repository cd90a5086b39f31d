------------------------- MODULE TransactionProofs -------------------------
(***************************************************************************)
(* Theorems about TransactionSystem that hold for any number of legs,      *)
(* recovery managers and activations, any faults and any order of          *)
(* messages: types, the cases of a step, that an outcome is final, that    *)
(* credits wait for the debits, and that callbacks tell the outcome.       *)
(***************************************************************************)
EXTENDS HandlerProofs

\* A leaf that names no prover is for the SMT solver, asked again when it runs
\* out of time.
USE SMTT(30), Z3T(30), Z3T(60)

-----------------------------------------------------------------------------
(* Type correctness                                                        *)

LEMMA ActivationType ==
    ASSUME NEW n \in Nat
    PROVE  /\ Activation(n) \in Activations
           /\ [Activation(n) EXCEPT !.up = FALSE] \in Activations
<1>1. [l \in Legs |-> NewLeg(0)] \in [Legs -> LegStates]
  BY DEF NewLeg, LegStates
<1>2. 0 \in 0 .. finalizeAttempts
  BY TransactionConstants
<1>3. Activation(n) \in Activations
  BY <1>1, <1>2 DEF Activation, Activations, Stages, Timers
<1> QED
  BY <1>3, Zenon DEF Activations

LEMMA StoppedType ==
    ASSUME TypeInv, Stopped
    PROVE  /\ actor' \in Activations /\ actor'.inc = actor.inc /\ actor'.up = FALSE
           /\ actor'.stage = "idle" /\ actor'.try = 0 /\ actor'.armed = "none"
           /\ actor'.leg = [l \in Legs |-> NewLeg(0)]
<1>1. actor.inc \in Nat
  BY DEF TypeInv, Activations
<1> QED
  BY <1>1, ActivationType DEF Stopped, Activation

LEMMA PlacedType ==
    ASSUME TypeInv
    PROVE  /\ Placed \in Activations
           /\ actor.up => Placed = actor
           /\ ~actor.up => /\ Placed.inc = actor.inc + 1 /\ Placed.up = TRUE
                           /\ Placed.stage = "idle" /\ Placed.try = 0
                           /\ Placed.leg = [l \in Legs |-> NewLeg(0)]
           /\ Placed.inc \in Nat /\ Placed.inc >= actor.inc /\ Placed.up = TRUE
<1>1. actor.inc \in Nat /\ actor.inc + 1 \in Nat /\ actor.up \in BOOLEAN /\ actor \in Activations
  BY DEF TypeInv, Activations
<1>2. Activation(actor.inc + 1) \in Activations
  BY <1>1, ActivationType, Zenon
<1> QED
  BY <1>1, <1>2 DEF Placed, Activation

\* A handler's result has its type.
LEMMA YieldType ==
    ASSUME TypeInv, NEW m, NEW h \in Handlers, Yield(m, h), UNCHANGED mgr,
           faults' \in [FaultKinds -> Nat]
    PROVE  TypeInv'
<1>1. /\ actor' = [actor EXCEPT !.stage = h.stage, !.armed = h.armed, !.leg = h.leg]
      /\ row' = h.row /\ inbox' = h.inbox /\ fresh' = h.fresh
      /\ mail' = (mail \ {m}) \union (IF h.finalize THEN {FinalizeMsg(actor.inc)} ELSE {})
      /\ ledger' = ledger /\ callbacks' = callbacks
  BY DEF Yield
<1>2. actor' \in Activations
  BY <1>1, Zenon DEF TypeInv, Activations, Handlers
<1>3. FinalizeMsg(actor.inc) \in Mail
  BY DEF FinalizeMsg, Mail, FinalizeMsgs, TypeInv, Activations
<1>4. mail' \subseteq Mail
  BY <1>1, <1>3 DEF TypeInv
<1> QED
  BY <1>1, <1>2, <1>4 DEF TypeInv, Handlers

\* The outcome and the row it is written to.
LEMMA WriteOutcomeType ==
    ASSUME TypeInv, WriteOutcome \/ UNCHANGED row
    PROVE  /\ row' \in Rows /\ row'.plan = row.plan
           /\ completed => row' = row
           /\ row' = row \/ (row'.status = outcome /\ row'.flagged = unreconciled)
           /\ outcome \in Terminal
<1>1. outcome \in Terminal /\ unreconciled \in BOOLEAN
  BY DEF outcome, unreconciled, Terminal
<1> QED
  BY <1>1, Zenon DEF TypeInv, WriteOutcome, Rows

LEMMA ChargeType ==
    ASSUME TypeInv, NEW k, Charge({k})
    PROVE  /\ faults' \in [FaultKinds -> Nat]
           /\ \A j \in FaultKinds : faults'[j] <= faults[j]
BY ChargeLowers DEF TypeInv

\* One attempt to write the outcome.
LEMMA FinalType ==
    ASSUME TypeInv, finalWritten \/ finalUnnotified \/ finalFailed
    PROVE  /\ actor.up /\ actor.try > 0
           /\ WriteOutcome \/ UNCHANGED row
           /\ Stopped \/ actor' = [actor EXCEPT !.try = @ + 1]
           /\ actor' \in Activations
           /\ callbacks' = callbacks \/ (WriteOutcome /\ callbacks' = callbacks \union {outcome}
                                          /\ (~completed \/ row.status = outcome))
           /\ UNCHANGED <<ledger, inbox, mail, fresh>>
           /\ faults' \in [FaultKinds -> Nat]
           /\ \A j \in FaultKinds : faults'[j] <= faults[j]
<1>1. Stopped => actor' \in Activations
  BY StoppedType
<1>2. finalizeAttempts \in Nat /\ actor.try \in 0 .. finalizeAttempts
  BY TransactionConstants DEF TypeInv, Activations
<1>3. actor.try < finalizeAttempts /\ actor' = [actor EXCEPT !.try = @ + 1]
        => actor' \in Activations
  <2>1. actor.try < finalizeAttempts => actor.try + 1 \in 0 .. finalizeAttempts
    BY <1>2
  <2>2. actor \in Activations
    BY DEF TypeInv
  <2> QED
    BY <2>1, <2>2 DEF Activations
<1>4. UNCHANGED faults => /\ faults' \in [FaultKinds -> Nat]
                          /\ \A j \in FaultKinds : faults'[j] <= faults[j]
  BY DEF TypeInv
<1>5. CASE finalWritten
  <2>1. /\ actor.up /\ actor.try > 0 /\ WriteOutcome /\ Stopped
        /\ UNCHANGED <<ledger, inbox, mail, fresh>>
    BY <1>5 DEF finalWritten, Poison, Stopped
  <2>2. CASE /\ callbacks' = IF ~completed \/ (row.status = outcome /\ actor.try > 1)
                             THEN callbacks \union {outcome} ELSE callbacks
             /\ UNCHANGED faults
    BY <1>1, <1>4, <2>1, <2>2
  <2>3. CASE Charge({"db"}) /\ UNCHANGED callbacks
    BY <1>1, <2>1, <2>3, ChargeType, Zenon
  <2> QED
    BY <1>5, <2>2, <2>3 DEF finalWritten
<1>6. CASE finalUnnotified
  BY <1>1, <1>6, ChargeType, Zenon DEF finalUnnotified, Poison, Stopped
<1>7. CASE finalFailed
  BY <1>1, <1>3, <1>7, ChargeType, Zenon DEF finalFailed, Poison, Stopped
<1> QED
  BY <1>5, <1>6, <1>7

\* A step of a manager or of the mailroom leaves every job a job.
LEMMA JobType ==
    ASSUME TypeInv, NEW r \in Managers
    PROVE  /\ Finished(r) \in [Managers -> Jobs] /\ forget(r) \in [Managers -> Jobs]
           /\ Recover(r) => mgr' \in [Managers -> Jobs]
           /\ recoverLoad(r) => mgr' \in [Managers -> Jobs]
           /\ giveUp(r) => mgr' \in [Managers -> Jobs]
<1>0. /\ mgr \in [Managers -> Jobs] /\ mgr[r] \in Jobs /\ row.plan \in [Legs -> Nat]
      /\ NoReversals \in [Legs -> Nat] /\ mgr[r].attempts \in Nat
      /\ mgr[r].attempts + 1 \in Nat
  BY DEF TypeInv, Rows, NoReversals, Jobs
<1>1. NoJob \in Jobs /\ [NoJob EXCEPT !.attempts = mgr[r].attempts] \in Jobs
  BY <1>0, Zenon DEF NoJob, Jobs
<1>2. Finished(r) \in [Managers -> Jobs] /\ forget(r) \in [Managers -> Jobs]
  BY <1>0, <1>1 DEF Finished, forget
<1>3. ASSUME Recover(r) PROVE mgr' \in [Managers -> Jobs]
  <2> DEFINE n == IF MaxAttempts = 0 THEN 0 ELSE mgr[r].attempts + 1
             j == [mgr[r] EXCEPT !.pc = "load", !.attempts = n]
  <2>1. n \in Nat
    BY <1>0
  <2>2. mgr' = [mgr EXCEPT ![r] = j]
    BY <1>0, <1>3, Zenon DEF Recover, Jobs
  <2> HIDE DEF n
  <2>3. j \in Jobs
    BY <1>0, <2>1, Zenon DEF Jobs
  <2> QED
    BY <1>0, <2>2, <2>3
<1>4. ASSUME recoverLoad(r) PROVE mgr' \in [Managers -> Jobs]
  <2> DEFINE p == IF mgr[r].attempts > MaxAttempts THEN "count" ELSE "send"
             j == [mgr[r] EXCEPT !.pc = p, !.plan = row.plan]
  <2>1. mgr' = IF completed THEN forget(r) ELSE [mgr EXCEPT ![r] = j]
    BY <1>0, <1>4, Zenon DEF recoverLoad, Jobs
  <2>2. p \in {"count", "send"}
    OBVIOUS
  <2> HIDE DEF p
  <2>3. j \in Jobs
    BY <1>0, <2>2, Zenon DEF Jobs
  <2> QED
    BY <1>0, <1>2, <2>1, <2>3
<1>5. ASSUME giveUp(r) PROVE mgr' \in [Managers -> Jobs]
  <2>1. PICK moved \in BOOLEAN : mgr' = [mgr EXCEPT ![r].pc = "mark", ![r].moved = moved]
    BY <1>5, Zenon DEF giveUp
  <2> DEFINE j == [mgr[r] EXCEPT !.pc = "mark", !.moved = moved]
  <2>2. mgr' = [mgr EXCEPT ![r] = j]
    BY <1>0, <2>1, Zenon DEF Jobs
  <2>3. j \in Jobs
    BY <1>0, Zenon DEF Jobs
  <2> QED
    BY <1>0, <2>2, <2>3
<1> QED
  BY <1>2, <1>3, <1>4, <1>5

\* A message sent by a manager, a timer, a wallet or on its behalf.
LEMMA MessageTypes ==
    ASSUME NEW n \in Nat
    PROVE  /\ \A b \in BOOLEAN, p \in [Legs -> Nat] : StartMsg(n, b, p) \in StartMsgs
           /\ \A l \in Legs, k \in Nat, c \in {"ok", "refused", "again"} :
                ResultMsg(n, l, k, c) \in ResultMsgs
           /\ \A s \in Working : TimeoutMsg(n, s) \in TimeoutMsgs
BY Zenon DEF StartMsg, StartMsgs, ResultMsg, ResultMsgs, TimeoutMsg, TimeoutMsgs

\* What a wallet or the network does to queue l and the mail.
LEMMA QueueType ==
    ASSUME TypeInv, NEW l \in Legs
    PROVE  /\ \A i \in DOMAIN inbox[l] : WalletHandles(l, i) =>
                /\ inbox' \in [Legs -> Seq(Operations)] /\ mail' \subseteq Mail
                /\ ledger' \subseteq Legs \X Nat
           /\ OperationDeadLettered(l) =>
                inbox' \in [Legs -> Seq(Operations)] /\ mail' \subseteq Mail
           /\ OperationLost(l) => inbox' \in [Legs -> Seq(Operations)]
           /\ OperationDuplicated(l) => inbox' \in [Legs -> Seq(Operations)]
<1>0. /\ inbox \in [Legs -> Seq(Operations)] /\ inbox[l] \in Seq(Operations)
      /\ mail \subseteq Mail /\ ledger \subseteq Legs \X Nat
  BY DEF TypeInv
<1>1. \A e \in Operations, c \in {"ok", "refused", "again"} :
        ResultMsg(e.from, l, e.key, c) \in Mail /\ Key(l, e.key) \in Legs \X Nat
  <2>1. \A e \in Operations : e.from \in Nat /\ e.key \in Nat
    BY DEF Operations
  <2> QED
    BY <2>1, MessageTypes DEF Mail, Key
<1>2. ASSUME NEW i \in DOMAIN inbox[l], WalletHandles(l, i)
      PROVE  /\ inbox' \in [Legs -> Seq(Operations)] /\ mail' \subseteq Mail
             /\ ledger' \subseteq Legs \X Nat
  <2> DEFINE e == inbox[l][i]
             q == SubSeq(inbox[l], 1, i - 1) \o SubSeq(inbox[l], i + 1, Len(inbox[l]))
  <2>1. e \in Operations
    BY <1>0
  <2>2. q \in Seq(Operations)
    BY <1>0, Taken
  <2>3. inbox' = [inbox EXCEPT ![l] = q]
    BY <1>0, <1>2 DEF WalletHandles
  <2>4. \E c \in {"ok", "refused", "again"} : mail' = mail \union {ResultMsg(e.from, l, e.key, c)}
    BY <1>2 DEF WalletHandles
  <2>5. ledger' \in {ledger, ledger \union {Key(l, e.key)}}
    BY <1>2 DEF WalletHandles
  <2> HIDE DEF q, e
  <2> QED
    BY <1>0, <1>1, <2>1, <2>2, <2>3, <2>4, <2>5
<1>3. ASSUME inbox[l] # <<>>
      PROVE  /\ Head(inbox[l]) \in Operations /\ Tail(inbox[l]) \in Seq(Operations)
             /\ Append(inbox[l], Head(inbox[l])) \in Seq(Operations)
  BY <1>0, <1>3
<1>4. ASSUME OperationDeadLettered(l)
      PROVE  inbox' \in [Legs -> Seq(Operations)] /\ mail' \subseteq Mail
  <2>1. /\ inbox[l] # <<>> /\ inbox' = [inbox EXCEPT ![l] = Tail(inbox[l])]
        /\ mail' = mail \union {ResultMsg(Head(inbox[l]).from, l, Head(inbox[l]).key, "again")}
    BY <1>0, <1>4 DEF OperationDeadLettered
  <2> QED
    BY <1>0, <1>1, <1>3, <2>1
<1>5. OperationLost(l) => inbox' \in [Legs -> Seq(Operations)]
  BY <1>0, <1>3 DEF OperationLost
<1>6. OperationDuplicated(l) => inbox' \in [Legs -> Seq(Operations)]
  BY <1>0, <1>3 DEF OperationDuplicated
<1> QED
  BY <1>2, <1>4, <1>5, <1>6

\* The kinds of steps: an activation handles a message, or stops without a
\* word; mail it cannot read is dropped, and managers work, around it.
Reacts(m, h) == Takes(m) /\ Handled(m, h) /\ Yield(m, h)

Halts ==
    /\ actor.up /\ Stopped /\ mail' \subseteq mail
    /\ UNCHANGED <<row, ledger, inbox, fresh, callbacks>>

Around ==
    /\ mail' \subseteq mail
    /\ \A m \in mail : actor.up /\ m.to = actor.inc => m \in mail'
    /\ UNCHANGED <<row, ledger, actor, inbox, fresh, callbacks>>

Finals == finalWritten \/ finalUnnotified \/ finalFailed

Network(l) == OperationDeadLettered(l) \/ OperationLost(l) \/ OperationDuplicated(l)

\* Every step is of one of these kinds, and no step adds to the faults left.
LEMMA StepCases ==
    ASSUME TypeInv, [Next]_rvars
    PROVE  /\ mgr' \in [Managers -> Jobs]
           /\ faults' \in [FaultKinds -> Nat]
           /\ \A k \in FaultKinds : faults'[k] <= faults[k]
           /\ \/ \E m \in mail : \E h \in Handlers : Reacts(m, h) /\ UNCHANGED mgr
              \/ Halts /\ UNCHANGED mgr
              \/ \E m \in mail : finalize(m) /\ UNCHANGED mgr
              \/ TimerFires /\ UNCHANGED mgr
              \/ Finals /\ UNCHANGED mgr
              \/ \E l \in Legs : \E i \in DOMAIN inbox[l] : WalletHandles(l, i) /\ UNCHANGED mgr
              \/ \E l \in Legs : Network(l) /\ UNCHANGED mgr
              \/ Around
              \/ GoStale
              \/ \E r \in Managers : recoverSend(r)
              \/ \E r \in Managers : markFailed(r)
              \/ dispatch \/ dispatchCut
<1>0. mgr \in [Managers -> Jobs] /\ faults \in [FaultKinds -> Nat]
  BY DEF TypeInv
<1> DEFINE Spent == /\ faults' \in [FaultKinds -> Nat]
                    /\ \A k \in FaultKinds : faults'[k] <= faults[k]
<1>1. UNCHANGED faults => Spent
  BY <1>0
<1>2. UNCHANGED mgr => mgr' \in [Managers -> Jobs]
  BY <1>0
<1>3. \A k : Charge({k}) => Spent
  BY ChargeType
<1>4. Charge({}) => Spent
  BY <1>0, ChargeLowers
<1>5. ASSUME UNCHANGED <<row, ledger, actor, inbox, mail, fresh, callbacks>> PROVE Around
  BY <1>5 DEF Around
<1> HIDE DEF Spent
<1>6. CASE dispatch \/ dispatchCut
  BY <1>1, <1>2, <1>3, <1>6, Zenon DEF dispatch, dispatchCut, Spent
<1>7. ASSUME NEW m \in mail, start(m) \/ startFailed(m) \/ collect(m) \/ tick(m), UNCHANGED mgr
      PROVE  /\ Spent
             /\ \/ \E h \in Handlers : Reacts(m, h) /\ UNCHANGED mgr
                \/ Halts /\ UNCHANGED mgr
  <2>1. Takes(m) /\ Spent
    BY <1>7, ActorStep DEF Spent
  <2>2. CASE \E h \in Handlers : Handled(m, h) /\ Yield(m, h)
    BY <1>7, <2>1, <2>2 DEF Reacts
  <2>3. CASE /\ Stopped /\ mail' = mail \ {m}
             /\ UNCHANGED <<row, ledger, inbox, fresh, callbacks>>
    <3>1. actor.up /\ mail' \subseteq mail
      BY <2>1, <2>3 DEF Takes
    <3> QED
      BY <1>7, <2>1, <2>3, <3>1 DEF Halts
  <2> QED
    BY <1>7, <2>2, <2>3, ActorStep
<1>8. ASSUME NEW m \in mail, finalize(m)
      PROVE  Spent
  BY <1>1, <1>8 DEF finalize
<1>9. CASE TimerFires /\ UNCHANGED mgr
  BY <1>1, <1>2, <1>9 DEF TimerFires, Spent
<1>10. CASE Finals /\ UNCHANGED mgr
  <2>1. Spent
    BY <1>10, FinalType DEF Finals, Spent
  <2> QED
    BY <1>2, <1>10, <2>1 DEF Spent
<1>11. ASSUME NEW l \in Legs, NEW i \in DOMAIN inbox[l], WalletHandles(l, i)
       PROVE  Spent
  <2>1. UNCHANGED faults \/ Charge({"again"})
    BY <1>11 DEF WalletHandles
  <2> QED
    BY <1>1, <1>3, <2>1, Zenon
<1>12. ASSUME NEW l \in Legs, Network(l)
       PROVE  Spent
  BY <1>1, <1>3, <1>12, Zenon DEF Network, OperationDeadLettered, OperationLost, OperationDuplicated
<1>13. CASE Crash
  <2>1. Halts /\ UNCHANGED mgr
    BY <1>13 DEF Crash, Halts, Stopped
  <2> QED
    BY <1>2, <1>3, <1>13, <2>1, Zenon DEF Crash, Spent
<1>14. ASSUME NEW m \in mail, MailLost(m) \/ \E r \in Managers : DeadLetter(m, r)
       PROVE  Around /\ Spent /\ mgr' \in [Managers -> Jobs]
  <2>1. /\ mail' = mail \ {m} /\ ~(actor.up /\ m.to = actor.inc)
        /\ UNCHANGED <<row, ledger, actor, inbox, fresh, callbacks, faults>>
    BY <1>14 DEF MailLost, DeadLetter
  <2>2. Around
    BY <2>1 DEF Around
  <2>3. mgr' \in [Managers -> Jobs]
    BY <1>2, <1>14, JobType DEF MailLost, DeadLetter
  <2> QED
    BY <1>1, <2>1, <2>2, <2>3
<1>15. CASE GoStale
  BY <1>1, <1>2, <1>15 DEF GoStale, Spent
<1>16. ASSUME NEW r \in Managers,
              sweep(r) \/ recoverLoad(r) \/ giveUp(r) \/ recoverFailed(r)
       PROVE  Around /\ Spent /\ mgr' \in [Managers -> Jobs]
  <2>1. Around
    BY <1>5, <1>16, Zenon DEF sweep, recoverLoad, giveUp, recoverFailed, tvars
  <2>2. UNCHANGED faults \/ Charge({}) \/ \E k : Charge({k})
    BY <1>16, Zenon DEF sweep, recoverLoad, giveUp, recoverFailed, tvars
  <2>3. mgr' \in [Managers -> Jobs]
    BY <1>16, JobType DEF sweep, recoverFailed
  <2> QED
    BY <1>1, <1>3, <1>4, <2>1, <2>2, <2>3, Zenon
<1>17. ASSUME NEW r \in Managers, recoverSend(r) \/ markFailed(r)
       PROVE  Spent /\ mgr' \in [Managers -> Jobs]
  <2>1. UNCHANGED faults \/ Charge({"db"})
    BY <1>17, Zenon DEF recoverSend, markFailed
  <2>2. mgr' \in [Managers -> Jobs]
    BY <1>17, JobType, Zenon DEF recoverSend, markFailed
  <2> QED
    BY <1>1, <1>3, <2>1, <2>2, Zenon
<1>18. CASE UNCHANGED rvars
  <2>1. Around /\ UNCHANGED faults /\ UNCHANGED mgr
    BY <1>5, <1>18 DEF rvars, tvars
  <2> QED
    BY <1>1, <1>2, <2>1 DEF Spent
<1>19. CASE Orchestrate
  BY <1>2, <1>7, <1>8, <1>9, <1>10, <1>19 DEF Orchestrate, Finals, Spent
<1>20. CASE OrchestratorFault
  BY <1>2, <1>7, <1>10, <1>20 DEF OrchestratorFault, Finals, Spent
<1>21. CASE WalletStep
  BY <1>2, <1>11, <1>21 DEF WalletStep, Spent
<1>22. CASE NetworkFault
  BY <1>2, <1>12, <1>22 DEF NetworkFault, Network, Spent
<1>23. CASE Mailroom
  BY <1>14, <1>23 DEF Mailroom, Spent
<1>24. CASE Rescue
  BY <1>15, <1>16, <1>17, <1>24 DEF Rescue, Spent
<1>25. CASE RescueFault
  BY <1>16, <1>25 DEF RescueFault, Spent
<1> QED
  BY <1>6, <1>13, <1>18, <1>19, <1>20, <1>21, <1>22, <1>23, <1>24, <1>25, Zenon DEF Next, Settled, Spent

LEMMA TypeStep == TypeInv /\ [Next]_rvars => TypeInv'
<1> SUFFICES ASSUME TypeInv, [Next]_rvars PROVE TypeInv'
  OBVIOUS
<1>0. mgr' \in [Managers -> Jobs] /\ faults' \in [FaultKinds -> Nat]
  BY StepCases
<1>1. /\ row \in Rows /\ ledger \subseteq Legs \X Nat /\ actor \in Activations
      /\ inbox \in [Legs -> Seq(Operations)] /\ mail \subseteq Mail /\ fresh \in Nat \ {0}
      /\ callbacks \subseteq Terminal
  BY DEF TypeInv
<1>2. ASSUME NEW m \in mail, NEW h \in Handlers, Reacts(m, h), UNCHANGED mgr
      PROVE  TypeInv'
  BY <1>0, <1>2, YieldType DEF Reacts
<1>3. CASE Halts
  <2>1. actor' \in Activations
    BY <1>3, StoppedType DEF Halts
  <2> QED
    BY <1>0, <1>1, <1>3, <2>1 DEF Halts, TypeInv
<1>4. ASSUME NEW m \in mail, finalize(m)
      PROVE  TypeInv'
  <2>1. 1 \in 0 .. finalizeAttempts
    BY TransactionConstants
  <2>2. [actor EXCEPT !.stage = "finalized", !.armed = "none", !.try = 1] \in Activations
    BY <1>1, <2>1, Zenon DEF Activations, Stages, Timers
  <2>3. actor' \in Activations
    BY <1>1, <1>4, <2>2 DEF finalize
  <2> QED
    BY <1>0, <1>1, <1>4, <2>3 DEF finalize, TypeInv
<1>5. CASE TimerFires
  <2>1. actor.armed \in Working /\ actor.inc \in Nat
    BY <1>1, <1>5 DEF TimerFires, Activations, Timers
  <2>2. TimeoutMsg(actor.inc, actor.armed) \in Mail
    BY <2>1, MessageTypes DEF Mail
  <2>3. actor' \in Activations
    BY <1>1, <1>5 DEF TimerFires, Activations, Timers
  <2> QED
    BY <1>0, <1>1, <1>5, <2>2, <2>3 DEF TimerFires, TypeInv
<1>6. CASE Finals
  <2>1. /\ WriteOutcome \/ UNCHANGED row
        /\ callbacks' = callbacks \/ callbacks' = callbacks \union {outcome}
        /\ actor' \in Activations /\ UNCHANGED <<ledger, inbox, mail, fresh>>
    BY <1>6, FinalType DEF Finals
  <2>2. row' \in Rows /\ outcome \in Terminal
    BY <2>1, WriteOutcomeType
  <2> QED
    BY <1>0, <1>1, <2>1, <2>2 DEF TypeInv
<1>7. ASSUME NEW l \in Legs, NEW i \in DOMAIN inbox[l], WalletHandles(l, i)
      PROVE  TypeInv'
  <2>1. UNCHANGED <<row, actor, fresh, callbacks>>
    BY <1>7 DEF WalletHandles
  <2> QED
    BY <1>0, <1>1, <1>7, <2>1, QueueType DEF TypeInv
<1>8. ASSUME NEW l \in Legs, Network(l)
      PROVE  TypeInv'
  <2>1. /\ UNCHANGED <<row, ledger, actor, fresh, callbacks>>
        /\ inbox' \in [Legs -> Seq(Operations)] /\ mail' \subseteq Mail
    BY <1>1, <1>8, QueueType
       DEF Network, OperationDeadLettered, OperationLost, OperationDuplicated
  <2> QED
    BY <1>0, <1>1, <2>1 DEF TypeInv
<1>9. CASE Around
  BY <1>0, <1>1, <1>9 DEF Around, TypeInv
<1>10. CASE GoStale
  <2>1. row' \in Rows
    BY <1>1, <1>10, Zenon DEF GoStale, Rows
  <2> QED
    BY <1>0, <1>1, <1>10, <2>1 DEF GoStale, TypeInv
<1>11. ASSUME NEW r \in Managers, recoverSend(r)
       PROVE  TypeInv'
  <2> DEFINE p == IF StalePlans THEN mgr[r].plan ELSE row.plan
  <2>1. p \in [Legs -> Nat] /\ Placed \in Activations /\ Placed.inc \in Nat
    BY <1>1, PlacedType, Zenon DEF TypeInv, Jobs, Rows
  <2>2. mail' = mail \union {StartMsg(Placed.inc, TRUE, p)}
    BY <1>11 DEF recoverSend
  <2> HIDE DEF p
  <2>3. StartMsg(Placed.inc, TRUE, p) \in StartMsgs
    BY <2>1, MessageTypes, Zenon
  <2>4. mail' \subseteq Mail
    BY <1>1, <2>2, <2>3, Zenon DEF Mail
  <2> QED
    BY <1>0, <1>1, <1>11, <2>1, <2>4, Zenon DEF recoverSend, TypeInv
<1>12. ASSUME NEW r \in Managers, markFailed(r)
       PROVE  TypeInv'
  <2>1. mgr[r].moved \in BOOLEAN
    BY DEF TypeInv, Jobs
  <2>2. row' \in Rows /\ callbacks' \subseteq Terminal
    BY <1>1, <1>12, <2>1, Zenon DEF markFailed, Rows, Terminal
  <2> QED
    BY <1>0, <1>1, <1>12, <2>2 DEF markFailed, TypeInv
<1>13. CASE dispatch \/ dispatchCut
  <2>1. Placed \in Activations /\ Placed.inc \in Nat /\ row.plan \in [Legs -> Nat]
    BY <1>1, PlacedType DEF Rows
  <2>2. StartMsg(Placed.inc, FALSE, row.plan) \in Mail
    BY <2>1, MessageTypes, Zenon DEF Mail
  <2>3. Pending \in Rows
    BY <1>1, Zenon DEF Pending, Rows
  <2> QED
    BY <1>0, <1>1, <1>13, <2>1, <2>2, <2>3, Zenon DEF dispatch, dispatchCut, TypeInv
<1> QED
  BY <1>2, <1>3, <1>4, <1>5, <1>6, <1>7, <1>8, <1>9, <1>10, <1>11, <1>12, <1>13, StepCases

LEMMA TypeInit == Init => TypeInv
<1> SUFFICES ASSUME Init PROVE TypeInv
  OBVIOUS
<1>1. NoReversals \in [Legs -> Nat]
  BY DEF NoReversals
<1>2. row \in Rows /\ mgr \in [Managers -> Jobs]
  BY <1>1 DEF Init, Rows, NoJob, Jobs
<1>3. actor \in Activations
  BY ActivationType DEF Init
<1>4. inbox \in [Legs -> Seq(Operations)]
  BY DEF Init
<1> QED
  BY <1>2, <1>3, <1>4, TransactionConstants DEF Init, TypeInv

LEMMA TypeImplies == TypeInv => TypeOK
<1> SUFFICES ASSUME TypeInv PROVE TypeOK
  OBVIOUS
<1>1. \A l \in Legs : \A i \in DOMAIN inbox[l] : inbox[l][i] \in [key : Nat, from : Nat]
  <2>1. \A l \in Legs : inbox[l] \in Seq(Operations)
    BY DEF TypeInv
  <2>2. \A l \in Legs : \A i \in DOMAIN inbox[l] : inbox[l][i] \in Operations
    BY <2>1
  <2> QED
    BY <2>2 DEF Operations
<1>2. actor \in [inc : Nat, up : BOOLEAN, stage : Stages, armed : Stages \union {"none"},
                 leg : [Legs -> LegStates], try : 0..finalizeAttempts]
  BY DEF TypeInv, Activations, Timers, Stages, Working
<1>3. \A m \in mail :
        \/ m \in [kind : {"start"}, to : Nat, resume : BOOLEAN, plan : [Legs -> Nat]]
        \/ m \in [kind : {"result"}, to : Nat, leg : Legs, key : Nat,
                  code : {"ok", "refused", "again"}]
        \/ m \in [kind : {"timeout"}, to : Nat, stage : Working]
        \/ m \in [kind : {"finalize"}, to : Nat]
  BY DEF TypeInv, Mail, StartMsgs, ResultMsgs, TimeoutMsgs, FinalizeMsgs
<1>4. row \in [status : {"none", "pending", "processing"} \union Terminal,
               plan : [Legs -> Nat], flagged : BOOLEAN, stale : BOOLEAN]
  BY DEF TypeInv, Rows, Terminal
<1>5. mgr \in [Managers -> [pc : {"idle", "load", "send", "count", "mark"}, attempts : Nat,
                            plan : [Legs -> Nat], moved : BOOLEAN]]
  BY DEF TypeInv, Jobs
<1> QED
  BY <1>1, <1>2, <1>3, <1>4, <1>5 DEF TypeInv, TypeOK

\* Whatever the wallets, network, crashes and recovery managers do, every
\* variable of the transaction keeps its type.
THEOREM TransactionTypes == Spec => []TypeOK
<1>1. Init => TypeInv
  BY TypeInit
<1>2. TypeInv /\ [Next]_rvars => TypeInv'
  BY TypeStep
<1> QED
  BY <1>1, <1>2, TypeImplies, PTL DEF Spec

-----------------------------------------------------------------------------
(* One outcome                                                             *)

LEMMA RecordRow ==
    ASSUME TypeInv, NEW h \in Handlers, NEW m \in ResultMsgs, NEW t \in TroubleTypes
    PROVE  /\ record(h, m, t).stage = h.stage
           /\ record(h, m, t).row.status = h.row.status
           /\ record(h, m, t).row.flagged = h.row.flagged
<1>1. m.leg \in Legs
  BY DEF ResultMsgs
<1>2. \A f \in LegStates : /\ Left(h, m.leg, f).row = h.row
                            /\ Left(h, m.leg, f).stage = h.stage
  BY <1>1, SettleType
<1>3. ASSUME NEW l \in Legs, h.stage = "reversing"
      PROVE  /\ lateReversal(h, l, t).stage = h.stage
             /\ lateReversal(h, l, t).row.status = h.row.status
             /\ lateReversal(h, l, t).row.flagged = h.row.flagged
  <2>1. ReversedLate(h, l, t, lateReversal(h, l, t))
    BY <1>3, LateType
  <2> QED
    BY <2>1 DEF ReversedLate
<1> QED
  BY <1>1, <1>2, <1>3, RecordCases

LEMMA HandledRow ==
    ASSUME TypeInv, NEW m, NEW h, Handled(m, h)
    PROVE  /\ h.row.flagged = row.flagged
           /\ \/ h.row.status = row.status
              \/ row.status \in {"pending", "processing"} /\ h.row.status = "processing"
<1>1. CASE h = Handler
  BY <1>1 DEF Handler
<1>2. CASE \E t \in Troubles : Resent(t, h)
  BY <1>2 DEF Resent
<1>3. ASSUME startable(m) PROVE row.status \in {"pending", "processing"}
  BY <1>3 DEF startable
<1>4. CASE startable(m) /\ Unstarted(h)
  BY <1>3, <1>4 DEF Unstarted
<1>5. ASSUME NEW t \in Troubles, NEW g \in Handlers, h = advance(g, t), Recorded(m, t, g)
      PROVE  h.row.flagged = row.flagged /\ h.row.status = row.status
  <2>1. t \in TroubleTypes
    BY TroubleType
  <2>2. g.row.status = row.status /\ g.row.flagged = row.flagged
    <3>1. Handler \in Handlers /\ Handler.row = row
      BY HandlerType DEF Handler
    <3> QED
      BY <1>5, <2>1, <3>1, RecordRow DEF Recorded
  <2> QED
    BY <1>5, <2>1, <2>2, AdvanceKeeps
<1>6. ASSUME NEW t \in Troubles, NEW g \in Handlers, h = advance(g, t), Begun(m, t, g)
      PROVE  /\ h.row.flagged = row.flagged /\ h.row.status = "processing"
             /\ row.status \in {"pending", "processing"}
  <2>1. t \in TroubleTypes
    BY TroubleType
  <2>2. started(m).row.status = "processing" /\ started(m).row.flagged = row.flagged
    BY <1>6, StartedType, Zenon DEF Begun
  <2>3. g.row.status = "processing" /\ g.row.flagged = row.flagged
    BY <1>6, <2>2, Zenon DEF Begun, Forward, Backward, First
  <2>4. row.status \in {"pending", "processing"}
    BY <1>3, <1>6, Zenon DEF Begun
  <2> QED
    BY <1>6, <2>1, <2>3, <2>4, AdvanceKeeps
<1> QED
  BY <1>1, <1>2, <1>4, <1>5, <1>6, HandledCases

\* A step leaves the outcome alone once there is one, and writes the outcome
\* of its orchestrator, or of a manager that gives up, before.
LEMMA OutcomeStep ==
    ASSUME TypeInv, [Next]_rvars
    PROVE  completed => row'.status = row.status /\ row'.flagged = row.flagged
<1>1. ASSUME NEW m \in mail, NEW h \in Handlers, Reacts(m, h), completed
      PROVE  row'.status = row.status /\ row'.flagged = row.flagged
  <2>1. Handled(m, h) /\ row' = h.row
    BY <1>1 DEF Reacts, Yield
  <2> QED
    BY <1>1, <2>1, HandledRow DEF completed, Terminal
<1>2. ASSUME Finals, completed
      PROVE  row' = row
  <2>1. WriteOutcome \/ UNCHANGED row
    BY <1>2, FinalType DEF Finals
  <2> QED
    BY <1>2, <2>1, WriteOutcomeType
<1>3. ASSUME NEW m \in mail, finalize(m)
      PROVE  row' = row
  BY <1>3 DEF finalize
<1>4. ASSUME NEW l \in Legs, NEW i \in DOMAIN inbox[l], WalletHandles(l, i)
      PROVE  row' = row
  BY <1>4 DEF WalletHandles
<1>5. ASSUME NEW l \in Legs, Network(l)
      PROVE  row' = row
  BY <1>5 DEF Network, OperationDeadLettered, OperationLost, OperationDuplicated
<1>6. Halts \/ TimerFires \/ Around => row' = row
  BY DEF Halts, TimerFires, Around
<1>7. ASSUME NEW r \in Managers, recoverSend(r)
      PROVE  row' = row
  BY <1>7 DEF recoverSend
<1>8. ASSUME NEW r \in Managers, markFailed(r), completed
      PROVE  row' = row
  BY <1>8 DEF markFailed
<1>9. ASSUME GoStale \/ dispatch \/ dispatchCut, completed
      PROVE  FALSE
  BY <1>9, Zenon DEF GoStale, dispatch, dispatchCut, completed, Terminal
<1> QED
  BY <1>1, <1>2, <1>3, <1>4, <1>5, <1>6, <1>7, <1>8, <1>9, StepCases

\* Once the row has an outcome, neither a late or resumed orchestrator nor a
\* manager that gives up changes it, under any faults.
THEOREM OutcomeIsFinal == Spec => OneOutcome
<1>1. Init => TypeInv
  BY TypeInit
<1>2. TypeInv /\ [Next]_rvars => TypeInv'
  BY TypeStep
<1>3. TypeInv /\ [Next]_rvars
        => [completed => row'.status = row.status /\ row'.flagged = row.flagged]_rvars
  BY OutcomeStep
<1> QED
  BY <1>1, <1>2, <1>3, PTL DEF Spec, OneOutcome

-----------------------------------------------------------------------------
(* Credits after debits                                                    *)

\* The operations in a queue.
Entries(q) == {q[i] : i \in DOMAIN q}

LEMMA EntriesType ==
    ASSUME NEW q \in Seq(Operations)
    PROVE  /\ Entries(q) \subseteq Operations
           /\ \A e \in Operations : Entries(Append(q, e)) = Entries(q) \union {e}
           /\ q # <<>> => /\ Head(q) \in Entries(q) /\ Head(q) \in Operations
                          /\ Tail(q) \in Seq(Operations)
                          /\ Entries(Tail(q)) \subseteq Entries(q)
<1>1. Entries(q) \subseteq Operations
  BY DEF Entries
<1>2. ASSUME NEW e \in Operations
      PROVE  Entries(Append(q, e)) = Entries(q) \union {e}
  <2>1. DOMAIN q = 1 .. Len(q) /\ DOMAIN Append(q, e) = 1 .. Len(q) + 1 /\ Len(q) \in Nat
    OBVIOUS
  <2>2. Entries(Append(q, e)) \subseteq Entries(q) \union {e}
    BY Sent DEF Entries
  <2>3. e \in Entries(Append(q, e))
    <3>1. Len(q) + 1 \in DOMAIN Append(q, e) /\ Append(q, e)[Len(q) + 1] = e
      BY <2>1, Sent
    <3> QED
      BY <3>1 DEF Entries
  <2>4. Entries(q) \subseteq Entries(Append(q, e))
    <3>1. \A i \in DOMAIN q : i \in DOMAIN Append(q, e) /\ Append(q, e)[i] = q[i]
      BY <2>1, Sent
    <3> QED
      BY <3>1 DEF Entries
  <2> QED
    BY <2>2, <2>3, <2>4
<1>3. ASSUME q # <<>>
      PROVE  /\ Head(q) \in Entries(q) /\ Head(q) \in Operations
             /\ Tail(q) \in Seq(Operations)
             /\ Entries(Tail(q)) \subseteq Entries(q)
  <2>1. Len(q) \in Nat \ {0} /\ DOMAIN q = 1 .. Len(q)
    BY <1>3
  <2>2. /\ Tail(q) \in Seq(Operations) /\ DOMAIN Tail(q) = 1 .. Len(q) - 1
        /\ \A i \in 1 .. Len(q) - 1 : Tail(q)[i] = q[i + 1] /\ i + 1 \in 1 .. Len(q)
    BY <1>3, <2>1
  <2>3. Head(q) = q[1] /\ 1 \in DOMAIN q
    BY <1>3, <2>1
  <2>4. Entries(Tail(q)) \subseteq Entries(q)
    BY <2>1, <2>2 DEF Entries
  <2>5. Head(q) \in Entries(q)
    BY <2>3 DEF Entries
  <2> QED
    BY <1>1, <2>2, <2>4, <2>5
<1> QED
  BY <1>1, <1>2, <1>3

LEMMA EntriesCut ==
    ASSUME NEW q \in Seq(Operations), NEW i \in DOMAIN q
    PROVE  /\ q[i] \in Entries(q) /\ q[i] \in Operations
           /\ Entries(SubSeq(q, 1, i - 1) \o SubSeq(q, i + 1, Len(q))) \subseteq Entries(q)
<1> DEFINE r == SubSeq(q, 1, i - 1) \o SubSeq(q, i + 1, Len(q))
<1>1. \A j \in DOMAIN r : \E k \in DOMAIN q : r[j] = q[k]
  BY Taken, Zenon
<1> HIDE DEF r
<1>2. Entries(r) \subseteq Entries(q)
  BY <1>1 DEF Entries
<1>3. q[i] \in Entries(q)
  BY DEF Entries
<1>4. q[i] \in Operations
  OBVIOUS
<1> QED
  BY <1>2, <1>3, <1>4 DEF r

\* What is in a queue after the activation sent an operation with key k.
LEMMA SentEntry ==
    ASSUME TypeInv, NEW q \in Seq(Operations), NEW k \in Nat,
           NEW e \in Entries(Append(q, [key |-> k, from |-> actor.inc]))
    PROVE  e \in Entries(q) \/ (e.key = k /\ e.from = actor.inc)
<1> DEFINE o == [key |-> k, from |-> actor.inc]
<1>1. o \in Operations /\ o.key = k /\ o.from = actor.inc
  BY DEF Operations, TypeInv, Activations
<1>2. Entries(Append(q, o)) = Entries(q) \union {o}
  BY <1>1, EntriesType
<1> QED
  BY <1>1, <1>2

LEMMA SentKeys ==
    ASSUME TypeInv, NEW q \in Seq(Operations), NEW k \in Nat, NEW r,
           r = q \/ r = Append(q, [key |-> k, from |-> actor.inc])
    PROVE  \A e \in Entries(r) : e \in Entries(q) \/ e.key = k
BY SentEntry, Zenon

\* Every debit is in the ledger.
DebitsIn == \A d \in Debits : Key(d, 0) \in ledger

\* A leg counted as applied is in the ledger; in the crediting stage that is
\* so for every debit; a credit is on its way only after every debit.
CreditH(h) ==
    /\ h.stage \in {"processing", "crediting"} =>
         \A l \in Legs : /\ h.leg[l].applied => Key(l, 0) \in ledger
                         /\ h.leg[l].done /\ ~h.leg[l].failed => h.leg[l].applied
    /\ h.stage = "crediting" => \A d \in Debits : h.leg[d].applied
    /\ \A c \in Credits : \A e \in Entries(h.inbox[c]) : e.key = 0 => DebitsIn

\* An answer that the operation was done is true.
OkTrue == \A m \in mail : m.kind = "result" /\ m.code = "ok" => Key(m.leg, m.key) \in ledger

CreditInv ==
    /\ CreditH(Handler)
    /\ OkTrue
    /\ \A c \in Credits : Key(c, 0) \in ledger => DebitsIn

LEMMA CreditAdvance ==
    ASSUME TypeInv, NEW h \in Handlers, NEW t \in TroubleTypes, CreditH(h)
    PROVE  CreditH(advance(h, t))
<1>0. \A c \in Credits : c \in Legs /\ h.inbox[c] \in Seq(Operations)
  BY DEF Legs, Handlers
<1>1. CASE Alike(advance(h, t), h)
  BY <1>1 DEF Alike, CreditH
<1>2. ASSUME ReversalsFired(h, t, advance(h, t))
      PROVE  CreditH(advance(h, t))
  <2> DEFINE g == advance(h, t)
  <2>1. /\ g.stage = "reversing"
        /\ \A l \in Legs :
             g.inbox[l] = IF h.leg[l].applied /\ l \notin t.unplaced
                          THEN Append(h.inbox[l], [key |-> ReversalKey(h, l),
                                                   from |-> actor.inc])
                          ELSE h.inbox[l]
    BY <1>2 DEF ReversalsFired
  <2> HIDE DEF g
  <2>2. \A l \in Legs : /\ ReversalKey(h, l) \in Nat
                        /\ h.leg[l].applied => ReversalKey(h, l) # 0
    BY DEF ReversalKey, Handlers, LegStates
  <2>3. ASSUME NEW c \in Credits, NEW e \in Entries(g.inbox[c]), e.key = 0
        PROVE  DebitsIn
    <3> DEFINE k == ReversalKey(h, c)
    <3>0. /\ k \in Nat
          /\ \/ g.inbox[c] = h.inbox[c]
             \/ /\ k # 0
                /\ g.inbox[c] = Append(h.inbox[c], [key |-> k, from |-> actor.inc])
      BY <1>0, <2>1, <2>2, Zenon
    <3> HIDE DEF k
    <3>1. e \in Entries(h.inbox[c])
      BY <1>0, <2>3, <3>0, SentEntry, Zenon
    <3> QED
      BY <2>3, <3>1 DEF CreditH
  <2>4. CreditH(g)
    BY <2>1, <2>3 DEF CreditH
  <2> QED
    BY <2>4 DEF g
<1>3. ASSUME allDone(h), h.stage = "processing", ~anyFailed(h),
             CreditsFired(h, t, advance(h, t))
      PROVE  CreditH(advance(h, t))
  <2> DEFINE g == advance(h, t)
  <2>1. /\ g.stage = "crediting"
        /\ \A l \in Legs : /\ g.leg[l].applied = h.leg[l].applied
                           /\ g.leg[l].failed = h.leg[l].failed
                           /\ g.leg[l].done = h.leg[l].done
    BY <1>3 DEF CreditsFired
  <2> HIDE DEF g
  <2>2. \A d \in Debits : d \in Legs /\ h.leg[d].applied /\ Key(d, 0) \in ledger
    BY <1>3 DEF CreditH, allDone, anyFailed, inStage, Legs
  <2>3. DebitsIn
    BY <2>2 DEF DebitsIn
  <2>4. CreditH(g)
    BY <1>3, <2>1, <2>2, <2>3 DEF CreditH
  <2> QED
    BY <2>4 DEF g
<1> QED
  BY <1>1, <1>2, <1>3, AdvanceCases

LEMMA CreditRecord ==
    ASSUME TypeInv, CreditInv, NEW m \in ResultMsgs \intersect mail, NEW t \in TroubleTypes
    PROVE  CreditH(record(Handler, m, t))
<1> DEFINE h == Handler
           l == m.leg
<1>0. /\ h \in Handlers /\ l \in Legs /\ m \in ResultMsgs /\ CreditH(h)
      /\ h.leg[l] \in LegStates
      /\ \A c \in Credits : c \in Legs /\ h.inbox[c] \in Seq(Operations)
      /\ h.fresh \in Nat \ {0}
  BY HandlerType DEF ResultMsgs, CreditInv, Handlers, Legs
<1>1. m.code = "ok" => Key(l, m.key) \in ledger
  BY DEF CreditInv, OkTrue, ResultMsgs
<1> HIDE DEF h
<1>2. ASSUME NEW f \in LegStates, Matches(h, m), Settles(h, h.leg[l], m.code, f)
      PROVE  CreditH(Left(h, l, f))
  <2> DEFINE g == Left(h, l, f)
  <2>1. /\ g.stage = h.stage /\ g.inbox = h.inbox
        /\ g.leg[l] = f /\ \A k \in Legs : k # l => g.leg[k] = h.leg[k]
    BY <1>0, SettleType
  <2> HIDE DEF g
  <2>2. h.leg[l].applied => f.applied
    BY <1>0, <1>2, Zenon DEF Settles, LegStates
  <2>3. ASSUME h.stage \in {"processing", "crediting"}
        PROVE  /\ f.applied => Key(l, 0) \in ledger
               /\ f.done /\ ~f.failed => f.applied
    <3>1. m.code = "ok" => Key(l, 0) \in ledger
      BY <1>1, <1>2, <2>3 DEF Matches
    <3>2. h.leg[l].applied => Key(l, 0) \in ledger
      BY <1>0, <2>3 DEF CreditH
    <3>3. h.leg[l].done /\ ~h.leg[l].failed => h.leg[l].applied
      BY <1>0, <2>3 DEF CreditH
    <3> QED
      BY <1>0, <1>2, <2>3, <3>1, <3>2, <3>3, Zenon DEF Settles, LegStates
  <2>4. CreditH(g)
    BY <1>0, <2>1, <2>2, <2>3 DEF CreditH, Legs
  <2> QED
    BY <2>4 DEF g
<1>3. ASSUME h.stage = "reversing" PROVE CreditH(lateReversal(h, l, t))
  <2> DEFINE g == lateReversal(h, l, t)
  <2>1. ReversedLate(h, l, t, g)
    BY <1>0, <1>3, LateType
  <2> HIDE DEF g
  <2>2. ASSUME NEW c \in Credits, NEW e \in Entries(g.inbox[c]), e.key = 0
        PROVE  DebitsIn
    <3>1. \/ g.inbox[c] = h.inbox[c]
          \/ g.inbox[c] = Append(h.inbox[c], [key |-> h.fresh, from |-> actor.inc])
      BY <1>0, <2>1, Zenon DEF ReversedLate
    <3>2. e \in Entries(h.inbox[c])
      BY <1>0, <2>2, <3>1, SentEntry, Zenon
    <3> QED
      BY <1>0, <2>2, <3>2 DEF CreditH
  <2>3. g.stage = "reversing"
    BY <1>3, <2>1 DEF ReversedLate
  <2> QED
    BY <2>2, <2>3 DEF CreditH, g
<1>4. CreditH(record(h, m, t))
  BY <1>0, <1>2, <1>3, RecordCases
<1> QED
  BY <1>4 DEF h

LEMMA CreditResent ==
    ASSUME TypeInv, CreditInv, NEW t, NEW h \in Handlers, actor.stage \in Working, Resent(t, h)
    PROVE  CreditH(h)
<1>0. /\ Handler.stage = actor.stage /\ Handler.leg = actor.leg /\ Handler.inbox = inbox
      /\ \A c \in Credits : /\ c \in Legs /\ inbox[c] \in Seq(Operations) /\ c \notin Debits
                            /\ actor.leg[c].rkey \in Nat
  BY TransactionConstants, Zenon DEF Handler, Legs, TypeInv, Activations, LegStates
<1>1. ASSUME NEW c \in Credits, NEW e \in Entries(h.inbox[c]), e.key = 0
      PROVE  DebitsIn
  <2> DEFINE k == IF actor.stage = "reversing" THEN actor.leg[c].rkey ELSE 0
  <2>1. \/ h.inbox[c] = inbox[c]
        \/ /\ inStage(Handler, c) /\ (actor.stage = "reversing" => actor.leg[c].rkey # 0)
           /\ h.inbox[c] = Append(inbox[c], [key |-> k, from |-> actor.inc])
    BY <1>0, Zenon DEF Resent
  <2>2. CASE e \in Entries(inbox[c])
    BY <1>0, <1>1, <2>2, Zenon DEF CreditInv, CreditH
  <2>3. CASE inStage(Handler, c) /\ (actor.stage = "reversing" => k # 0) /\ k = 0
    <3>1. actor.stage = "crediting"
      BY <1>0, <2>3 DEF inStage, Working
    <3> QED
      BY <1>0, <3>1 DEF CreditInv, CreditH, DebitsIn, Legs
  <2>4. k \in Nat /\ (actor.stage = "reversing" => k = actor.leg[c].rkey)
    BY <1>0
  <2> HIDE DEF k
  <2>5. h.inbox[c] = Append(inbox[c], [key |-> k, from |-> actor.inc])
          => e \in Entries(inbox[c]) \/ k = 0
    BY <1>0, <1>1, <2>4, SentEntry
  <2> QED
    BY <1>1, <2>1, <2>2, <2>3, <2>4, <2>5
<1>2. /\ h.stage = actor.stage
      /\ \A l \in Legs : /\ h.leg[l].applied = actor.leg[l].applied
                         /\ h.leg[l].failed = actor.leg[l].failed
                         /\ h.leg[l].done = actor.leg[l].done
  BY Zenon DEF Resent
<1>3. CreditH(Handler)
  BY DEF CreditInv
<1> QED
  BY <1>0, <1>1, <1>2, <1>3 DEF CreditH, Legs

LEMMA CreditBegun ==
    ASSUME TypeInv, CreditInv, NEW m, NEW t \in TroubleTypes, NEW g \in Handlers,
           Begun(m, t, g)
    PROVE  CreditH(g)
<1> DEFINE s == started(m)
<1>0. /\ s \in Handlers /\ s.inbox = inbox /\ s.fresh = fresh
      /\ \A l \in Legs : s.leg[l].failed = FALSE /\ s.leg[l].rkey \in Nat
  BY StartedType, Zenon DEF Begun, Handlers, LegStates
<1>1. /\ \A c \in Credits : c \in Legs /\ inbox[c] \in Seq(Operations) /\ c \notin Debits
      /\ fresh \in Nat \ {0}
      /\ \A c \in Credits : \A e \in Entries(inbox[c]) : e.key = 0 => DebitsIn
  BY TransactionConstants DEF Legs, TypeInv, CreditInv, CreditH, Handler
<1> HIDE DEF s
<1>2. CASE Forward(s, t, g)
  <2>1. /\ g.stage \in {"crediting", "processing"} /\ (g.stage = "crediting" => DebitsIn)
    BY <1>2 DEF Forward, DebitsIn
  <2>2. ASSUME NEW c \in Credits, NEW e \in Entries(g.inbox[c]), e.key = 0
        PROVE  DebitsIn
    <3>1. \/ g.inbox[c] = inbox[c]
          \/ /\ inStage(g, c)
             /\ g.inbox[c] = Append(inbox[c], [key |-> 0, from |-> actor.inc])
      BY <1>0, <1>1, <1>2, Zenon DEF Forward
    <3>2. inStage(g, c) => DebitsIn
      BY <1>1, <2>1 DEF inStage
    <3> QED
      BY <1>1, <2>2, <3>1, <3>2, SentEntry
  <2>3. \A l \in Legs : /\ g.leg[l].applied = (Key(l, 0) \in ledger)
                        /\ g.leg[l].done = (Key(l, 0) \in ledger)
    BY <1>2 DEF Forward
  <2> QED
    BY <2>1, <2>2, <2>3, Zenon DEF CreditH, DebitsIn, Legs
<1>3. CASE Backward(s, t, g)
  <2>1. g.stage = "reversing"
    BY <1>3, Zenon DEF Backward
  <2>2. ASSUME NEW c \in Credits, NEW e \in Entries(g.inbox[c]), e.key = 0
        PROVE  DebitsIn
    <3> DEFINE k == ResumeKey(s, c)
    <3>1. \/ g.inbox[c] = inbox[c]
          \/ /\ Key(c, 0) \in ledger
             /\ g.inbox[c] = Append(inbox[c], [key |-> k, from |-> actor.inc])
      BY <1>0, <1>1, <1>3, Zenon DEF Backward
    <3>2. k \in Nat /\ (Key(c, 0) \in ledger => k # 0)
      BY <1>0, <1>1 DEF ResumeKey
    <3> HIDE DEF k
    <3>3. g.inbox[c] = Append(inbox[c], [key |-> k, from |-> actor.inc])
            => e \in Entries(inbox[c]) \/ k = 0
      BY <1>1, <2>2, <3>2, SentEntry
    <3> QED
      BY <1>1, <2>2, <3>1, <3>2, <3>3, Zenon
  <2> QED
    BY <2>1, <2>2 DEF CreditH
<1>4. CASE First(m, t, g)
  <2>1. \A c \in Credits : g.inbox[c] = inbox[c]
    BY <1>1, <1>4 DEF First
  <2>2. g.stage = "processing" /\ \A l \in Legs : ~g.leg[l].applied /\ ~g.leg[l].done
    BY <1>4 DEF First
  <2> QED
    BY <1>1, <2>1, <2>2 DEF CreditH
<1> QED
  BY <1>2, <1>3, <1>4 DEF Begun, s

LEMMA CreditHandled ==
    ASSUME TypeInv, CreditInv, NEW m \in mail, NEW h \in Handlers, Handled(m, h)
    PROVE  CreditH(h)
<1>0. \A t \in Troubles : t \in TroubleTypes
  BY TroubleType
<1>1. CASE h = Handler
  BY <1>1 DEF CreditInv
<1>2. CASE actor.stage \in Working /\ \E t \in Troubles : Resent(t, h)
  BY <1>2, CreditResent
<1>3. CASE Unstarted(h)
  <2>1. h.stage = "idle" /\ h.inbox = inbox
    BY <1>3, Zenon DEF Unstarted
  <2>2. \A c \in Credits : \A e \in Entries(inbox[c]) : e.key = 0 => DebitsIn
    BY Zenon DEF CreditInv, CreditH, Handler
  <2> QED
    BY <2>1, <2>2 DEF CreditH
<1>4. ASSUME NEW t \in Troubles, NEW g \in Handlers, Recorded(m, t, g)
      PROVE  CreditH(g)
  BY <1>0, <1>4, CreditRecord DEF Recorded
<1>5. ASSUME NEW t \in Troubles, NEW g \in Handlers, Begun(m, t, g)
      PROVE  CreditH(g)
  BY <1>0, <1>5, CreditBegun
<1>6. CASE \E t \in Troubles, g \in Handlers :
             h = advance(g, t) /\ (Recorded(m, t, g) \/ Begun(m, t, g))
  BY <1>0, <1>4, <1>5, <1>6, CreditAdvance
<1> QED
  BY <1>1, <1>2, <1>3, <1>6, HandledCases

\* A handler's result is the state after it.
LEMMA YieldState ==
    ASSUME TypeInv, NEW m, NEW h \in Handlers, Yield(m, h)
    PROVE  /\ actor'.stage = h.stage /\ actor'.leg = h.leg /\ actor'.armed = h.armed
           /\ actor'.inc = actor.inc /\ actor'.up = actor.up /\ actor'.try = actor.try
           /\ row' = h.row /\ inbox' = h.inbox /\ fresh' = h.fresh
           /\ ledger' = ledger /\ callbacks' = callbacks
           /\ mail' \subseteq mail \union {FinalizeMsg(actor.inc)}
           /\ \A n \in mail : n # m => n \in mail'
BY DEF TypeInv, Activations, Yield

\* Any step but a handler's.
LEMMA CreditKept ==
    ASSUME TypeInv, CreditInv, ledger \subseteq ledger',
           \/ actor'.stage = actor.stage /\ actor'.leg = actor.leg
           \/ actor'.stage \notin {"processing", "crediting"},
           \A c \in Credits : Entries(inbox'[c]) \subseteq Entries(inbox[c])
    PROVE  CreditH(Handler)'
<1>1. /\ CreditH(Handler)
      /\ DebitsIn => DebitsIn'
      /\ \A l \in Legs : Key(l, 0) \in ledger => Key(l, 0) \in ledger'
  BY DEF CreditInv, DebitsIn, Key
<1>2. /\ actor'.stage \in {"processing", "crediting"} =>
           \A l \in Legs : /\ actor'.leg[l].applied => Key(l, 0) \in ledger'
                           /\ actor'.leg[l].done /\ ~actor'.leg[l].failed
                                => actor'.leg[l].applied
      /\ actor'.stage = "crediting" => \A d \in Debits : actor'.leg[d].applied
  BY <1>1, Zenon DEF CreditInv, CreditH, Handler
<1>3. \A c \in Credits : \A e \in Entries(inbox'[c]) : e.key = 0 => DebitsIn'
  BY <1>1, Zenon DEF CreditH, Handler
<1> QED
  BY <1>2, <1>3, Zenon DEF CreditH, Handler, Key

LEMMA OkStep ==
    ASSUME TypeInv, OkTrue, [Next]_rvars
    PROVE  OkTrue'
<1>1. ASSUME ledger' = ledger, \A m \in mail' : m.kind = "result" /\ m.code = "ok" => m \in mail
      PROVE  OkTrue'
  BY <1>1 DEF OkTrue
<1>2. ASSUME NEW m \in mail, NEW h \in Handlers, Reacts(m, h)
      PROVE  OkTrue'
  <2>1. ledger' = ledger /\ mail' \subseteq mail \union {FinalizeMsg(actor.inc)}
    BY <1>2, YieldState DEF Reacts
  <2> QED
    BY <1>1, <2>1 DEF FinalizeMsg
<1>3. CASE Halts \/ TimerFires \/ Around \/ GoStale \/ dispatch \/ dispatchCut
  <2>1. CASE Halts \/ Around \/ GoStale
    BY <1>1, <2>1, Zenon DEF Halts, Around, GoStale
  <2>2. CASE TimerFires
    BY <1>1, <2>2 DEF TimerFires, TimeoutMsg
  <2>3. CASE dispatch \/ dispatchCut
    BY <1>1, <2>3 DEF dispatch, dispatchCut, StartMsg
  <2> QED
    BY <1>3, <2>1, <2>2, <2>3
<1>4. CASE \E m \in mail : finalize(m)
  BY <1>1, <1>4 DEF finalize
<1>5. CASE Finals
  BY <1>1, <1>5, FinalType DEF Finals
<1>6. ASSUME NEW l \in Legs, NEW i \in DOMAIN inbox[l], WalletHandles(l, i)
      PROVE  OkTrue'
  <2> DEFINE e == inbox[l][i]
  <2>1. PICK c : /\ mail' = mail \union {ResultMsg(e.from, l, e.key, c)}
                 /\ c = "ok" => Key(l, e.key) \in ledger'
                 /\ ledger \subseteq ledger'
    BY <1>6 DEF WalletHandles
  <2> HIDE DEF e
  <2>2. ASSUME NEW m \in mail', m.code = "ok", m.kind = "result"
        PROVE  Key(m.leg, m.key) \in ledger'
    <3>1. CASE m \in mail
      BY <2>1, <2>2, <3>1, Zenon DEF OkTrue
    <3>2. CASE m = ResultMsg(e.from, l, e.key, c)
      BY <2>1, <2>2, <3>2 DEF ResultMsg
    <3> QED
      BY <2>1, <3>1, <3>2, Zenon
  <2> QED
    BY <2>2, Zenon DEF OkTrue, Key
<1>7. ASSUME NEW l \in Legs, Network(l)
      PROVE  OkTrue'
  <2>1. CASE OperationDeadLettered(l)
    BY <1>1, <2>1 DEF OperationDeadLettered, ResultMsg
  <2>2. CASE OperationLost(l) \/ OperationDuplicated(l)
    BY <1>1, <2>2, Zenon DEF OperationLost, OperationDuplicated
  <2> QED
    BY <1>7, <2>1, <2>2 DEF Network
<1>8. CASE \E r \in Managers : recoverSend(r) \/ markFailed(r)
  BY <1>1, <1>8 DEF recoverSend, markFailed, StartMsg
<1> QED
  BY <1>2, <1>3, <1>4, <1>5, <1>6, <1>7, <1>8, StepCases, Zenon

LEMMA CreditStep ==
    ASSUME TypeInv, CreditInv, [Next]_rvars
    PROVE  CreditInv'
<1>0. /\ OkTrue' /\ \A c \in Credits : Key(c, 0) \in ledger => DebitsIn
      /\ \A l \in Legs : inbox[l] \in Seq(Operations)
      /\ \A c \in Credits : \A e \in Entries(inbox[c]) : e.key = 0 => DebitsIn
  BY OkStep, Zenon DEF CreditInv, TypeInv, CreditH, Handler
<1>1. ASSUME CreditH(Handler)', ledger' = ledger
      PROVE  CreditInv'
  BY <1>0, <1>1 DEF CreditInv, DebitsIn
<1>2. ASSUME UNCHANGED <<ledger, inbox>>,
             \/ actor'.stage = actor.stage /\ actor'.leg = actor.leg
             \/ actor'.stage \notin {"processing", "crediting"}
      PROVE  CreditInv'
  BY <1>1, <1>2, CreditKept
<1>3. ASSUME NEW m \in mail, NEW h \in Handlers, Reacts(m, h)
      PROVE  CreditInv'
  <2>1. Yield(m, h) /\ CreditH(h)
    BY <1>3, CreditHandled DEF Reacts
  <2>2. /\ actor'.stage = h.stage /\ actor'.leg = h.leg /\ inbox' = h.inbox
        /\ ledger' = ledger
    BY <2>1, YieldState
  <2>3. CreditH(Handler)'
    BY <2>1, <2>2, Zenon DEF CreditH, Handler, DebitsIn
  <2> QED
    BY <1>1, <2>2, <2>3
<1>4. CASE Halts
  <2>1. actor'.stage = "idle"
    BY <1>4, StoppedType DEF Halts
  <2> QED
    BY <1>2, <1>4, <2>1 DEF Halts
<1>5. ASSUME NEW m \in mail, finalize(m)
      PROVE  CreditInv'
  <2>1. actor' = actor \/ actor'.stage = "finalized"
    BY <1>5 DEF finalize, TypeInv, Activations
  <2> QED
    BY <1>2, <1>5, <2>1 DEF finalize
<1>6. CASE TimerFires
  <2>1. actor'.stage = actor.stage /\ actor'.leg = actor.leg
    BY <1>6 DEF TimerFires, TypeInv, Activations
  <2> QED
    BY <1>2, <1>6, <2>1 DEF TimerFires
<1>7. CASE Finals
  <2>1. UNCHANGED <<ledger, inbox>> /\ (Stopped \/ actor' = [actor EXCEPT !.try = @ + 1])
    BY <1>7, FinalType DEF Finals
  <2>2. Stopped => actor'.stage = "idle"
    BY StoppedType
  <2>3. actor' = [actor EXCEPT !.try = @ + 1]
          => actor'.stage = actor.stage /\ actor'.leg = actor.leg
    BY DEF TypeInv, Activations
  <2> QED
    BY <1>2, <2>1, <2>2, <2>3
<1>8. ASSUME NEW l \in Legs, NEW i \in DOMAIN inbox[l], WalletHandles(l, i)
      PROVE  CreditInv'
  <2> DEFINE e == inbox[l][i]
             q == SubSeq(inbox[l], 1, i - 1) \o SubSeq(inbox[l], i + 1, Len(inbox[l]))
  <2>1. e \in Entries(inbox[l]) /\ e \in Operations /\ Entries(q) \subseteq Entries(inbox[l])
    BY <1>0, EntriesCut, Zenon
  <2>2. /\ inbox' = [inbox EXCEPT ![l] = q] /\ actor' = actor
        /\ ledger' \in {ledger, ledger \union {Key(l, e.key)}}
    BY <1>8 DEF WalletHandles
  <2> HIDE DEF e, q
  <2>3. \A c \in Credits : Entries(inbox'[c]) \subseteq Entries(inbox[c])
    BY <2>1, <2>2 DEF TypeInv, Legs
  <2>4. CreditH(Handler)'
    BY <2>2, <2>3, CreditKept
  <2>5. ASSUME NEW c \in Credits, Key(c, 0) \in ledger'
        PROVE  DebitsIn'
    <3>1. DebitsIn
      BY <1>0, <2>1, <2>2, <2>5 DEF Key
    <3> QED
      BY <2>2, <3>1, Zenon DEF DebitsIn, Key
  <2> QED
    BY <1>0, <2>4, <2>5, Zenon DEF CreditInv, Key
<1>9. ASSUME NEW l \in Legs, Network(l)
      PROVE  CreditInv'
  <2>1. /\ inbox[l] # <<>> /\ UNCHANGED <<ledger, actor>>
        /\ inbox' = [inbox EXCEPT ![l] = Tail(inbox[l])]
           \/ inbox' = [inbox EXCEPT ![l] = Append(inbox[l], Head(inbox[l]))]
    BY <1>9, Zenon DEF Network, OperationDeadLettered, OperationLost, OperationDuplicated
  <2>2. /\ Entries(Tail(inbox[l])) \subseteq Entries(inbox[l])
        /\ Entries(Append(inbox[l], Head(inbox[l]))) \subseteq Entries(inbox[l])
    BY <1>0, <2>1, EntriesType
  <2>3. \A c \in Credits : Entries(inbox'[c]) \subseteq Entries(inbox[c])
    BY <2>1, <2>2, Zenon DEF TypeInv, Legs
  <2> QED
    BY <1>1, <2>1, <2>3, CreditKept
<1>10. CASE Around
  BY <1>2, <1>10 DEF Around
<1>11. CASE GoStale
  BY <1>2, <1>11 DEF GoStale
<1>12. Placed = actor \/ Placed.stage = "idle"
  BY PlacedType, Zenon DEF TypeInv, Activations
<1>13. ASSUME NEW r \in Managers, recoverSend(r)
       PROVE  CreditInv'
  BY <1>2, <1>12, <1>13, Zenon DEF recoverSend
<1>14. ASSUME NEW r \in Managers, markFailed(r)
       PROVE  CreditInv'
  BY <1>2, <1>14 DEF markFailed
<1>15. CASE dispatch \/ dispatchCut
  BY <1>2, <1>12, <1>15, Zenon DEF dispatch, dispatchCut
<1> QED
  BY <1>3, <1>4, <1>5, <1>6, <1>7, <1>8, <1>9, <1>10, <1>11, <1>13, <1>14, <1>15, StepCases, Zenon

LEMMA CreditInit == Init => CreditInv
<1> SUFFICES ASSUME Init PROVE CreditInv
  OBVIOUS
<1>1. actor.stage = "idle" /\ ledger = {} /\ mail = {}
  BY DEF Init, Activation
<1>2. \A c \in Credits : Entries(inbox[c]) = {}
  BY DEF Init, Entries, Legs
<1> QED
  BY <1>1, <1>2 DEF CreditInv, CreditH, OkTrue, Handler

LEMMA CreditImplies == TypeInv /\ CreditInv => CreditsAfterDebits
<1> SUFFICES ASSUME TypeInv, CreditInv, NEW c \in Credits,
                    \/ Key(c, 0) \in ledger
                    \/ \E i \in DOMAIN inbox[c] : inbox[c][i].key = 0
             PROVE  \A d \in Debits : Key(d, 0) \in ledger
  BY DEF CreditsAfterDebits
<1>1. (\E i \in DOMAIN inbox[c] : inbox[c][i].key = 0) => DebitsIn
  BY Zenon DEF CreditInv, CreditH, Handler, Entries
<1> QED
  BY <1>1 DEF CreditInv, DebitsIn

\* No credit reaches a wallet before every debit was applied, for any number
\* of legs, any crashes and resumptions, lost, duplicated and reordered
\* operations, and plans that were not saved.
THEOREM CreditsWaitForDebits == Spec => []CreditsAfterDebits
<1>1. Init => TypeInv /\ CreditInv
  BY TypeInit, CreditInit
<1>2. TypeInv /\ CreditInv /\ [Next]_rvars => (TypeInv /\ CreditInv)'
  BY TypeStep, CreditStep
<1>3. TypeInv /\ CreditInv => CreditsAfterDebits
  BY CreditImplies
<1> QED
  BY <1>1, <1>2, <1>3, PTL DEF Spec

-----------------------------------------------------------------------------
(* Callbacks                                                               *)

\* With MaxAttempts = 0 no manager counts attempts or gives up.
Patient == \A r \in Managers : mgr[r].attempts = 0 /\ mgr[r].pc \notin {"count", "mark"}

LEMMA PatientStep ==
    ASSUME MaxAttempts = 0, TypeInv, Patient, [Next]_rvars
    PROVE  Patient'
<1>0. mgr \in [Managers -> Jobs]
  BY DEF TypeInv
<1>1. CASE UNCHANGED mgr
  BY <1>1 DEF Patient
<1>2. ASSUME NEW r \in Managers, Recover(r)
      PROVE  Patient'
  BY <1>0, <1>2 DEF Recover, Patient, Jobs
<1>3. ASSUME NEW r \in Managers, mgr' = Finished(r) \/ mgr' = forget(r)
      PROVE  Patient'
  BY <1>0, <1>3 DEF Finished, forget, NoJob, Patient, Jobs
<1>4. ASSUME NEW r \in Managers, recoverLoad(r)
      PROVE  Patient'
  <2>1. CASE mgr' = forget(r)
    BY <1>3, <2>1
  <2>2. CASE mgr' = [mgr EXCEPT ![r].pc = IF mgr[r].attempts > MaxAttempts
                                         THEN "count" ELSE "send",
                               ![r].plan = row.plan]
    BY <1>0, <2>2 DEF Patient, Jobs
  <2> QED
    BY <1>4, <2>1, <2>2 DEF recoverLoad
<1>5. CASE dispatch \/ dispatchCut \/ Orchestrate \/ OrchestratorFault \/ WalletStep
             \/ NetworkFault \/ Crash \/ Settled \/ UNCHANGED rvars
  BY <1>1, <1>5, Zenon DEF dispatch, dispatchCut, Orchestrate, OrchestratorFault, WalletStep,
                    NetworkFault, Crash, Settled, rvars
<1>6. CASE Mailroom
  BY <1>1, <1>2, <1>6 DEF Mailroom, MailLost, DeadLetter
<1>7. CASE Rescue
  <2>1. CASE GoStale
    BY <1>1, <2>1 DEF GoStale
  <2>2. ASSUME NEW r \in Managers,
               sweep(r) \/ recoverLoad(r) \/ recoverSend(r) \/ giveUp(r) \/ markFailed(r)
        PROVE  Patient'
    <3>1. ~giveUp(r)
      BY Zenon DEF giveUp, Patient
    <3> QED
      BY <1>2, <1>3, <1>4, <2>2, <3>1, Zenon DEF sweep, recoverSend, markFailed
  <2> QED
    BY <1>7, <2>1, <2>2 DEF Rescue
<1>8. CASE RescueFault
  BY <1>3, <1>8 DEF RescueFault, recoverFailed
<1> QED
  BY <1>5, <1>6, <1>7, <1>8 DEF Next

LEMMA PatientInit == Init => Patient
BY DEF Init, Patient, NoJob

\* A step that hands an outcome to the notifier leaves the row with it.
LEMMA CallbackStep ==
    ASSUME TypeInv, Patient, CallbacksAgree, [Next]_rvars
    PROVE  CallbacksAgree'
<1>1. callbacks # {} => completed
  BY DEF TypeInv, CallbacksAgree, completed
<1>2. callbacks # {} => row'.status = row.status
  BY <1>1, OutcomeStep
<1>3. CASE callbacks' = callbacks
  BY <1>2, <1>3 DEF CallbacksAgree
<1>4. CASE Finals
  <2>1. CASE WriteOutcome /\ callbacks' = callbacks \union {outcome}
               /\ (~completed \/ row.status = outcome)
    <3>1. row'.status = outcome
      BY <2>1 DEF WriteOutcome, TypeInv, Rows
    <3> QED
      BY <1>1, <1>2, <2>1, <3>1 DEF CallbacksAgree
  <2> QED
    BY <1>3, <1>4, <2>1, FinalType DEF Finals
<1>5. \A r \in Managers : ~markFailed(r)
  BY DEF markFailed, Patient
<1>6. \A m \in mail : \A h \in Handlers : Reacts(m, h) => callbacks' = callbacks
  BY DEF Reacts, Yield
<1>7. \A m \in mail : finalize(m) => callbacks' = callbacks
  BY DEF finalize
<1>8. Halts \/ TimerFires \/ Around \/ GoStale \/ dispatch \/ dispatchCut
        => callbacks' = callbacks
  BY Zenon DEF Halts, TimerFires, Around, GoStale, dispatch, dispatchCut
<1>9. /\ \A l \in Legs : \A i \in DOMAIN inbox[l] : WalletHandles(l, i)
           => callbacks' = callbacks
      /\ \A l \in Legs : Network(l) => callbacks' = callbacks
      /\ \A r \in Managers : recoverSend(r) => callbacks' = callbacks
  BY Zenon DEF WalletHandles, Network, OperationDeadLettered, OperationLost, OperationDuplicated,
         recoverSend
<1> QED
  BY <1>3, <1>4, <1>5, <1>6, <1>7, <1>8, <1>9, StepCases

\* Without give-ups a merchant is only ever told the outcome the row has and
\* keeps, under every fault: a callback follows the write it reports.
THEOREM CallbacksTellTheOutcome ==
    ASSUME MaxAttempts = 0
    PROVE  Spec => []CallbacksAgree
<1>1. Init => TypeInv /\ Patient /\ CallbacksAgree
  BY TypeInit, PatientInit DEF Init, CallbacksAgree
<1>2. TypeInv /\ Patient /\ CallbacksAgree /\ [Next]_rvars
        => TypeInv' /\ Patient' /\ CallbacksAgree'
  BY TypeStep, PatientStep, CallbackStep
<1> QED
  BY <1>1, <1>2, PTL DEF Spec

-----------------------------------------------------------------------------
(* Reversal keys are stored before they are used.  A plan that cannot be   *)
(* saved, or that changes while recover() holds a copy, breaks this, so    *)
(* both are excluded.                                                      *)

PlansAreSaved == MaxFaults["plan"] = 0 /\ ~StalePlans

\* The orchestrator's reversal keys are the stored ones, and only an applied
\* leg has one; what is in the ledger or on its way has the stored key.
PlanH(h) ==
    /\ h.stage # "idle" =>
         /\ h.row.status \notin {"none", "pending"}
         /\ \A l \in Legs : /\ h.leg[l].rkey = h.row.plan[l]
                            /\ h.leg[l].applied => Key(l, 0) \in ledger
    /\ h.stage \in {"processing", "crediting"} => \A l \in Legs : h.leg[l].rkey = 0
    /\ h.stage = "reversing" => \A l \in Legs : h.leg[l].rkey # 0 => h.leg[l].applied
    /\ h.row.status \in {"none", "pending"} => \A l \in Legs : h.row.plan[l] = 0
    /\ \A l \in Legs :
         /\ h.row.plan[l] # 0 => Key(l, 0) \in ledger
         /\ \A k \in ledger : k[1] = l /\ k[2] > 0 => h.row.plan[l] = k[2]
         /\ \A e \in Entries(h.inbox[l]) : e.key > 0 => h.row.plan[l] = e.key

\* No operation is of a later activation than the latest.
FromH(h) == \A l \in Legs : \A e \in Entries(h.inbox[l]) : e.from <= actor.inc

\* A Start an idle activation can read carries the stored plan.
PlanInv ==
    /\ faults["plan"] = 0
    /\ PlanH(Handler)
    /\ OkTrue
    /\ FromH(Handler)
    /\ \A m \in mail : m.to <= actor.inc
    /\ \A m \in mail :
         m.kind = "start" /\ m.to = actor.inc /\ actor.up /\ actor.stage = "idle"
           => \A l \in Legs : m.plan[l] = row.plan[l]

=============================================================================
