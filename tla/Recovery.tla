------------------------------ MODULE Recovery ------------------------------
(***************************************************************************)
(* What happens to a transaction whose orchestrator is gone: the cluster   *)
(* (external) losing and re-activating the TransactionActor grain, the     *)
(* dead-letter handler (internal/actors/dead_letter.go) and the recovery   *)
(* managers (internal/recovery/recovery.go), one per replica.              *)
(*                                                                         *)
(* recover() runs in a goroutine of its own: its database reads, the       *)
(* cluster lookup with the send, and its writes are separate steps.  A     *)
(* manager runs one such goroutine per transaction at a time: the cooldown *)
(* (10 s) and the sweep interval (30 s) outlast it.  Beyond that the       *)
(* cooldown only decides whether a request is dropped, which any request   *)
(* may be here.                                                            *)
(***************************************************************************)
EXTENDS TransactionActor

CONSTANTS Managers,       \* recovery managers, one per replica
          MaxAttempts,    \* Options.MaxAttempts; 0: never reached, nor counted
          LiveRedrive,    \* may the sweeper re-drive a live orchestrator?
          StalePlans      \* may a plan change while recover() holds a copy?

VARIABLE mgr              \* mgr[r]: the manager's goroutine and attempt count

rvars == <<tvars, mgr>>

\* pc: what the recover() goroutine does next; attempts: the manager's count
\* for this transaction; plan and moved: what the goroutine has read.
NoJob == [pc |-> "idle", attempts |-> 0, plan |-> NoReversals, moved |-> FALSE]

\* The goroutine ends, with the attempts counted so far or, after forget(),
\* none.
Finished(r) == [mgr EXCEPT ![r] = [NoJob EXCEPT !.attempts = mgr[r].attempts]]
forget(r) == [mgr EXCEPT ![r] = NoJob]

-----------------------------------------------------------------------------
(* The cluster                                                             *)

\* The orchestrator's node, or only its activation, dies; what is addressed
\* to it can no longer be delivered.
Crash ==
    /\ actor.up
    /\ Charge({"crash"})
    /\ actor' = [Activation(actor.inc) EXCEPT !.up = FALSE]
    /\ UNCHANGED <<row, ledger, inbox, mail, fresh, callbacks, mgr>>

\* cluster.Get: the activation there is, or a new one.
Placed == IF actor.up THEN actor ELSE Activation(actor.inc + 1)

\* A message for a stopped activation disappears without a dead letter: it
\* was in the mailbox of a node that died, or was drained by a poisoned actor.
MailLost(m) ==
    /\ m \in mail
    /\ ~(actor.up /\ m.to = actor.inc)
    /\ mail' = mail \ {m}
    /\ UNCHANGED <<row, ledger, actor, inbox, fresh, callbacks, faults, mgr>>

-----------------------------------------------------------------------------
(* Requests for a recovery                                                 *)

Recover(r) ==
    /\ mgr[r].pc = "idle"
    /\ mgr' = [mgr EXCEPT ![r].pc = "load",
                          ![r].attempts = IF MaxAttempts = 0 THEN 0 ELSE @ + 1]

\* Start, result, timeout and finalize messages for a stopped activation are
\* dead-lettered and each asks a manager to recover the transaction.
DeadLetter(m, r) ==
    /\ m \in mail
    /\ ~(actor.up /\ m.to = actor.inc)
    /\ mail' = mail \ {m}
    /\ Recover(r)
    /\ UNCHANGED <<row, ledger, actor, inbox, fresh, callbacks, faults>>

\* A live orchestrator keeps updated_at fresh while its ticks go on, while it
\* finalizes, and as soon as it handles a Start it has been sent.
Attended ==
    /\ actor.up
    /\ \/ actor.try > 0
       \/ /\ actor.stage \in Working
          /\ (actor.armed = actor.stage \/ TimeoutMsg(actor.inc, actor.stage) \in mail)
       \/ \E m \in mail : m.kind = "start" /\ m.to = actor.inc

\* StaleAfter passes without an update of the row.
GoStale ==
    /\ row.status \in {"pending", "processing"} /\ ~row.stale
    /\ LiveRedrive \/ ~Attended
    /\ row' = [row EXCEPT !.stale = TRUE]
    /\ UNCHANGED <<ledger, actor, inbox, mail, fresh, callbacks, faults, mgr>>

sweep(r) ==
    /\ row.status \in {"pending", "processing"} /\ row.stale
    /\ LiveRedrive \/ ~Attended
    /\ Recover(r)
    /\ UNCHANGED tvars

-----------------------------------------------------------------------------
(* The recover() goroutine                                                 *)

\* It reads the row: completed, given up, or to be re-driven from its plan.
recoverLoad(r) ==
    /\ mgr[r].pc = "load"
    /\ mgr' = IF completed THEN forget(r)
              ELSE [mgr EXCEPT ![r].pc = IF mgr[r].attempts > MaxAttempts
                                         THEN "count" ELSE "send",
                               ![r].plan = row.plan]
    /\ UNCHANGED tvars

\* It finds or activates the grain and sends it the plan it read, which only
\* StalePlans lets differ from the stored one by now.
recoverSend(r) ==
    /\ mgr[r].pc = "send"
    /\ mgr' = Finished(r)
    /\ actor' = Placed
    /\ mail' = mail \union {StartMsg(Placed.inc, TRUE,
                               IF StalePlans THEN mgr[r].plan ELSE row.plan)}
    /\ UNCHANGED <<row, ledger, inbox, fresh, callbacks, faults>>

\* giveUp counts the transaction's ledger rows; a failing count reads as none.
giveUp(r) ==
    /\ mgr[r].pc = "count"
    /\ \E moved \in {ledger # {}} \union (IF faults.db > 0 THEN {FALSE} ELSE {}) :
          /\ mgr' = [mgr EXCEPT ![r].pc = "mark", ![r].moved = moved]
          /\ Charge(IF moved = (ledger # {}) THEN {} ELSE {"db"})
    /\ UNCHANGED <<row, ledger, actor, inbox, mail, fresh, callbacks>>

\* The guarded UPDATE may match no row; the callback is sent all the same.  An
\* UPDATE that took effect but was not acknowledged returns its error: no
\* callback, and the attempt stays counted.
markFailed(r) ==
    /\ mgr[r].pc = "mark"
    /\ row' = IF completed THEN row
              ELSE [row EXCEPT !.status = "failed", !.flagged = mgr[r].moved, !.stale = FALSE]
    /\ \/ callbacks' = callbacks \union {"failed"} /\ mgr' = forget(r) /\ UNCHANGED faults
       \/ UNCHANGED callbacks /\ mgr' = Finished(r) /\ Charge({"db"})
    /\ UNCHANGED <<ledger, actor, inbox, mail, fresh>>

\* Any step fails: the row cannot be read or written, or the grain cannot be
\* placed.  The error is logged and the attempt stays counted.
recoverFailed(r) ==
    /\ mgr[r].pc \in {"load", "send", "mark"}
    /\ Charge({IF mgr[r].pc = "send" THEN "place" ELSE "db"})
    /\ mgr' = Finished(r)
    /\ UNCHANGED <<row, ledger, actor, inbox, mail, fresh, callbacks>>

=============================================================================
