------------------------- MODULE HandlerProofs -----------------------------
(***************************************************************************)
(* Theorems about TransactionSystem for any number of legs, recovery       *)
(* managers, activations and faults.                                       *)
(*                                                                         *)
(* A handler is a composition of functions on what it may change, so each  *)
(* invariant has a form for such a state, h, and one lemma per function    *)
(* that says the function keeps it.                                        *)
(***************************************************************************)
EXTENDS TransactionSystem, TLAPS

\* A leaf that names no prover is for the SMT solver, asked again when it runs
\* out of time.
USE SMTT(30), Z3T(30), Z3T(60)

-----------------------------------------------------------------------------
(* Types                                                                   *)

Rows == [status : {"none", "pending", "processing"} \union Terminal,
         plan : [Legs -> Nat], flagged : BOOLEAN, stale : BOOLEAN]
Operations == [key : Nat, from : Nat]
Timers == Working \union {"none"}
Activations == [inc : Nat, up : BOOLEAN, stage : Stages, armed : Timers,
                leg : [Legs -> LegStates], try : 0 .. finalizeAttempts]
StartMsgs == [kind : {"start"}, to : Nat, resume : BOOLEAN, plan : [Legs -> Nat]]
ResultMsgs == [kind : {"result"}, to : Nat, leg : Legs, key : Nat,
               code : {"ok", "refused", "again"}]
TimeoutMsgs == [kind : {"timeout"}, to : Nat, stage : Working]
FinalizeMsgs == [kind : {"finalize"}, to : Nat]
Mail == StartMsgs \union ResultMsgs \union TimeoutMsgs \union FinalizeMsgs
Jobs == [pc : {"idle", "load", "send", "count", "mark"}, attempts : Nat,
         plan : [Legs -> Nat], moved : BOOLEAN]

\* The type invariant TLC checks leaves open that a queue is a sequence.
TypeInv ==
    /\ row \in Rows
    /\ ledger \subseteq Legs \X Nat
    /\ actor \in Activations
    /\ inbox \in [Legs -> Seq(Operations)]
    /\ mail \subseteq Mail
    /\ fresh \in Nat \ {0}
    /\ callbacks \subseteq Terminal
    /\ faults \in [FaultKinds -> Nat]
    /\ mgr \in [Managers -> Jobs]

\* What a handler may change.
Handlers == [stage : Stages, armed : Timers, leg : [Legs -> LegStates], row : Rows,
             inbox : [Legs -> Seq(Operations)], fresh : Nat \ {0}, finalize : BOOLEAN]

\* What may go wrong in a handler.
TroubleTypes == [unplaced : SUBSET Legs, saved : BOOLEAN]

LEMMA ChargeLowers ==
    ASSUME faults \in [FaultKinds -> Nat], NEW K, Charge(K)
    PROVE  /\ faults' \in [FaultKinds -> Nat]
           /\ \A k \in FaultKinds : faults'[k] <= faults[k]
<1> DEFINE left == [k \in FaultKinds |-> IF k \in K \/ (k = "any" /\ K # {})
                                         THEN faults[k] - 1 ELSE faults[k]]
<1>1. /\ \A k \in FaultKinds : left[k] >= 0
      /\ faults' = IF left.any = 0 THEN [k \in FaultKinds |-> 0] ELSE left
  BY DEF Charge
<1>2. \A k \in FaultKinds : left[k] \in Int /\ left[k] <= faults[k]
  OBVIOUS
<1>3. left \in [FaultKinds -> Nat]
  BY <1>1, <1>2
<1> HIDE DEF left
<1> QED
  BY <1>1, <1>2, <1>3

LEMMA HandlerType ==
    ASSUME TypeInv
    PROVE  Handler \in Handlers
BY DEF TypeInv, Handler, Handlers, Activations

LEMMA TroubleType ==
    ASSUME NEW t \in Troubles
    PROVE  t \in TroubleTypes
BY Zenon DEF Troubles, TroubleTypes

-----------------------------------------------------------------------------
(* What each function of a handler changes                                 *)

LEMMA SendType ==
    ASSUME TypeInv, NEW h \in Handlers, NEW S, NEW u
    PROVE  /\ send(h, S, u) \in Handlers
           /\ send(h, S, u).stage = h.stage /\ send(h, S, u).row = h.row
           /\ send(h, S, u).armed = h.armed /\ send(h, S, u).fresh = h.fresh
           /\ send(h, S, u).leg = [l \in Legs |-> IF l \in S
                    THEN [h.leg[l] EXCEPT !.retry = l \in u] ELSE h.leg[l]]
           /\ send(h, S, u).inbox = [l \in Legs |-> IF l \in S \ u
                    THEN Append(h.inbox[l],
                            [key |-> IF h.stage = "reversing" THEN h.leg[l].rkey ELSE 0,
                             from |-> actor.inc])
                    ELSE h.inbox[l]]
<1> DEFINE lg == [l \in Legs |-> IF l \in S
                    THEN [h.leg[l] EXCEPT !.retry = l \in u] ELSE h.leg[l]]
           ib == [l \in Legs |-> IF l \in S \ u
                    THEN Append(h.inbox[l],
                            [key |-> IF h.stage = "reversing" THEN h.leg[l].rkey ELSE 0,
                             from |-> actor.inc])
                    ELSE h.inbox[l]]
<1>1. send(h, S, u) = [h EXCEPT !.leg = lg, !.inbox = ib]
  BY DEF send
<1>2. lg \in [Legs -> LegStates]
  <2>1. \A l \in Legs : (l \in u) \in BOOLEAN
    OBVIOUS
  <2> QED
    BY <2>1, Zenon DEF Handlers, LegStates
<1>3. ib \in [Legs -> Seq(Operations)]
  <2> SUFFICES ASSUME NEW l \in Legs PROVE ib[l] \in Seq(Operations)
    OBVIOUS
  <2>1. [key |-> IF h.stage = "reversing" THEN h.leg[l].rkey ELSE 0,
         from |-> actor.inc] \in Operations
    BY DEF Handlers, LegStates, Operations, TypeInv, Activations
  <2> QED
    BY <2>1 DEF Handlers
<1> HIDE DEF lg, ib
<1>4. send(h, S, u) \in Handlers
  BY <1>1, <1>2, <1>3, Zenon DEF Handlers
<1>5. /\ send(h, S, u).stage = h.stage /\ send(h, S, u).row = h.row
      /\ send(h, S, u).armed = h.armed /\ send(h, S, u).fresh = h.fresh
      /\ send(h, S, u).leg = lg /\ send(h, S, u).inbox = ib
  BY <1>1 DEF Handlers
<1> QED
  BY <1>4, <1>5 DEF lg, ib

\* Those facts about g = send(h, S, u) as one predicate, for the proofs that
\* reach send through several other calls.
SentBy(h, S, u, g) ==
    /\ g \in Handlers
    /\ g.stage = h.stage /\ g.row = h.row /\ g.armed = h.armed
    /\ g.leg = [l \in Legs |-> IF l \in S
                    THEN [h.leg[l] EXCEPT !.retry = l \in u] ELSE h.leg[l]]
    /\ g.inbox = [l \in Legs |-> IF l \in S \ u
                    THEN Append(h.inbox[l],
                            [key |-> IF h.stage = "reversing" THEN h.leg[l].rkey ELSE 0,
                             from |-> actor.inc])
                    ELSE h.inbox[l]]

LEMMA SendSent ==
    ASSUME TypeInv, NEW h \in Handlers, NEW S, NEW u
    PROVE  SentBy(h, S, u, send(h, S, u))
BY SendType DEF SentBy

LEMMA ArmType ==
    ASSUME NEW h \in Handlers, h.stage \in Working
    PROVE  /\ armTimeout(h) \in Handlers
           /\ armTimeout(h).stage = h.stage /\ armTimeout(h).row = h.row
           /\ armTimeout(h).leg = h.leg /\ armTimeout(h).inbox = h.inbox
           /\ armTimeout(h).armed = h.stage /\ armTimeout(h).fresh = h.fresh
BY Zenon DEF armTimeout, Handlers, Timers

LEMMA StageType ==
    ASSUME NEW h \in Handlers, NEW s \in Stages
    PROVE  LET g == [h EXCEPT !.stage = s] IN
           /\ g \in Handlers /\ g.stage = s /\ g.row = h.row /\ g.leg = h.leg
           /\ g.inbox = h.inbox /\ g.armed = h.armed /\ g.fresh = h.fresh
BY DEF Handlers

LEMMA LegsType ==
    ASSUME NEW h \in Handlers, NEW lg \in [Legs -> LegStates]
    PROVE  LET g == [h EXCEPT !.leg = lg] IN
           /\ g \in Handlers /\ g.stage = h.stage /\ g.row = h.row /\ g.leg = lg
           /\ g.inbox = h.inbox /\ g.armed = h.armed /\ g.fresh = h.fresh
BY Zenon DEF Handlers

LEMMA FinalizeType ==
    ASSUME NEW h \in Handlers, NEW b \in BOOLEAN
    PROVE  LET g == [h EXCEPT !.finalize = b] IN
           /\ g \in Handlers /\ g.stage = h.stage /\ g.row = h.row /\ g.leg = h.leg
           /\ g.inbox = h.inbox /\ g.armed = h.armed /\ g.fresh = h.fresh
           /\ g.finalize = b
BY DEF Handlers

\* drawKeys gives every leg in S the next number, and the others nothing.
LEMMA DrawType ==
    ASSUME NEW h \in Handlers, NEW S
    PROVE  LET g == drawKeys(h, S) IN
           /\ g \in Handlers /\ g.stage = h.stage /\ g.row = h.row
           /\ g.inbox = h.inbox /\ g.armed = h.armed
           /\ g.leg = [l \in Legs |-> IF l \in S THEN [h.leg[l] EXCEPT !.rkey = h.fresh]
                                      ELSE h.leg[l]]
<1> DEFINE lg == [l \in Legs |-> IF l \in S THEN [h.leg[l] EXCEPT !.rkey = h.fresh]
                                 ELSE h.leg[l]]
           n == IF S = {} THEN h.fresh ELSE h.fresh + 1
<1>1. drawKeys(h, S) = [h EXCEPT !.leg = lg, !.fresh = n]
  BY DEF drawKeys, Handlers
<1>2. lg \in [Legs -> LegStates]
  BY Zenon DEF Handlers, LegStates
<1>3. n \in Nat \ {0}
  BY DEF Handlers
<1> HIDE DEF lg, n
<1>4. LET g == [h EXCEPT !.leg = lg, !.fresh = n] IN
      /\ g \in Handlers /\ g.stage = h.stage /\ g.row = h.row
      /\ g.inbox = h.inbox /\ g.armed = h.armed /\ g.leg = lg
  BY <1>2, <1>3, Zenon DEF Handlers
<1> QED
  BY <1>1, <1>4 DEF lg

\* persistPlan stores the legs' reversal keys, or changes nothing.
LEMMA PersistType ==
    ASSUME NEW h \in Handlers, NEW t \in TroubleTypes
    PROVE  LET g == persistPlan(h, t) IN
           /\ g \in Handlers /\ g.stage = h.stage /\ g.leg = h.leg
           /\ g.inbox = h.inbox /\ g.armed = h.armed /\ g.fresh = h.fresh
           /\ g.row.status = h.row.status /\ g.row.flagged = h.row.flagged
           /\ \A l \in Legs :
                g.row.plan[l] = IF t.saved THEN h.leg[l].rkey ELSE h.row.plan[l]
<1> DEFINE pl == [l \in Legs |-> h.leg[l].rkey]
           rw == [h.row EXCEPT !.plan = pl, !.stale = FALSE]
<1>1. h.row \in Rows /\ pl \in [Legs -> Nat]
  BY DEF Handlers, LegStates
<1>2. persistPlan(h, t) = IF t.saved THEN [h EXCEPT !.row = rw] ELSE h
  BY <1>1, Zenon DEF persistPlan, Handlers, Rows
<1> HIDE DEF pl
<1>3. /\ rw \in Rows /\ rw.plan = pl /\ rw.status = h.row.status
      /\ rw.flagged = h.row.flagged
  BY <1>1, Zenon DEF Rows
<1> HIDE DEF rw
<1>4. LET g == [h EXCEPT !.row = rw] IN
      /\ g \in Handlers /\ g.stage = h.stage /\ g.leg = h.leg
      /\ g.inbox = h.inbox /\ g.armed = h.armed /\ g.fresh = h.fresh /\ g.row = rw
  BY <1>3, Zenon DEF Handlers
<1> QED
  BY <1>2, <1>3, <1>4 DEF pl, TroubleTypes

LEMMA HeartbeatType ==
    ASSUME NEW h \in Handlers, NEW b
    PROVE  LET g == heartbeat(h, b) IN
           /\ g \in Handlers /\ g.stage = h.stage /\ g.leg = h.leg
           /\ g.inbox = h.inbox /\ g.armed = h.armed /\ g.fresh = h.fresh
           /\ g.row.status = h.row.status /\ g.row.flagged = h.row.flagged
           /\ g.row.plan = h.row.plan /\ g.finalize = h.finalize
<1> DEFINE rw == [h.row EXCEPT !.stale = FALSE]
<1>1. /\ rw \in Rows /\ rw.plan = h.row.plan /\ rw.status = h.row.status
      /\ rw.flagged = h.row.flagged
  BY Zenon DEF Handlers, Rows
<1>2. heartbeat(h, b) = IF b /\ h.row.status \notin Terminal THEN [h EXCEPT !.row = rw] ELSE h
  BY DEF heartbeat, Handlers, Rows
<1> HIDE DEF rw
<1>3. LET g == [h EXCEPT !.row = rw] IN
      /\ g \in Handlers /\ g.stage = h.stage /\ g.leg = h.leg /\ g.finalize = h.finalize
      /\ g.inbox = h.inbox /\ g.armed = h.armed /\ g.fresh = h.fresh /\ g.row = rw
  BY <1>1 DEF Handlers
<1> QED
  BY <1>1, <1>2, <1>3

\* The reversal key fireReversals and resume leave leg l with.
ReversalKey(h, l) ==
    IF h.leg[l].applied /\ h.leg[l].rkey = 0 THEN h.fresh ELSE h.leg[l].rkey

\* fireReversals: every applied leg has a key, is outstanding, and its
\* reversal is sent unless its wallet cannot be placed.
ReversalsFired(h, t, g) ==
    /\ g.stage = "reversing" /\ g.armed = "reversing"
    /\ g.row.status = h.row.status /\ g.row.flagged = h.row.flagged
    /\ \A l \in Legs :
         /\ g.row.plan[l] = IF t.saved THEN ReversalKey(h, l) ELSE h.row.plan[l]
         /\ g.leg[l].rkey = ReversalKey(h, l)
         /\ g.leg[l].applied = h.leg[l].applied
         /\ g.leg[l].failed = h.leg[l].failed
         /\ g.leg[l].reversed = h.leg[l].reversed
         /\ g.leg[l].done = ~h.leg[l].applied
         /\ g.leg[l].retry = (h.leg[l].applied /\ l \in t.unplaced)
         /\ g.inbox[l] = IF h.leg[l].applied /\ l \notin t.unplaced
                         THEN Append(h.inbox[l], [key |-> ReversalKey(h, l),
                                                  from |-> actor.inc])
                         ELSE h.inbox[l]

LEMMA FireReversalsType ==
    ASSUME TypeInv, NEW h \in Handlers, NEW t \in TroubleTypes
    PROVE  fireReversals(h, t) \in Handlers /\ ReversalsFired(h, t, fireReversals(h, t))
<1> DEFINE S == {l \in Legs : h.leg[l].applied /\ h.leg[l].rkey = 0}
           staged == [h EXCEPT !.stage = "reversing"]
           drawn == drawKeys(staged, S)
           saved == persistPlan(drawn, t)
           lg == [l \in Legs |-> [saved.leg[l] EXCEPT
                                    !.done = ~saved.leg[l].applied,
                                    !.retry = saved.leg[l].applied /\ @]]
           marked == [saved EXCEPT !.leg = lg]
           sent == send(marked, {l \in Legs : marked.leg[l].applied}, t.unplaced)
<1>0. fireReversals(h, t) = armTimeout(sent)
  BY DEF fireReversals
<1>1. /\ staged \in Handlers /\ staged.stage = "reversing" /\ staged.row = h.row
      /\ staged.leg = h.leg /\ staged.inbox = h.inbox /\ staged.fresh = h.fresh
  BY StageType, Zenon DEF Stages
<1> HIDE DEF staged, S
<1>2. /\ drawn \in Handlers /\ drawn.stage = "reversing" /\ drawn.row = h.row
      /\ drawn.inbox = h.inbox
      /\ drawn.leg = [l \in Legs |-> IF l \in S THEN [h.leg[l] EXCEPT !.rkey = h.fresh]
                                     ELSE h.leg[l]]
  BY <1>1, DrawType
<1> HIDE DEF drawn
<1>3. ASSUME NEW l \in Legs
      PROVE  /\ drawn.leg[l].rkey = ReversalKey(h, l)
             /\ drawn.leg[l].applied = h.leg[l].applied /\ drawn.leg[l].failed = h.leg[l].failed
             /\ drawn.leg[l].reversed = h.leg[l].reversed
  <2>1. h.leg[l] \in LegStates
    BY DEF Handlers
  <2>2. drawn.leg[l] = IF h.leg[l].applied /\ h.leg[l].rkey = 0
                       THEN [h.leg[l] EXCEPT !.rkey = h.fresh] ELSE h.leg[l]
    BY <1>2 DEF S
  <2> QED
    BY <2>1, <2>2 DEF ReversalKey, LegStates
<1>4. /\ saved \in Handlers /\ saved.stage = "reversing" /\ saved.leg = drawn.leg
      /\ saved.inbox = h.inbox /\ saved.row.status = h.row.status
      /\ saved.row.flagged = h.row.flagged
      /\ \A l \in Legs :
           saved.row.plan[l] = IF t.saved THEN drawn.leg[l].rkey ELSE h.row.plan[l]
  <2>1. drawn \in Handlers /\ drawn.stage = "reversing" /\ drawn.row = h.row /\ drawn.inbox = h.inbox
    BY <1>2
  <2> QED
    BY <2>1, PersistType
<1>5. \A l \in Legs :
        saved.row.plan[l] = IF t.saved THEN ReversalKey(h, l) ELSE h.row.plan[l]
  BY <1>3, <1>4
<1> HIDE DEF saved
<1>6. ASSUME NEW l \in Legs
      PROVE  /\ lg[l] \in LegStates
             /\ lg[l].rkey = ReversalKey(h, l) /\ lg[l].applied = h.leg[l].applied
             /\ lg[l].failed = h.leg[l].failed /\ lg[l].reversed = h.leg[l].reversed
             /\ lg[l].done = ~h.leg[l].applied
             /\ lg[l].retry = (h.leg[l].applied /\ saved.leg[l].retry)
  <2>1. saved.leg[l] \in LegStates
    BY <1>4 DEF Handlers
  <2>2. lg[l] = [saved.leg[l] EXCEPT !.done = ~saved.leg[l].applied,
                                     !.retry = saved.leg[l].applied /\ @]
    OBVIOUS
  <2>3. /\ (~saved.leg[l].applied) \in BOOLEAN
        /\ (saved.leg[l].applied /\ saved.leg[l].retry) \in BOOLEAN
    OBVIOUS
  <2>4. /\ lg[l] \in LegStates
        /\ lg[l].rkey = saved.leg[l].rkey /\ lg[l].applied = saved.leg[l].applied
        /\ lg[l].failed = saved.leg[l].failed /\ lg[l].reversed = saved.leg[l].reversed
        /\ lg[l].done = ~saved.leg[l].applied
        /\ lg[l].retry = (saved.leg[l].applied /\ saved.leg[l].retry)
    BY <2>1, <2>2, <2>3, Zenon DEF LegStates
  <2>5. saved.leg[l] = drawn.leg[l]
    BY <1>4, Zenon
  <2>6. /\ drawn.leg[l].rkey = ReversalKey(h, l)
        /\ drawn.leg[l].applied = h.leg[l].applied /\ drawn.leg[l].failed = h.leg[l].failed
        /\ drawn.leg[l].reversed = h.leg[l].reversed
    BY <1>3
  <2> QED
    BY <2>4, <2>5, <2>6
<1>7. lg \in [Legs -> LegStates]
  BY <1>6, Zenon
<1> HIDE DEF lg
<1>8. /\ marked \in Handlers /\ marked.stage = "reversing" /\ marked.leg = lg
      /\ marked.inbox = h.inbox /\ marked.row = saved.row
  BY <1>4, <1>7, LegsType
<1> HIDE DEF marked
<1> DEFINE A == {l \in Legs : marked.leg[l].applied}
<1>9. /\ sent \in Handlers /\ sent.stage = "reversing" /\ sent.row = saved.row
      /\ sent.leg = [l \in Legs |-> IF l \in A
                    THEN [marked.leg[l] EXCEPT !.retry = l \in t.unplaced] ELSE marked.leg[l]]
      /\ sent.inbox = [l \in Legs |-> IF l \in A \ t.unplaced
                    THEN Append(marked.inbox[l],
                            [key |-> IF marked.stage = "reversing" THEN marked.leg[l].rkey ELSE 0,
                             from |-> actor.inc])
                    ELSE marked.inbox[l]]
  BY <1>8, SendType
<1> HIDE DEF sent
<1>10. ASSUME NEW l \in Legs
       PROVE  /\ sent.leg[l].rkey = ReversalKey(h, l)
              /\ sent.leg[l].applied = h.leg[l].applied
              /\ sent.leg[l].failed = h.leg[l].failed
              /\ sent.leg[l].reversed = h.leg[l].reversed
              /\ sent.leg[l].done = ~h.leg[l].applied
              /\ sent.leg[l].retry = (h.leg[l].applied /\ l \in t.unplaced)
              /\ sent.inbox[l] = IF h.leg[l].applied /\ l \notin t.unplaced
                                 THEN Append(h.inbox[l], [key |-> ReversalKey(h, l),
                                                          from |-> actor.inc])
                                 ELSE h.inbox[l]
  <2>1. lg[l] \in LegStates /\ h.leg[l] \in LegStates
    BY <1>7 DEF Handlers
  <2>2. (l \in A) = h.leg[l].applied
    BY <1>6, <1>8, <2>1 DEF LegStates
  <2>3. sent.inbox[l] = IF h.leg[l].applied /\ l \notin t.unplaced
                                 THEN Append(h.inbox[l], [key |-> ReversalKey(h, l),
                                                          from |-> actor.inc])
                                 ELSE h.inbox[l]
    BY <1>6, <1>8, <1>9, <2>2
  <2>4. CASE l \in A
    <3>1. sent.leg[l] = [lg[l] EXCEPT !.retry = l \in t.unplaced]
      BY <1>8, <1>9, <2>4
    <3>2. (l \in t.unplaced) \in BOOLEAN
      OBVIOUS
    <3> QED
      BY <3>1, <3>2, <2>1, <2>2, <2>3, <2>4, <1>6 DEF LegStates
  <2>5. CASE l \notin A
    <3>1. sent.leg[l] = lg[l]
      BY <1>8, <1>9, <2>5
    <3> QED
      BY <3>1, <2>1, <2>2, <2>3, <2>5, <1>6 DEF LegStates
  <2> QED
    BY <2>4, <2>5
<1>11. LET g == armTimeout(sent) IN
       /\ g \in Handlers /\ g.stage = "reversing" /\ g.armed = "reversing"
       /\ g.row = saved.row /\ g.leg = sent.leg /\ g.inbox = sent.inbox
  BY <1>9, ArmType DEF Working
<1>12. ReversalsFired(h, t, armTimeout(sent))
  BY <1>4, <1>5, <1>10, <1>11 DEF ReversalsFired
<1> QED
  BY <1>0, <1>11, <1>12

\* fireLegs in a forward stage sends the operations of the stage's legs.
LEMMA FireLegsType ==
    ASSUME TypeInv, NEW h \in Handlers, h.stage # "reversing", NEW t \in TroubleTypes
    PROVE  LET g == fireLegs(h, t)
               fires(l) == ~h.leg[l].done /\ inStage(h, l)
           IN /\ g \in Handlers /\ g.stage = h.stage /\ g.row = h.row /\ g.armed = h.armed
              /\ \A l \in Legs :
                   /\ g.leg[l].rkey = h.leg[l].rkey
                   /\ g.leg[l].applied = h.leg[l].applied
                   /\ g.leg[l].failed = h.leg[l].failed
                   /\ g.leg[l].reversed = h.leg[l].reversed
                   /\ g.leg[l].done = h.leg[l].done
                   /\ fires(l) => g.leg[l].retry = (l \in t.unplaced)
                   /\ ~fires(l) => g.leg[l].retry = h.leg[l].retry
                   /\ g.inbox[l] = IF fires(l) /\ l \notin t.unplaced
                                   THEN Append(h.inbox[l], [key |-> 0, from |-> actor.inc])
                                   ELSE h.inbox[l]
<1> DEFINE S == {l \in Legs : ~h.leg[l].done /\ inStage(h, l)}
           g == send(h, S, t.unplaced)
<1>0. fireLegs(h, t) = g
  BY DEF fireLegs
<1>1. /\ g \in Handlers /\ g.stage = h.stage /\ g.row = h.row /\ g.armed = h.armed
      /\ g.leg = [l \in Legs |-> IF l \in S
                    THEN [h.leg[l] EXCEPT !.retry = l \in t.unplaced] ELSE h.leg[l]]
      /\ g.inbox = [l \in Legs |-> IF l \in S \ t.unplaced
                    THEN Append(h.inbox[l],
                            [key |-> IF h.stage = "reversing" THEN h.leg[l].rkey ELSE 0,
                             from |-> actor.inc])
                    ELSE h.inbox[l]]
  BY SendType
<1> HIDE DEF g
<1>2. ASSUME NEW l \in Legs
      PROVE  /\ g.leg[l].rkey = h.leg[l].rkey
             /\ g.leg[l].applied = h.leg[l].applied
             /\ g.leg[l].failed = h.leg[l].failed
             /\ g.leg[l].reversed = h.leg[l].reversed
             /\ g.leg[l].done = h.leg[l].done
             /\ l \in S => g.leg[l].retry = (l \in t.unplaced)
             /\ l \notin S => g.leg[l].retry = h.leg[l].retry
             /\ g.inbox[l] = IF l \in S /\ l \notin t.unplaced
                             THEN Append(h.inbox[l], [key |-> 0, from |-> actor.inc])
                             ELSE h.inbox[l]
  <2>1. h.leg[l] \in LegStates
    BY DEF Handlers
  <2>2. g.leg[l] = IF l \in S THEN [h.leg[l] EXCEPT !.retry = l \in t.unplaced] ELSE h.leg[l]
    BY <1>1
  <2>3. (l \in t.unplaced) \in BOOLEAN
    OBVIOUS
  <2>4. g.inbox[l] = IF l \in S /\ l \notin t.unplaced
                     THEN Append(h.inbox[l], [key |-> 0, from |-> actor.inc])
                     ELSE h.inbox[l]
    BY <1>1
  <2> HIDE DEF S
  <2> QED
    BY <2>1, <2>2, <2>3, <2>4 DEF LegStates
<1>3. \A l \in Legs : (l \in S) = (~h.leg[l].done /\ inStage(h, l))
  OBVIOUS
<1> HIDE DEF S
<1> QED
  BY <1>0, <1>1, <1>2, <1>3

CreditsFired(h, t, g) ==
    LET fires(l) == ~h.leg[l].done /\ l \in Credits
    IN /\ g.stage = "crediting" /\ g.row = h.row /\ g.armed = "crediting"
       /\ \A l \in Legs :
            /\ g.leg[l].rkey = h.leg[l].rkey
            /\ g.leg[l].applied = h.leg[l].applied
            /\ g.leg[l].failed = h.leg[l].failed
            /\ g.leg[l].reversed = h.leg[l].reversed
            /\ g.leg[l].done = h.leg[l].done
            /\ fires(l) => g.leg[l].retry = (l \in t.unplaced)
            /\ ~fires(l) => g.leg[l].retry = h.leg[l].retry
            /\ g.inbox[l] = IF fires(l) /\ l \notin t.unplaced
                            THEN Append(h.inbox[l], [key |-> 0, from |-> actor.inc])
                            ELSE h.inbox[l]

LEMMA FireCreditsType ==
    ASSUME TypeInv, NEW h \in Handlers, NEW t \in TroubleTypes
    PROVE  fireCredits(h, t) \in Handlers /\ CreditsFired(h, t, fireCredits(h, t))
<1> DEFINE staged == [h EXCEPT !.stage = "crediting"]
           fired == fireLegs(staged, t)
<1>1. /\ staged \in Handlers /\ staged.stage = "crediting" /\ staged.row = h.row
      /\ staged.leg = h.leg /\ staged.inbox = h.inbox
  BY StageType, Zenon DEF Stages
<1>2. \A l \in Legs : inStage(staged, l) <=> l \in Credits
  BY <1>1 DEF inStage
<1>3. fireCredits(h, t) = armTimeout(fired)
  BY DEF fireCredits
<1> HIDE DEF staged
<1>4. /\ fired \in Handlers /\ fired.stage = "crediting" /\ fired.row = h.row
      /\ \A l \in Legs :
           /\ fired.leg[l].rkey = h.leg[l].rkey
           /\ fired.leg[l].applied = h.leg[l].applied
           /\ fired.leg[l].failed = h.leg[l].failed
           /\ fired.leg[l].reversed = h.leg[l].reversed
           /\ fired.leg[l].done = h.leg[l].done
           /\ ~h.leg[l].done /\ l \in Credits => fired.leg[l].retry = (l \in t.unplaced)
           /\ ~(~h.leg[l].done /\ l \in Credits) => fired.leg[l].retry = h.leg[l].retry
           /\ fired.inbox[l] = IF ~h.leg[l].done /\ l \in Credits /\ l \notin t.unplaced
                               THEN Append(h.inbox[l], [key |-> 0, from |-> actor.inc])
                               ELSE h.inbox[l]
  <2>1. staged.stage # "reversing"
    BY <1>1
  <2>2. /\ fired \in Handlers /\ fired.stage = staged.stage /\ fired.row = staged.row
        /\ \A l \in Legs :
             /\ fired.leg[l].rkey = staged.leg[l].rkey
             /\ fired.leg[l].applied = staged.leg[l].applied
             /\ fired.leg[l].failed = staged.leg[l].failed
             /\ fired.leg[l].reversed = staged.leg[l].reversed
             /\ fired.leg[l].done = staged.leg[l].done
             /\ ~staged.leg[l].done /\ inStage(staged, l)
                  => fired.leg[l].retry = (l \in t.unplaced)
             /\ ~(~staged.leg[l].done /\ inStage(staged, l))
                  => fired.leg[l].retry = staged.leg[l].retry
             /\ fired.inbox[l] =
                  IF ~staged.leg[l].done /\ inStage(staged, l) /\ l \notin t.unplaced
                  THEN Append(staged.inbox[l], [key |-> 0, from |-> actor.inc])
                  ELSE staged.inbox[l]
    BY <1>1, <2>1, FireLegsType
  <2> HIDE DEF fired
  <2> QED
    BY <1>1, <1>2, <2>2
<1> HIDE DEF fired
<1>5. LET g == armTimeout(fired) IN
      /\ g \in Handlers /\ g.stage = "crediting" /\ g.armed = "crediting"
      /\ g.row = h.row /\ g.leg = fired.leg /\ g.inbox = fired.inbox
  BY <1>4, ArmType DEF Working
<1>6. CreditsFired(h, t, armTimeout(fired))
  BY <1>4, <1>5 DEF CreditsFired
<1> QED
  BY <1>3, <1>5, <1>6

\* Two handler states that differ at most in whether a finalize is sent.
Alike(g, h) ==
    /\ g \in Handlers
    /\ g.stage = h.stage /\ g.armed = h.armed /\ g.leg = h.leg /\ g.row = h.row
    /\ g.inbox = h.inbox /\ g.fresh = h.fresh

\* advance does one of three things.
LEMMA AdvanceCases ==
    ASSUME TypeInv, NEW h \in Handlers, NEW t \in TroubleTypes
    PROVE  LET g == advance(h, t) IN
           \/ /\ Alike(g, h)
              /\ \/ ~allDone(h)
                 \/ h.stage \notin {"processing", "crediting"}
                 \/ h.stage = "crediting" /\ ~anyFailed(h)
           \/ /\ allDone(h) /\ h.stage \in {"processing", "crediting"} /\ anyFailed(h)
              /\ g \in Handlers /\ ReversalsFired(h, t, g)
           \/ /\ allDone(h) /\ h.stage = "processing" /\ ~anyFailed(h)
              /\ g \in Handlers /\ CreditsFired(h, t, g)
<1>0. Alike(h, h)
  BY DEF Alike
<1>1. ASSUME NEW g \in Handlers
      PROVE  Alike([g EXCEPT !.finalize = allDone(g)], g)
  <2>1. allDone(g) \in BOOLEAN
    BY DEF allDone
  <2> QED
    BY <2>1, FinalizeType DEF Alike
<1>2. fireReversals(h, t) \in Handlers /\ ReversalsFired(h, t, fireReversals(h, t))
  BY FireReversalsType
<1>3. fireCredits(h, t) \in Handlers /\ CreditsFired(h, t, fireCredits(h, t))
  BY FireCreditsType
<1>4. CASE ~allDone(h)
  BY <1>0, <1>4 DEF advance
<1>5. CASE allDone(h) /\ h.stage \in {"processing", "crediting"} /\ anyFailed(h)
  <2>1. advance(h, t) = [fireReversals(h, t) EXCEPT !.finalize = allDone(fireReversals(h, t))]
    BY <1>5 DEF advance
  <2>2. Alike(advance(h, t), fireReversals(h, t))
    BY <1>1, <1>2, <2>1
  <2>3. advance(h, t) \in Handlers /\ ReversalsFired(h, t, advance(h, t))
    BY <1>2, <2>2 DEF Alike, ReversalsFired
  <2> QED
    BY <1>5, <2>3
<1>6. CASE allDone(h) /\ h.stage = "processing" /\ ~anyFailed(h)
  <2>1. advance(h, t) = [fireCredits(h, t) EXCEPT !.finalize = allDone(fireCredits(h, t))]
    BY <1>6 DEF advance
  <2>2. Alike(advance(h, t), fireCredits(h, t))
    BY <1>1, <1>3, <2>1
  <2>3. advance(h, t) \in Handlers /\ CreditsFired(h, t, advance(h, t))
    BY <1>3, <2>2 DEF Alike, CreditsFired
  <2> QED
    BY <1>6, <2>3
<1>7. CASE allDone(h) /\ ~(h.stage \in {"processing", "crediting"} /\ anyFailed(h))
           /\ h.stage # "processing"
  <2>1. advance(h, t) = [h EXCEPT !.finalize = allDone(h)]
    BY <1>7, Zenon DEF advance
  <2> QED
    BY <1>1, <1>7, <2>1, Zenon
<1> QED
  BY <1>4, <1>5, <1>6, <1>7

\* advance leaves the row's status, an orchestrator that is at work at work, and
\* one that reverses reversing.
LEMMA AdvanceKeeps ==
    ASSUME TypeInv, NEW h \in Handlers, NEW t \in TroubleTypes
    PROVE  /\ advance(h, t).row.status = h.row.status
           /\ advance(h, t).row.flagged = h.row.flagged
           /\ h.stage \in Working => advance(h, t).stage \in Working
           /\ h.stage = "reversing" => advance(h, t).stage = "reversing"
<1> DEFINE g == advance(h, t)
<1>1. CASE Alike(g, h)
  BY <1>1 DEF Alike
<1>2. CASE ReversalsFired(h, t, g)
  BY <1>2, Zenon DEF ReversalsFired, Working
<1>3. CASE h.stage = "processing" /\ CreditsFired(h, t, g)
  <2>1. g.row = h.row /\ g.stage = "crediting"
    BY <1>3, Zenon DEF CreditsFired
  <2> QED
    BY <1>3, <2>1 DEF Working
<1> QED
  BY <1>1, <1>2, <1>3, AdvanceCases

\* resendPending sends what is marked for re-sending, and only that.
Again(h, l) ==
    /\ ~h.leg[l].done /\ inStage(h, l) /\ h.leg[l].retry
    /\ h.stage = "reversing" => h.leg[l].rkey # 0

ResentBy(h, t, g) ==
    /\ g.stage = h.stage /\ g.row = h.row /\ g.armed = h.armed /\ g.fresh = h.fresh
    /\ \A l \in Legs :
         /\ g.leg[l].rkey = h.leg[l].rkey
         /\ g.leg[l].applied = h.leg[l].applied
         /\ g.leg[l].failed = h.leg[l].failed
         /\ g.leg[l].reversed = h.leg[l].reversed
         /\ g.leg[l].done = h.leg[l].done
         /\ Again(h, l) => g.leg[l].retry = (l \in t.unplaced)
         /\ ~Again(h, l) => g.leg[l].retry = h.leg[l].retry
         /\ g.inbox[l] = IF Again(h, l) /\ l \notin t.unplaced
                         THEN Append(h.inbox[l],
                                [key |-> IF h.stage = "reversing"
                                         THEN h.leg[l].rkey ELSE 0,
                                 from |-> actor.inc])
                         ELSE h.inbox[l]

LEMMA ResendType ==
    ASSUME TypeInv, NEW h \in Handlers, NEW t \in TroubleTypes
    PROVE  /\ resendPending(h, t) \in Handlers
           /\ ResentBy(h, t, resendPending(h, t))
<1> DEFINE S == {l \in outstanding(h) :
                   h.leg[l].retry /\ (h.stage = "reversing" => h.leg[l].rkey # 0)}
           g == send(h, S, t.unplaced)
<1>0. resendPending(h, t) = g
  BY DEF resendPending
<1>1. /\ g \in Handlers /\ g.stage = h.stage /\ g.row = h.row /\ g.armed = h.armed
      /\ g.fresh = h.fresh
      /\ g.leg = [l \in Legs |-> IF l \in S
                    THEN [h.leg[l] EXCEPT !.retry = l \in t.unplaced] ELSE h.leg[l]]
      /\ g.inbox = [l \in Legs |-> IF l \in S \ t.unplaced
                    THEN Append(h.inbox[l],
                            [key |-> IF h.stage = "reversing" THEN h.leg[l].rkey ELSE 0,
                             from |-> actor.inc])
                    ELSE h.inbox[l]]
  BY SendType
<1> HIDE DEF g
<1>2. ASSUME NEW l \in Legs
      PROVE  /\ g.leg[l].rkey = h.leg[l].rkey
             /\ g.leg[l].applied = h.leg[l].applied
             /\ g.leg[l].failed = h.leg[l].failed
             /\ g.leg[l].reversed = h.leg[l].reversed
             /\ g.leg[l].done = h.leg[l].done
             /\ l \in S => g.leg[l].retry = (l \in t.unplaced)
             /\ l \notin S => g.leg[l].retry = h.leg[l].retry
             /\ g.inbox[l] = IF l \in S /\ l \notin t.unplaced
                             THEN Append(h.inbox[l],
                                    [key |-> IF h.stage = "reversing"
                                             THEN h.leg[l].rkey ELSE 0,
                                     from |-> actor.inc])
                             ELSE h.inbox[l]
  <2>1. h.leg[l] \in LegStates
    BY DEF Handlers
  <2> HIDE DEF S
  <2>2. g.leg[l] = IF l \in S THEN [h.leg[l] EXCEPT !.retry = l \in t.unplaced] ELSE h.leg[l]
    BY <1>1
  <2>3. (l \in t.unplaced) \in BOOLEAN
    OBVIOUS
  <2>4. g.inbox[l] = IF l \in S /\ l \notin t.unplaced
                     THEN Append(h.inbox[l],
                            [key |-> IF h.stage = "reversing" THEN h.leg[l].rkey ELSE 0,
                             from |-> actor.inc])
                     ELSE h.inbox[l]
    BY <1>1
  <2> QED
    BY <2>1, <2>2, <2>3, <2>4 DEF LegStates
<1>3. \A l \in Legs : l \in S <=> Again(h, l)
  BY DEF outstanding, Again
<1> HIDE DEF S
<1>4. g \in Handlers /\ ResentBy(h, t, g)
  BY <1>1, <1>2, <1>3 DEF ResentBy
<1> QED
  BY <1>0, <1>4

\* Legs marked for re-sending are re-sent.
Resent(t, h) ==
    LET again(l) == /\ ~actor.leg[l].done /\ inStage(Handler, l) /\ actor.leg[l].retry
                    /\ actor.stage = "reversing" => actor.leg[l].rkey # 0
    IN /\ h.stage = actor.stage
       /\ h.row.status = row.status /\ h.row.flagged = row.flagged /\ h.row.plan = row.plan
       /\ \A l \in Legs :
            /\ h.leg[l].rkey = actor.leg[l].rkey
            /\ h.leg[l].applied = actor.leg[l].applied
            /\ h.leg[l].failed = actor.leg[l].failed
            /\ h.leg[l].reversed = actor.leg[l].reversed
            /\ h.leg[l].done = actor.leg[l].done
            /\ again(l) => h.leg[l].retry = (l \in t.unplaced)
            /\ ~again(l) => h.leg[l].retry = actor.leg[l].retry
            /\ h.inbox[l] = IF again(l) /\ l \notin t.unplaced
                            THEN Append(inbox[l], [key |-> IF actor.stage = "reversing"
                                                           THEN actor.leg[l].rkey ELSE 0,
                                                   from |-> actor.inc])
                            ELSE inbox[l]

LEMMA ResentType ==
    ASSUME TypeInv, actor.stage \in Working, NEW t \in TroubleTypes, NEW b
    PROVE  /\ Resent(t, heartbeat(resendPending(Handler, t), b))
           /\ Resent(t, armTimeout(heartbeat(resendPending(Handler, t), b)))
<1> DEFINE g == resendPending(Handler, t)
           h == heartbeat(g, b)
<1>0. /\ Handler \in Handlers /\ Handler.stage = actor.stage /\ Handler.leg = actor.leg
      /\ Handler.row = row /\ Handler.inbox = inbox
  BY HandlerType DEF Handler
<1>1. g \in Handlers /\ Resent(t, g)
  <2>1. g \in Handlers /\ ResentBy(Handler, t, g)
    BY <1>0, ResendType
  <2> HIDE DEF g
  <2> QED
    BY <1>0, <2>1 DEF ResentBy, Resent, Again
<1> HIDE DEF g
<1>2. /\ h \in Handlers /\ h.stage = g.stage /\ h.leg = g.leg /\ h.inbox = g.inbox
      /\ h.row.status = g.row.status /\ h.row.flagged = g.row.flagged
      /\ h.row.plan = g.row.plan
  BY <1>1, HeartbeatType
<1>3. Resent(t, h)
  BY <1>1, <1>2 DEF Resent
<1> HIDE DEF h
<1>4. h.stage \in Working
  BY <1>3 DEF Resent
<1>5. /\ armTimeout(h).stage = h.stage /\ armTimeout(h).row = h.row
      /\ armTimeout(h).leg = h.leg /\ armTimeout(h).inbox = h.inbox
  BY <1>2, <1>4, ArmType
<1>6. Resent(t, armTimeout(h))
  BY <1>3, <1>5 DEF Resent
<1> QED
  BY <1>3, <1>6 DEF g, h

\* The legs as resume() finds them in the ledger.
Found(h) == [l \in Legs |-> [h.leg[l] EXCEPT
                !.applied = Key(l, 0) \in ledger,
                !.reversed = h.leg[l].rkey # 0 /\ Key(l, h.leg[l].rkey) \in ledger]]

LEMMA FoundType ==
    ASSUME NEW h \in Handlers
    PROVE  /\ Found(h) \in [Legs -> LegStates]
           /\ \A l \in Legs :
                /\ Found(h)[l].applied = (Key(l, 0) \in ledger)
                /\ Found(h)[l].reversed =
                     (h.leg[l].rkey # 0 /\ Key(l, h.leg[l].rkey) \in ledger)
                /\ Found(h)[l].rkey = h.leg[l].rkey /\ Found(h)[l].done = h.leg[l].done
                /\ Found(h)[l].failed = h.leg[l].failed /\ Found(h)[l].retry = h.leg[l].retry
<1>1. ASSUME NEW l \in Legs
      PROVE  /\ Found(h)[l] \in LegStates
             /\ Found(h)[l].applied = (Key(l, 0) \in ledger)
             /\ Found(h)[l].reversed = (h.leg[l].rkey # 0 /\ Key(l, h.leg[l].rkey) \in ledger)
             /\ Found(h)[l].rkey = h.leg[l].rkey /\ Found(h)[l].done = h.leg[l].done
             /\ Found(h)[l].failed = h.leg[l].failed /\ Found(h)[l].retry = h.leg[l].retry
  <2>1. h.leg[l] \in LegStates
    BY DEF Handlers
  <2>2. /\ (Key(l, 0) \in ledger) \in BOOLEAN
        /\ (h.leg[l].rkey # 0 /\ Key(l, h.leg[l].rkey) \in ledger) \in BOOLEAN
    OBVIOUS
  <2>3. Found(h)[l] = [h.leg[l] EXCEPT
                !.applied = Key(l, 0) \in ledger,
                !.reversed = h.leg[l].rkey # 0 /\ Key(l, h.leg[l].rkey) \in ledger]
    BY DEF Found
  <2> QED
    BY <2>1, <2>2, <2>3, Zenon DEF LegStates
<1>2. Found(h) \in [Legs -> LegStates]
  BY <1>1, Zenon DEF Found
<1> QED
  BY <1>1, <1>2

\* resume() without reversal keys goes forward from what the ledger has: g is
\* what it leaves to advance.
Forward(h, t, g) ==
    /\ g.row = h.row /\ g.armed = g.stage
    /\ g.stage = IF \A d \in Debits : Key(d, 0) \in ledger THEN "crediting" ELSE "processing"
    /\ \A l \in Legs :
         /\ g.leg[l].applied = (Key(l, 0) \in ledger)
         /\ g.leg[l].done = (Key(l, 0) \in ledger)
         /\ g.leg[l].rkey = 0 /\ g.leg[l].failed = h.leg[l].failed
         /\ g.leg[l].reversed = FALSE
         /\ Key(l, 0) \notin ledger /\ inStage(g, l) => g.leg[l].retry = (l \in t.unplaced)
         /\ ~(Key(l, 0) \notin ledger /\ inStage(g, l)) => g.leg[l].retry = h.leg[l].retry
         /\ g.inbox[l] = IF Key(l, 0) \notin ledger /\ inStage(g, l) /\ l \notin t.unplaced
                         THEN Append(h.inbox[l], [key |-> 0, from |-> actor.inc])
                         ELSE h.inbox[l]

LEMMA ResumeForward ==
    ASSUME TypeInv, NEW h \in Handlers, NEW t \in TroubleTypes,
           \A l \in Legs : h.leg[l].rkey = 0
    PROVE  \E g \in Handlers : resume(h, t) = advance(g, t) /\ Forward(h, t, g)
<1> DEFINE found == [h EXCEPT !.leg = Found(h)]
           st == IF debitsApplied(found) THEN "crediting" ELSE "processing"
           lg == [l \in Legs |-> [found.leg[l] EXCEPT !.done = found.leg[l].applied]]
           staged == [found EXCEPT !.stage = st, !.leg = lg]
           fired == fireLegs(staged, t)
           g == armTimeout(fired)
<1>0. resume(h, t) = advance(g, t)
  BY Zenon DEF resume, Found
<1>1. /\ found \in Handlers /\ found.leg = Found(h) /\ found.row = h.row
      /\ found.inbox = h.inbox
  BY FoundType, LegsType
<1> HIDE DEF found
<1>2. debitsApplied(found) <=> \A d \in Debits : Key(d, 0) \in ledger
  <2>1. \A l \in Legs : found.leg[l].applied = (Key(l, 0) \in ledger)
    BY <1>1, FoundType
  <2> QED
    BY <2>1, Zenon DEF debitsApplied, Legs
<1>3. /\ st \in Working
      /\ st = IF \A d \in Debits : Key(d, 0) \in ledger THEN "crediting" ELSE "processing"
  BY <1>2 DEF Working
<1> HIDE DEF st
<1>4. ASSUME NEW l \in Legs
      PROVE  /\ lg[l] \in LegStates
             /\ lg[l].applied = (Key(l, 0) \in ledger) /\ lg[l].done = (Key(l, 0) \in ledger)
             /\ lg[l].rkey = 0 /\ lg[l].failed = h.leg[l].failed
             /\ lg[l].reversed = FALSE /\ lg[l].retry = h.leg[l].retry
  <2>1. /\ Found(h)[l] \in LegStates
        /\ Found(h)[l].applied = (Key(l, 0) \in ledger)
        /\ Found(h)[l].reversed = FALSE
        /\ Found(h)[l].rkey = 0 /\ Found(h)[l].done = h.leg[l].done
        /\ Found(h)[l].failed = h.leg[l].failed /\ Found(h)[l].retry = h.leg[l].retry
    BY FoundType, Zenon
  <2>2. lg[l] = [Found(h)[l] EXCEPT !.done = Found(h)[l].applied]
    BY <1>1
  <2> QED
    BY <2>1, <2>2 DEF LegStates
<1>5. lg \in [Legs -> LegStates]
  BY <1>4, Zenon
<1> HIDE DEF lg
<1>6. /\ staged \in Handlers /\ staged.stage = st /\ staged.leg = lg
      /\ staged.row = h.row /\ staged.inbox = h.inbox
  BY <1>1, <1>3, <1>5, Zenon DEF Handlers, Working, Stages
<1> HIDE DEF staged
<1>7. staged.stage # "reversing"
  BY <1>3, <1>6
<1>8. /\ fired \in Handlers /\ fired.stage = staged.stage /\ fired.row = staged.row
      /\ \A l \in Legs :
           /\ fired.leg[l].rkey = staged.leg[l].rkey
           /\ fired.leg[l].applied = staged.leg[l].applied
           /\ fired.leg[l].failed = staged.leg[l].failed
           /\ fired.leg[l].reversed = staged.leg[l].reversed
           /\ fired.leg[l].done = staged.leg[l].done
           /\ ~staged.leg[l].done /\ inStage(staged, l)
                => fired.leg[l].retry = (l \in t.unplaced)
           /\ ~(~staged.leg[l].done /\ inStage(staged, l))
                => fired.leg[l].retry = staged.leg[l].retry
           /\ fired.inbox[l] =
                IF ~staged.leg[l].done /\ inStage(staged, l) /\ l \notin t.unplaced
                THEN Append(staged.inbox[l], [key |-> 0, from |-> actor.inc])
                ELSE staged.inbox[l]
  BY <1>6, <1>7, FireLegsType
<1> HIDE DEF fired
<1>9. /\ g \in Handlers /\ g.stage = st /\ g.armed = st
      /\ g.row = h.row /\ g.leg = fired.leg /\ g.inbox = fired.inbox
  BY <1>3, <1>6, <1>8, ArmType
<1>10. \A l \in Legs : inStage(staged, l) <=> inStage(g, l)
  BY <1>6, <1>9 DEF inStage
<1> HIDE DEF g
<1>11. ASSUME NEW l \in Legs
       PROVE  /\ g.leg[l].applied = (Key(l, 0) \in ledger)
              /\ g.leg[l].done = (Key(l, 0) \in ledger)
              /\ g.leg[l].rkey = 0 /\ g.leg[l].failed = h.leg[l].failed
              /\ g.leg[l].reversed = FALSE
              /\ Key(l, 0) \notin ledger /\ inStage(g, l)
                   => g.leg[l].retry = (l \in t.unplaced)
              /\ ~(Key(l, 0) \notin ledger /\ inStage(g, l))
                   => g.leg[l].retry = h.leg[l].retry
              /\ g.inbox[l] =
                   IF Key(l, 0) \notin ledger /\ inStage(g, l) /\ l \notin t.unplaced
                   THEN Append(h.inbox[l], [key |-> 0, from |-> actor.inc])
                   ELSE h.inbox[l]
  <2>1. /\ staged.leg[l].applied = (Key(l, 0) \in ledger)
        /\ staged.leg[l].done = (Key(l, 0) \in ledger)
        /\ staged.leg[l].rkey = 0 /\ staged.leg[l].failed = h.leg[l].failed
        /\ staged.leg[l].reversed = FALSE /\ staged.leg[l].retry = h.leg[l].retry
        /\ staged.inbox[l] = h.inbox[l]
    BY <1>4, <1>6, Zenon
  <2>2. inStage(staged, l) <=> inStage(g, l)
    BY <1>10
  <2>3. g.leg[l] = fired.leg[l] /\ g.inbox[l] = fired.inbox[l]
    BY <1>9
  <2>4. /\ g.leg[l].rkey = staged.leg[l].rkey
        /\ g.leg[l].applied = staged.leg[l].applied
        /\ g.leg[l].failed = staged.leg[l].failed
        /\ g.leg[l].reversed = staged.leg[l].reversed
        /\ g.leg[l].done = staged.leg[l].done
    BY <1>8, <2>3
  <2>5. /\ ~staged.leg[l].done /\ inStage(g, l) => g.leg[l].retry = (l \in t.unplaced)
        /\ ~(~staged.leg[l].done /\ inStage(g, l)) => g.leg[l].retry = staged.leg[l].retry
    BY <1>8, <2>2, <2>3
  <2>6. g.inbox[l] = IF ~staged.leg[l].done /\ inStage(g, l) /\ l \notin t.unplaced
                     THEN Append(staged.inbox[l], [key |-> 0, from |-> actor.inc])
                     ELSE staged.inbox[l]
    BY <1>8, <2>2, <2>3
  <2> QED
    BY <2>1, <2>4, <2>5, <2>6, Zenon
<1>12. /\ g \in Handlers /\ g.row = h.row /\ g.armed = g.stage
       /\ g.stage = IF \A d \in Debits : Key(d, 0) \in ledger
                    THEN "crediting" ELSE "processing"
  BY <1>3, <1>9
<1> QED
  BY <1>0, <1>11, <1>12, Zenon DEF Forward

\* resume() with a reversal key completes the reversal.
ReversalFound(h, l) == h.leg[l].rkey # 0 /\ Key(l, h.leg[l].rkey) \in ledger
ResumeKey(h, l) ==
    IF Key(l, 0) \in ledger /\ h.leg[l].rkey = 0 THEN h.fresh ELSE h.leg[l].rkey

Backward(h, t, g) ==
    LET applied(l) == Key(l, 0) \in ledger
    IN /\ g.stage = "reversing" /\ g.armed = "reversing"
       /\ g.row.status = h.row.status /\ g.row.flagged = h.row.flagged
       /\ \A l \in Legs :
            /\ g.row.plan[l] = IF t.saved /\ \E k \in Legs : ResumeKey(h, k) # h.leg[k].rkey
                               THEN ResumeKey(h, l) ELSE h.row.plan[l]
            /\ g.leg[l].rkey = ResumeKey(h, l)
            /\ g.leg[l].applied = applied(l) /\ g.leg[l].reversed = ReversalFound(h, l)
            /\ g.leg[l].failed = ~applied(l)
            /\ g.leg[l].done = (~applied(l) \/ ReversalFound(h, l))
            /\ applied(l) /\ ~ReversalFound(h, l) => g.leg[l].retry = (l \in t.unplaced)
            /\ ~(applied(l) /\ ~ReversalFound(h, l)) => g.leg[l].retry = h.leg[l].retry
            /\ g.inbox[l] = IF applied(l) /\ ~ReversalFound(h, l) /\ l \notin t.unplaced
                            THEN Append(h.inbox[l], [key |-> ResumeKey(h, l), from |-> actor.inc])
                            ELSE h.inbox[l]

LEMMA ResumeBackward ==
    ASSUME TypeInv, NEW h \in Handlers, NEW t \in TroubleTypes,
           NEW x \in Legs, h.leg[x].rkey # 0
    PROVE  \E g \in Handlers : resume(h, t) = advance(g, t) /\ Backward(h, t, g)
<1> DEFINE applied(l) == Key(l, 0) \in ledger
           reversed(l) == h.leg[l].rkey # 0 /\ Key(l, h.leg[l].rkey) \in ledger
           rkey(l) == IF applied(l) /\ h.leg[l].rkey = 0 THEN h.fresh ELSE h.leg[l].rkey
           found == [h EXCEPT !.leg = Found(h)]
           missing == {l \in Legs : found.leg[l].applied /\ ~found.leg[l].reversed
                                       /\ found.leg[l].rkey = 0}
           staged == [found EXCEPT !.stage = "reversing"]
           drawn == drawKeys(staged, missing)
           saved == IF missing = {} THEN drawn ELSE persistPlan(drawn, t)
           lg == [l \in Legs |-> [saved.leg[l] EXCEPT
                                    !.failed = ~saved.leg[l].applied,
                                    !.done = ~saved.leg[l].applied \/ saved.leg[l].reversed]]
           marked == [saved EXCEPT !.leg = lg]
           S == {l \in Legs : ~marked.leg[l].done}
           sent == send(marked, S, t.unplaced)
           g == armTimeout(sent)
<1>0. resume(h, t) = advance(g, t)
  BY Zenon DEF resume, Found
<1>1. /\ found \in Handlers /\ found.leg = Found(h) /\ found.row = h.row
      /\ found.inbox = h.inbox /\ found.fresh = h.fresh
  BY FoundType, LegsType
<1> HIDE DEF found
<1>2. /\ staged \in Handlers /\ staged.stage = "reversing" /\ staged.row = h.row
      /\ staged.leg = Found(h) /\ staged.inbox = h.inbox /\ staged.fresh = h.fresh
  BY <1>1, StageType, Zenon DEF Stages
<1> HIDE DEF staged
<1>3. \A l \in Legs : l \in missing <=> applied(l) /\ h.leg[l].rkey = 0
  <2>1. \A l \in Legs : /\ found.leg[l].applied = applied(l)
                         /\ found.leg[l].reversed = reversed(l)
                         /\ found.leg[l].rkey = h.leg[l].rkey
    BY <1>1, FoundType
  <2> QED
    BY <2>1, Zenon
<1>4. missing \subseteq Legs
  OBVIOUS
<1> HIDE DEF missing
<1>5. /\ drawn \in Handlers /\ drawn.stage = "reversing" /\ drawn.row = h.row
      /\ drawn.inbox = h.inbox
      /\ drawn.leg = [l \in Legs |-> IF l \in missing
                        THEN [staged.leg[l] EXCEPT !.rkey = staged.fresh] ELSE staged.leg[l]]
  BY <1>2, DrawType
<1> HIDE DEF drawn
<1>6. ASSUME NEW l \in Legs
      PROVE  /\ drawn.leg[l] \in LegStates
             /\ drawn.leg[l].rkey = rkey(l) /\ drawn.leg[l].applied = applied(l)
             /\ drawn.leg[l].reversed = reversed(l)
             /\ drawn.leg[l].retry = h.leg[l].retry
  <2>1. /\ Found(h)[l] \in LegStates
        /\ Found(h)[l].applied = applied(l)
        /\ Found(h)[l].reversed = reversed(l)
        /\ Found(h)[l].rkey = h.leg[l].rkey /\ Found(h)[l].retry = h.leg[l].retry
    BY FoundType
  <2>2. drawn.leg[l] = IF l \in missing THEN [Found(h)[l] EXCEPT !.rkey = h.fresh]
                       ELSE Found(h)[l]
    BY <1>2, <1>5
  <2>3. h.fresh \in Nat
    BY DEF Handlers
  <2> HIDE DEF applied, reversed
  <2> QED
    BY <1>3, <2>1, <2>2, <2>3 DEF LegStates
<1>7. missing = {} <=> ~\E k \in Legs : rkey(k) # h.leg[k].rkey
  BY <1>3, <1>4, Zenon DEF Handlers
<1> HIDE DEF applied, reversed, rkey
<1>8. /\ saved \in Handlers /\ saved.stage = "reversing" /\ saved.leg = drawn.leg
      /\ saved.inbox = h.inbox /\ saved.row.status = h.row.status
      /\ saved.row.flagged = h.row.flagged
      /\ \A l \in Legs :
           saved.row.plan[l] = IF t.saved /\ missing # {} THEN drawn.leg[l].rkey
                               ELSE h.row.plan[l]
  <2>1. drawn \in Handlers /\ drawn.stage = "reversing" /\ drawn.row = h.row
        /\ drawn.inbox = h.inbox
    BY <1>5
  <2>2. CASE missing = {}
    BY <2>1, <2>2
  <2>3. CASE missing # {}
    <3>1. saved = persistPlan(drawn, t)
      BY <2>3, Zenon
    <3> QED
      BY <2>1, <2>3, <3>1, PersistType
  <2> QED
    BY <2>2, <2>3
<1> HIDE DEF saved
<1>9. ASSUME NEW l \in Legs
      PROVE  /\ lg[l] \in LegStates
             /\ lg[l].rkey = rkey(l) /\ lg[l].applied = applied(l)
             /\ lg[l].reversed = reversed(l) /\ lg[l].retry = h.leg[l].retry
             /\ lg[l].failed = ~applied(l) /\ lg[l].done = (~applied(l) \/ reversed(l))
  <2>1. saved.leg[l] \in LegStates
    BY <1>6, <1>8
  <2>2. lg[l] = [saved.leg[l] EXCEPT !.failed = ~saved.leg[l].applied,
                                     !.done = ~saved.leg[l].applied \/ saved.leg[l].reversed]
    OBVIOUS
  <2>3. /\ (~saved.leg[l].applied) \in BOOLEAN
        /\ (~saved.leg[l].applied \/ saved.leg[l].reversed) \in BOOLEAN
    OBVIOUS
  <2>4. /\ lg[l] \in LegStates
        /\ lg[l].rkey = saved.leg[l].rkey /\ lg[l].applied = saved.leg[l].applied
        /\ lg[l].retry = saved.leg[l].retry /\ lg[l].reversed = saved.leg[l].reversed
        /\ lg[l].failed = ~saved.leg[l].applied
        /\ lg[l].done = (~saved.leg[l].applied \/ saved.leg[l].reversed)
    BY <2>1, <2>2, <2>3, Zenon DEF LegStates
  <2>5. /\ saved.leg[l].rkey = rkey(l) /\ saved.leg[l].applied = applied(l)
        /\ saved.leg[l].reversed = reversed(l) /\ saved.leg[l].retry = h.leg[l].retry
    BY <1>6, <1>8
  <2> HIDE DEF lg
  <2> QED
    BY <2>4, <2>5, Zenon DEF applied, reversed
<1>10. lg \in [Legs -> LegStates]
  BY <1>9, Zenon
<1> HIDE DEF lg
<1>11. /\ marked \in Handlers /\ marked.stage = "reversing" /\ marked.leg = lg
       /\ marked.inbox = h.inbox /\ marked.row = saved.row
  BY <1>8, <1>10, LegsType
<1> HIDE DEF marked
<1>12. \A l \in Legs : l \in S <=> applied(l) /\ ~reversed(l)
  BY <1>9, <1>11, Zenon
<1> HIDE DEF S
<1>13. /\ sent \in Handlers /\ sent.stage = "reversing" /\ sent.row = saved.row
       /\ sent.leg = [l \in Legs |-> IF l \in S
                    THEN [marked.leg[l] EXCEPT !.retry = l \in t.unplaced] ELSE marked.leg[l]]
       /\ sent.inbox = [l \in Legs |-> IF l \in S \ t.unplaced
                    THEN Append(marked.inbox[l],
                            [key |-> IF marked.stage = "reversing" THEN marked.leg[l].rkey ELSE 0,
                             from |-> actor.inc])
                    ELSE marked.inbox[l]]
  <2>1. PICK u : u = t.unplaced
    OBVIOUS
  <2>2. PICK m \in Handlers : m = marked
    BY <1>11
  <2>3. PICK T : T = S
    OBVIOUS
  <2>4. sent = send(m, T, u)
    BY <2>1, <2>2, <2>3
  <2>5. SentBy(m, T, u, send(m, T, u))
    BY SendSent
  <2> HIDE DEF sent
  <2> QED
    BY <1>11, <2>1, <2>2, <2>3, <2>4, <2>5 DEF SentBy
<1> HIDE DEF sent
<1>14. /\ g \in Handlers /\ g.stage = "reversing" /\ g.armed = "reversing"
       /\ g.row = saved.row /\ g.leg = sent.leg /\ g.inbox = sent.inbox
  BY <1>13, ArmType DEF Working
<1> HIDE DEF g
<1>15. ASSUME NEW l \in Legs
       PROVE  /\ g.leg[l].rkey = rkey(l)
              /\ g.leg[l].applied = applied(l) /\ g.leg[l].reversed = reversed(l)
              /\ g.leg[l].failed = ~applied(l)
              /\ g.leg[l].done = (~applied(l) \/ reversed(l))
              /\ applied(l) /\ ~reversed(l) => g.leg[l].retry = (l \in t.unplaced)
              /\ ~(applied(l) /\ ~reversed(l)) => g.leg[l].retry = h.leg[l].retry
              /\ g.inbox[l] =
                   IF applied(l) /\ ~reversed(l) /\ l \notin t.unplaced
                   THEN Append(h.inbox[l], [key |-> rkey(l), from |-> actor.inc])
                   ELSE h.inbox[l]
  <2>1. lg[l] \in LegStates
    BY <1>9
  <2>2. (l \in t.unplaced) \in BOOLEAN
    OBVIOUS
  <2>3. g.inbox[l] = IF applied(l) /\ ~reversed(l) /\ l \notin t.unplaced
                     THEN Append(h.inbox[l], [key |-> rkey(l), from |-> actor.inc])
                     ELSE h.inbox[l]
    BY <1>9, <1>11, <1>12, <1>13, <1>14
  <2>4. g.leg[l] = IF l \in S THEN [lg[l] EXCEPT !.retry = l \in t.unplaced] ELSE lg[l]
    BY <1>11, <1>13, <1>14
  <2>5. /\ g.leg[l].rkey = lg[l].rkey
        /\ g.leg[l].applied = lg[l].applied /\ g.leg[l].reversed = lg[l].reversed
        /\ g.leg[l].failed = lg[l].failed /\ g.leg[l].done = lg[l].done
        /\ l \in S => g.leg[l].retry = (l \in t.unplaced)
        /\ l \notin S => g.leg[l].retry = lg[l].retry
    BY <2>1, <2>2, <2>4 DEF LegStates
  <2> QED
    BY <2>3, <2>5, <1>9, <1>12, Zenon
<1>16. \A l \in Legs : g.row.plan[l] = IF t.saved /\ \E k \in Legs : rkey(k) # h.leg[k].rkey
                                       THEN rkey(l) ELSE h.row.plan[l]
  BY <1>6, <1>7, <1>8, <1>14
<1>17. g.row.status = h.row.status /\ g.row.flagged = h.row.flagged
  BY <1>8, <1>14
<1>18. Backward(h, t, g)
  BY <1>14, <1>15, <1>16, <1>17, Zenon DEF Backward, ReversalFound, ResumeKey, applied, reversed, rkey
<1> QED
  BY <1>0, <1>14, <1>18

\* The activation as a Start leaves it before it sends anything.
LEMMA StartedType ==
    ASSUME TypeInv, NEW m \in StartMsgs
    PROVE  LET g == started(m) IN
           /\ g \in Handlers /\ g.stage = actor.stage /\ g.armed = actor.armed
           /\ g.inbox = inbox /\ g.fresh = fresh
           /\ g.row.status = "processing" /\ g.row.flagged = row.flagged
           /\ g.row.plan = row.plan
           /\ g.leg = [l \in Legs |-> NewLeg(m.plan[l])]
           /\ \A l \in Legs :
                /\ g.leg[l].rkey = m.plan[l] /\ g.leg[l].done = FALSE
                /\ g.leg[l].applied = FALSE /\ g.leg[l].retry = FALSE
                /\ g.leg[l].failed = FALSE /\ g.leg[l].reversed = FALSE
<1> DEFINE lg == [l \in Legs |-> NewLeg(m.plan[l])]
           rw == [row EXCEPT !.status = "processing", !.stale = FALSE]
<1>1. ASSUME NEW l \in Legs
      PROVE  /\ lg[l] \in LegStates /\ lg[l].rkey = m.plan[l] /\ lg[l].done = FALSE
             /\ lg[l].applied = FALSE /\ lg[l].retry = FALSE
             /\ lg[l].failed = FALSE /\ lg[l].reversed = FALSE
  BY DEF NewLeg, LegStates, StartMsgs
<1>2. lg \in [Legs -> LegStates]
  BY <1>1, Zenon
<1>3. /\ rw \in Rows /\ rw.status = "processing" /\ rw.flagged = row.flagged
      /\ rw.plan = row.plan
  BY Zenon DEF TypeInv, Rows
<1>4. Handler \in Handlers
  BY HandlerType
<1>5. started(m) = [Handler EXCEPT !.leg = lg, !.row = rw]
  BY <1>4, Zenon DEF started, Handler, Handlers, TypeInv, Rows
<1>6. /\ Handler.stage = actor.stage /\ Handler.armed = actor.armed
      /\ Handler.inbox = inbox /\ Handler.fresh = fresh
  BY DEF Handler
<1> HIDE DEF lg, rw
<1>7. LET g == [Handler EXCEPT !.leg = lg, !.row = rw] IN
      /\ g \in Handlers /\ g.stage = Handler.stage /\ g.armed = Handler.armed
      /\ g.inbox = Handler.inbox /\ g.fresh = Handler.fresh /\ g.leg = lg /\ g.row = rw
  BY <1>2, <1>3, <1>4, Zenon DEF Handlers
<1>8. LET g == started(m) IN
      /\ g \in Handlers /\ g.stage = actor.stage /\ g.armed = actor.armed
      /\ g.inbox = inbox /\ g.fresh = fresh /\ g.leg = lg /\ g.row = rw
  BY <1>5, <1>6, <1>7
<1> HIDE DEF rw
<1>9. PICK g : g = started(m)
  OBVIOUS
<1>10. /\ g \in Handlers /\ g.stage = actor.stage /\ g.armed = actor.armed
       /\ g.inbox = inbox /\ g.fresh = fresh /\ g.leg = lg /\ g.row = rw
  BY <1>8, <1>9, Zenon
<1>11. \A l \in Legs :
         /\ g.leg[l].rkey = m.plan[l] /\ g.leg[l].done = FALSE
         /\ g.leg[l].applied = FALSE /\ g.leg[l].retry = FALSE
         /\ g.leg[l].failed = FALSE /\ g.leg[l].reversed = FALSE
  BY <1>1, <1>10, Zenon
<1>12. g.leg = [l \in Legs |-> NewLeg(m.plan[l])]
  BY <1>10, Zenon DEF lg
<1>13. /\ g.row.status = "processing" /\ g.row.flagged = row.flagged
       /\ g.row.plan = row.plan
  BY <1>3, <1>10, Zenon
<1> QED
  BY <1>9, <1>10, <1>11, <1>12, <1>13, Zenon

\* Leg l is left as f.
Left(h, l, f) == [h EXCEPT !.leg[l] = f]

\* A reply changes its own leg only.
LEMMA SettleType ==
    ASSUME NEW h \in Handlers, NEW l \in Legs, NEW f \in LegStates
    PROVE  LET g == Left(h, l, f) IN
           /\ g \in Handlers /\ g.stage = h.stage /\ g.armed = h.armed /\ g.row = h.row
           /\ g.inbox = h.inbox /\ g.fresh = h.fresh
           /\ g.leg[l] = f /\ \A k \in Legs : k # l => g.leg[k] = h.leg[k]
<1> DEFINE lg == [h.leg EXCEPT ![l] = f]
<1>1. /\ lg \in [Legs -> LegStates]
      /\ lg[l] = f /\ \A k \in Legs : k # l => lg[k] = h.leg[k]
  BY DEF Handlers
<1>2. Left(h, l, f) = [h EXCEPT !.leg = lg]
  BY DEF Handlers, Left
<1> HIDE DEF lg
<1>3. LET g == [h EXCEPT !.leg = lg] IN
      /\ g \in Handlers /\ g.stage = h.stage /\ g.row = h.row /\ g.leg = lg
      /\ g.inbox = h.inbox /\ g.armed = h.armed /\ g.fresh = h.fresh
  BY <1>1, LegsType
<1> QED
  BY <1>1, <1>2, <1>3, Zenon

\* An application that is reported late, when the reversal is under way, gets
\* a reversal of its own.
lateReversal(h, l, t) ==
    send([persistPlan(drawKeys([h EXCEPT !.leg[l].applied = TRUE], {l}), t)
            EXCEPT !.leg[l].done = FALSE], {l}, t.unplaced)

ReversedLate(h, l, t, g) ==
    /\ g.stage = h.stage /\ g.armed = h.armed
    /\ g.row.status = h.row.status /\ g.row.flagged = h.row.flagged
    /\ \A k \in Legs :
         /\ g.row.plan[k] = IF ~t.saved THEN h.row.plan[k]
                            ELSE IF k = l THEN h.fresh ELSE h.leg[k].rkey
         /\ k # l => g.leg[k] = h.leg[k] /\ g.inbox[k] = h.inbox[k]
    /\ g.leg[l].rkey = h.fresh /\ g.leg[l].applied = TRUE /\ g.leg[l].done = FALSE
    /\ g.leg[l].failed = h.leg[l].failed /\ g.leg[l].reversed = h.leg[l].reversed
    /\ g.leg[l].retry = (l \in t.unplaced)
    /\ g.inbox[l] = IF l \in t.unplaced THEN h.inbox[l]
                    ELSE Append(h.inbox[l], [key |-> h.fresh, from |-> actor.inc])

LEMMA LateType ==
    ASSUME TypeInv, NEW h \in Handlers, h.stage = "reversing",
           NEW l \in Legs, NEW t \in TroubleTypes
    PROVE  /\ lateReversal(h, l, t) \in Handlers
           /\ ReversedLate(h, l, t, lateReversal(h, l, t))
<1> DEFINE f == [h.leg[l] EXCEPT !.applied = TRUE]
           settled == Left(h, l, f)
           late == drawKeys(settled, {l})
           saved == persistPlan(late, t)
           e == [saved.leg[l] EXCEPT !.done = FALSE]
           reopened == Left(saved, l, e)
           g == send(reopened, {l}, t.unplaced)
<1>0. /\ h.leg \in [Legs -> LegStates] /\ h.leg[l] \in LegStates
      /\ h.fresh \in Nat
  BY DEF Handlers
<1>1. [h EXCEPT !.leg[l].applied = TRUE] = settled
  BY <1>0 DEF Handlers, Left
<1>2. /\ f \in LegStates /\ f.applied = TRUE /\ f.failed = h.leg[l].failed
      /\ f.reversed = h.leg[l].reversed
  BY <1>0, Zenon DEF LegStates
<1> HIDE DEF f
<1>3. /\ settled \in Handlers /\ settled.stage = h.stage /\ settled.armed = h.armed
      /\ settled.row = h.row /\ settled.inbox = h.inbox /\ settled.fresh = h.fresh
      /\ settled.leg[l] = f /\ \A k \in Legs : k # l => settled.leg[k] = h.leg[k]
  BY <1>2, SettleType
<1> HIDE DEF settled
<1>4. /\ late \in Handlers /\ late.stage = h.stage /\ late.armed = h.armed
      /\ late.row = h.row /\ late.inbox = h.inbox
      /\ late.leg = [k \in Legs |-> IF k \in {l}
                       THEN [settled.leg[k] EXCEPT !.rkey = settled.fresh]
                       ELSE settled.leg[k]]
  BY <1>3, DrawType
<1> HIDE DEF late
<1>5. late.leg[l] = [f EXCEPT !.rkey = h.fresh]
  BY <1>3, <1>4
<1>6. \A k \in Legs : k # l => late.leg[k] = h.leg[k]
  BY <1>3, <1>4
<1>7. /\ late.leg[l] \in LegStates /\ late.leg[l].rkey = h.fresh
      /\ late.leg[l].applied = TRUE /\ late.leg[l].failed = h.leg[l].failed
      /\ late.leg[l].reversed = h.leg[l].reversed
  BY <1>0, <1>2, <1>5 DEF LegStates
<1>8. /\ saved \in Handlers /\ saved.stage = h.stage /\ saved.armed = h.armed
      /\ saved.leg = late.leg /\ saved.inbox = h.inbox
      /\ saved.row.status = h.row.status /\ saved.row.flagged = h.row.flagged
      /\ \A k \in Legs :
           saved.row.plan[k] = IF t.saved THEN late.leg[k].rkey ELSE h.row.plan[k]
  <2>1. /\ late \in Handlers /\ late.stage = h.stage /\ late.armed = h.armed
        /\ late.row = h.row /\ late.inbox = h.inbox
    BY <1>4
  <2> QED
    BY <2>1, PersistType
<1> HIDE DEF saved
<1>9. [saved EXCEPT !.leg[l].done = FALSE] = reopened
  BY <1>8 DEF Handlers, Left
<1>10. /\ e \in LegStates /\ e.rkey = h.fresh /\ e.applied = TRUE /\ e.done = FALSE
       /\ e.failed = h.leg[l].failed /\ e.reversed = h.leg[l].reversed
  BY <1>7, <1>8, Zenon DEF LegStates
<1> HIDE DEF e
<1>11. /\ reopened \in Handlers /\ reopened.stage = h.stage /\ reopened.armed = h.armed
       /\ reopened.row = saved.row /\ reopened.inbox = h.inbox
       /\ reopened.leg[l] = e /\ \A k \in Legs : k # l => reopened.leg[k] = h.leg[k]
  BY <1>6, <1>8, <1>10, SettleType
<1> HIDE DEF reopened
<1>12. /\ g \in Handlers /\ g.stage = h.stage /\ g.row = saved.row /\ g.armed = h.armed
       /\ g.leg = [k \in Legs |-> IF k \in {l}
                     THEN [reopened.leg[k] EXCEPT !.retry = k \in t.unplaced]
                     ELSE reopened.leg[k]]
       /\ g.inbox = [k \in Legs |-> IF k \in {l} \ t.unplaced
                     THEN Append(reopened.inbox[k],
                            [key |-> IF reopened.stage = "reversing"
                                     THEN reopened.leg[k].rkey ELSE 0,
                             from |-> actor.inc])
                     ELSE reopened.inbox[k]]
  <2>1. PICK u : u = t.unplaced
    OBVIOUS
  <2>2. PICK m \in Handlers : m = reopened
    BY <1>11
  <2>3. g = send(m, {l}, u)
    BY <2>1, <2>2
  <2>4. SentBy(m, {l}, u, send(m, {l}, u))
    BY SendSent
  <2> HIDE DEF g
  <2> QED
    BY <1>11, <2>1, <2>2, <2>3, <2>4, Zenon DEF SentBy
<1> HIDE DEF g
<1>13. /\ g.leg[l] = [e EXCEPT !.retry = l \in t.unplaced]
       /\ \A k \in Legs : k # l => g.leg[k] = h.leg[k] /\ g.inbox[k] = h.inbox[k]
       /\ g.inbox[l] = IF l \in t.unplaced THEN h.inbox[l]
                       ELSE Append(h.inbox[l], [key |-> h.fresh, from |-> actor.inc])
  BY <1>10, <1>11, <1>12
<1>14. /\ g.leg[l].rkey = h.fresh /\ g.leg[l].applied = TRUE /\ g.leg[l].done = FALSE
       /\ g.leg[l].failed = h.leg[l].failed /\ g.leg[l].reversed = h.leg[l].reversed
       /\ g.leg[l].retry = (l \in t.unplaced)
  <2>1. (l \in t.unplaced) \in BOOLEAN
    OBVIOUS
  <2> QED
    BY <1>10, <1>13, <2>1 DEF LegStates
<1>15. \A k \in Legs : g.row.plan[k] = IF ~t.saved THEN h.row.plan[k]
                                       ELSE IF k = l THEN h.fresh ELSE h.leg[k].rkey
  BY <1>6, <1>7, <1>8, <1>12
<1>16. g = lateReversal(h, l, t)
  BY <1>1, <1>9, Zenon DEF lateReversal, g, saved, late
<1>17. /\ g \in Handlers /\ g.stage = h.stage /\ g.armed = h.armed
       /\ g.row.status = h.row.status /\ g.row.flagged = h.row.flagged
  BY <1>8, <1>12
<1> QED
  BY <1>13, <1>14, <1>15, <1>16, <1>17, Zenon DEF ReversedLate

\* What a reply makes of its leg when it neither is ignored nor starts a late
\* reversal.
Settles(h, leg, code, f) ==
    \/ /\ leg.done /\ code = "ok" /\ leg.failed /\ ~leg.applied /\ h.stage # "reversing"
       /\ f = [leg EXCEPT !.applied = TRUE]
    \/ /\ ~leg.done /\ code = "ok" /\ h.stage = "reversing"
       /\ f = [leg EXCEPT !.done = TRUE, !.reversed = TRUE]
    \/ /\ ~leg.done /\ code = "ok" /\ h.stage # "reversing"
       /\ f = [leg EXCEPT !.done = TRUE, !.applied = TRUE]
    \/ /\ ~leg.done /\ code = "refused" /\ h.stage = "reversing"
       /\ f = [leg EXCEPT !.done = TRUE]
    \/ /\ ~leg.done /\ code = "refused" /\ h.stage # "reversing"
       /\ f = [leg EXCEPT !.done = TRUE, !.failed = TRUE]
    \/ ~leg.done /\ code = "again" /\ f = [leg EXCEPT !.retry = TRUE]

\* A reply that counts has the key of what the leg waits for.
Matches(h, m) == m.key = (IF h.stage = "reversing" THEN h.leg[m.leg].rkey ELSE 0)

\* A reply to a leg that failed says it was applied after all.
AppliedAfterAll(h, m) ==
    /\ Matches(h, m) /\ m.code = "ok"
    /\ h.leg[m.leg].done /\ h.leg[m.leg].failed /\ ~h.leg[m.leg].applied

LEMMA RecordCases ==
    ASSUME NEW h \in Handlers, NEW m \in ResultMsgs, NEW t \in TroubleTypes
    PROVE  \/ /\ record(h, m, t) = h
              /\ ~Matches(h, m) \/ (h.leg[m.leg].done /\ ~AppliedAfterAll(h, m))
           \/ /\ AppliedAfterAll(h, m) /\ h.stage = "reversing"
              /\ record(h, m, t) = lateReversal(h, m.leg, t)
           \/ /\ Matches(h, m)
              /\ \E f \in LegStates : /\ record(h, m, t) = Left(h, m.leg, f)
                                      /\ Settles(h, h.leg[m.leg], m.code, f)
<1> DEFINE l == m.leg
           leg == h.leg[l]
           afresh == lateReversal(h, l, t)
           settle(f) == Left(h, l, f)
<1>1. leg \in LegStates /\ m.code \in {"ok", "refused", "again"}
  BY DEF Handlers, ResultMsgs
<1>2. record(h, m, t) =
        IF ~Matches(h, m) THEN h
        ELSE IF leg.done THEN
            IF ~(m.code = "ok" /\ leg.failed /\ ~leg.applied) THEN h
            ELSE IF h.stage # "reversing" THEN settle([leg EXCEPT !.applied = TRUE])
            ELSE afresh
        ELSE IF m.code = "ok" THEN
            settle(IF h.stage = "reversing"
                   THEN [leg EXCEPT !.done = TRUE, !.reversed = TRUE]
                   ELSE [leg EXCEPT !.done = TRUE, !.applied = TRUE])
        ELSE IF m.code = "refused" THEN
            settle(IF h.stage = "reversing"
                   THEN [leg EXCEPT !.done = TRUE]
                   ELSE [leg EXCEPT !.done = TRUE, !.failed = TRUE])
        ELSE settle([leg EXCEPT !.retry = TRUE])
  BY DEF record, Matches, Left, lateReversal
<1>3. /\ [leg EXCEPT !.applied = TRUE] \in LegStates
      /\ [leg EXCEPT !.done = TRUE, !.reversed = TRUE] \in LegStates
      /\ [leg EXCEPT !.done = TRUE, !.applied = TRUE] \in LegStates
      /\ [leg EXCEPT !.done = TRUE] \in LegStates
      /\ [leg EXCEPT !.done = TRUE, !.failed = TRUE] \in LegStates
      /\ [leg EXCEPT !.retry = TRUE] \in LegStates
  BY <1>1, Zenon DEF LegStates
<1>4. AppliedAfterAll(h, m) <=>
        Matches(h, m) /\ m.code = "ok" /\ leg.done /\ leg.failed /\ ~leg.applied
  BY DEF AppliedAfterAll
<1> HIDE DEF afresh, settle, leg
<1>5. \/ /\ record(h, m, t) = h
         /\ ~Matches(h, m) \/ (leg.done /\ ~AppliedAfterAll(h, m))
      \/ AppliedAfterAll(h, m) /\ h.stage = "reversing" /\ record(h, m, t) = afresh
      \/ /\ Matches(h, m)
         /\ \E f \in LegStates : record(h, m, t) = settle(f) /\ Settles(h, leg, m.code, f)
  BY <1>1, <1>2, <1>3, <1>4 DEF Settles
<1> QED
  BY <1>5 DEF afresh, settle, leg

-----------------------------------------------------------------------------
(* Queues                                                                  *)

\* What is in a queue after an operation is sent.
LEMMA Sent ==
    ASSUME NEW s \in Seq(Operations), NEW e \in Operations
    PROVE  /\ Append(s, e) \in Seq(Operations)
           /\ Len(Append(s, e)) = Len(s) + 1
           /\ Append(s, e)[Len(s) + 1] = e
           /\ \A i \in 1 .. Len(s) : Append(s, e)[i] = s[i]
           /\ \A i \in DOMAIN Append(s, e) :
                Append(s, e)[i] = e \/ (i \in DOMAIN s /\ Append(s, e)[i] = s[i])
OBVIOUS

\* What is in a queue after operation i is taken from it.
LEMMA Taken ==
    ASSUME NEW s \in Seq(Operations), NEW i \in DOMAIN s
    PROVE  LET r == SubSeq(s, 1, i - 1) \o SubSeq(s, i + 1, Len(s)) IN
           /\ r \in Seq(Operations) /\ Len(r) = Len(s) - 1
           /\ \A j \in DOMAIN r : r[j] = IF j < i THEN s[j] ELSE s[j + 1]
           /\ \A j \in DOMAIN r : \E k \in DOMAIN s : r[j] = s[k]
<1>1. i \in 1 .. Len(s) /\ Len(s) \in Nat
  OBVIOUS
<1> DEFINE a == SubSeq(s, 1, i - 1)
           b == SubSeq(s, i + 1, Len(s))
<1>2. /\ a \in Seq(Operations) /\ Len(a) = i - 1
      /\ \A j \in 1 .. i - 1 : a[j] = s[j]
  BY <1>1
<1>3. /\ b \in Seq(Operations) /\ Len(b) = Len(s) - i
      /\ \A j \in 1 .. Len(s) - i : b[j] = s[j + i]
  BY <1>1
<1> HIDE DEF a, b
<1>4. /\ a \o b \in Seq(Operations) /\ Len(a \o b) = Len(s) - 1
      /\ \A j \in 1 .. Len(s) - 1 : (a \o b)[j] = IF j < i THEN s[j] ELSE s[j + 1]
  BY <1>1, <1>2, <1>3
<1>5. ASSUME NEW j \in 1 .. Len(s) - 1
      PROVE  \E k \in DOMAIN s : (a \o b)[j] = s[k]
  <2>1. (a \o b)[j] = s[j] \/ (a \o b)[j] = s[j + 1]
    BY <1>4
  <2>2. j \in DOMAIN s /\ j + 1 \in DOMAIN s
    BY <1>1
  <2> QED
    BY <2>1, <2>2, Zenon
<1>6. DOMAIN (a \o b) = 1 .. Len(s) - 1
  BY <1>4
<1> DEFINE r == a \o b
<1>7. /\ r \in Seq(Operations) /\ Len(r) = Len(s) - 1
      /\ \A j \in DOMAIN r : r[j] = IF j < i THEN s[j] ELSE s[j + 1]
      /\ \A j \in DOMAIN r : \E k \in DOMAIN s : r[j] = s[k]
  BY <1>4, <1>5, <1>6, Zenon
<1> QED
  BY <1>7, Zenon DEF a, b

-----------------------------------------------------------------------------
(* The steps of the orchestrator                                           *)

\* The handler of message m leaves h.  Only a working orchestrator reads a
\* reply, and it always does.
Handled(m, h) ==
    \/ h = Handler /\ (m.kind = "result" => actor.stage \notin Working)
    \/ /\ actor.stage \in Working
       /\ \E t \in Troubles, beats \in BOOLEAN :
            \/ /\ m.kind # "result"
               /\ \/ h = heartbeat(resendPending(Handler, t), beats)
                  \/ h = armTimeout(heartbeat(resendPending(Handler, t), beats))
            \/ m \in ResultMsgs /\ h = advance(record(Handler, m, t), t)
    \/ /\ actor.stage = "idle" /\ m \in StartMsgs /\ startable(m)
       /\ \/ h = [started(m) EXCEPT !.leg = actor.leg]
          \/ \E t \in Troubles :
               \/ m.resume /\ h = resume(started(m), t)
               \/ /\ ~m.resume
                  /\ h = advance(armTimeout(fireLegs(
                            [started(m) EXCEPT !.stage = "processing"], t)), t)

LEMMA AdvanceType ==
    ASSUME TypeInv, NEW h \in Handlers, NEW t \in TroubleTypes
    PROVE  advance(h, t) \in Handlers
BY AdvanceCases DEF Alike

LEMMA RecordType ==
    ASSUME TypeInv, NEW h \in Handlers, NEW m \in ResultMsgs, NEW t \in TroubleTypes
    PROVE  record(h, m, t) \in Handlers
<1>1. m.leg \in Legs
  BY DEF ResultMsgs
<1>2. \A f \in LegStates : Left(h, m.leg, f) \in Handlers
  BY <1>1, SettleType
<1>3. \/ record(h, m, t) = h
      \/ h.stage = "reversing" /\ record(h, m, t) = lateReversal(h, m.leg, t)
      \/ \E f \in LegStates : record(h, m, t) = Left(h, m.leg, f)
  BY RecordCases
<1>4. h.stage = "reversing" => lateReversal(h, m.leg, t) \in Handlers
  BY <1>1, LateType
<1> QED
  BY <1>2, <1>3, <1>4

LEMMA ResumeType ==
    ASSUME TypeInv, NEW h \in Handlers, NEW t \in TroubleTypes
    PROVE  resume(h, t) \in Handlers
<1>1. CASE \A l \in Legs : h.leg[l].rkey = 0
  <2>1. \E g \in Handlers : resume(h, t) = advance(g, t)
    BY <1>1, ResumeForward
  <2> QED
    BY <2>1, AdvanceType
<1>2. CASE \E x \in Legs : h.leg[x].rkey # 0
  <2>1. PICK x \in Legs : h.leg[x].rkey # 0
    BY <1>2
  <2>2. \E g \in Handlers : resume(h, t) = advance(g, t)
    BY <2>1, ResumeBackward
  <2> QED
    BY <2>2, AdvanceType
<1> QED
  BY <1>1, <1>2

\* A first start before it sends anything.
LEMMA FirstStartType ==
    ASSUME TypeInv, NEW m \in StartMsgs
    PROVE  LET g == [started(m) EXCEPT !.stage = "processing"] IN
           /\ g \in Handlers /\ g.stage = "processing"
           /\ g.inbox = inbox /\ g.fresh = fresh
           /\ g.row.status = "processing" /\ g.row.flagged = row.flagged
           /\ g.row.plan = row.plan
           /\ \A l \in Legs :
                /\ g.leg[l].rkey = m.plan[l] /\ g.leg[l].done = FALSE
                /\ g.leg[l].applied = FALSE /\ g.leg[l].retry = FALSE
                /\ g.leg[l].failed = FALSE /\ g.leg[l].reversed = FALSE
<1> DEFINE s == started(m)
<1>1. /\ s \in Handlers
      /\ s.inbox = inbox /\ s.fresh = fresh
      /\ s.row.status = "processing" /\ s.row.flagged = row.flagged
      /\ s.row.plan = row.plan
      /\ \A l \in Legs :
           /\ s.leg[l].rkey = m.plan[l] /\ s.leg[l].done = FALSE
           /\ s.leg[l].applied = FALSE /\ s.leg[l].retry = FALSE
           /\ s.leg[l].failed = FALSE /\ s.leg[l].reversed = FALSE
  BY StartedType, Zenon
<1> HIDE DEF s
<1>2. LET g == [s EXCEPT !.stage = "processing"] IN
      /\ g \in Handlers /\ g.stage = "processing" /\ g.row = s.row /\ g.leg = s.leg
      /\ g.inbox = s.inbox /\ g.fresh = s.fresh
  BY <1>1, StageType, Zenon DEF Stages
<1> QED
  BY <1>1, <1>2 DEF s

LEMMA HandledType ==
    ASSUME TypeInv, NEW m, NEW h, Handled(m, h)
    PROVE  h \in Handlers
<1>0. Handler \in Handlers /\ Handler.stage = actor.stage
  BY HandlerType DEF Handler
<1>1. \A t \in Troubles : t \in TroubleTypes
  BY TroubleType
<1>2. ASSUME NEW t \in Troubles, NEW b \in BOOLEAN
      PROVE  /\ heartbeat(resendPending(Handler, t), b) \in Handlers
             /\ heartbeat(resendPending(Handler, t), b).stage = actor.stage
  <2>1. resendPending(Handler, t) \in Handlers /\ resendPending(Handler, t).stage = actor.stage
    BY <1>0, <1>1, ResendType DEF ResentBy
  <2> QED
    BY <2>1, HeartbeatType
<1>3. ASSUME NEW t \in Troubles, NEW b \in BOOLEAN, actor.stage \in Working
      PROVE  armTimeout(heartbeat(resendPending(Handler, t), b)) \in Handlers
  BY <1>2, <1>3, ArmType
<1>4. ASSUME NEW t \in Troubles, m \in ResultMsgs
      PROVE  advance(record(Handler, m, t), t) \in Handlers
  <2>1. record(Handler, m, t) \in Handlers
    BY <1>0, <1>1, <1>4, RecordType
  <2> QED
    BY <1>1, <2>1, AdvanceType
<1>5. ASSUME m \in StartMsgs
      PROVE  [started(m) EXCEPT !.leg = actor.leg] \in Handlers
  <2>1. started(m) \in Handlers /\ actor.leg \in [Legs -> LegStates]
    BY <1>5, StartedType, Zenon DEF TypeInv, Activations
  <2> QED
    BY <2>1, LegsType
<1>6. ASSUME NEW t \in Troubles, m \in StartMsgs
      PROVE  resume(started(m), t) \in Handlers
  <2>1. started(m) \in Handlers
    BY <1>6, StartedType, Zenon
  <2> QED
    BY <1>1, <2>1, ResumeType
<1>7. ASSUME NEW t \in Troubles, m \in StartMsgs
      PROVE  advance(armTimeout(fireLegs([started(m) EXCEPT !.stage = "processing"], t)), t)
                \in Handlers
  <2> DEFINE s == [started(m) EXCEPT !.stage = "processing"]
  <2>1. s \in Handlers /\ s.stage = "processing"
    BY <1>7, FirstStartType, Zenon
  <2> HIDE DEF s
  <2>2. fireLegs(s, t) \in Handlers /\ fireLegs(s, t).stage = "processing"
    BY <1>1, <2>1, FireLegsType
  <2>3. armTimeout(fireLegs(s, t)) \in Handlers
    BY <2>2, ArmType DEF Working
  <2>4. advance(armTimeout(fireLegs(s, t)), t) \in Handlers
    BY <1>1, <2>3, AdvanceType
  <2> QED
    BY <2>4 DEF s
<1> QED
  BY <1>0, <1>2, <1>3, <1>4, <1>5, <1>6, <1>7 DEF Handled

\* The activation stops, whatever it was doing.
Stopped == actor' = [Activation(actor.inc) EXCEPT !.up = FALSE]

LEMMA MailKinds ==
    ASSUME TypeInv, NEW m \in mail
    PROVE  /\ m.kind = "start" => m \in StartMsgs
           /\ m.kind = "result" => m \in ResultMsgs
           /\ m.kind = "timeout" => m \in TimeoutMsgs
           /\ m.kind = "finalize" => m \in FinalizeMsgs
           /\ m.to \in Nat
BY DEF TypeInv, Mail, StartMsgs, ResultMsgs, TimeoutMsgs, FinalizeMsgs

\* Handling a message either changes what some Handled(m, h) says, or stops
\* the activation.
LEMMA ActorStep ==
    ASSUME TypeInv, NEW m \in mail, start(m) \/ startFailed(m) \/ collect(m) \/ tick(m)
    PROVE  /\ Takes(m)
           /\ faults' \in [FaultKinds -> Nat]
           /\ \A k \in FaultKinds : faults'[k] <= faults[k]
           /\ \/ \E h \in Handlers : Handled(m, h) /\ Yield(m, h)
              \/ /\ actor.stage = "idle" /\ Stopped /\ mail' = mail \ {m}
                 /\ UNCHANGED <<row, ledger, inbox, fresh, callbacks>>
<1>0. faults \in [FaultKinds -> Nat]
  BY DEF TypeInv
<1>1. ASSUME UNCHANGED faults
      PROVE  /\ faults' \in [FaultKinds -> Nat]
             /\ \A k \in FaultKinds : faults'[k] <= faults[k]
  BY <1>0, <1>1
<1>2. ASSUME NEW t \in Troubles, NEW b, Charge(Cost(t) \union Missed(b))
      PROVE  /\ faults' \in [FaultKinds -> Nat]
             /\ \A k \in FaultKinds : faults'[k] <= faults[k]
  BY <1>0, <1>2, ChargeLowers
<1>3. ASSUME NEW t \in Troubles, Charge(Cost(t))
      PROVE  /\ faults' \in [FaultKinds -> Nat]
             /\ \A k \in FaultKinds : faults'[k] <= faults[k]
  BY <1>0, <1>3, ChargeLowers
<1>4. ASSUME Charge({"db"})
      PROVE  /\ faults' \in [FaultKinds -> Nat]
             /\ \A k \in FaultKinds : faults'[k] <= faults[k]
  BY <1>0, <1>4, ChargeLowers
<1>5. \A b \in Beats : b \in BOOLEAN
  BY Zenon DEF Beats
<1>6. ASSUME NEW h, Handled(m, h), Yield(m, h)
      PROVE  \E g \in Handlers : Handled(m, g) /\ Yield(m, g)
  BY <1>6, HandledType
<1>7. CASE start(m)
  <2>1. Takes(m) /\ m \in StartMsgs /\ m.kind # "result"
    BY <1>7, MailKinds DEF start
  <2>2. CASE /\ actor.stage # "idle"
             /\ m.resume /\ actor.stage \in Working
             /\ \E t \in Troubles, beats \in Beats :
                   /\ Charge(Cost(t) \union Missed(beats))
                   /\ Yield(m, heartbeat(resendPending(Handler, t), beats))
    <3>1. PICK t \in Troubles, beats \in Beats :
                   /\ Charge(Cost(t) \union Missed(beats))
                   /\ Yield(m, heartbeat(resendPending(Handler, t), beats))
      BY <2>2, Zenon
    <3>2. Handled(m, heartbeat(resendPending(Handler, t), beats))
      BY <1>5, <2>1, <2>2 DEF Handled
    <3>3. \E g \in Handlers : Handled(m, g) /\ Yield(m, g)
      BY <1>6, <3>1, <3>2, Zenon
    <3> QED
      BY <1>2, <2>1, <3>1, <3>3, Zenon
  <2>3. CASE Yield(m, Handler) /\ UNCHANGED faults
    <3>1. Handled(m, Handler)
      BY <2>1 DEF Handled
    <3> QED
      BY <1>1, <1>6, <2>1, <2>3, <3>1
  <2>4. CASE /\ actor.stage = "idle"
             /\ startable(m)
             /\ \E t \in Troubles :
                   /\ Charge(Cost(t))
                   /\ Yield(m, IF m.resume THEN resume(started(m), t)
                               ELSE advance(armTimeout(fireLegs(
                                       [started(m) EXCEPT !.stage = "processing"], t)), t))
    <3>1. PICK t \in Troubles :
                   /\ Charge(Cost(t))
                   /\ Yield(m, IF m.resume THEN resume(started(m), t)
                               ELSE advance(armTimeout(fireLegs(
                                       [started(m) EXCEPT !.stage = "processing"], t)), t))
      BY <2>4
    <3>2. Handled(m, IF m.resume THEN resume(started(m), t)
                     ELSE advance(armTimeout(fireLegs(
                             [started(m) EXCEPT !.stage = "processing"], t)), t))
      BY <2>1, <2>4 DEF Handled
    <3> QED
      BY <1>3, <1>6, <2>1, <3>1, <3>2
  <2>5. CASE /\ actor.stage = "idle" /\ Poison /\ mail' = mail \ {m}
             /\ UNCHANGED <<row, ledger, inbox, fresh, callbacks, faults>>
    BY <1>1, <2>1, <2>5 DEF Poison, Stopped
  <2> QED
    BY <1>7, <2>2, <2>3, <2>4, <2>5, Zenon DEF start
<1>8. CASE startFailed(m)
  <2>1. /\ Takes(m) /\ m \in StartMsgs /\ actor.stage = "idle" /\ Charge({"db"})
        /\ m.kind # "result"
    BY <1>8, MailKinds DEF startFailed
  <2>2. CASE Yield(m, Handler)
    <3>1. Handled(m, Handler)
      BY <2>1 DEF Handled
    <3> QED
      BY <1>4, <1>6, <2>1, <2>2, <3>1
  <2>3. CASE startable(m) /\ Yield(m, [started(m) EXCEPT !.leg = actor.leg])
    <3>1. Handled(m, [started(m) EXCEPT !.leg = actor.leg])
      BY <2>1, <2>3 DEF Handled
    <3> QED
      BY <1>4, <1>6, <2>1, <2>3, <3>1
  <2> QED
    BY <1>8, <2>2, <2>3 DEF startFailed
<1>9. CASE collect(m)
  <2>1. Takes(m) /\ m \in ResultMsgs
    BY <1>9, MailKinds DEF collect
  <2>2. CASE /\ actor.stage \in Working
             /\ \E t \in Troubles :
                   Charge(Cost(t)) /\ Yield(m, advance(record(Handler, m, t), t))
    <3>1. PICK t \in Troubles : Charge(Cost(t)) /\ Yield(m, advance(record(Handler, m, t), t))
      BY <2>2
    <3>2. Handled(m, advance(record(Handler, m, t), t))
      BY <2>1, <2>2, Zenon DEF Handled
    <3> QED
      BY <1>3, <1>6, <2>1, <3>1, <3>2, Zenon
  <2>3. CASE actor.stage \notin Working /\ Yield(m, Handler) /\ UNCHANGED faults
    <3>1. Handled(m, Handler)
      BY <2>3 DEF Handled
    <3> QED
      BY <1>1, <1>6, <2>1, <2>3, <3>1
  <2> QED
    BY <1>9, <2>2, <2>3 DEF collect
<1>10. CASE tick(m)
  <2>1. Takes(m) /\ m.kind # "result"
    BY <1>10, Zenon DEF tick
  <2>2. CASE /\ actor.stage \in Working
             /\ \E t \in Troubles, beats \in Beats :
                   /\ Charge(Cost(t) \union Missed(beats))
                   /\ Yield(m, armTimeout(heartbeat(resendPending(Handler, t), beats)))
    <3>1. PICK t \in Troubles, beats \in Beats :
                   /\ Charge(Cost(t) \union Missed(beats))
                   /\ Yield(m, armTimeout(heartbeat(resendPending(Handler, t), beats)))
      BY <2>2, Zenon
    <3>2. Handled(m, armTimeout(heartbeat(resendPending(Handler, t), beats)))
      BY <1>5, <2>1, <2>2 DEF Handled
    <3>3. \E g \in Handlers : Handled(m, g) /\ Yield(m, g)
      BY <1>6, <3>1, <3>2, Zenon
    <3> QED
      BY <1>2, <2>1, <3>1, <3>3, Zenon
  <2>3. CASE Yield(m, Handler) /\ UNCHANGED faults
    <3>1. Handled(m, Handler)
      BY <2>1 DEF Handled
    <3> QED
      BY <1>1, <1>6, <2>1, <2>3, <3>1
  <2> QED
    BY <1>10, <2>2, <2>3, Zenon DEF tick
<1> QED
  BY <1>7, <1>8, <1>9, <1>10

-----------------------------------------------------------------------------
(* What a handler does, leg by leg                                         *)

\* A start that failed after its UPDATE.
Unstarted(h) ==
    /\ h.stage = "idle" /\ h.leg = actor.leg /\ h.inbox = inbox
    /\ h.row.status = "processing" /\ h.row.flagged = row.flagged /\ h.row.plan = row.plan

\* A first start: every debit is sent.
First(m, t, h) ==
    /\ h.stage = "processing"
    /\ h.row.status = "processing" /\ h.row.flagged = row.flagged /\ h.row.plan = row.plan
    /\ \A l \in Legs :
         /\ h.leg[l].rkey = m.plan[l] /\ h.leg[l].done = FALSE
         /\ h.leg[l].applied = FALSE /\ h.leg[l].failed = FALSE /\ h.leg[l].reversed = FALSE
         /\ l \in Debits => h.leg[l].retry = (l \in t.unplaced)
         /\ l \notin Debits => h.leg[l].retry = FALSE
         /\ h.inbox[l] = IF l \in Debits /\ l \notin t.unplaced
                         THEN Append(inbox[l], [key |-> 0, from |-> actor.inc])
                         ELSE inbox[l]

LEMMA FirstType ==
    ASSUME TypeInv, NEW m \in StartMsgs, NEW t \in TroubleTypes
    PROVE  LET g == armTimeout(fireLegs([started(m) EXCEPT !.stage = "processing"], t)) IN
           g \in Handlers /\ First(m, t, g)
<1> DEFINE s == [started(m) EXCEPT !.stage = "processing"]
           f == fireLegs(s, t)
<1>1. /\ s \in Handlers /\ s.stage = "processing" /\ s.inbox = inbox
      /\ s.row.status = "processing" /\ s.row.flagged = row.flagged
      /\ s.row.plan = row.plan
      /\ \A l \in Legs :
           /\ s.leg[l].rkey = m.plan[l] /\ s.leg[l].done = FALSE
           /\ s.leg[l].applied = FALSE /\ s.leg[l].retry = FALSE
           /\ s.leg[l].failed = FALSE /\ s.leg[l].reversed = FALSE
  BY FirstStartType, Zenon
<1> HIDE DEF s
<1>2. \A l \in Legs : inStage(s, l) <=> l \in Debits
  BY <1>1 DEF inStage
<1>3. f \in Handlers /\ First(m, t, f)
  <2>1. /\ f \in Handlers /\ f.stage = s.stage /\ f.row = s.row
        /\ \A l \in Legs : f.inbox[l] = IF ~s.leg[l].done /\ inStage(s, l) /\ l \notin t.unplaced
                                        THEN Append(s.inbox[l], [key |-> 0, from |-> actor.inc])
                                        ELSE s.inbox[l]
    BY <1>1, FireLegsType
  <2>2. \A l \in Legs :
          /\ f.leg[l].rkey = s.leg[l].rkey /\ f.leg[l].done = s.leg[l].done
          /\ f.leg[l].applied = s.leg[l].applied /\ f.leg[l].failed = s.leg[l].failed
          /\ f.leg[l].reversed = s.leg[l].reversed
          /\ ~s.leg[l].done /\ inStage(s, l) => f.leg[l].retry = (l \in t.unplaced)
          /\ ~(~s.leg[l].done /\ inStage(s, l)) => f.leg[l].retry = s.leg[l].retry
    BY <1>1, FireLegsType
  <2> HIDE DEF f
  <2>3. \A l \in Legs :
          /\ f.leg[l].rkey = m.plan[l] /\ f.leg[l].done = FALSE
          /\ f.leg[l].applied = FALSE /\ f.leg[l].failed = FALSE
          /\ f.leg[l].reversed = FALSE
          /\ l \in Debits => f.leg[l].retry = (l \in t.unplaced)
          /\ l \notin Debits => f.leg[l].retry = FALSE
    BY <1>1, <1>2, <2>2
  <2>4. \A l \in Legs : f.inbox[l] = IF l \in Debits /\ l \notin t.unplaced
                                     THEN Append(inbox[l], [key |-> 0, from |-> actor.inc])
                                     ELSE inbox[l]
    BY <1>1, <1>2, <2>1
  <2> QED
    BY <1>1, <2>1, <2>3, <2>4, Zenon DEF First
<1> HIDE DEF f
<1>4. f.stage \in Working
  BY <1>3 DEF First, Working
<1>5. armTimeout(f) \in Handlers /\ First(m, t, armTimeout(f))
  BY <1>3, <1>4, ArmType DEF First
<1> QED
  BY <1>5 DEF s, f

\* The body of a handler, before advance.
Begun(m, t, g) ==
    /\ actor.stage = "idle" /\ m \in StartMsgs /\ startable(m)
    /\ \/ m.resume /\ (\A l \in Legs : m.plan[l] = 0) /\ Forward(started(m), t, g)
       \/ m.resume /\ (\E l \in Legs : m.plan[l] # 0) /\ Backward(started(m), t, g)
       \/ ~m.resume /\ First(m, t, g)

Recorded(m, t, g) ==
    actor.stage \in Working /\ m \in ResultMsgs /\ g = record(Handler, m, t)

LEMMA HandledCases ==
    ASSUME TypeInv, NEW m, NEW h, Handled(m, h)
    PROVE  \/ h = Handler /\ (m.kind = "result" => actor.stage \notin Working)
           \/ m.kind # "result" /\ actor.stage \in Working /\ \E t \in Troubles : Resent(t, h)
           \/ actor.stage = "idle" /\ m \in StartMsgs /\ startable(m) /\ Unstarted(h)
           \/ \E t \in Troubles, g \in Handlers :
                h = advance(g, t) /\ (Recorded(m, t, g) \/ Begun(m, t, g))
<1>0. \A t \in Troubles : t \in TroubleTypes
  BY TroubleType
<1>1. CASE h = Handler /\ (m.kind = "result" => actor.stage \notin Working)
  BY <1>1
<1>2. CASE /\ m.kind # "result" /\ actor.stage \in Working
           /\ \E t \in Troubles, b \in BOOLEAN :
                \/ h = heartbeat(resendPending(Handler, t), b)
                \/ h = armTimeout(heartbeat(resendPending(Handler, t), b))
  BY <1>0, <1>2, ResentType
<1>3. CASE /\ actor.stage \in Working /\ m \in ResultMsgs
           /\ \E t \in Troubles : h = advance(record(Handler, m, t), t)
  <2>1. PICK t \in Troubles : h = advance(record(Handler, m, t), t)
    BY <1>3
  <2>2. record(Handler, m, t) \in Handlers
    BY <1>0, <1>3, HandlerType, RecordType
  <2>3. Recorded(m, t, record(Handler, m, t))
    BY <1>3 DEF Recorded
  <2> QED
    BY <2>1, <2>2, <2>3
<1>4. ASSUME actor.stage = "idle", m \in StartMsgs, startable(m)
      PROVE  /\ Unstarted([started(m) EXCEPT !.leg = actor.leg])
             /\ \A t \in Troubles : m.resume =>
                  \E g \in Handlers : resume(started(m), t) = advance(g, t) /\ Begun(m, t, g)
             /\ \A t \in Troubles : ~m.resume =>
                  \E g \in Handlers : Begun(m, t, g) /\
                    advance(armTimeout(fireLegs([started(m) EXCEPT !.stage = "processing"], t)), t)
                      = advance(g, t)
  <2> DEFINE s == started(m)
  <2>1. /\ s \in Handlers /\ s.stage = "idle" /\ s.inbox = inbox
        /\ s.row.status = "processing" /\ s.row.flagged = row.flagged
        /\ s.row.plan = row.plan /\ \A l \in Legs : s.leg[l].rkey = m.plan[l]
    BY <1>4, StartedType, Zenon
  <2>2. actor.leg \in [Legs -> LegStates]
    BY DEF TypeInv, Activations
  <2> HIDE DEF s
  <2>3. Unstarted([s EXCEPT !.leg = actor.leg])
    BY <2>1, <2>2, LegsType DEF Unstarted
  <2>4. ASSUME NEW t \in Troubles, m.resume
        PROVE  \E g \in Handlers : resume(s, t) = advance(g, t) /\ Begun(m, t, g)
    <3>1. CASE \A l \in Legs : m.plan[l] = 0
      <4>1. \A l \in Legs : s.leg[l].rkey = 0
        BY <2>1, <3>1
      <4>2. \E g \in Handlers : resume(s, t) = advance(g, t) /\ Forward(s, t, g)
        BY <1>0, <2>1, <4>1, ResumeForward
      <4> QED
        BY <1>4, <2>4, <3>1, <4>2 DEF Begun, s
    <3>2. CASE \E l \in Legs : m.plan[l] # 0
      <4>1. PICK x \in Legs : s.leg[x].rkey # 0
        BY <2>1, <3>2
      <4>2. \E g \in Handlers : resume(s, t) = advance(g, t) /\ Backward(s, t, g)
        BY <1>0, <2>1, <4>1, ResumeBackward
      <4> QED
        BY <1>4, <2>4, <3>2, <4>2 DEF Begun, s
    <3> QED
      BY <3>1, <3>2
  <2>5. ASSUME NEW t \in Troubles, ~m.resume
        PROVE  LET g == armTimeout(fireLegs([s EXCEPT !.stage = "processing"], t)) IN
               g \in Handlers /\ Begun(m, t, g)
    BY <1>0, <1>4, <2>5, FirstType DEF s, Begun
  <2> QED
    BY <2>3, <2>4, <2>5 DEF s
<1>5. CASE /\ actor.stage = "idle" /\ m \in StartMsgs /\ startable(m)
           /\ \/ h = [started(m) EXCEPT !.leg = actor.leg]
              \/ \E t \in Troubles :
                   \/ m.resume /\ h = resume(started(m), t)
                   \/ /\ ~m.resume
                      /\ h = advance(armTimeout(fireLegs(
                                [started(m) EXCEPT !.stage = "processing"], t)), t)
  BY <1>4, <1>5
<1> QED
  BY <1>1, <1>2, <1>3, <1>5 DEF Handled

=============================================================================
