-------------------------- MODULE AtomicityProofs --------------------------
(***************************************************************************)
(* A transaction is atomic: TransactionSystem implements AtomicTransfer.   *)
(*                                                                         *)
(* Recovery that gives up, plans that are not saved, operations delivered  *)
(* twice and operations of an old activation that overtake newer ones      *)
(* break this, so the theorems exclude them.  Crashes, failing statements, *)
(* wallets that cannot be placed or give no verdict, dead letters, lost    *)
(* operations, re-driven orchestrators and any number of resumptions are   *)
(* all allowed.                                                            *)
(***************************************************************************)
EXTENDS PlanProofs, DeliveryProofs

\* A leaf that names no prover is for the SMT solver, asked again when it runs
\* out of time.
USE SMTT(30), Z3T(30), Z3T(60)

-----------------------------------------------------------------------------
(* What is settled stays settled                                           *)

\* A failed leg was not applied and never will be; once one has failed, every
\* leg was either not applied and never will be, or has a reversal key.  The
\* stored plan tells the same after the activation is gone.
DoomH(h) ==
    /\ h.stage \in {"processing", "crediting"} =>
         \A l \in Legs : /\ ~h.leg[l].reversed
                         /\ h.leg[l].failed =>
                              h.leg[l].done /\ ~h.leg[l].applied /\ NoneLeft(h, l)
    /\ h.stage = "processing" => \A c \in Credits : ~h.leg[c].failed
    /\ h.stage = "reversing" =>
         /\ anyFailed(h)
         /\ \A l \in Legs : /\ h.leg[l].failed => ~h.leg[l].applied
                            /\ ~h.leg[l].applied => h.leg[l].done /\ NoneLeft(h, l)
                            /\ h.leg[l].applied => h.leg[l].rkey # 0
                            /\ h.leg[l].reversed => Key(l, h.leg[l].rkey) \in ledger
    /\ (\E l \in Legs : h.row.plan[l] # 0) =>
         /\ \A l \in Legs : h.row.plan[l] = 0 => NoneLeft(h, l)
         /\ \E l \in Legs : h.row.plan[l] = 0

\* A stage that is over is left at once, unless the transaction is.
OpenH(h) ==
    /\ h.stage = "processing" => ~allDone(h)
    /\ h.stage = "crediting" => ~(allDone(h) /\ anyFailed(h))

\* Before the credits are sent nothing of them is left to apply.
LEMMA NoCredits ==
    ASSUME TypeInv, CreditInv, NEW h, CreditH(h), NEW d \in Debits, NoneLeft(h, d),
           NEW c \in Credits
    PROVE  NoneLeft(h, c)
<1>1. ~DebitsIn
  BY DEF NoneLeft, DebitsIn
<1> QED
  BY <1>1 DEF CreditInv, CreditH, NoneLeft

LEMMA DoomReversals ==
    ASSUME TypeInv, CreditInv, NEW h \in Handlers, NEW t \in TroubleTypes, t.saved,
           CreditH(h), PlanH(h), DoomH(h),
           allDone(h), h.stage \in {"processing", "crediting"}, anyFailed(h),
           NEW g \in Handlers, ReversalsFired(h, t, g)
    PROVE  DoomH(g)
<1>1. g.stage = "reversing"
  BY DEF ReversalsFired
<1>2. ASSUME NEW l \in Legs, ~h.leg[l].applied
      PROVE  NoneLeft(h, l)
  <2>1. CASE h.leg[l].failed
    BY <2>1 DEF DoomH
  <2>2. CASE ~h.leg[l].failed
    <3>1. ~h.leg[l].done
      BY <1>2, <2>2 DEF CreditH
    <3>2. ~inStage(h, l)
      BY <3>1 DEF allDone
    <3>3. h.stage # "crediting"
      BY <1>2, <3>2, TransactionConstants DEF inStage, CreditH, Legs
    <3>4. h.stage = "processing" /\ l \in Credits
      BY <3>2, <3>3 DEF inStage, Legs
    <3>5. PICK d \in Legs : h.leg[d].failed
      BY DEF anyFailed
    <3>6. d \in Debits /\ NoneLeft(h, d)
      BY <3>4, <3>5 DEF DoomH, Legs
    <3> QED
      BY <3>4, <3>6, NoCredits
  <2> QED
    BY <2>1, <2>2
<1>3. ASSUME NEW l \in Legs
      PROVE  /\ g.leg[l].failed = h.leg[l].failed /\ g.leg[l].applied = h.leg[l].applied
             /\ ~h.leg[l].applied => g.leg[l].done
             /\ g.leg[l].reversed = h.leg[l].reversed
             /\ g.leg[l].rkey = ReversalKey(h, l) /\ g.row.plan[l] = ReversalKey(h, l)
             /\ ~h.leg[l].applied => g.inbox[l] = h.inbox[l]
  BY Zenon DEF ReversalsFired
<1>4. \A l \in Legs : h.leg[l].rkey = 0 /\ h.fresh # 0
  BY DEF PlanH, Handlers
<1>5. \A l \in Legs : ReversalKey(h, l) # 0 <=> h.leg[l].applied
  BY <1>4 DEF ReversalKey
<1>6. \A l \in Legs : ~h.leg[l].applied => NoneLeft(g, l)
  BY <1>2, <1>3 DEF NoneLeft
<1>7. PICK d \in Legs : h.leg[d].failed /\ ~h.leg[d].applied
  BY DEF anyFailed, DoomH
<1>8. anyFailed(g)
  BY <1>3, <1>7 DEF anyFailed
<1>9. \A l \in Legs : h.leg[l].failed => ~h.leg[l].applied
  BY DEF DoomH
<1>10. \A l \in Legs : ~h.leg[l].reversed
  BY DEF DoomH
<1>11. \A l \in Legs : /\ g.leg[l].failed => ~g.leg[l].applied
                       /\ ~g.leg[l].applied => g.leg[l].done /\ NoneLeft(g, l)
                       /\ g.leg[l].applied => g.leg[l].rkey # 0
                       /\ g.leg[l].reversed => Key(l, g.leg[l].rkey) \in ledger
  <2> TAKE l \in Legs
  <2>1. g.leg[l].applied => g.leg[l].rkey # 0
    BY <1>3, <1>5
  <2> QED
    BY <1>3, <1>6, <1>9, <1>10, <2>1
<1>12. /\ \A l \in Legs : g.row.plan[l] = 0 => NoneLeft(g, l)
       /\ \E l \in Legs : g.row.plan[l] = 0
  BY <1>3, <1>5, <1>6, <1>7
<1> QED
  BY <1>1, <1>8, <1>11, <1>12 DEF DoomH

LEMMA DoomAdvance ==
    ASSUME TypeInv, CreditInv, NEW h \in Handlers, NEW t \in TroubleTypes, t.saved,
           CreditH(h), PlanH(h), DoomH(h)
    PROVE  DoomH(advance(h, t)) /\ OpenH(advance(h, t))
<1> DEFINE g == advance(h, t)
<1>1. CASE /\ Alike(g, h)
           /\ \/ ~allDone(h)
              \/ h.stage \notin {"processing", "crediting"}
              \/ h.stage = "crediting" /\ ~anyFailed(h)
  <2> HIDE DEF g
  <2>1. \A l \in Legs : NoneLeft(h, l) => NoneLeft(g, l)
    BY <1>1 DEF Alike, NoneLeft
  <2>2. anyFailed(g) = anyFailed(h) /\ allDone(g) = allDone(h)
    BY <1>1 DEF Alike, anyFailed, allDone, inStage
  <2>3. g.stage = h.stage /\ g.leg = h.leg /\ g.row = h.row
    BY <1>1 DEF Alike
  <2>4. DoomH(g)
    BY <2>1, <2>2, <2>3 DEF DoomH
  <2>5. OpenH(g)
    BY <1>1, <2>2, <2>3 DEF OpenH
  <2> QED
    BY <2>4, <2>5 DEF g
<1>2. CASE /\ allDone(h) /\ h.stage \in {"processing", "crediting"} /\ anyFailed(h)
           /\ g \in Handlers /\ ReversalsFired(h, t, g)
  <2> HIDE DEF g
  <2>1. DoomH(g)
    BY <1>2, DoomReversals
  <2>2. OpenH(g)
    BY <1>2 DEF OpenH, ReversalsFired
  <2> QED
    BY <2>1, <2>2 DEF g
<1>3. CASE /\ allDone(h) /\ h.stage = "processing" /\ ~anyFailed(h)
           /\ g \in Handlers /\ CreditsFired(h, t, g)
  <2> HIDE DEF g
  <2>1. /\ g.stage = "crediting" /\ g.row = h.row
        /\ \A l \in Legs : /\ g.leg[l].failed = h.leg[l].failed
                           /\ g.leg[l].reversed = h.leg[l].reversed
    BY <1>3 DEF CreditsFired
  <2>2. \A l \in Legs : ~h.leg[l].failed /\ ~h.leg[l].reversed /\ h.row.plan[l] = 0
    BY <1>3 DEF anyFailed, DoomH, PlanH
  <2>3. DoomH(g)
    BY <2>1, <2>2 DEF DoomH
  <2>4. OpenH(g)
    BY <2>1, <2>2 DEF OpenH, anyFailed
  <2> QED
    BY <2>3, <2>4 DEF g
<1> QED
  BY <1>1, <1>2, <1>3, AdvanceCases

LEMMA DoomRecord ==
    ASSUME TypeInv, PlanInv, CopyH(Handler, mail), DoomH(Handler), actor.stage \in Working,
           NEW m \in mail, m \in ResultMsgs, Takes(m), NEW t \in TroubleTypes
    PROVE  DoomH(record(Handler, m, t))
<1> DEFINE l == m.leg
           old == actor.leg[l]
<1>1. /\ Handler \in Handlers /\ Handler.leg = actor.leg /\ Handler.stage = actor.stage
      /\ Handler.inbox = inbox /\ Handler.row = row /\ l \in Legs /\ old \in LegStates
  BY HandlerType DEF Handler, ResultMsgs, TypeInv, Activations
<1>2. PICK f \in LegStates : /\ record(Handler, m, t) = Left(Handler, l, f)
                             /\ Settles(Handler, old, m.code, f)
  BY RecordSettles
<1> DEFINE g == Left(Handler, l, f)
<1>3. /\ g \in Handlers /\ g.stage = actor.stage /\ g.inbox = inbox /\ g.row = row
      /\ g.leg[l] = f /\ \A k \in Legs : k # l => g.leg[k] = actor.leg[k]
  BY <1>1, SettleType
<1> HIDE DEF g
<1>4. \A k \in Legs : NoneLeft(g, k) = NoneLeft(Handler, k)
  BY <1>1, <1>3 DEF NoneLeft
<1>5. /\ ~old.done /\ Matches(Handler, m) /\ inStage(Handler, l)
      /\ m.code = "refused" /\ actor.stage # "reversing" => NoneLeft(Handler, l)
  <2>1. /\ Waits(Handler, l) /\ Matches(Handler, m) /\ ~old.done
        /\ m.code = "refused" /\ actor.stage # "reversing" => NoneLeft(Handler, l)
    BY ReplyExpected
  <2> QED
    BY <2>1 DEF Waits
<1>6. f.rkey = old.rkey
  BY <1>1, <1>2, Zenon DEF Settles, LegStates
<1>7. CASE actor.stage \in {"processing", "crediting"}
  <2>1. /\ f.reversed = old.reversed
        /\ f.failed => old.failed \/ (m.code = "refused" /\ f.done /\ f.applied = old.applied)
    BY <1>1, <1>2, <1>5, <1>7, Zenon DEF Settles, LegStates
  <2>2. ~old.reversed /\ ~old.failed
    BY <1>1, <1>5, <1>7 DEF DoomH
  <2>3. old.applied => Key(l, 0) \in ledger
    BY <1>1, <1>7 DEF PlanInv, PlanH
  <2>4. ~f.reversed /\ (f.failed => f.done /\ ~f.applied /\ NoneLeft(g, l))
    BY <1>1, <1>4, <1>5, <1>7, <2>1, <2>2, <2>3 DEF NoneLeft
  <2>5. \A k \in Legs : /\ ~g.leg[k].reversed
                        /\ g.leg[k].failed => g.leg[k].done /\ ~g.leg[k].applied /\ NoneLeft(g, k)
    BY <1>1, <1>3, <1>4, <1>7, <2>4 DEF DoomH
  <2>6. g.stage = "processing" => \A c \in Credits : ~g.leg[c].failed
    <3> SUFFICES ASSUME g.stage = "processing", NEW c \in Credits PROVE ~g.leg[c].failed
      OBVIOUS
    <3>1. c # l /\ c \in Legs
      BY <1>1, <1>3, <1>5, TransactionConstants DEF inStage, Legs
    <3> QED
      BY <1>1, <1>3, <3>1 DEF DoomH
  <2>7. g.row = Handler.row /\ g.stage # "reversing" /\ g.stage = Handler.stage
    BY <1>1, <1>3, <1>7
  <2>8. (\E k \in Legs : g.row.plan[k] # 0) =>
          /\ \A k \in Legs : g.row.plan[k] = 0 => NoneLeft(g, k)
          /\ \E k \in Legs : g.row.plan[k] = 0
    BY <1>4, <2>7 DEF DoomH
  <2>9. DoomH(g)
    BY <2>5, <2>6, <2>7, <2>8 DEF DoomH
  <2> QED
    BY <1>2, <2>9 DEF g
<1>8. CASE actor.stage = "reversing"
  <2>1. /\ f.failed = old.failed /\ f.applied = old.applied
        /\ f.done \/ f.done = old.done
        /\ f.reversed => old.reversed \/ m.code = "ok"
    BY <1>1, <1>2, <1>5, <1>8, ZenonT(30) DEF Settles, LegStates
  <2>2. m.code = "ok" => Key(l, old.rkey) \in ledger
    BY <1>1, <1>5, <1>8 DEF PlanInv, OkTrue, Matches, ResultMsgs
  <2>3. /\ f.failed => ~f.applied
        /\ ~f.applied => f.done /\ NoneLeft(g, l)
        /\ f.applied => f.rkey # 0
        /\ f.reversed => Key(l, f.rkey) \in ledger
    BY <1>1, <1>4, <1>6, <1>8, <2>1, <2>2 DEF DoomH
  <2>4. \A k \in Legs : /\ g.leg[k].failed => ~g.leg[k].applied
                        /\ ~g.leg[k].applied => g.leg[k].done /\ NoneLeft(g, k)
                        /\ g.leg[k].applied => g.leg[k].rkey # 0
                        /\ g.leg[k].reversed => Key(k, g.leg[k].rkey) \in ledger
    BY <1>1, <1>3, <1>4, <1>8, <2>3 DEF DoomH
  <2>5. anyFailed(g)
    BY <1>1, <1>3, <1>8, <2>1 DEF DoomH, anyFailed
  <2>7. g.row = Handler.row /\ g.stage = "reversing"
    BY <1>1, <1>3, <1>8
  <2>8. (\E k \in Legs : g.row.plan[k] # 0) =>
          /\ \A k \in Legs : g.row.plan[k] = 0 => NoneLeft(g, k)
          /\ \E k \in Legs : g.row.plan[k] = 0
    BY <1>4, <2>7 DEF DoomH
  <2>9. DoomH(g)
    BY <2>4, <2>5, <2>7, <2>8 DEF DoomH
  <2> QED
    BY <1>2, <2>9 DEF g
<1> QED
  BY <1>7, <1>8 DEF Working

LEMMA DoomResent ==
    ASSUME TypeInv, PlanInv, NEW t, NEW h \in Handlers, actor.stage \in Working,
           DoomH(Handler), OpenH(Handler), Resent(t, h)
    PROVE  DoomH(h) /\ OpenH(h)
<1>0. /\ Handler.stage = actor.stage /\ Handler.leg = actor.leg /\ Handler.inbox = inbox
      /\ Handler.row = row /\ inbox \in [Legs -> Seq(Operations)] /\ actor.leg \in [Legs -> LegStates]
  BY DEF Handler, TypeInv, Activations
<1>1. /\ h.stage = actor.stage /\ h.row.plan = row.plan
      /\ \A l \in Legs :
           /\ h.leg[l].rkey = actor.leg[l].rkey /\ h.leg[l].applied = actor.leg[l].applied
           /\ h.leg[l].failed = actor.leg[l].failed /\ h.leg[l].done = actor.leg[l].done
           /\ h.leg[l].reversed = actor.leg[l].reversed
  BY Zenon DEF Resent
<1>2. ASSUME NEW l \in Legs, NoneLeft(Handler, l),
             actor.leg[l].done \/ actor.stage = "reversing"
      PROVE  NoneLeft(h, l)
  <2> DEFINE k == actor.leg[l].rkey
  <2>1. \/ h.inbox[l] = inbox[l]
        \/ k # 0 /\ h.inbox[l] = Append(inbox[l], [key |-> k, from |-> actor.inc])
    BY <1>2, Zenon DEF Resent
  <2>2. k \in Nat /\ inbox[l] \in Seq(Operations)
    BY <1>0 DEF LegStates
  <2> HIDE DEF k
  <2>3. \A e \in Entries(h.inbox[l]) : e \in Entries(inbox[l]) \/ (k # 0 /\ e.key = k)
    BY <2>1, <2>2, SentKeys
  <2> QED
    BY <1>0, <1>2, <2>3 DEF NoneLeft
<1>3. anyFailed(h) = anyFailed(Handler) /\ allDone(h) = allDone(Handler)
  BY <1>0, <1>1, ZenonT(30) DEF anyFailed, allDone, inStage
<1>4. OpenH(h)
  BY <1>0, <1>1, <1>3 DEF OpenH
<1>5. CASE actor.stage \in {"processing", "crediting"}
  <2>1. \A l \in Legs : h.row.plan[l] = 0
    BY <1>0, <1>1, <1>5 DEF PlanInv, PlanH
  <2>2. \A l \in Legs : /\ ~h.leg[l].reversed
                        /\ h.leg[l].failed => h.leg[l].done /\ ~h.leg[l].applied /\ NoneLeft(h, l)
    BY <1>0, <1>1, <1>2, <1>5 DEF DoomH
  <2>3. h.stage = "processing" => \A c \in Credits : ~h.leg[c].failed
    BY <1>0, <1>1 DEF DoomH, Legs
  <2>4. h.stage # "reversing"
    BY <1>1, <1>5
  <2>5. DoomH(h)
    BY <2>1, <2>2, <2>3, <2>4 DEF DoomH
  <2> QED
    BY <1>4, <2>5
<1>6. CASE actor.stage = "reversing"
  <2>1. \A l \in Legs : /\ h.leg[l].failed => ~h.leg[l].applied
                        /\ ~h.leg[l].applied => h.leg[l].done /\ NoneLeft(h, l)
                        /\ h.leg[l].applied => h.leg[l].rkey # 0
                        /\ h.leg[l].reversed => Key(l, h.leg[l].rkey) \in ledger
    BY <1>0, <1>1, <1>2, <1>6 DEF DoomH
  <2>2. (\E k \in Legs : h.row.plan[k] # 0) =>
          /\ \A k \in Legs : h.row.plan[k] = 0 => NoneLeft(h, k)
          /\ \E k \in Legs : h.row.plan[k] = 0
    BY <1>0, <1>1, <1>2, <1>6 DEF DoomH
  <2>3. anyFailed(h)
    BY <1>0, <1>3, <1>6 DEF DoomH
  <2>4. h.stage = "reversing"
    BY <1>1, <1>6
  <2>5. DoomH(h)
    BY <2>1, <2>2, <2>3, <2>4, Zenon DEF DoomH
  <2> QED
    BY <1>4, <2>5
<1> QED
  BY <1>5, <1>6 DEF Working

LEMMA DoomBegun ==
    ASSUME TypeInv, PlanInv, NEW m \in mail, NEW t \in TroubleTypes, NEW g \in Handlers,
           Begun(m, t, g), Takes(m), DoomH(Handler)
    PROVE  DoomH(g)
<1>0. m \in StartMsgs /\ actor.stage = "idle" /\ startable(m) /\ Handler.inbox = inbox /\ Handler.row = row
  BY DEF Begun, Handler
<1>1. \A l \in Legs : m.plan[l] = row.plan[l]
  BY <1>0 DEF PlanInv, Takes, StartMsgs
<1> DEFINE s == started(m)
<1>2. /\ s \in Handlers /\ s.inbox = inbox /\ s.row.plan = row.plan
      /\ \A l \in Legs : s.leg[l].rkey = row.plan[l] /\ s.leg[l].failed = FALSE
  BY <1>0, <1>1, StartedType, Zenon
<1> HIDE DEF s
<1>3. ASSUME g.stage \in {"processing", "crediting"},
             \A l \in Legs : ~g.leg[l].reversed /\ ~g.leg[l].failed,
             \A l \in Legs : g.row.plan[l] = 0
      PROVE  DoomH(g)
  <2>1. \A c \in Credits : ~g.leg[c].failed
    BY <1>3 DEF Legs
  <2> QED
    BY <1>3, <2>1 DEF DoomH
<1>4. CASE (\A l \in Legs : m.plan[l] = 0) /\ Forward(s, t, g)
  <2>1. g.stage \in {"processing", "crediting"} /\ g.row = s.row
    BY <1>4 DEF Forward
  <2>2. \A l \in Legs : ~g.leg[l].reversed /\ ~g.leg[l].failed
    BY <1>2, <1>4 DEF Forward
  <2> QED
    BY <1>1, <1>2, <1>3, <1>4, <2>1, <2>2
<1>5. CASE ~m.resume /\ First(m, t, g)
  <2>1. row.status = "pending"
    BY <1>0, <1>5 DEF startable
  <2>2. \A l \in Legs : row.plan[l] = 0
    BY <1>0, <2>1 DEF PlanInv, PlanH
  <2>3. g.stage \in {"processing", "crediting"} /\ g.row.plan = row.plan
    BY <1>5 DEF First
  <2>4. \A l \in Legs : ~g.leg[l].reversed /\ ~g.leg[l].failed
    BY <1>5 DEF First
  <2> QED
    BY <1>3, <2>2, <2>3, <2>4
<1>6. CASE (\E l \in Legs : m.plan[l] # 0) /\ Backward(s, t, g)
  <2>1. g.stage = "reversing"
    BY <1>6 DEF Backward
  <2>2. /\ \A l \in Legs : row.plan[l] = 0 => NoneLeft(Handler, l)
        /\ \E l \in Legs : row.plan[l] = 0
    BY <1>0, <1>1, <1>6, Zenon DEF DoomH
  <2>3. \A l \in Legs : row.plan[l] # 0 => Key(l, 0) \in ledger
    BY <1>0, Zenon DEF PlanInv, PlanH
  <2>4. \A l \in Legs : row.plan[l] # 0 <=> Key(l, 0) \in ledger
    BY <2>2, <2>3 DEF NoneLeft
  <2>5. \A l \in Legs : ResumeKey(s, l) = row.plan[l] /\ s.leg[l].rkey = row.plan[l]
    BY <1>2, <2>4 DEF ResumeKey
  <2>6. ASSUME NEW l \in Legs
        PROVE  /\ g.row.plan[l] = row.plan[l] /\ g.leg[l].rkey = row.plan[l]
               /\ g.leg[l].applied = (Key(l, 0) \in ledger)
               /\ g.leg[l].failed = (Key(l, 0) \notin ledger)
               /\ g.leg[l].reversed = ReversalFound(s, l)
               /\ Key(l, 0) \notin ledger => g.leg[l].done
               /\ Key(l, 0) \notin ledger => g.inbox[l] = inbox[l]
    BY <1>2, <1>6, <2>5, ZenonT(30) DEF Backward
  <2>7. \A l \in Legs : Key(l, 0) \notin ledger => NoneLeft(g, l)
    BY <1>0, <2>2, <2>4, <2>6 DEF NoneLeft
  <2>8. \A l \in Legs : g.leg[l].reversed => Key(l, row.plan[l]) \in ledger
    BY <2>5, <2>6, Zenon DEF ReversalFound
  <2>9. \A l \in Legs : /\ g.leg[l].failed => ~g.leg[l].applied
                        /\ ~g.leg[l].applied => g.leg[l].done /\ NoneLeft(g, l)
                        /\ g.leg[l].applied => g.leg[l].rkey # 0
                        /\ g.leg[l].reversed => Key(l, g.leg[l].rkey) \in ledger
    <3> TAKE l \in Legs
    <3>1. g.leg[l].applied => g.leg[l].rkey # 0
      BY <2>4, <2>6, ZenonT(30)
    <3>2. g.leg[l].reversed => Key(l, g.leg[l].rkey) \in ledger
      BY <2>6, <2>8
    <3> QED
      BY <2>6, <2>7, <3>1, <3>2, Zenon
  <2>10. anyFailed(g)
    BY <2>2, <2>4, <2>6, Zenon DEF anyFailed
  <2>11. /\ \A l \in Legs : g.row.plan[l] = 0 => NoneLeft(g, l)
         /\ \E l \in Legs : g.row.plan[l] = 0
    BY <2>2, <2>4, <2>6, <2>7
  <2> QED
    BY <2>1, <2>9, <2>10, <2>11 DEF DoomH
<1> QED
  BY <1>4, <1>5, <1>6 DEF Begun, s

LEMMA DoomHandled ==
    ASSUME TypeInv, CreditInv, PlanInv, NEW m \in mail, NEW h \in Handlers, Takes(m),
           Handled(m, h), CopyH(Handler, mail), DoomH(Handler), OpenH(Handler)
    PROVE  DoomH(h) /\ OpenH(h)
<1>0. \A t \in Troubles : t \in TroubleTypes /\ t.saved
  <2>1. ~(faults.plan > 0)
    BY DEF PlanInv
  <2>2. \A t \in Troubles : t.saved
    BY <2>1, Zenon DEF Troubles
  <2> QED
    BY <2>2, TroubleType
<1>1. CASE h = Handler
  BY <1>1
<1>2. CASE actor.stage \in Working /\ \E t \in Troubles : Resent(t, h)
  BY <1>2, DoomResent
<1>3. CASE actor.stage = "idle" /\ m \in StartMsgs /\ startable(m) /\ Unstarted(h)
  <2>1. h.stage = "idle" /\ h.inbox = Handler.inbox /\ h.row.plan = Handler.row.plan
    BY <1>3 DEF Unstarted, Handler
  <2>2. \A l \in Legs : NoneLeft(Handler, l) => NoneLeft(h, l)
    BY <2>1 DEF NoneLeft
  <2> QED
    BY <2>1, <2>2 DEF DoomH, OpenH
<1>4. ASSUME NEW t \in Troubles, NEW g \in Handlers, h = advance(g, t),
             Recorded(m, t, g) \/ Begun(m, t, g)
      PROVE  DoomH(h) /\ OpenH(h)
  <2>1. CreditH(g) /\ PlanH(g) /\ DoomH(g)
    <3>1. CASE Recorded(m, t, g)
      BY <1>0, <3>1, CreditRecord, PlanRecord, DoomRecord DEF Recorded
    <3>2. CASE Begun(m, t, g)
      BY <1>0, <3>2, CreditBegun, PlanBegun, DoomBegun
    <3> QED
      BY <1>4, <3>1, <3>2
  <2> QED
    BY <1>0, <1>4, <2>1, DoomAdvance
<1> QED
  BY <1>1, <1>2, <1>3, <1>4, HandledCases

\* Every leg is applied and has no reversal key.
AllApplied == \A l \in Legs : Key(l, 0) \in ledger /\ row.plan[l] = 0

\* No leg is applied or ever will be, but for the ones that are reversed.
Undone ==
    \A l \in Legs : \/ row.plan[l] = 0 /\ NoneLeft(Handler, l)
                    \/ row.plan[l] # 0 /\ Key(l, row.plan[l]) \in ledger

DoomInv ==
    /\ DoomH(Handler) /\ OpenH(Handler)
    /\ completed => actor.stage \notin Working
    /\ actor.stage = "finalized" =>
         /\ outcome = "success" => AllApplied
         /\ outcome = "failed" /\ ~unreconciled => Undone
    /\ row.status = "success" => AllApplied
    /\ row.status = "failed" /\ ~row.flagged => Undone

\* Any step but a handler's.
LEMMA DoomKept ==
    ASSUME DoomInv, row'.plan = row.plan, ledger \subseteq ledger',
           \A l \in Legs : NoneLeft(Handler, l) => NoneLeft(Handler, l)',
           \/ actor'.stage = actor.stage /\ actor'.leg = actor.leg
           \/ actor'.stage \in {"idle", "finalized"}
    PROVE  /\ DoomH(Handler)' /\ OpenH(Handler)'
           /\ AllApplied => AllApplied'
           /\ Undone => Undone'
<1>0. /\ Handler.stage = actor.stage /\ Handler.leg = actor.leg /\ Handler.row = row
      /\ Handler'.stage = actor'.stage /\ Handler'.leg = actor'.leg /\ Handler'.row = row'
  BY DEF Handler
<1>1. (AllApplied => AllApplied') /\ (Undone => Undone')
  BY DEF AllApplied, Undone
<1>2. (\E l \in Legs : Handler'.row.plan[l] # 0) =>
         /\ \A l \in Legs : Handler'.row.plan[l] = 0 => NoneLeft(Handler, l)'
         /\ \E l \in Legs : Handler'.row.plan[l] = 0
  BY <1>0 DEF DoomInv, DoomH
<1>3. CASE actor'.stage \in {"idle", "finalized"}
  BY <1>0, <1>1, <1>2, <1>3, Zenon DEF DoomH, OpenH
<1>4. CASE actor'.stage = actor.stage /\ actor'.leg = actor.leg
  <2>0. Handler'.stage = Handler.stage /\ Handler'.leg = Handler.leg
    BY <1>0, <1>4
  <2>1. anyFailed(Handler)' = anyFailed(Handler) /\ allDone(Handler)' = allDone(Handler)
    BY <2>0 DEF anyFailed, allDone, inStage
  <2>2. OpenH(Handler)'
    BY <2>0, <2>1 DEF DoomInv, OpenH
  <2>3. \A l \in Legs : Key(l, Handler.leg[l].rkey) \in ledger => Key(l, Handler.leg[l].rkey) \in ledger'
    OBVIOUS
  <2>4. DoomH(Handler)'
    BY <1>2, <2>0, <2>1, <2>3, Zenon DEF DoomInv, DoomH, Key
  <2> QED
    BY <1>1, <2>2, <2>4
<1> QED
  BY <1>3, <1>4

\* An orchestrator that is done, or that finds the transaction completed,
\* does nothing more.
LEMMA HandledOpen ==
    ASSUME TypeInv, NEW m, NEW h, Handled(m, h), completed => actor.stage \notin Working
    PROVE  \/ h = Handler
           \/ ~completed /\ actor.stage # "finalized" /\ h.stage # "finalized"
<1>0. \A t \in Troubles : t \in TroubleTypes
  BY TroubleType
<1>1. startable(m) => ~completed
  BY DEF startable, completed, Terminal
<1>2. CASE actor.stage \in Working /\ \E t \in Troubles : Resent(t, h)
  <2>1. h.stage = actor.stage
    BY <1>2, Zenon DEF Resent
  <2> QED
    BY <1>2, <2>1 DEF Working
<1>3. CASE actor.stage = "idle" /\ m \in StartMsgs /\ startable(m) /\ Unstarted(h)
  BY <1>1, <1>3 DEF Unstarted
<1>4. ASSUME NEW t \in Troubles, NEW g \in Handlers, h = advance(g, t),
             Recorded(m, t, g) \/ Begun(m, t, g)
      PROVE  ~completed /\ actor.stage # "finalized" /\ h.stage # "finalized"
  <2>1. g.stage \in Working /\ ~completed /\ actor.stage # "finalized"
    <3>1. CASE Recorded(m, t, g)
      BY <1>0, <3>1, HandlerType, RecordRow DEF Recorded, Handler, Working
    <3>2. CASE Begun(m, t, g)
      <4>1. g.stage \in Working
        BY <3>2, Zenon DEF Begun, Forward, Backward, First, Working
      <4>2. startable(m) /\ actor.stage = "idle"
        BY <3>2, Zenon DEF Begun
      <4> QED
        BY <1>1, <4>1, <4>2
    <3> QED
      BY <1>4, <3>1, <3>2
  <2>2. h.stage # "finalized"
    BY <1>0, <1>4, <2>1, AdvanceKeeps DEF Working
  <2> QED
    BY <2>1, <2>2
<1> QED
  BY <1>2, <1>3, <1>4, HandledCases

\* An orchestrator finalizes with every leg applied, or undone or flagged.
LEMMA DoomFinal ==
    ASSUME TypeInv, CreditInv, PlanInv, DoomInv, actor.stage \in Working, allDone(Handler)
    PROVE  /\ outcome = "success" => AllApplied
           /\ outcome = "failed" /\ ~unreconciled => Undone
<1>0. /\ Handler.stage = actor.stage /\ Handler.leg = actor.leg /\ Handler.row = row
      /\ DoomH(Handler) /\ OpenH(Handler) /\ PlanH(Handler) /\ CreditH(Handler)
  BY Zenon DEF Handler, DoomInv, PlanInv, CreditInv
<1>1. actor.stage # "processing"
  BY <1>0, Zenon DEF OpenH
<1>2. CASE actor.stage = "crediting"
  <2>1. ~anyFailed(Handler)
    BY <1>0, <1>2 DEF OpenH
  <2>2. outcome = "success"
    BY <1>0, <2>1 DEF outcome, anyFailed
  <2>3. \A l \in Legs : actor.leg[l].applied
    <3> TAKE l \in Legs
    <3>1. CASE l \in Debits
      BY <1>0, <1>2, <3>1 DEF CreditH
    <3>2. CASE l \in Credits
      <4>1. actor.leg[l].done /\ ~actor.leg[l].failed
        BY <1>0, <1>2, <2>1, <3>2 DEF allDone, anyFailed, inStage
      <4> QED
        BY <1>0, <1>2, <4>1 DEF CreditH
    <3> QED
      BY <3>1, <3>2 DEF Legs
  <2>4. AllApplied
    BY <1>0, <1>2, <2>3 DEF PlanH, AllApplied
  <2> QED
    BY <2>2, <2>4
<1>3. CASE actor.stage = "reversing"
  <2>1. outcome = "failed"
    BY <1>0, <1>3, Zenon DEF DoomH, anyFailed, outcome
  <2>2. ASSUME ~unreconciled, NEW l \in Legs
        PROVE  \/ row.plan[l] = 0 /\ NoneLeft(Handler, l)
               \/ row.plan[l] # 0 /\ Key(l, row.plan[l]) \in ledger
    <3>0. row.plan[l] = actor.leg[l].rkey
      BY <1>0, <1>3 DEF PlanH
    <3>1. CASE actor.leg[l].applied
      <4>1. actor.leg[l].reversed
        BY <2>1, <2>2, <3>1 DEF unreconciled
      <4> QED
        BY <1>0, <1>3, <3>0, <3>1, <4>1, Zenon DEF DoomH
    <3>2. CASE ~actor.leg[l].applied
      BY <1>0, <1>3, <3>0, <3>2, Zenon DEF DoomH, PlanH
    <3> QED
      BY <3>1, <3>2
  <2> QED
    BY <2>1, <2>2 DEF Undone
<1> QED
  BY <1>1, <1>2, <1>3 DEF Working

LEMMA DoomStep ==
    ASSUME Orderly, TypeInv, CreditInv, PlanInv, Patient, CopyInv, DoomInv, [Next]_rvars
    PROVE  DoomInv'
<1>0. /\ actor \in Activations /\ inbox \in [Legs -> Seq(Operations)] /\ Budget
      /\ row \in Rows
  BY DEF TypeInv, CopyInv
<1>1. ASSUME ledger' = ledger, inbox' = inbox, NEW l \in Legs, NoneLeft(Handler, l)
      PROVE  NoneLeft(Handler, l)'
  BY <1>1 DEF NoneLeft, Handler
<1>2. ASSUME row'.plan = row.plan, ledger \subseteq ledger',
             \A l \in Legs : NoneLeft(Handler, l) => NoneLeft(Handler, l)',
             \/ actor'.stage = actor.stage /\ actor'.leg = actor.leg
             \/ actor'.stage = "idle",
             \/ row'.status = row.status /\ row'.flagged = row.flagged
             \/ row'.status \notin Terminal
      PROVE  DoomInv'
  <2>1. /\ DoomH(Handler)' /\ OpenH(Handler)'
        /\ AllApplied => AllApplied'
        /\ Undone => Undone'
    BY <1>2, DoomKept
  <2>2. actor'.stage = "finalized" => outcome' = outcome /\ unreconciled' = unreconciled
                                        /\ actor.stage = "finalized"
    BY <1>2 DEF outcome, unreconciled
  <2>3. completed' => actor'.stage \notin Working
    BY <1>2 DEF DoomInv, completed, Working
  <2>4. /\ row'.status = "success" => row.status = "success"
        /\ row'.status = "failed" /\ ~row'.flagged => row.status = "failed" /\ ~row.flagged
    BY <1>2 DEF Terminal
  <2> QED
    BY <2>1, <2>2, <2>3, <2>4 DEF DoomInv
<1>3. ASSUME NEW m \in mail, NEW h \in Handlers, Reacts(m, h)
      PROVE  DoomInv'
  <2>1. Yield(m, h) /\ Takes(m) /\ Handled(m, h) /\ actor.up
    BY <1>3 DEF Reacts, Takes
  <2>2. /\ actor'.stage = h.stage /\ actor'.leg = h.leg /\ inbox' = h.inbox
        /\ ledger' = ledger /\ row' = h.row
    BY <2>1, YieldState, Zenon
  <2>3. CASE h = Handler
    <3>1. UNCHANGED <<row, inbox, ledger>> /\ actor'.stage = actor.stage /\ actor'.leg = actor.leg
      BY <2>2, <2>3 DEF Handler
    <3> QED
      BY <1>1, <1>2, <3>1
  <2>4. CASE ~completed /\ h.stage # "finalized"
    <3>1. DoomH(h) /\ OpenH(h)
      BY <2>1, DoomHandled DEF CopyInv, DoomInv
    <3>2. \A l \in Legs : NoneLeft(h, l) => NoneLeft(Handler, l)'
      BY <2>2 DEF NoneLeft, Handler
    <3>3. Handler'.stage = h.stage /\ Handler'.leg = h.leg /\ Handler'.row = h.row
      BY <2>2 DEF Handler
    <3>4. anyFailed(Handler)' = anyFailed(h) /\ allDone(Handler)' = allDone(h)
      BY <3>3 DEF anyFailed, allDone, inStage
    <3>5. DoomH(Handler)'
      BY <2>2, <3>1, <3>2, <3>3, <3>4, Zenon DEF DoomH, Key
    <3>6. OpenH(Handler)'
      BY <3>1, <3>3, <3>4 DEF OpenH
    <3>7. row'.status \notin Terminal
      BY <2>1, <2>2, <2>4, HandledRow DEF completed, Terminal
    <3> QED
      BY <2>2, <2>4, <3>5, <3>6, <3>7 DEF DoomInv, completed, Terminal
  <2> QED
    BY <2>1, <2>3, <2>4, HandledOpen DEF DoomInv
<1>4. CASE Halts
  BY <1>1, <1>2, <1>4, StoppedType DEF Halts
<1>5. ASSUME NEW m \in mail, finalize(m)
      PROVE  DoomInv'
  <2>1. UNCHANGED <<row, ledger, inbox>>
    BY <1>5 DEF finalize
  <2>2. CASE actor' = actor
    BY <1>1, <1>2, <2>1, <2>2
  <2>3. CASE /\ actor.stage \in Working /\ allDone(Handler)
             /\ actor' = [actor EXCEPT !.stage = "finalized", !.armed = "none", !.try = 1]
    <3>1. actor'.stage = "finalized" /\ actor'.leg = actor.leg
      BY <1>0, <2>3 DEF Activations
    <3>2. /\ DoomH(Handler)' /\ OpenH(Handler)'
          /\ AllApplied => AllApplied'
          /\ Undone => Undone'
      BY <1>1, <2>1, <3>1, DoomKept
    <3>3. /\ outcome = "success" => AllApplied
          /\ outcome = "failed" /\ ~unreconciled => Undone
      BY <2>3, DoomFinal
    <3>4. outcome' = outcome /\ unreconciled' = unreconciled
      BY <3>1 DEF outcome, unreconciled
    <3> QED
      BY <2>1, <3>1, <3>2, <3>3, <3>4 DEF DoomInv, completed, Working
  <2> QED
    BY <1>5, <2>2, <2>3 DEF finalize
<1>6. CASE TimerFires
  <2>1. /\ actor'.stage = actor.stage /\ actor'.leg = actor.leg
        /\ UNCHANGED <<row, ledger, inbox>>
    BY <1>0, <1>6 DEF TimerFires, Activations
  <2> QED
    BY <1>1, <1>2, <2>1
<1>7. CASE Finals
  <2>1. /\ UNCHANGED <<ledger, inbox>> /\ actor.try > 0
        /\ WriteOutcome \/ UNCHANGED row
        /\ Stopped \/ actor' = [actor EXCEPT !.try = @ + 1]
    BY <1>7, FinalType DEF Finals
  <2>2. actor.stage = "finalized"
    BY <2>1 DEF CopyInv
  <2>3. \/ actor'.stage = "finalized" /\ actor'.leg = actor.leg
        \/ actor'.stage = "idle"
    BY <1>0, <2>1, <2>2, StoppedType, Zenon DEF Activations
  <2>4. /\ row'.plan = row.plan
        /\ row' = row \/ (row'.status = outcome /\ row'.flagged = unreconciled)
    BY <2>1, WriteOutcomeType
  <2>5. /\ DoomH(Handler)' /\ OpenH(Handler)'
        /\ AllApplied => AllApplied'
        /\ Undone => Undone'
    BY <1>1, <2>1, <2>3, <2>4, DoomKept
  <2>6. actor'.stage = "finalized" => outcome' = outcome /\ unreconciled' = unreconciled
    BY <2>3 DEF outcome, unreconciled
  <2>7. /\ outcome = "success" => AllApplied
        /\ outcome = "failed" /\ ~unreconciled => Undone
    BY <2>2 DEF DoomInv
  <2>8. /\ row'.status = "success" => AllApplied
        /\ row'.status = "failed" /\ ~row'.flagged => Undone
    BY <2>4, <2>7 DEF DoomInv
  <2> QED
    BY <2>3, <2>5, <2>6, <2>7, <2>8 DEF DoomInv, Working
<1>8. ASSUME NEW l \in Legs, Answers(l) \/ NothingSent(l)
      PROVE  DoomInv'
  <2>1. UNCHANGED <<row, actor>> /\ ledger \subseteq ledger'
    BY <1>8 DEF Answers, AnswerSent, NothingSent
  <2>2. \A k \in Legs : NoneLeft(Handler, k) => NoneLeft(Handler, k)'
    BY <1>8, NoneLeftKept
  <2> QED
    BY <1>2, <2>1, <2>2
<1>9. ASSUME NEW l \in Legs, NEW i \in DOMAIN inbox[l], WalletHandles(l, i)
      PROVE  DoomInv'
  BY <1>0, <1>8, <1>9, QueueCases
<1>10. ASSUME NEW l \in Legs, Network(l)
       PROVE  DoomInv'
  BY <1>0, <1>8, <1>10, QueueCases
<1>11. CASE Around
  BY <1>1, <1>2, <1>11 DEF Around
<1>12. CASE GoStale
  <2>1. /\ row'.plan = row.plan /\ row'.status = row.status /\ row'.flagged = row.flagged
        /\ UNCHANGED <<actor, ledger, inbox>>
    BY <1>0, <1>12 DEF GoStale, Rows
  <2> QED
    BY <1>1, <1>2, <2>1
<1>13. actor' = Placed => actor' = actor \/ actor'.stage = "idle"
  BY PlacedType, Zenon
<1>14. ASSUME NEW r \in Managers, recoverSend(r)
       PROVE  DoomInv'
  BY <1>1, <1>2, <1>13, <1>14 DEF recoverSend
<1>15. \A r \in Managers : ~markFailed(r)
  BY DEF markFailed, Patient
<1>16. CASE dispatch \/ dispatchCut
  <2>1. /\ row'.plan = row.plan /\ row'.status \notin Terminal
        /\ UNCHANGED <<ledger, inbox>> /\ actor' = Placed
    BY <1>0, <1>16, Zenon DEF dispatch, dispatchCut, Pending, Rows, Terminal
  <2> QED
    BY <1>1, <1>2, <1>13, <2>1
<1> QED
  BY <1>3, <1>4, <1>5, <1>6, <1>7, <1>9, <1>10, <1>11, <1>12, <1>14, <1>15, <1>16, StepCases, Zenon

LEMMA DoomInit == Init => DoomInv
BY DEF Init, DoomInv, DoomH, OpenH, Handler, Activation, NoReversals, completed, Terminal

-----------------------------------------------------------------------------
(* The transfer is atomic                                                  *)

\* What a wallet's processed keys say of leg l, when it has one reversal key
\* at most: the forward operation less the reversal.
LEMMA NetValue ==
    ASSUME NEW L \in SUBSET (Legs \X Nat), NEW l \in Legs, NEW p \in Nat,
           \A k \in L : k[1] = l /\ k[2] > 0 => p = k[2]
    PROVE  Cardinality({k \in L : k[1] = l /\ k[2] = 0})
             - Cardinality({k \in L : k[1] = l /\ k[2] > 0})
           = (IF Key(l, 0) \in L THEN 1 ELSE 0)
               - (IF p > 0 /\ Key(l, p) \in L THEN 1 ELSE 0)
<1> DEFINE F == {k \in L : k[1] = l /\ k[2] = 0}
           R == {k \in L : k[1] = l /\ k[2] > 0}
<1>1. \A k \in L : k = <<k[1], k[2]>> /\ k[2] \in Nat
  OBVIOUS
<1>2. F = IF Key(l, 0) \in L THEN {Key(l, 0)} ELSE {}
  BY <1>1 DEF Key
<1>3. R = IF p > 0 /\ Key(l, p) \in L THEN {Key(l, p)} ELSE {}
  BY <1>1 DEF Key
<1>4. \A x : Cardinality({x}) = 1
  BY SingleCount
<1>5. Cardinality({}) = 0
  BY EmptyCount
<1>6. Cardinality(F) = IF Key(l, 0) \in L THEN 1 ELSE 0
  BY <1>2, <1>4, <1>5, Zenon
<1>7. Cardinality(R) = IF p > 0 /\ Key(l, p) \in L THEN 1 ELSE 0
  BY <1>3, <1>4, <1>5, Zenon
<1> QED
  BY <1>6, <1>7

\* The net effect of leg l, with the stored reversal key.
NetIs(l) ==
    Net(l) = (IF Key(l, 0) \in ledger THEN 1 ELSE 0)
               - (IF row.plan[l] > 0 /\ Key(l, row.plan[l]) \in ledger THEN 1 ELSE 0)

LEMMA NetPlanned ==
    ASSUME TypeInv, PlanInv, NEW l \in Legs
    PROVE  NetIs(l)
<1>1. ledger \in SUBSET (Legs \X Nat) /\ row.plan[l] \in Nat
  BY DEF TypeInv, Rows
<1>2. \A k \in ledger : k[1] = l /\ k[2] > 0 => row.plan[l] = k[2]
  BY ZenonT(30) DEF PlanInv, PlanH, Handler
<1> QED
  BY <1>1, <1>2, NetValue DEF NetIs, Net

LEMMA NetPlannedNext ==
    ASSUME TypeInv', PlanInv', NEW l \in Legs
    PROVE  NetIs(l)'
<1>1. ledger' \in SUBSET (Legs \X Nat) /\ row'.plan[l] \in Nat
  BY DEF TypeInv, Rows
<1>2. \A k \in ledger' : k[1] = l /\ k[2] > 0 => row'.plan[l] = k[2]
  BY ZenonT(30) DEF PlanInv, PlanH, Handler
<1> QED
  BY <1>1, <1>2, NetValue DEF NetIs, Net

LEMMA NetSettled ==
    ASSUME TypeInv, PlanInv
    PROVE  /\ AllApplied => \A l \in Legs : Net(l) = 1
           /\ Undone => \A l \in Legs : Net(l) = 0
<1>1. \A l \in Legs : NetIs(l)
  BY NetPlanned
<1>2. \A l \in Legs : row.plan[l] \in Nat /\ (row.plan[l] # 0 => Key(l, 0) \in ledger)
  BY Zenon DEF TypeInv, Rows, PlanInv, PlanH, Handler
<1>3. ASSUME AllApplied, NEW l \in Legs PROVE Net(l) = 1
  <2>1. Key(l, 0) \in ledger /\ row.plan[l] = 0
    BY <1>3 DEF AllApplied
  <2> QED
    BY <1>1, <2>1 DEF NetIs
<1>4. ASSUME Undone, NEW l \in Legs PROVE Net(l) = 0
  <2>1. \/ row.plan[l] = 0 /\ Key(l, 0) \notin ledger
        \/ row.plan[l] # 0 /\ Key(l, row.plan[l]) \in ledger
    BY <1>4 DEF Undone, NoneLeft
  <2> QED
    BY <1>1, <1>2, <2>1 DEF NetIs
<1> QED
  BY <1>3, <1>4

LEMMA NetSettledNext ==
    ASSUME TypeInv', PlanInv'
    PROVE  /\ AllApplied' => \A l \in Legs : Net(l)' = 1
           /\ Undone' => \A l \in Legs : Net(l)' = 0
<1>1. \A l \in Legs : NetIs(l)'
  BY NetPlannedNext
<1>2. \A l \in Legs : row'.plan[l] \in Nat /\ (row'.plan[l] # 0 => Key(l, 0) \in ledger')
  BY Zenon DEF TypeInv, Rows, PlanInv, PlanH, Handler
<1>3. ASSUME AllApplied', NEW l \in Legs PROVE Net(l)' = 1
  <2>1. Key(l, 0) \in ledger' /\ row'.plan[l] = 0
    BY <1>3 DEF AllApplied
  <2> QED
    BY <1>1, <2>1 DEF NetIs
<1>4. ASSUME Undone', NEW l \in Legs PROVE Net(l)' = 0
  <2>1. \/ row'.plan[l] = 0 /\ Key(l, 0) \notin ledger'
        \/ row'.plan[l] # 0 /\ Key(l, row'.plan[l]) \in ledger'
    BY <1>4 DEF Undone, NoneLeft
  <2> QED
    BY <1>1, <1>2, <2>1 DEF NetIs
<1> QED
  BY <1>3, <1>4

\* The transaction as AtomicTransfer sees it: its outcome and its legs.
Told ==
    IF row.status = "success" THEN "success"
    ELSE IF row.status # "failed" THEN "open"
    ELSE IF row.flagged THEN "reconcile" ELSE "failed"
Nets == [l \in Legs |-> Net(l)]

\* Only a wallet changes what is applied.
LEMMA LedgerStep ==
    ASSUME Orderly, TypeInv, Patient, CopyInv, [Next]_rvars
    PROVE  ledger' = ledger \/ \E l \in Legs : Answers(l)
<1>0. Budget
  BY DEF CopyInv
<1>1. ASSUME NEW m \in mail, NEW h \in Handlers, Reacts(m, h)
      PROVE  ledger' = ledger
  BY <1>1, YieldState DEF Reacts
<1>2. ASSUME NEW m \in mail, finalize(m)
      PROVE  ledger' = ledger
  BY <1>2 DEF finalize
<1>3. Halts \/ TimerFires \/ Around \/ GoStale \/ dispatch \/ dispatchCut => ledger' = ledger
  BY Zenon DEF Halts, TimerFires, Around, GoStale, dispatch, dispatchCut
<1>4. Finals => ledger' = ledger
  BY FinalType DEF Finals
<1>5. ASSUME NEW l \in Legs, NEW i \in DOMAIN inbox[l], WalletHandles(l, i)
      PROVE  ledger' = ledger \/ Answers(l)
  BY <1>0, <1>5, QueueCases
<1>6. ASSUME NEW l \in Legs, Network(l)
      PROVE  ledger' = ledger \/ Answers(l)
  BY <1>0, <1>6, QueueCases DEF NothingSent
<1>7. \A r \in Managers : recoverSend(r) \/ markFailed(r) => ledger' = ledger
  BY Zenon DEF recoverSend, markFailed
<1> QED
  BY <1>1, <1>2, <1>3, <1>4, <1>5, <1>6, <1>7, StepCases, Zenon

\* What a wallet newly applies is a leg not yet applied, or the reversal of
\* one that is; neither after a success or an unflagged failure.
LEMMA MoveStep ==
    ASSUME TypeInv, PlanInv, DoomInv, TypeInv', PlanInv',
           NEW l \in Legs, Answers(l), ledger' # ledger
    PROVE  /\ row' = row
           /\ ~(row.status = "success") /\ ~(row.status = "failed" /\ ~row.flagged)
           /\ Net(l)' = 1 - Net(l)
           /\ \A k \in Legs \ {l} : Net(k)' = Net(k)
<1> DEFINE e == Head(inbox[l])
<1>1. /\ inbox[l] # <<>> /\ row' = row
      /\ ledger' = ledger \union {Key(l, e.key)} /\ Key(l, e.key) \notin ledger
  BY Zenon DEF Answers, AnswerSent
<1>2. inbox[l] \in Seq(Operations)
  BY DEF TypeInv
<1>3. e \in Entries(inbox[l]) /\ e \in Operations
  BY <1>1, <1>2, EntriesType
<1>4. e.key \in Nat
  BY <1>3 DEF Operations
<1> HIDE DEF e
<1>5. /\ row.plan[l] \in Nat
      /\ row.plan[l] # 0 => Key(l, 0) \in ledger
      /\ e.key > 0 => row.plan[l] = e.key
  <2>1. row.plan[l] \in Nat
    BY DEF TypeInv, Rows
  <2>2. PlanH(Handler) /\ Handler.row = row /\ Handler.inbox = inbox
    BY Zenon DEF PlanInv, Handler
  <2>3. \A x \in Entries(inbox[l]) : x.key > 0 => row.plan[l] = x.key
    BY <2>2 DEF PlanH
  <2>4. row.plan[l] # 0 => Key(l, 0) \in ledger
    BY <2>2 DEF PlanH
  <2> QED
    BY <1>3, <2>1, <2>3, <2>4
<1>6. \A k \in Legs : NetIs(k) /\ NetIs(k)'
  BY NetPlanned, NetPlannedNext
<1>7. ~AllApplied
  BY <1>1, <1>4, <1>5 DEF AllApplied
<1>8. ~Undone
  <2>1. NoneLeft(Handler, l) => e.key # 0
    BY <1>3 DEF NoneLeft, Handler
  <2>2. SUFFICES ASSUME Undone PROVE FALSE
    OBVIOUS
  <2>3. \/ row.plan[l] = 0 /\ NoneLeft(Handler, l)
        \/ row.plan[l] # 0 /\ Key(l, row.plan[l]) \in ledger
    BY <2>2 DEF Undone
  <2>4. e.key = 0 => Key(l, 0) \notin ledger
    BY <1>1
  <2>5. e.key # 0 => row.plan[l] = e.key
    BY <1>4, <1>5
  <2>6. CASE e.key = 0
    BY <1>5, <2>1, <2>3, <2>4, <2>6
  <2>7. CASE e.key # 0
    BY <1>1, <2>3, <2>5, <2>7
  <2> QED
    BY <2>6, <2>7
<1>9. Net(l)' = 1 - Net(l)
  <2>0. NetIs(l) /\ NetIs(l)'
    BY <1>6
  <2>1. CASE e.key = 0
    <3>1. /\ row.plan[l] = 0 /\ row'.plan[l] = 0
          /\ Key(l, 0) \notin ledger /\ Key(l, 0) \in ledger'
      BY <1>1, <1>5, <2>1
    <3> QED
      BY <2>0, <3>1 DEF NetIs
  <2>2. CASE e.key > 0
    <3>1. /\ row.plan[l] > 0 /\ row'.plan[l] = row.plan[l]
          /\ Key(l, row.plan[l]) \notin ledger /\ Key(l, row.plan[l]) \in ledger'
      BY <1>1, <1>5, <2>2
    <3>2. Key(l, 0) \in ledger /\ Key(l, 0) \in ledger'
      BY <1>1, <1>5, <3>1
    <3> QED
      BY <2>0, <3>1, <3>2 DEF NetIs
  <2> QED
    BY <1>4, <2>1, <2>2
<1>10. \A k \in Legs \ {l} : Net(k)' = Net(k)
  BY <1>1, <1>6, Zenon DEF NetIs, Key
<1> QED
  BY <1>1, <1>7, <1>8, <1>9, <1>10 DEF DoomInv

\* Every step is a step of an atomic transfer, or changes nothing of it.
LEMMA AtomicStep ==
    ASSUME Orderly, TypeInv, PlanInv, Patient, CopyInv, DoomInv, [Next]_rvars,
           TypeInv', PlanInv', DoomInv'
    PROVE  [Atomic!Next]_<<Told, Nets>>
<1>1. CASE ledger' = ledger
  <2>1. Nets' = Nets
    BY <1>1 DEF Nets, Net
  <2>2. completed => row'.status = row.status /\ row'.flagged = row.flagged
    BY OutcomeStep
  <2>3. CASE completed \/ ~completed'
    <3>1. Told' = Told
      BY <2>2, <2>3 DEF Told, completed, Terminal
    <3> QED
      BY <2>1, <3>1
  <2>4. CASE ~completed /\ completed'
    <3>1. Told = "open" /\ Told' \in {"success", "failed", "reconcile"}
      BY <2>4 DEF Told, completed, Terminal
    <3>2. CASE Told' = "success"
      <4>1. \A l \in Legs : Nets'[l] = 1
        BY <3>2, NetSettledNext DEF DoomInv, Told, Nets
      <4> QED
        BY <2>1, <3>1, <3>2, <4>1 DEF Atomic!Next, Atomic!Succeed, Told, Nets
    <3>3. CASE Told' = "failed"
      <4>1. \A l \in Legs : Nets'[l] = 0
        BY <3>3, NetSettledNext DEF DoomInv, Told, Nets
      <4> QED
        BY <2>1, <3>1, <3>3, <4>1 DEF Atomic!Next, Atomic!Fail, Told, Nets
    <3>4. CASE Told' = "reconcile"
      BY <2>1, <3>1, <3>4 DEF Atomic!Next, Atomic!Flag, Told, Nets
    <3> QED
      BY <3>1, <3>2, <3>3, <3>4
  <2> QED
    BY <2>3, <2>4
<1>2. ASSUME ledger' # ledger, NEW l \in Legs, Answers(l)
      PROVE  Atomic!Move(l)
  <2>1. /\ row' = row
        /\ ~(row.status = "success") /\ ~(row.status = "failed" /\ ~row.flagged)
        /\ Net(l)' = 1 - Net(l)
        /\ \A k \in Legs \ {l} : Net(k)' = Net(k)
    BY <1>2, MoveStep
  <2>2. Told \in {"open", "reconcile"} /\ Told' = Told
    BY <2>1 DEF Told
  <2>3. Nets' = [Nets EXCEPT ![l] = 1 - @]
    BY <2>1, Zenon DEF Nets
  <2> QED
    BY <2>2, <2>3 DEF Atomic!Move, Told, Nets
<1> QED
  BY <1>1, <1>2, LedgerStep DEF Atomic!Next

LEMMA AtomicInit == Init => Atomic!Init
<1> SUFFICES ASSUME Init PROVE Atomic!Init
  OBVIOUS
<1>1. Told = "open" /\ ledger = {}
  BY DEF Init, Told
<1>2. ASSUME NEW l \in Legs PROVE Net(l) = 0
  <2>1. {k \in ledger : k[1] = l /\ k[2] = 0} = {} /\ {k \in ledger : k[1] = l /\ k[2] > 0} = {}
    BY <1>1
  <2> QED
    BY <2>1, EmptyCount DEF Net
<1>3. Nets = [l \in Legs |-> 0]
  BY <1>2 DEF Nets
<1> QED
  BY <1>1, <1>3 DEF Atomic!Init, Told, Nets

\* When no operation is lost, a working orchestrator has exactly one copy of
\* every leg it waits for under way and none of any other (transaction.go:478),
\* for any number of legs, crashes, re-drives and wallets without a verdict.
THEOREM OneCopyAlways ==
    ASSUME Orderly, MaxFaults["lost"] = 0
    PROVE  Spec => []OneCopyUnderWay
<1>0. PlansAreSaved /\ MaxAttempts = 0
  BY DEF Orderly
<1>1. Init => TypeInv /\ PlanInv /\ Patient /\ CopyInv
  BY <1>0, TypeInit, PlanInit, PatientInit, CopyInit
<1>2. TypeInv /\ PlanInv /\ Patient /\ CopyInv /\ [Next]_rvars
        => TypeInv' /\ PlanInv' /\ Patient' /\ CopyInv'
  BY <1>0, TypeStep, PlanStep, PatientStep, CopyStep
<1>3. TypeInv /\ CopyInv => OneCopyUnderWay
  BY CopyImplies
<1> QED
  BY <1>1, <1>2, <1>3, PTL DEF Spec

\* All that the reachable states of an orderly system have in common.
AtomicInv == TypeInv /\ CreditInv /\ PlanInv /\ Patient /\ CopyInv /\ DoomInv

LEMMA AtomicInvInit == ASSUME Orderly PROVE Init => AtomicInv
<1>1. PlansAreSaved /\ MaxAttempts = 0
  BY DEF Orderly
<1> QED
  BY <1>1, TypeInit, CreditInit, PlanInit, PatientInit, CopyInit, DoomInit DEF AtomicInv

LEMMA AtomicInvStep == ASSUME Orderly PROVE AtomicInv /\ [Next]_rvars => AtomicInv'
<1>1. PlansAreSaved /\ MaxAttempts = 0
  BY DEF Orderly
<1> QED
  BY <1>1, TypeStep, CreditStep, PlanStep, PatientStep, CopyStep, DoomStep DEF AtomicInv

\* Where messages are neither duplicated nor reordered, recovery does not give
\* up and the plan is saved before it is acted on (Orderly), a transaction
\* recorded as a success has every leg applied and none reversed, through every
\* crash, timeout, lost message and failed statement.
THEOREM SuccessIsApplied ==
    ASSUME Orderly
    PROVE  Spec => []SuccessMeansApplied
<1>1. AtomicInv => SuccessMeansApplied
  BY NetSettled DEF AtomicInv, DoomInv, SuccessMeansApplied
<1> QED
  BY <1>1, AtomicInvInit, AtomicInvStep, PTL DEF Spec

\* Under the same conditions a transaction recorded as failed, and not flagged
\* for reconciliation, has no effect: what was applied is reversed, once.
THEOREM FailureIsUndone ==
    ASSUME Orderly
    PROVE  Spec => []FailedMeansUndone
<1>1. AtomicInv => FailedMeansUndone
  BY NetSettled DEF AtomicInv, DoomInv, FailedMeansUndone
<1> QED
  BY <1>1, AtomicInvInit, AtomicInvStep, PTL DEF Spec

\* Under the same conditions orchestrator, recovery, wallets and network
\* together implement an atomic transfer: every behaviour is one of
\* AtomicTransfer, so that after a success or an unflagged failure no leg ever
\* moves again (README.md, "multi-leg, atomic transfers").
THEOREM TransfersAreAtomic ==
    ASSUME Orderly
    PROVE  Spec => AtomicSpec
<1>1. AtomicInv /\ AtomicInv' /\ [Next]_rvars => [Atomic!Next]_<<Told, Nets>>
  BY AtomicStep DEF AtomicInv
<1> QED
  BY <1>1, AtomicInit, AtomicInvInit, AtomicInvStep, PTL
     DEF Spec, AtomicSpec, Atomic!Spec, Told, Nets
=============================================================================
