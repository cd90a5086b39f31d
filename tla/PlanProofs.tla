----------------------------- MODULE PlanProofs -----------------------------
(***************************************************************************)
(* The reversal plan, for any number of legs, managers and activations: a  *)
(* reversal goes out under a key that was stored first.                    *)
(***************************************************************************)
EXTENDS TransactionProofs

\* A leaf that names no prover is for the SMT solver, asked again when it runs
\* out of time.
USE SMTT(30), Z3T(30), Z3T(60)

LEMMA PlanAdvance ==
    ASSUME TypeInv, NEW h \in Handlers, NEW t \in TroubleTypes, t.saved, PlanH(h)
    PROVE  PlanH(advance(h, t))
<1>0. \A l \in Legs : /\ h.inbox[l] \in Seq(Operations) /\ h.leg[l].rkey \in Nat
                      /\ h.fresh \in Nat \ {0}
  BY DEF Handlers, LegStates
<1>1. CASE Alike(advance(h, t), h)
  BY <1>1 DEF Alike, PlanH
<1>2. ASSUME h.stage \in {"processing", "crediting"}, ReversalsFired(h, t, advance(h, t))
      PROVE  PlanH(advance(h, t))
  <2> DEFINE g == advance(h, t)
  <2>0. \A l \in Legs : h.leg[l].rkey = 0 /\ h.row.plan[l] = 0
    BY <1>2 DEF PlanH
  <2>1. /\ g.stage = "reversing" /\ g.row.status = h.row.status
        /\ \A l \in Legs :
             /\ g.row.plan[l] = ReversalKey(h, l) /\ g.leg[l].rkey = ReversalKey(h, l)
             /\ g.leg[l].applied = h.leg[l].applied
             /\ \/ g.inbox[l] = h.inbox[l]
                \/ g.inbox[l] = Append(h.inbox[l], [key |-> ReversalKey(h, l),
                                                    from |-> actor.inc])
    BY <1>2, Zenon DEF ReversalsFired
  <2> HIDE DEF g
  <2>2. \A l \in Legs : /\ ReversalKey(h, l) \in Nat
                        /\ ReversalKey(h, l) # 0 <=> h.leg[l].applied
    BY <1>0, <2>0 DEF ReversalKey
  <2>3. ASSUME NEW l \in Legs
        PROVE  /\ g.row.plan[l] # 0 => Key(l, 0) \in ledger
               /\ \A j \in ledger : j[1] = l /\ j[2] > 0 => g.row.plan[l] = j[2]
               /\ \A e \in Entries(g.inbox[l]) : e.key > 0 => g.row.plan[l] = e.key
    <3>1. \A j \in ledger : ~(j[1] = l /\ j[2] > 0)
      BY <2>0 DEF PlanH
    <3>2. \A e \in Entries(h.inbox[l]) : ~(e.key > 0)
      BY <2>0 DEF PlanH
    <3>3. \A e \in Entries(g.inbox[l]) : e.key > 0 => ReversalKey(h, l) = e.key
      <4> DEFINE k == ReversalKey(h, l)
      <4>1. /\ k \in Nat
            /\ \/ g.inbox[l] = h.inbox[l]
               \/ g.inbox[l] = Append(h.inbox[l], [key |-> k, from |-> actor.inc])
        BY <2>1, <2>2
      <4> HIDE DEF k
      <4>2. \A e \in Entries(g.inbox[l]) : e \in Entries(h.inbox[l]) \/ e.key = k
        BY <1>0, <4>1, SentKeys, Zenon
      <4> QED
        BY <3>2, <4>2 DEF k
    <3>4. h.leg[l].applied => Key(l, 0) \in ledger
      BY <1>2 DEF PlanH
    <3> QED
      BY <2>1, <2>2, <3>1, <3>3, <3>4, Zenon
  <2>4. /\ h.row.status \notin {"none", "pending"}
        /\ \A l \in Legs : h.leg[l].applied => Key(l, 0) \in ledger
    BY <1>2 DEF PlanH
  <2>5. PlanH(g)
    BY <2>1, <2>2, <2>3, <2>4, ZenonT(30) DEF PlanH
  <2> QED
    BY <2>5 DEF g
<1>3. ASSUME h.stage = "processing", CreditsFired(h, t, advance(h, t))
      PROVE  PlanH(advance(h, t))
  <2> DEFINE g == advance(h, t)
  <2>1. /\ g.stage = "crediting" /\ g.row = h.row
        /\ \A l \in Legs :
             /\ g.leg[l].rkey = h.leg[l].rkey /\ g.leg[l].applied = h.leg[l].applied
             /\ g.inbox[l] = h.inbox[l] \/
                  g.inbox[l] = Append(h.inbox[l], [key |-> 0, from |-> actor.inc])
    BY <1>3, Zenon DEF CreditsFired
  <2> HIDE DEF g
  <2>2. \A l \in Legs : \A e \in Entries(g.inbox[l]) : e.key > 0 => e \in Entries(h.inbox[l])
    <3>1. \A l \in Legs : \A e \in Entries(g.inbox[l]) : e \in Entries(h.inbox[l]) \/ e.key = 0
      <4> SUFFICES ASSUME NEW l \in Legs
                   PROVE  \A e \in Entries(g.inbox[l]) : e \in Entries(h.inbox[l]) \/ e.key = 0
        BY Zenon
      <4>1. /\ h.inbox[l] \in Seq(Operations) /\ 0 \in Nat
            /\ \/ g.inbox[l] = h.inbox[l]
               \/ g.inbox[l] = Append(h.inbox[l], [key |-> 0, from |-> actor.inc])
        BY <1>0, <2>1
      <4> QED
        BY <4>1, SentKeys, ZenonT(30)
    <3> QED
      BY <3>1
  <2>3. PlanH(g)
    BY <1>3, <2>1, <2>2 DEF PlanH
  <2> QED
    BY <2>3 DEF g
<1> QED
  BY <1>1, <1>2, <1>3, AdvanceCases

LEMMA PlanRecord ==
    ASSUME TypeInv, PlanInv, NEW m \in ResultMsgs \intersect mail, NEW t \in TroubleTypes,
           t.saved, actor.stage \in Working
    PROVE  PlanH(record(Handler, m, t))
<1> DEFINE h == Handler
           l == m.leg
<1>0. /\ h \in Handlers /\ l \in Legs /\ m \in ResultMsgs /\ PlanH(h)
      /\ h.leg[l] \in LegStates /\ h.stage \in Working
      /\ \A k \in Legs : h.inbox[k] \in Seq(Operations)
      /\ h.fresh \in Nat \ {0}
  BY HandlerType DEF ResultMsgs, PlanInv, Handlers, Handler
<1>1. m.code = "ok" => Key(l, m.key) \in ledger
  BY DEF PlanInv, OkTrue, ResultMsgs
<1> HIDE DEF h
<1>2. ASSUME NEW f \in LegStates, Matches(h, m), Settles(h, h.leg[l], m.code, f)
      PROVE  PlanH(Left(h, l, f))
  <2> DEFINE g == Left(h, l, f)
  <2>1. /\ g.stage = h.stage /\ g.inbox = h.inbox /\ g.row = h.row
        /\ g.leg[l] = f /\ \A k \in Legs : k # l => g.leg[k] = h.leg[k]
    BY <1>0, SettleType
  <2> HIDE DEF g
  <2>2. f.rkey = h.leg[l].rkey /\ (h.leg[l].applied => f.applied)
    BY <1>0, <1>2, Zenon DEF Settles, LegStates
  <2>3. f.applied => Key(l, 0) \in ledger
    <3>1. h.leg[l].applied => Key(l, 0) \in ledger
      BY <1>0 DEF PlanH, Working
    <3>2. m.code = "ok" /\ h.stage # "reversing" => Key(l, 0) \in ledger
      BY <1>1, <1>2 DEF Matches
    <3> QED
      BY <1>0, <1>2, <3>1, <3>2, Zenon DEF Settles, LegStates
  <2>4. PlanH(g)
    BY <1>0, <2>1, <2>2, <2>3 DEF PlanH
  <2> QED
    BY <2>4 DEF g
<1>3. ASSUME h.stage = "reversing", AppliedAfterAll(h, m)
      PROVE  PlanH(lateReversal(h, l, t))
  <2> DEFINE g == lateReversal(h, l, t)
  <2>1. ReversedLate(h, l, t, g)
    BY <1>0, <1>3, LateType
  <2> HIDE DEF g
  <2>2. h.leg[l].rkey = 0 /\ h.row.plan[l] = 0 /\ h.row.status \notin {"none", "pending"}
    BY <1>0, <1>3 DEF PlanH, AppliedAfterAll
  <2>3. Key(l, 0) \in ledger
    BY <1>1, <1>3, <2>2 DEF AppliedAfterAll, Matches
  <2>4. /\ \A j \in ledger : ~(j[1] = l /\ j[2] > 0)
        /\ \A e \in Entries(h.inbox[l]) : ~(e.key > 0)
    BY <1>0, <2>2 DEF PlanH
  <2>5. /\ g.stage = "reversing" /\ g.row.status = h.row.status
        /\ g.row.plan[l] = h.fresh /\ g.leg[l].rkey = h.fresh /\ g.leg[l].applied
        /\ g.inbox[l] = h.inbox[l] \/
             g.inbox[l] = Append(h.inbox[l], [key |-> h.fresh, from |-> actor.inc])
        /\ \A k \in Legs : k # l => /\ g.row.plan[k] = h.leg[k].rkey
                                    /\ g.leg[k] = h.leg[k] /\ g.inbox[k] = h.inbox[k]
    BY <1>0, <1>3, <2>1, Zenon DEF ReversedLate
  <2>6. \A k \in Legs : k # l => g.row.plan[k] = h.row.plan[k]
    BY <1>0, <1>3, <2>5, ZenonT(30) DEF PlanH
  <2>7. \A e \in Entries(g.inbox[l]) : e.key > 0 => e.key = h.fresh
    <3>1. \A e \in Entries(g.inbox[l]) : e \in Entries(h.inbox[l]) \/ e.key = h.fresh
      <4>1. h.inbox[l] \in Seq(Operations) /\ h.fresh \in Nat
        BY <1>0
      <4>2. \/ g.inbox[l] = h.inbox[l]
            \/ g.inbox[l] = Append(h.inbox[l], [key |-> h.fresh, from |-> actor.inc])
        BY <2>5, Zenon
      <4> HIDE DEF h, l
      <4> QED
        <5>1. CASE g.inbox[l] = h.inbox[l]
          BY <5>1, Zenon
        <5>2. ASSUME g.inbox[l] = Append(h.inbox[l], [key |-> h.fresh, from |-> actor.inc]),
                     NEW e \in Entries(g.inbox[l])
              PROVE  e \in Entries(h.inbox[l]) \/ e.key = h.fresh
          <6>1. e \in Entries(Append(h.inbox[l], [key |-> h.fresh, from |-> actor.inc]))
            BY <5>2, Zenon
          <6> QED
            BY <4>1, <6>1, SentEntry, Zenon
        <5> QED
          BY <4>2, <5>1, <5>2
    <3> QED
      BY <2>4, <3>1
  <2>8. \A k \in Legs :
          /\ g.leg[k].rkey = g.row.plan[k] /\ (g.leg[k].applied => Key(k, 0) \in ledger)
          /\ g.leg[k].rkey # 0 => g.leg[k].applied
          /\ g.row.plan[k] # 0 => Key(k, 0) \in ledger
          /\ \A j \in ledger : j[1] = k /\ j[2] > 0 => g.row.plan[k] = j[2]
          /\ \A e \in Entries(g.inbox[k]) : e.key > 0 => g.row.plan[k] = e.key
    <3>1. ASSUME NEW k \in Legs, k # l
          PROVE  /\ g.leg[k].rkey = g.row.plan[k]
                 /\ g.leg[k].applied => Key(k, 0) \in ledger
                 /\ g.leg[k].rkey # 0 => g.leg[k].applied
                 /\ g.row.plan[k] # 0 => Key(k, 0) \in ledger
                 /\ \A j \in ledger : j[1] = k /\ j[2] > 0 => g.row.plan[k] = j[2]
                 /\ \A e \in Entries(g.inbox[k]) : e.key > 0 => g.row.plan[k] = e.key
      <4>1. g.row.plan[k] = h.row.plan[k] /\ g.leg[k] = h.leg[k] /\ g.inbox[k] = h.inbox[k]
        BY <2>5, <2>6, <3>1, Zenon
      <4> QED
        BY <1>0, <1>3, <4>1 DEF PlanH
    <3>2. /\ g.leg[l].rkey = g.row.plan[l] /\ (g.leg[l].applied => Key(l, 0) \in ledger)
          /\ g.leg[l].rkey # 0 => g.leg[l].applied
          /\ g.row.plan[l] # 0 => Key(l, 0) \in ledger
          /\ \A j \in ledger : j[1] = l /\ j[2] > 0 => g.row.plan[l] = j[2]
          /\ \A e \in Entries(g.inbox[l]) : e.key > 0 => g.row.plan[l] = e.key
      BY <2>3, <2>4, <2>5, <2>7, Zenon
    <3> QED
      BY <3>1, <3>2
  <2>9. PlanH(g)
    BY <2>2, <2>5, <2>8, Zenon DEF PlanH
  <2> QED
    BY <2>9 DEF g
<1>4. PlanH(record(h, m, t))
  BY <1>0, <1>2, <1>3, RecordCases
<1> QED
  BY <1>4 DEF h

LEMMA PlanResent ==
    ASSUME TypeInv, PlanInv, NEW t, NEW h \in Handlers, actor.stage \in Working, Resent(t, h)
    PROVE  PlanH(h)
<1>0. /\ Handler.stage = actor.stage /\ Handler.leg = actor.leg /\ Handler.inbox = inbox
      /\ Handler.row = row /\ PlanH(Handler)
      /\ \A l \in Legs : inbox[l] \in Seq(Operations) /\ actor.leg[l].rkey \in Nat
  BY DEF Handler, TypeInv, Activations, LegStates, PlanInv
<1>1. ASSUME NEW l \in Legs, NEW e \in Entries(h.inbox[l]), e.key > 0
      PROVE  row.plan[l] = e.key
  <2> DEFINE k == IF actor.stage = "reversing" THEN actor.leg[l].rkey ELSE 0
  <2>1. \/ h.inbox[l] = inbox[l]
        \/ h.inbox[l] = Append(inbox[l], [key |-> k, from |-> actor.inc])
    BY Zenon DEF Resent
  <2>2. k \in Nat /\ k \in {0, row.plan[l]}
    BY <1>0, ZenonT(30) DEF PlanH, Working
  <2> HIDE DEF k
  <2>3. e \in Entries(inbox[l]) \/ e.key = k
    <3>1. inbox[l] \in Seq(Operations) /\ k \in Nat
      BY <1>0, <2>2, Zenon
    <3> QED
      <4>1. CASE h.inbox[l] = inbox[l]
        BY <1>1, <4>1, Zenon
      <4>2. CASE h.inbox[l] = Append(inbox[l], [key |-> k, from |-> actor.inc])
        BY <1>1, <3>1, <4>2, SentEntry, Zenon
      <4> QED
        BY <2>1, <4>1, <4>2
  <2>4. e \in Entries(inbox[l]) => row.plan[l] = e.key
    BY <1>0, <1>1 DEF PlanH
  <2> QED
    BY <1>1, <2>2, <2>3, <2>4
<1>2. /\ h.stage = actor.stage /\ h.row.status = row.status /\ h.row.plan = row.plan
      /\ \A l \in Legs : /\ h.leg[l].applied = actor.leg[l].applied
                         /\ h.leg[l].rkey = actor.leg[l].rkey
  BY Zenon DEF Resent
<1> QED
  BY <1>0, <1>1, <1>2 DEF PlanH

LEMMA PlanBegun ==
    ASSUME TypeInv, PlanInv, NEW m, NEW t \in TroubleTypes, NEW g \in Handlers, t.saved,
           Begun(m, t, g), Takes(m)
    PROVE  PlanH(g)
<1> DEFINE s == started(m)
<1>0. /\ m \in StartMsgs /\ m \in mail /\ m.kind = "start" /\ m.to = actor.inc /\ actor.up
      /\ actor.stage = "idle" /\ startable(m)
  BY DEF Begun, Takes, StartMsgs
<1>1. \A l \in Legs : m.plan[l] = row.plan[l] /\ row.plan[l] \in Nat
  BY <1>0 DEF PlanInv, TypeInv, Rows
<1>2. /\ s \in Handlers /\ s.inbox = inbox /\ s.fresh = fresh /\ s.row.status = "processing"
      /\ s.row.plan = row.plan
      /\ \A l \in Legs : s.leg[l].rkey = row.plan[l]
  BY <1>0, <1>1, StartedType, ZenonT(30)
<1>3. /\ \A l \in Legs : inbox[l] \in Seq(Operations)
      /\ fresh \in Nat \ {0}
      /\ \A l \in Legs :
           /\ row.plan[l] # 0 => Key(l, 0) \in ledger
           /\ \A k \in ledger : k[1] = l /\ k[2] > 0 => row.plan[l] = k[2]
           /\ \A e \in Entries(inbox[l]) : e.key > 0 => row.plan[l] = e.key
      /\ row.status = "pending" => \A l \in Legs : row.plan[l] = 0
  BY DEF TypeInv, PlanInv, PlanH, Handler
<1> HIDE DEF s
<1>4. CASE (\A l \in Legs : m.plan[l] = 0) /\ Forward(s, t, g)
  <2>1. /\ g.stage \in {"crediting", "processing"} /\ g.row = s.row
        /\ \A l \in Legs : /\ g.leg[l].applied = (Key(l, 0) \in ledger)
                           /\ g.leg[l].rkey = 0
                           /\ g.inbox[l] = inbox[l] \/
                                g.inbox[l] = Append(inbox[l], [key |-> 0, from |-> actor.inc])
    BY <1>2, <1>4, Zenon DEF Forward
  <2>2. \A l \in Legs : \A e \in Entries(g.inbox[l]) : e \in Entries(inbox[l]) \/ e.key = 0
    BY <1>3, <2>1, SentKeys
  <2>3. \A l \in Legs : \A e \in Entries(g.inbox[l]) : e.key > 0 => row.plan[l] = e.key
    BY <1>3, <2>2
  <2>4. \A l \in Legs : row.plan[l] = 0 /\ g.row.plan[l] = 0
    BY <1>1, <1>2, <1>4, <2>1
  <2>5. g.row.status = "processing" /\ g.row.plan = row.plan
    BY <1>2, <2>1
  <2>6. \A l \in Legs : /\ g.leg[l].rkey = g.row.plan[l] /\ g.leg[l].rkey = 0
                        /\ g.leg[l].applied => Key(l, 0) \in ledger
                        /\ g.row.plan[l] # 0 => Key(l, 0) \in ledger
                        /\ \A k \in ledger : k[1] = l /\ k[2] > 0 => g.row.plan[l] = k[2]
                        /\ \A e \in Entries(g.inbox[l]) : e.key > 0 => g.row.plan[l] = e.key
    <3> TAKE l \in Legs
    <3>1. /\ g.leg[l].rkey = 0 /\ row.plan[l] = 0 /\ g.row.plan[l] = 0
          /\ g.leg[l].applied = (Key(l, 0) \in ledger)
      BY <2>1, <2>4
    <3>2. /\ \A k \in ledger : k[1] = l /\ k[2] > 0 => row.plan[l] = k[2]
          /\ \A e \in Entries(g.inbox[l]) : e.key > 0 => row.plan[l] = e.key
      BY <1>3, <2>3
    <3> QED
      BY <3>1, <3>2, Zenon
  <2> QED
    BY <2>1, <2>5, <2>6 DEF PlanH
<1>5. CASE Backward(s, t, g)
  <2>1. /\ g.stage = "reversing" /\ g.row.status = "processing"
        /\ \A l \in Legs :
             /\ g.leg[l].rkey = ResumeKey(s, l) /\ g.leg[l].applied = (Key(l, 0) \in ledger)
             /\ \/ g.inbox[l] = inbox[l]
                \/ g.inbox[l] = Append(inbox[l], [key |-> ResumeKey(s, l), from |-> actor.inc])
    BY <1>2, <1>5, Zenon DEF Backward
  <2>2. \A l \in Legs : g.row.plan[l] = ResumeKey(s, l)
    <3>1. \A l \in Legs :
            g.row.plan[l] = IF t.saved /\ \E k \in Legs : ResumeKey(s, k) # s.leg[k].rkey
                            THEN ResumeKey(s, l) ELSE s.row.plan[l]
      BY <1>5, Zenon DEF Backward
    <3> QED
      BY <1>2, <3>1
  <2>3. ASSUME NEW l \in Legs
        PROVE  /\ ResumeKey(s, l) # 0 => Key(l, 0) \in ledger
               /\ \A j \in ledger : j[1] = l /\ j[2] > 0 => ResumeKey(s, l) = j[2]
               /\ \A e \in Entries(inbox[l]) : e.key > 0 => ResumeKey(s, l) = e.key
               /\ ResumeKey(s, l) \in Nat
    BY <1>1, <1>2, <1>3 DEF ResumeKey
  <2>4. ASSUME NEW l \in Legs, NEW e \in Entries(g.inbox[l]), e.key > 0
        PROVE  ResumeKey(s, l) = e.key
    <3> DEFINE n == ResumeKey(s, l)
    <3>1. /\ n \in Nat
          /\ \/ g.inbox[l] = inbox[l]
             \/ g.inbox[l] = Append(inbox[l], [key |-> n, from |-> actor.inc])
      BY <2>1, <2>3
    <3> HIDE DEF n
    <3>2. \A o \in Entries(g.inbox[l]) : o \in Entries(inbox[l]) \/ o.key = n
      BY <1>3, <3>1, SentKeys
    <3> QED
      BY <2>3, <2>4, <3>2 DEF n
  <2>5. \A l \in Legs : /\ g.leg[l].rkey = g.row.plan[l]
                        /\ g.leg[l].applied => Key(l, 0) \in ledger
                        /\ g.leg[l].rkey # 0 => g.leg[l].applied
                        /\ g.row.plan[l] # 0 => Key(l, 0) \in ledger
                        /\ \A k \in ledger : k[1] = l /\ k[2] > 0 => g.row.plan[l] = k[2]
                        /\ \A e \in Entries(g.inbox[l]) : e.key > 0 => g.row.plan[l] = e.key
    <3> TAKE l \in Legs
    <3>1. /\ g.leg[l].rkey = ResumeKey(s, l) /\ g.row.plan[l] = ResumeKey(s, l)
          /\ g.leg[l].applied = (Key(l, 0) \in ledger)
      BY <2>1, <2>2, Zenon
    <3>2. /\ ResumeKey(s, l) # 0 => Key(l, 0) \in ledger
          /\ \A j \in ledger : j[1] = l /\ j[2] > 0 => ResumeKey(s, l) = j[2]
      BY <2>3
    <3>3. \A e \in Entries(g.inbox[l]) : e.key > 0 => ResumeKey(s, l) = e.key
      BY <2>4
    <3> QED
      BY <3>1, <3>2, <3>3, Zenon
  <2> QED
    BY <2>1, <2>5, Zenon DEF PlanH
<1>6. CASE ~m.resume /\ First(m, t, g)
  <2>1. \A l \in Legs : row.plan[l] = 0
    BY <1>0, <1>3, <1>6 DEF startable
  <2>2. /\ g.stage = "processing" /\ g.row.status = "processing" /\ g.row.plan = row.plan
        /\ \A l \in Legs : /\ ~g.leg[l].applied /\ g.leg[l].rkey = m.plan[l]
                           /\ g.inbox[l] = inbox[l] \/
                                g.inbox[l] = Append(inbox[l], [key |-> 0, from |-> actor.inc])
    BY <1>6, Zenon DEF First
  <2>3. \A l \in Legs : \A e \in Entries(g.inbox[l]) : e \in Entries(inbox[l]) \/ e.key = 0
    BY <1>3, <2>2, SentKeys
  <2>4. \A l \in Legs : \A e \in Entries(g.inbox[l]) : e.key > 0 => row.plan[l] = e.key
    BY <1>3, <2>3
  <2> QED
    BY <1>1, <1>3, <2>1, <2>2, <2>4 DEF PlanH
<1> QED
  BY <1>4, <1>5, <1>6 DEF Begun, s

LEMMA PlanHandled ==
    ASSUME TypeInv, PlanInv, NEW m \in mail, NEW h \in Handlers, Takes(m), Handled(m, h)
    PROVE  /\ PlanH(h)
           /\ h.stage = "idle" => h.row.plan = row.plan /\ actor.stage = "idle"
           /\ row.plan # NoReversals /\ actor.stage = "idle" /\ h.stage \in Working
                => h.stage = "reversing"
<1>0. \A t \in Troubles : t \in TroubleTypes /\ t.saved
  <2>1. ~(faults.plan > 0)
    BY DEF PlanInv
  <2>2. \A t \in Troubles : t.saved
    BY <2>1, Zenon DEF Troubles
  <2> QED
    BY <2>2, TroubleType
<1>1. CASE h = Handler
  BY <1>1, Zenon DEF PlanInv, Handler, Working
<1>2. CASE actor.stage \in Working /\ \E t \in Troubles : Resent(t, h)
  <2>1. actor.stage # "idle" /\ h.stage = actor.stage
    <3>1. h.stage = actor.stage
      BY <1>2, Zenon DEF Resent
    <3> QED
      BY <1>2, <3>1 DEF Working
  <2> QED
    BY <1>2, <2>1, PlanResent
<1>3. CASE Unstarted(h) /\ startable(m) /\ actor.stage = "idle"
  <2>1. /\ h.stage = "idle" /\ h.inbox = inbox
        /\ h.row.status = "processing" /\ h.row.plan = row.plan
    BY <1>3, Zenon DEF Unstarted
  <2>2. \A l \in Legs :
          /\ row.plan[l] # 0 => Key(l, 0) \in ledger
          /\ \A k \in ledger : k[1] = l /\ k[2] > 0 => row.plan[l] = k[2]
          /\ \A e \in Entries(inbox[l]) : e.key > 0 => row.plan[l] = e.key
    <3>1. PlanH(Handler)
      BY Zenon DEF PlanInv
    <3>2. Handler.row = row /\ Handler.inbox = inbox
      BY DEF Handler
    <3> QED
      BY <3>1, <3>2, ZenonT(30) DEF PlanH
  <2>3. PlanH(h)
    BY <2>1, <2>2 DEF PlanH
  <2> QED
    BY <1>3, <2>1, <2>3 DEF Working
<1>4. ASSUME NEW t \in Troubles, NEW g \in Handlers, Recorded(m, t, g), h = advance(g, t)
      PROVE  PlanH(h) /\ h.stage # "idle" /\ actor.stage # "idle"
  <2>1. PlanH(g)
    BY <1>0, <1>4, PlanRecord, Zenon DEF Recorded
  <2>2. g.stage = actor.stage
    <3>1. Handler \in Handlers /\ Handler.stage = actor.stage
      BY HandlerType DEF Handler
    <3> QED
      BY <1>0, <1>4, <3>1, RecordRow, ZenonT(30) DEF Recorded
  <2>3. h.stage # "idle" /\ actor.stage # "idle"
    BY <1>0, <1>4, <2>2, AdvanceKeeps DEF Recorded, Working
  <2> QED
    BY <1>0, <1>4, <2>1, <2>3, PlanAdvance, Zenon
<1>5. ASSUME NEW t \in Troubles, NEW g \in Handlers, Begun(m, t, g), h = advance(g, t)
      PROVE  /\ PlanH(h) /\ h.stage # "idle"
             /\ row.plan # NoReversals => h.stage = "reversing"
  <2>1. PlanH(g)
    BY <1>0, <1>5, PlanBegun
  <2>2. g.stage \in Working
    BY <1>5, Zenon DEF Begun, Forward, Backward, First, Working
  <2>3. h.stage # "idle" /\ (g.stage = "reversing" => h.stage = "reversing")
    BY <1>0, <1>5, <2>2, AdvanceKeeps DEF Working
  <2>4. ASSUME row.plan # NoReversals PROVE g.stage = "reversing"
    <3>1. PICK l \in Legs : row.plan[l] # 0
      BY <2>4 DEF TypeInv, Rows, NoReversals
    <3>2. m.plan[l] = row.plan[l] /\ row.status # "pending"
      BY <1>5, <3>1, ZenonT(30) DEF Begun, StartMsgs, PlanInv, PlanH, Handler, Takes
    <3>3. m.resume
      BY <1>5, <3>2, Zenon DEF Begun, startable
    <3> QED
      BY <1>5, <3>1, <3>2, <3>3, Zenon DEF Begun, Backward
  <2> QED
    BY <1>0, <1>5, <2>1, <2>3, <2>4, PlanAdvance
<1> QED
  BY <1>1, <1>2, <1>3, <1>4, <1>5, HandledCases, Zenon

\* Any step but a handler's: nothing is sent but what was stored or counted.
LEMMA PlanKept ==
    ASSUME TypeInv, PlanInv,
           row'.plan = row.plan,
           row'.status = row.status \/ row'.status \notin {"none", "pending"}
             \/ (actor'.stage = "idle" /\ row.status = "none"),
           \/ actor'.stage = actor.stage /\ actor'.leg = actor.leg
           \/ actor'.stage = "idle"
           \/ actor'.stage = "finalized" /\ actor.stage # "idle" /\ actor'.leg = actor.leg,
           ledger \subseteq ledger',
           \A k \in ledger' : k[2] > 0 => k \in ledger \/ row.plan[k[1]] = k[2],
           \A l \in Legs : Entries(inbox'[l]) \subseteq Entries(inbox[l])
    PROVE  PlanH(Handler)'
<1>1. PlanH(Handler)
  BY DEF PlanInv
<1>2. \A l \in Legs : Key(l, 0) \in ledger => Key(l, 0) \in ledger'
  OBVIOUS
<1>3. \A l \in Legs :
        /\ row'.plan[l] # 0 => Key(l, 0) \in ledger'
        /\ \A k \in ledger' : k[1] = l /\ k[2] > 0 => row'.plan[l] = k[2]
        /\ \A e \in Entries(inbox'[l]) : e.key > 0 => row'.plan[l] = e.key
  BY <1>1, <1>2 DEF PlanH, Handler
<1>4. actor'.stage # "idle" =>
         /\ row'.status \notin {"none", "pending"}
         /\ \A l \in Legs : /\ actor'.leg[l].rkey = row'.plan[l]
                            /\ actor'.leg[l].applied => Key(l, 0) \in ledger'
  <2> SUFFICES ASSUME actor'.stage # "idle"
               PROVE  /\ row'.status \notin {"none", "pending"}
                      /\ \A l \in Legs : /\ actor'.leg[l].rkey = row'.plan[l]
                                         /\ actor'.leg[l].applied => Key(l, 0) \in ledger'
    OBVIOUS
  <2>1. actor.stage # "idle" /\ actor'.leg = actor.leg
    OBVIOUS
  <2>2. /\ row.status \notin {"none", "pending"}
        /\ \A l \in Legs : /\ actor.leg[l].rkey = row.plan[l]
                           /\ actor.leg[l].applied => Key(l, 0) \in ledger
    BY <1>1, <2>1, Zenon DEF PlanH, Handler
  <2>3. row'.status \notin {"none", "pending"}
    BY <2>2
  <2> QED
    BY <1>2, <2>1, <2>2, <2>3
<1>5. /\ actor'.stage \in {"processing", "crediting"} => \A l \in Legs : actor'.leg[l].rkey = 0
      /\ actor'.stage = "reversing" =>
           \A l \in Legs : actor'.leg[l].rkey # 0 => actor'.leg[l].applied
  BY <1>1 DEF PlanH, Handler
<1>6. row'.status \in {"none", "pending"} => \A l \in Legs : row'.plan[l] = 0
  BY <1>1, ZenonT(30) DEF PlanH, Handler
<1> QED
  BY <1>3, <1>4, <1>5, <1>6, ZenonT(30) DEF PlanH, Handler, Key

\* A queue after at most one operation was sent to it.
Grown(q, r) ==
    r = q \/ \E k \in Nat : r = Append(q, [key |-> k, from |-> actor.inc])

LEMMA FromGrown ==
    ASSUME TypeInv, NEW h \in Handlers, NEW g, FromH(h),
           \A l \in Legs : Grown(h.inbox[l], g.inbox[l])
    PROVE  FromH(g)
<1> SUFFICES ASSUME NEW l \in Legs, NEW e \in Entries(g.inbox[l])
             PROVE  e.from <= actor.inc
  BY DEF FromH
<1>1. h.inbox[l] \in Seq(Operations) /\ actor.inc \in Nat
  BY Zenon DEF Handlers, TypeInv, Activations
<1>2. CASE g.inbox[l] = h.inbox[l]
  BY <1>2 DEF FromH
<1>3. ASSUME NEW k \in Nat, g.inbox[l] = Append(h.inbox[l], [key |-> k, from |-> actor.inc])
      PROVE  e.from <= actor.inc
  <2>1. e \in Entries(h.inbox[l]) \/ e.from = actor.inc
    BY <1>1, <1>3, SentEntry
  <2> QED
    BY <1>1, <2>1 DEF FromH
<1> QED
  BY <1>2, <1>3, Zenon DEF Grown

LEMMA FromAdvance ==
    ASSUME TypeInv, NEW h \in Handlers, NEW t \in TroubleTypes, FromH(h)
    PROVE  FromH(advance(h, t))
<1> DEFINE g == advance(h, t)
<1>1. \A l \in Legs : ReversalKey(h, l) \in Nat /\ 0 \in Nat
  BY DEF ReversalKey, Handlers, LegStates
<1>2. \/ Alike(g, h) \/ ReversalsFired(h, t, g) \/ CreditsFired(h, t, g)
  BY AdvanceCases
<1> HIDE DEF g
<1>3. \A l \in Legs : Grown(h.inbox[l], g.inbox[l])
  BY <1>1, <1>2, Zenon DEF Alike, ReversalsFired, CreditsFired, Grown
<1> QED
  BY <1>3, FromGrown DEF g

LEMMA HandledFrom ==
    ASSUME TypeInv, FromH(Handler), NEW m, NEW h, Handled(m, h)
    PROVE  FromH(h)
<1>0. /\ Handler \in Handlers /\ Handler.stage = actor.stage /\ Handler.inbox = inbox
      /\ Handler.leg = actor.leg /\ Handler.fresh = fresh
      /\ \A l \in Legs : actor.leg[l].rkey \in Nat /\ 0 \in Nat /\ fresh \in Nat
  BY HandlerType DEF Handler, TypeInv, Activations, LegStates
<1>1. \A t \in Troubles : t \in TroubleTypes
  BY TroubleType
<1>2. CASE h = Handler
  BY <1>2
<1>3. ASSUME NEW t \in Troubles, Resent(t, h)
      PROVE  FromH(h)
  <2>1. \A l \in Legs : Grown(inbox[l], h.inbox[l])
    BY <1>0, <1>3, Zenon DEF Resent, Grown
  <2> QED
    BY <1>0, <2>1, FromGrown
<1>4. CASE Unstarted(h)
  BY <1>0, <1>4 DEF Unstarted, FromH
<1>5. ASSUME NEW t \in Troubles, NEW g \in Handlers, Recorded(m, t, g)
      PROVE  FromH(g)
  <2> DEFINE f == Handler
  <2>0. m \in ResultMsgs /\ m.leg \in Legs /\ g = record(f, m, t) /\ f \in Handlers /\ FromH(f)
        /\ f.fresh \in Nat
    BY <1>0, <1>5 DEF Recorded, ResultMsgs
  <2> HIDE DEF f
  <2>1. \A x \in LegStates : Left(f, m.leg, x).inbox = f.inbox
    BY <2>0, SettleType, ZenonT(30)
  <2>2. CASE g = lateReversal(f, m.leg, t) /\ f.stage = "reversing"
    <3>1. ReversedLate(f, m.leg, t, g)
      BY <1>1, <2>0, <2>2, LateType
    <3>2. \A l \in Legs : Grown(f.inbox[l], g.inbox[l])
      <4>1. \A l \in Legs : l # m.leg => g.inbox[l] = f.inbox[l]
        BY <3>1 DEF ReversedLate
      <4>2. \/ g.inbox[m.leg] = f.inbox[m.leg]
            \/ g.inbox[m.leg] = Append(f.inbox[m.leg], [key |-> f.fresh, from |-> actor.inc])
        BY <3>1, Zenon DEF ReversedLate
      <4> QED
        BY <2>0, <4>1, <4>2, Zenon DEF Grown
    <3> QED
      BY <2>0, <3>2, FromGrown
  <2>3. CASE g.inbox = f.inbox
    BY <2>0, <2>3 DEF FromH
  <2> QED
    BY <1>1, <2>0, <2>1, <2>2, <2>3, RecordCases
<1>6. ASSUME NEW t \in Troubles, NEW g \in Handlers, Begun(m, t, g)
      PROVE  FromH(g)
  <2> DEFINE s == started(m)
  <2>1. s \in Handlers /\ s.inbox = inbox /\ \A l \in Legs : ResumeKey(s, l) \in Nat
    BY <1>6, StartedType, ZenonT(30) DEF Begun, ResumeKey, Handlers, LegStates
  <2> HIDE DEF s
  <2>2. Forward(s, t, g) \/ Backward(s, t, g) \/ First(m, t, g)
    BY <1>6 DEF Begun, s
  <2>3. \A l \in Legs : Grown(inbox[l], g.inbox[l])
    <3> SUFFICES ASSUME NEW l \in Legs
                 PROVE  Grown(inbox[l], g.inbox[l])
      BY Zenon
    <3>1. 0 \in Nat /\ ResumeKey(s, l) \in Nat
      BY <2>1
    <3>2. CASE Forward(s, t, g)
      BY <2>1, <3>1, <3>2, Zenon DEF Forward, Grown
    <3>3. CASE Backward(s, t, g)
      BY <2>1, <3>1, <3>3, Zenon DEF Backward, Grown
    <3>4. CASE First(m, t, g)
      BY <3>1, <3>4, Zenon DEF First, Grown
    <3> QED
      BY <2>2, <3>2, <3>3, <3>4
  <2> QED
    BY <1>0, <2>3, FromGrown
<1> QED
  BY <1>1, <1>2, <1>3, <1>4, <1>5, <1>6, FromAdvance, HandledCases

\* Mail after a step that sends no Start, and leaves an activation idle with
\* the plan it had.
LEMMA PlanMail ==
    ASSUME TypeInv, PlanInv, actor'.inc = actor.inc,
           \A m \in mail' : m \in mail \/ (m.kind # "start" /\ m.to <= actor.inc),
           \/ ~actor'.up \/ actor'.stage # "idle"
           \/ actor'.up = actor.up /\ actor.stage = "idle" /\ row'.plan = row.plan
    PROVE  /\ \A m \in mail' : m.to <= actor'.inc
           /\ \A m \in mail' :
                m.kind = "start" /\ m.to = actor'.inc /\ actor'.up /\ actor'.stage = "idle"
                  => \A l \in Legs : m.plan[l] = row'.plan[l]
BY ZenonT(30) DEF PlanInv

LEMMA PlanStep ==
    ASSUME PlansAreSaved, TypeInv, PlanInv, [Next]_rvars
    PROVE  PlanInv'
<1>0. /\ faults'["plan"] = 0 /\ OkTrue' /\ FromH(Handler) /\ PlanH(Handler)
      /\ \A l \in Legs : inbox[l] \in Seq(Operations)
      /\ actor.inc \in Nat /\ actor \in Activations /\ row \in Rows
  <2>1. /\ faults'["plan"] \in Nat /\ faults'["plan"] <= faults["plan"]
    BY StepCases DEF FaultKinds
  <2>2. OkTrue'
    BY OkStep DEF PlanInv
  <2> QED
    BY <2>1, <2>2 DEF PlanInv, TypeInv, Activations
<1> DEFINE MailOk == /\ \A m \in mail' : m.to <= actor'.inc
                     /\ \A m \in mail' :
                          m.kind = "start" /\ m.to = actor'.inc /\ actor'.up
                            /\ actor'.stage = "idle"
                            => \A l \in Legs : m.plan[l] = row'.plan[l]
<1>1. ASSUME PlanH(Handler)', FromH(Handler)', MailOk PROVE PlanInv'
  BY <1>0, <1>1, Zenon DEF PlanInv
<1>2. ASSUME actor.inc <= actor'.inc, actor'.inc \in Nat,
             \A l \in Legs : Entries(inbox'[l]) \subseteq Entries(inbox[l])
      PROVE  FromH(Handler)'
  <2>1. \A l \in Legs : \A e \in Entries(inbox'[l]) : e \in Operations /\ e.from <= actor.inc
    BY <1>0, <1>2, EntriesType, Zenon DEF FromH, Handler
  <2>2. \A l \in Legs : \A e \in Entries(inbox'[l]) : e.from <= actor'.inc
    BY <1>0, <1>2, <2>1 DEF Operations
  <2> QED
    BY <2>2 DEF FromH, Handler
<1>3. ASSUME UNCHANGED <<ledger, inbox>>, actor.inc <= actor'.inc, actor'.inc \in Nat,
             row'.plan = row.plan,
             row'.status = row.status \/ row'.status \notin {"none", "pending"}
               \/ (actor'.stage = "idle" /\ row.status = "none"),
             \/ actor'.stage = actor.stage /\ actor'.leg = actor.leg
             \/ actor'.stage = "idle"
             \/ actor'.stage = "finalized" /\ actor.stage # "idle" /\ actor'.leg = actor.leg,
             MailOk
      PROVE  PlanInv'
  <2>1. PlanH(Handler)'
    BY <1>3, PlanKept
  <2> QED
    BY <1>1, <1>2, <1>3, <2>1
<1>4. ASSUME NEW m \in mail, NEW h \in Handlers, Reacts(m, h)
      PROVE  PlanInv'
  <2>1. Yield(m, h) /\ Takes(m) /\ Handled(m, h)
    BY <1>4 DEF Reacts
  <2>2. /\ actor'.stage = h.stage /\ actor'.leg = h.leg /\ inbox' = h.inbox
        /\ ledger' = ledger /\ mail' \subseteq mail \union {FinalizeMsg(actor.inc)}
        /\ row' = h.row /\ actor'.inc = actor.inc /\ actor'.up = actor.up
    BY <2>1, YieldState, Zenon
  <2>3. /\ PlanH(h) /\ FromH(h)
        /\ h.stage = "idle" => h.row.plan = row.plan /\ actor.stage = "idle"
    BY <1>0, <2>1, PlanHandled, HandledFrom, Zenon
  <2>4. PlanH(Handler)' /\ FromH(Handler)'
    BY <2>2, <2>3, ZenonT(30) DEF PlanH, FromH, Handler
  <2>5. \A n \in mail' : n \in mail \/ (n.kind # "start" /\ n.to <= actor.inc)
    BY <1>0, <2>2 DEF FinalizeMsg
  <2>6. MailOk
    BY <2>2, <2>3, <2>5, PlanMail
  <2> QED
    BY <1>1, <2>4, <2>6
<1>5. CASE Halts
  <2>1. actor'.stage = "idle" /\ actor'.inc = actor.inc /\ ~actor'.up
    BY <1>5, StoppedType, Zenon DEF Halts
  <2>2. MailOk
    BY <1>5, <2>1, PlanMail, Zenon DEF Halts
  <2> QED
    BY <1>0, <1>3, <1>5, <2>1, <2>2 DEF Halts
<1>6. ASSUME NEW m \in mail, finalize(m)
      PROVE  PlanInv'
  <2>1. \/ actor' = actor
        \/ /\ actor'.stage = "finalized" /\ actor.stage # "idle" /\ actor'.leg = actor.leg
           /\ actor'.inc = actor.inc
    BY <1>0, <1>6 DEF finalize, Activations, Working
  <2>2. MailOk
    BY <1>6, <2>1, PlanMail DEF finalize
  <2>3. UNCHANGED <<ledger, inbox, row>>
    BY <1>6 DEF finalize
  <2>4. /\ actor.inc <= actor'.inc /\ actor'.inc \in Nat
        /\ \/ actor'.stage = actor.stage /\ actor'.leg = actor.leg
           \/ actor'.stage = "finalized" /\ actor.stage # "idle" /\ actor'.leg = actor.leg
    BY <1>0, <2>1
  <2> QED
    BY <1>3, <2>2, <2>3, <2>4
<1>7. CASE TimerFires
  <2>1. /\ actor'.stage = actor.stage /\ actor'.leg = actor.leg /\ actor'.inc = actor.inc
        /\ actor'.up = actor.up
    BY <1>0, <1>7, Zenon DEF TimerFires, Activations
  <2>2. \A m \in mail' : m \in mail \/ (m.kind # "start" /\ m.to <= actor.inc)
    BY <1>0, <1>7 DEF TimerFires, TimeoutMsg
  <2>3. MailOk
    BY <1>7, <2>1, <2>2, PlanMail, Zenon DEF TimerFires
  <2> QED
    BY <1>0, <1>3, <1>7, <2>1, <2>3 DEF TimerFires
<1>8. CASE Finals
  <2>1. /\ UNCHANGED <<ledger, inbox, mail>>
        /\ Stopped \/ actor' = [actor EXCEPT !.try = @ + 1]
        /\ WriteOutcome \/ UNCHANGED row
    BY <1>8, FinalType DEF Finals
  <2>2. Stopped => actor'.stage = "idle" /\ actor'.inc = actor.inc /\ ~actor'.up
    BY StoppedType, Zenon
  <2>3. actor' = [actor EXCEPT !.try = @ + 1]
          => /\ actor'.stage = actor.stage /\ actor'.leg = actor.leg /\ actor'.inc = actor.inc
             /\ actor'.up = actor.up
    BY <1>0 DEF Activations
  <2>4. /\ row'.plan = row.plan
        /\ row'.status = row.status \/ row'.status \notin {"none", "pending"}
    BY <2>1, WriteOutcomeType DEF Terminal
  <2>5. MailOk
    BY <2>1, <2>2, <2>3, <2>4, PlanMail
  <2> QED
    BY <1>0, <1>3, <2>1, <2>2, <2>3, <2>4, <2>5
<1>9. ASSUME NEW l \in Legs, NEW i \in DOMAIN inbox[l], WalletHandles(l, i)
      PROVE  PlanInv'
  <2> DEFINE e == inbox[l][i]
             q == SubSeq(inbox[l], 1, i - 1) \o SubSeq(inbox[l], i + 1, Len(inbox[l]))
  <2>1. e \in Entries(inbox[l]) /\ e \in Operations /\ Entries(q) \subseteq Entries(inbox[l])
    BY <1>0, EntriesCut, Zenon
  <2>2. /\ inbox' = [inbox EXCEPT ![l] = q] /\ UNCHANGED <<actor, row>>
        /\ ledger' \in {ledger, ledger \union {Key(l, e.key)}}
        /\ \E c \in {"ok", "refused", "again"} :
             mail' = mail \union {ResultMsg(e.from, l, e.key, c)}
    BY <1>9 DEF WalletHandles
  <2> HIDE DEF e, q
  <2>3. \A k \in Legs : Entries(inbox'[k]) \subseteq Entries(inbox[k])
    BY <2>1, <2>2 DEF TypeInv
  <2>4. e.from <= actor.inc /\ (e.key > 0 => row.plan[l] = e.key)
    BY <1>0, <2>1, Zenon DEF FromH, PlanH, Handler
  <2>5. \A k \in ledger' : k[2] > 0 => k \in ledger \/ row.plan[k[1]] = k[2]
    BY <2>2, <2>4 DEF Key
  <2>6. PlanH(Handler)'
    BY <2>2, <2>3, <2>5, PlanKept
  <2>7. MailOk
    BY <2>2, <2>4, PlanMail DEF ResultMsg
  <2> QED
    BY <1>0, <1>1, <1>2, <2>2, <2>3, <2>6, <2>7
<1>10. ASSUME NEW l \in Legs, Network(l)
       PROVE  PlanInv'
  <2>1. /\ inbox[l] # <<>> /\ UNCHANGED <<ledger, actor, row>>
        /\ inbox' = [inbox EXCEPT ![l] = Tail(inbox[l])]
           \/ inbox' = [inbox EXCEPT ![l] = Append(inbox[l], Head(inbox[l]))]
        /\ mail' = mail \/ mail' = mail \union
             {ResultMsg(Head(inbox[l]).from, l, Head(inbox[l]).key, "again")}
    BY <1>10, Zenon DEF Network, OperationDeadLettered, OperationLost, OperationDuplicated, TypeInv
  <2>2. /\ Head(inbox[l]) \in Entries(inbox[l])
        /\ Entries(Tail(inbox[l])) \subseteq Entries(inbox[l])
        /\ Entries(Append(inbox[l], Head(inbox[l]))) \subseteq Entries(inbox[l])
    BY <1>0, <2>1, EntriesType
  <2>3. \A k \in Legs : Entries(inbox'[k]) \subseteq Entries(inbox[k])
    BY <2>1, <2>2, Zenon DEF TypeInv
  <2>4. Head(inbox[l]).from <= actor.inc
    BY <1>0, <2>2 DEF FromH, Handler
  <2>5. MailOk
    BY <2>1, <2>4, PlanMail DEF ResultMsg
  <2>6. \A k \in ledger' : k[2] > 0 => k \in ledger
    BY <2>1
  <2>7. PlanH(Handler)'
    BY <2>1, <2>3, <2>6, PlanKept, Zenon
  <2>8. actor.inc <= actor'.inc /\ actor'.inc \in Nat
    BY <1>0, <2>1
  <2>9. FromH(Handler)'
    BY <1>2, <2>3, <2>8
  <2> QED
    BY <1>1, <2>5, <2>7, <2>9
<1>11. CASE Around
  <2>1. MailOk
    BY <1>11, PlanMail DEF Around
  <2> QED
    BY <1>0, <1>3, <1>11, <2>1 DEF Around
<1>12. CASE GoStale
  <2>1. row'.plan = row.plan /\ row'.status = row.status /\ UNCHANGED <<actor, mail, ledger, inbox>>
    BY <1>0, <1>12 DEF GoStale, Rows
  <2>2. MailOk
    BY <2>1, PlanMail
  <2> QED
    BY <1>0, <1>3, <2>1, <2>2
<1>13. /\ Placed.inc \in Nat /\ actor.inc <= Placed.inc
       /\ Placed = actor \/ (Placed.stage = "idle" /\ Placed.inc = actor.inc + 1)
  BY <1>0, PlacedType, Zenon DEF Activations
<1>14. ASSUME NEW p, \A l \in Legs : p[l] = row.plan[l], row'.plan = row.plan,
              actor' = Placed, NEW b, mail' \subseteq mail \union {StartMsg(Placed.inc, b, p)}
       PROVE  MailOk
  <2>1. \A m \in mail : m.to \in Nat /\ m.to <= actor.inc
    BY MailKinds DEF PlanInv
  <2>2. \A m \in mail' : m \in mail \/ (m.to = Placed.inc /\ m.plan = p)
    BY <1>14 DEF StartMsg
  <2>3. CASE Placed = actor
    BY <1>0, <1>14, <2>1, <2>2, <2>3 DEF PlanInv
  <2>4. CASE Placed.inc = actor.inc + 1
    BY <1>0, <1>13, <1>14, <2>1, <2>2, <2>4
  <2> QED
    BY <1>13, <2>3, <2>4
<1>15. ASSUME NEW r \in Managers, recoverSend(r)
       PROVE  PlanInv'
  <2>1. mail' = mail \union {StartMsg(Placed.inc, TRUE, row.plan)}
    BY <1>15 DEF recoverSend, PlansAreSaved
  <2>2. UNCHANGED <<row, ledger, inbox>> /\ actor' = Placed
    BY <1>15 DEF recoverSend
  <2>3. MailOk
    BY <1>14, <2>1, <2>2, Zenon
  <2> QED
    BY <1>3, <1>13, <2>2, <2>3
<1>16. ASSUME NEW r \in Managers, markFailed(r)
       PROVE  PlanInv'
  <2>1. /\ row'.plan = row.plan /\ UNCHANGED <<actor, mail, ledger, inbox>>
        /\ row'.status = row.status \/ row'.status \notin {"none", "pending"}
    BY <1>0, <1>16 DEF markFailed, Rows
  <2>2. MailOk
    BY <2>1, PlanMail
  <2> QED
    BY <1>0, <1>3, <2>1, <2>2
<1>17. CASE dispatch \/ dispatchCut
  <2>1. /\ row'.plan = row.plan /\ row.status = "none" /\ UNCHANGED <<ledger, inbox>>
        /\ actor' = Placed
        /\ mail' \subseteq mail \union {StartMsg(Placed.inc, FALSE, row.plan)}
    BY <1>0, <1>17, Zenon DEF dispatch, dispatchCut, Pending, Rows
  <2>2. actor'.stage = "idle"
    BY <1>0, <1>13, <2>1, Zenon DEF PlanH, Handler
  <2>3. MailOk
    BY <1>14, <2>1, Zenon
  <2> QED
    BY <1>3, <1>13, <2>1, <2>2, <2>3, Zenon
<1> QED
  BY <1>4, <1>5, <1>6, <1>7, <1>8, <1>9, <1>10, <1>11, <1>12, <1>15, <1>16, <1>17, StepCases

\* In the initial state there is no plan, no mail and no operation.
LEMMA PlanInit ==
    ASSUME PlansAreSaved, Init
    PROVE  PlanInv
BY TransactionConstants
   DEF Init, PlanInv, PlanH, FromH, OkTrue, Handler, Entries, Activation, NoReversals, NewLeg,
       PlansAreSaved

\* When every save of a plan succeeds and no recovery sends an outdated plan,
\* a reversal is in flight or in the ledger only under the key the stored plan
\* has for its leg (transaction.go:366), through any crash, restart,
\* duplication or reordering.
THEOREM ReversalKeysArePersisted ==
    ASSUME PlansAreSaved
    PROVE  Spec => []KeysPersistedFirst
<1>1. Init => TypeInv /\ PlanInv
  BY TypeInit, PlanInit
<1>2. TypeInv /\ PlanInv /\ [Next]_rvars => TypeInv' /\ PlanInv'
  BY TypeStep, PlanStep
<1>3. TypeInv /\ PlanInv => KeysPersistedFirst
  <2> SUFFICES ASSUME PlanInv PROVE KeysPersistedFirst
    OBVIOUS
  <2>1. \A l \in Legs :
          /\ \A k \in ledger : k[1] = l /\ k[2] > 0 => row.plan[l] = k[2]
          /\ \A e \in Entries(inbox[l]) : e.key > 0 => row.plan[l] = e.key
    <3>1. PlanH(Handler)
      BY Zenon DEF PlanInv
    <3>2. Handler.row = row /\ Handler.inbox = inbox
      BY DEF Handler
    <3> QED
      BY <3>1, <3>2, ZenonT(30) DEF PlanH
  <2>2. \A l \in Legs : \A i \in DOMAIN inbox[l] : inbox[l][i] \in Entries(inbox[l])
    BY DEF Entries
  <2> QED
    BY <2>1, <2>2, Zenon DEF KeysPersistedFirst
<1> QED
  BY <1>1, <1>2, <1>3, PTL DEF Spec

\* Under the same conditions an activation that takes up a transaction whose
\* stored plan has a reversal key starts in the reversing stage
\* (README.md:222): no reversal is ever turned back into a transfer.
THEOREM ReversalsAreResumed ==
    ASSUME PlansAreSaved
    PROVE  Spec => ResumesReversing
<1>1. Init => TypeInv /\ PlanInv
  BY TypeInit, PlanInit
<1>2. TypeInv /\ PlanInv /\ [Next]_rvars => TypeInv' /\ PlanInv'
  BY TypeStep, PlanStep
<1>3. ASSUME TypeInv, PlanInv, [Next]_rvars,
             row.plan # NoReversals, actor.stage = "idle", actor'.stage \in Working
      PROVE  actor'.stage = "reversing"
  <2>0. PlanH(Handler) /\ actor \in Activations
    BY <1>3 DEF PlanInv, TypeInv
  <2>1. ASSUME NEW m \in mail, NEW h \in Handlers, Reacts(m, h)
        PROVE  actor'.stage = "reversing"
    <3>1. Yield(m, h) /\ Takes(m) /\ Handled(m, h)
      BY <2>1 DEF Reacts
    <3>2. actor'.stage = h.stage
      BY <1>3, <3>1, YieldState
    <3> QED
      BY <1>3, <2>0, <3>1, <3>2, PlanHandled
  <2>2. ~Halts /\ ~Finals
    BY <1>3, <2>0, StoppedType, FinalType, Zenon DEF Halts, Finals, Working, Activations
  <2>3. \A m \in mail : ~finalize(m)
    BY <1>3, <2>0 DEF finalize, Working, Activations
  <2>4. ~TimerFires
    BY <1>3, <2>0 DEF TimerFires, Working, Activations
  <2>5. /\ \A l \in Legs : \A i \in DOMAIN inbox[l] : ~WalletHandles(l, i)
        /\ \A l \in Legs : ~Network(l)
        /\ ~Around /\ ~GoStale /\ \A r \in Managers : ~markFailed(r)
    BY <1>3, Zenon DEF WalletHandles, Network, OperationDeadLettered, OperationLost,
                OperationDuplicated, Around, GoStale, markFailed, Working
  <2>6. Placed.stage \notin Working
    BY <1>3, <2>0, PlacedType, Zenon DEF Working
  <2>7. ~dispatch /\ ~dispatchCut /\ \A r \in Managers : ~recoverSend(r)
    BY <1>3, <2>6, Zenon DEF dispatch, dispatchCut, recoverSend
  <2> QED
    BY <1>3, <2>1, <2>2, <2>3, <2>4, <2>5, <2>7, StepCases, Zenon
<1>4. TypeInv /\ PlanInv /\ [Next]_rvars
        => [row.plan # NoReversals /\ actor.stage = "idle" /\ actor'.stage \in Working
              => actor'.stage = "reversing"]_rvars
  BY <1>3
<1> QED
  BY <1>1, <1>2, <1>4, PTL DEF Spec, ResumesReversing
=============================================================================
