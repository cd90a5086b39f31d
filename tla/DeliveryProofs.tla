--------------------------- MODULE DeliveryProofs ---------------------------
(***************************************************************************)
(* Operations, for any number of legs, managers and activations: an        *)
(* orchestrator has one copy of what it waits for under way.               *)
(***************************************************************************)
EXTENDS TransactionProofs

\* A leaf that names no prover is for the SMT solver, asked again when it runs
\* out of time.
USE SMTT(30), Z3T(30), Z3T(60)

LEMMA EmptyQueue ==
    ASSUME NEW S, NEW q \in Seq(S)
    PROVE  /\ Len(q) \in Nat /\ DOMAIN q = 1 .. Len(q)
           /\ q = <<>> <=> Len(q) = 0
  OBVIOUS

LEMMA SameQueue ==
    ASSUME NEW S, NEW q \in Seq(S), NEW r \in Seq(S), Len(q) = Len(r),
           \A i \in 1 .. Len(q) : q[i] = r[i]
    PROVE  q = r
  OBVIOUS

-----------------------------------------------------------------------------
(* One copy of each operation                                              *)

Orderly == MaxFaults["dup"] = 0 /\ ~Reordering /\ MaxAttempts = 0 /\ PlansAreSaved

\* Leg l's wallet has not applied its operation and has none to apply.
NoneLeft(h, l) == Key(l, 0) \notin ledger /\ \A e \in Entries(h.inbox[l]) : e.key # 0

\* The orchestrator expects an answer for leg l, to the operation with key
\* Expected(h, l).
Waits(h, l) == ~h.leg[l].done /\ inStage(h, l) /\ ~h.leg[l].retry
Expected(h, l) == IF h.stage = "reversing" THEN h.leg[l].rkey ELSE 0

\* The activation has nothing in queue q, or one operation, the last.
NotMine(q) == \A e \in Entries(q) : e.from # actor.inc
MineLast(q, k) ==
    /\ q # <<>> /\ q[Len(q)] = [key |-> k, from |-> actor.inc]
    /\ \A i \in 1 .. Len(q) - 1 : q[i].from # actor.inc

Replies(M, l) == {m \in M : m.kind = "result" /\ m.to = actor.inc /\ m.leg = l}

Quiet(h, M, l) == NotMine(h.inbox[l]) /\ Replies(M, l) = {}

\* The reply to leg l that is in M.  A refusal tells that nothing is left.
Answered(h, M, l) ==
    /\ NotMine(h.inbox[l])
    /\ \E m \in M :
         /\ Replies(M, l) = {m} /\ m.key = Expected(h, l)
         /\ m.code = "refused" /\ h.stage # "reversing" => NoneLeft(h, l)

CopyLeg(h, M, l) ==
    IF Waits(h, l)
    THEN \/ Replies(M, l) = {} /\ MineLast(h.inbox[l], Expected(h, l))
         \/ Answered(h, M, l)
         \/ MaxFaults["lost"] # 0 /\ Quiet(h, M, l)
    ELSE Quiet(h, M, l)

\* Of what a working orchestrator waits for one operation or answer is under
\* way, unless it was lost, and of the rest none; M is the mail.
CopyH(h, M) == h.stage \in Working => \A l \in Legs : CopyLeg(h, M, l)

LEMMA SentLast ==
    ASSUME TypeInv, NEW q \in Seq(Operations), NotMine(q), NEW k \in Nat
    PROVE  MineLast(Append(q, [key |-> k, from |-> actor.inc]), k)
<1> DEFINE e == [key |-> k, from |-> actor.inc]
           r == Append(q, e)
<1>1. e \in Operations
  BY DEF TypeInv, Activations, Operations
<1> HIDE DEF e
<1>2. /\ r \in Seq(Operations) /\ Len(r) = Len(q) + 1 /\ r[Len(q) + 1] = e
      /\ \A i \in 1 .. Len(q) : r[i] = q[i]
  BY <1>1, Sent
<1>3. Len(q) \in Nat /\ DOMAIN q = 1 .. Len(q)
  OBVIOUS
<1> HIDE DEF r
<1>4. \A i \in 1 .. Len(r) - 1 : r[i].from # actor.inc
  BY <1>2, <1>3 DEF NotMine, Entries
<1>5. r # <<>> /\ r[Len(r)] = e
  BY <1>2, <1>3
<1> QED
  BY <1>4, <1>5 DEF MineLast, e, r

\* What is left of a queue when its first operation is gone.
LEMMA QueueTail ==
    ASSUME NEW q \in Seq(Operations), q # <<>>
    PROVE  /\ Len(q) \in Nat \ {0} /\ DOMAIN q = 1 .. Len(q) /\ Head(q) = q[1]
           /\ Tail(q) \in Seq(Operations) /\ Len(Tail(q)) = Len(q) - 1
           /\ \A i \in 1 .. Len(q) - 1 : Tail(q)[i] = q[i + 1]
           /\ (Tail(q) = <<>>) <=> (Len(q) = 1)
<1>0. /\ Len(q) \in Nat \ {0} /\ DOMAIN q = 1 .. Len(q) /\ Head(q) = q[1]
      /\ Tail(q) \in Seq(Operations) /\ Len(Tail(q)) = Len(q) - 1
      /\ \A i \in 1 .. Len(q) - 1 : Tail(q)[i] = q[i + 1]
  OBVIOUS
<1>1. (Tail(q) = <<>>) <=> (Len(q) = 1)
  <2> DEFINE r == Tail(q)
  <2>1. r \in Seq(Operations) /\ Len(r) = Len(q) - 1 /\ Len(q) \in Nat
    BY <1>0
  <2> HIDE DEF r
  <2>2. r = <<>> => Len(q) = 1
    BY <2>1, EmptyQueue
  <2>3. Len(q) = 1 => r = <<>>
    BY <2>1, EmptyQueue
  <2> QED
    BY <2>2, <2>3 DEF r
<1> QED
  BY <1>0, <1>1

LEMMA OthersLeft ==
    ASSUME NEW q \in Seq(Operations), q # <<>>, NotMine(q)
    PROVE  Head(q).from # actor.inc /\ NotMine(Tail(q))
BY EntriesType DEF NotMine

LEMMA LastLeft ==
    ASSUME NEW q \in Seq(Operations), q # <<>>, NEW k, MineLast(q, k)
    PROVE  /\ Head(q).from = actor.inc => Head(q).key = k /\ Tail(q) = <<>>
           /\ Head(q).from # actor.inc => MineLast(Tail(q), k)
<1>1. /\ q[Len(q)].key = k /\ q[Len(q)].from = actor.inc
      /\ \A i \in 1 .. Len(q) - 1 : q[i].from # actor.inc
  BY DEF MineLast
<1>2. ASSUME Head(q).from = actor.inc
      PROVE  Head(q).key = k /\ Tail(q) = <<>>
  BY <1>1, <1>2, QueueTail
<1>3. ASSUME Head(q).from # actor.inc
      PROVE  MineLast(Tail(q), k)
  <2>1. Len(q) \in Nat /\ Len(q) > 1 /\ Len(q) # 1
    BY <1>1, <1>3, QueueTail
  <2>2. Len(Tail(q)) \in 1 .. Len(q) - 1 /\ Len(Tail(q)) + 1 = Len(q)
    BY <2>1, QueueTail
  <2>3. Tail(q)[Len(Tail(q))] = q[Len(q)]
    BY <2>2, QueueTail
  <2>4. Tail(q) # <<>>
    BY <2>1, QueueTail, Zenon
  <2>5. ASSUME NEW i \in 1 .. Len(Tail(q)) - 1
        PROVE  Tail(q)[i].from # actor.inc
    <3>1. i \in 1 .. Len(q) - 1 /\ i + 1 \in 1 .. Len(q) - 1
      BY <2>1, <2>2
    <3>2. Tail(q)[i] = q[i + 1]
      BY <3>1, QueueTail, Zenon
    <3> QED
      BY <1>1, <3>1, <3>2, Zenon
  <2> QED
    BY <2>3, <2>4, <2>5 DEF MineLast
<1> QED
  BY <1>2, <1>3

LEMMA FirstTaken ==
    ASSUME NEW q \in Seq(Operations), q # <<>>
    PROVE  SubSeq(q, 1, 1 - 1) \o SubSeq(q, 1 + 1, Len(q)) = Tail(q)
<1> DEFINE r == SubSeq(q, 1, 1 - 1) \o SubSeq(q, 1 + 1, Len(q))
<1>1. /\ r \in Seq(Operations) /\ Len(r) = Len(q) - 1
      /\ \A j \in DOMAIN r : r[j] = IF j < 1 THEN q[j] ELSE q[j + 1]
  BY QueueTail, Taken
<1> HIDE DEF r
<1>2. \A j \in 1 .. Len(r) : r[j] = Tail(q)[j]
  BY <1>1, QueueTail
<1>3. r = Tail(q)
  BY <1>1, <1>2, QueueTail, SameQueue
<1> QED
  BY <1>3 DEF r

\* Nothing of leg l was under way, and now at most one operation is.
LEMMA CopySent ==
    ASSUME TypeInv, NEW h \in Handlers, NEW g \in Handlers, NEW M, NEW l \in Legs,
           Quiet(h, M, l),
           \/ ~Waits(g, l) /\ g.inbox[l] = h.inbox[l]
           \/ /\ Waits(g, l)
              /\ g.inbox[l] = Append(h.inbox[l], [key |-> Expected(g, l), from |-> actor.inc])
    PROVE  CopyLeg(g, M, l)
<1>1. CASE ~Waits(g, l) /\ g.inbox[l] = h.inbox[l]
  BY <1>1, Zenon DEF CopyLeg, Quiet
<1>2. CASE /\ Waits(g, l)
           /\ g.inbox[l] = Append(h.inbox[l], [key |-> Expected(g, l), from |-> actor.inc])
  <2> DEFINE k == Expected(g, l)
             q == h.inbox[l]
  <2>1. k \in Nat /\ q \in Seq(Operations)
    BY Zenon DEF Expected, Handlers, LegStates
  <2> HIDE DEF k, q
  <2>2. MineLast(Append(q, [key |-> k, from |-> actor.inc]), k)
    BY <2>1, SentLast DEF Quiet, q
  <2> QED
    BY <1>2, <2>2, Zenon DEF CopyLeg, Quiet, k, q
<1> QED
  BY <1>1, <1>2, Zenon

\* When a stage is over, nothing is under way.
LEMMA StageQuiet ==
    ASSUME NEW h, NEW M, CopyH(h, M), h.stage \in Working, allDone(h)
    PROVE  \A l \in Legs : Quiet(h, M, l)
BY DEF CopyH, CopyLeg, Waits, allDone

LEMMA CopyAdvance ==
    ASSUME TypeInv, NEW h \in Handlers, NEW t \in TroubleTypes, NEW M, CopyH(h, M)
    PROVE  CopyH(advance(h, t), M)
<1> DEFINE g == advance(h, t)
<1>1. CASE Alike(g, h)
  BY <1>1 DEF Alike, CopyH, CopyLeg, Waits, Expected, Quiet, Answered, NoneLeft, inStage
<1>2. CASE /\ allDone(h) /\ h.stage \in {"processing", "crediting"}
           /\ g \in Handlers /\ ReversalsFired(h, t, g)
  <2> HIDE DEF g
  <2>1. \A l \in Legs : Quiet(h, M, l)
    BY <1>2, StageQuiet DEF Working
  <2>2. g.stage = "reversing"
    BY <1>2, Zenon DEF ReversalsFired
  <2>3. ASSUME NEW l \in Legs PROVE CopyLeg(g, M, l)
    <3>1. /\ Expected(g, l) = ReversalKey(h, l) /\ inStage(g, l)
          /\ Waits(g, l) <=> (h.leg[l].applied /\ l \notin t.unplaced)
      BY <1>2, <2>2, Zenon DEF ReversalsFired, Expected, Waits, inStage, Handlers, LegStates
    <3>2. \/ ~Waits(g, l) /\ g.inbox[l] = h.inbox[l]
          \/ /\ Waits(g, l)
             /\ g.inbox[l] = Append(h.inbox[l], [key |-> Expected(g, l), from |-> actor.inc])
      BY <1>2, <3>1, ZenonT(30) DEF ReversalsFired
    <3> QED
      BY <1>2, <2>1, <3>2, CopySent, Zenon
  <2> QED
    BY <2>3 DEF CopyH, g
<1>3. CASE /\ allDone(h) /\ h.stage = "processing" /\ g \in Handlers /\ CreditsFired(h, t, g)
  <2> HIDE DEF g
  <2>1. \A l \in Legs : Quiet(h, M, l)
    BY <1>3, StageQuiet DEF Working
  <2>2. g.stage = "crediting"
    BY <1>3, Zenon DEF CreditsFired
  <2>3. ASSUME NEW l \in Legs PROVE CopyLeg(g, M, l)
    <3>1. /\ Expected(g, l) = 0
          /\ Waits(g, l) <=> (~h.leg[l].done /\ l \in Credits /\ l \notin t.unplaced)
      BY <1>3, <2>2 DEF CreditsFired, Expected, Waits, inStage, Handlers, LegStates
    <3>2. \/ ~Waits(g, l) /\ g.inbox[l] = h.inbox[l]
          \/ /\ Waits(g, l)
             /\ g.inbox[l] = Append(h.inbox[l], [key |-> Expected(g, l), from |-> actor.inc])
      BY <1>3, <3>1, Zenon DEF CreditsFired
    <3> QED
      BY <1>3, <2>1, <3>2, CopySent, Zenon
  <2> QED
    BY <2>3 DEF CopyH, g
<1> QED
  BY <1>1, <1>2, <1>3, AdvanceCases

LEMMA CopyResent ==
    ASSUME TypeInv, NEW t, NEW h \in Handlers, actor.stage \in Working, NEW M,
           CopyH(Handler, M), Resent(t, h)
    PROVE  CopyH(h, M)
<1>1. Handler \in Handlers
  BY HandlerType
<1>2. ASSUME NEW l \in Legs PROVE CopyLeg(h, M, l)
  <2> DEFINE again == /\ ~actor.leg[l].done /\ inStage(Handler, l) /\ actor.leg[l].retry
                      /\ actor.stage = "reversing" => actor.leg[l].rkey # 0
  <2>1. /\ h.stage = actor.stage /\ h.leg[l].done = actor.leg[l].done
        /\ h.leg[l].rkey = actor.leg[l].rkey
        /\ again => h.leg[l].retry = (l \in t.unplaced)
        /\ ~again => h.leg[l].retry = actor.leg[l].retry
        /\ h.inbox[l] = IF again /\ l \notin t.unplaced
                        THEN Append(inbox[l], [key |-> IF actor.stage = "reversing"
                                                       THEN actor.leg[l].rkey ELSE 0,
                                               from |-> actor.inc])
                        ELSE inbox[l]
    BY Zenon DEF Resent
  <2>2. /\ Expected(h, l) = Expected(Handler, l) /\ inStage(h, l) = inStage(Handler, l)
        /\ Expected(Handler, l) = IF actor.stage = "reversing" THEN actor.leg[l].rkey ELSE 0
    BY <2>1, Zenon DEF Expected, Handler, inStage
  <2>3. CopyLeg(Handler, M, l)
    BY Zenon DEF CopyH, Handler
  <2>4. Handler.inbox = inbox /\ Handler.leg = actor.leg /\ Handler.stage = actor.stage
    BY DEF Handler
  <2>5. CASE again
    <3>1. Quiet(Handler, M, l)
      BY <2>3, <2>4, <2>5, Zenon DEF CopyLeg, Waits
    <3>2. \/ ~Waits(h, l) /\ h.inbox[l] = Handler.inbox[l]
          \/ /\ Waits(h, l)
             /\ h.inbox[l] = Append(Handler.inbox[l],
                                    [key |-> Expected(h, l), from |-> actor.inc])
      BY <2>1, <2>2, <2>4, <2>5, Zenon DEF Waits
    <3> QED
      BY <1>1, <3>1, <3>2, CopySent, Zenon
  <2>6. CASE ~again
    BY <2>1, <2>2, <2>3, <2>4, <2>6, Zenon DEF CopyLeg, Waits, Quiet, Answered, NoneLeft
  <2> QED
    BY <2>5, <2>6, Zenon
<1> QED
  BY <1>2 DEF CopyH

LEMMA CopyBegun ==
    ASSUME TypeInv, NEW m, NEW t \in TroubleTypes, NEW g \in Handlers, Begun(m, t, g), NEW M,
           \A l \in Legs : Quiet(Handler, M, l)
    PROVE  CopyH(g, M)
<1>0. Handler \in Handlers /\ Handler.inbox = inbox
  BY HandlerType DEF Handler
<1>1. m \in StartMsgs
  BY Zenon DEF Begun
<1> DEFINE s == started(m)
<1>2. /\ s \in Handlers /\ s.inbox = inbox
      /\ \A l \in Legs : s.leg[l].rkey = m.plan[l] /\ s.leg[l].retry = FALSE
  BY <1>1, StartedType, Zenon
<1> HIDE DEF s
<1>3. CASE Forward(s, t, g)
  <2>1. ASSUME NEW l \in Legs PROVE CopyLeg(g, M, l)
    <3>1. g.stage # "reversing"
      BY <1>3 DEF Forward
    <3>2. /\ Expected(g, l) = 0
          /\ Waits(g, l) <=> (Key(l, 0) \notin ledger /\ inStage(g, l) /\ l \notin t.unplaced)
      BY <1>2, <1>3, <3>1, Zenon DEF Forward, Expected, Waits
    <3>3. \/ ~Waits(g, l) /\ g.inbox[l] = Handler.inbox[l]
          \/ /\ Waits(g, l)
             /\ g.inbox[l] = Append(Handler.inbox[l],
                                    [key |-> Expected(g, l), from |-> actor.inc])
      <4>1. g.inbox[l] = IF Key(l, 0) \notin ledger /\ inStage(g, l) /\ l \notin t.unplaced
                         THEN Append(s.inbox[l], [key |-> 0, from |-> actor.inc])
                         ELSE s.inbox[l]
        BY <1>3 DEF Forward
      <4> QED
        BY <1>0, <1>2, <3>2, <4>1
    <3> QED
      BY <1>0, <3>3, CopySent
  <2> QED
    BY <2>1 DEF CopyH
<1>4. CASE Backward(s, t, g)
  <2>1. ASSUME NEW l \in Legs PROVE CopyLeg(g, M, l)
    <3>1. g.stage = "reversing"
      BY <1>4 DEF Backward
    <3>2. /\ Expected(g, l) = ResumeKey(s, l)
          /\ Waits(g, l) <=> (Key(l, 0) \in ledger /\ ~ReversalFound(s, l) /\ l \notin t.unplaced)
      BY <1>2, <1>4, <3>1, Zenon DEF Backward, Expected, Waits, inStage
    <3>3. \/ ~Waits(g, l) /\ g.inbox[l] = Handler.inbox[l]
          \/ /\ Waits(g, l)
             /\ g.inbox[l] = Append(Handler.inbox[l],
                                    [key |-> Expected(g, l), from |-> actor.inc])
      <4>1. g.inbox[l] =
              IF Key(l, 0) \in ledger /\ ~ReversalFound(s, l) /\ l \notin t.unplaced
              THEN Append(s.inbox[l], [key |-> ResumeKey(s, l), from |-> actor.inc])
              ELSE s.inbox[l]
        BY <1>4 DEF Backward
      <4> QED
        BY <1>0, <1>2, <3>2, <4>1
    <3> QED
      BY <1>0, <3>3, CopySent
  <2> QED
    BY <2>1 DEF CopyH
<1>5. CASE First(m, t, g)
  <2>1. ASSUME NEW l \in Legs PROVE CopyLeg(g, M, l)
    <3>1. g.stage = "processing"
      BY <1>5 DEF First
    <3>2. /\ Expected(g, l) = 0
          /\ Waits(g, l) <=> (l \in Debits /\ l \notin t.unplaced)
      BY <1>5, <3>1, Zenon DEF First, Expected, Waits, inStage
    <3>3. \/ ~Waits(g, l) /\ g.inbox[l] = Handler.inbox[l]
          \/ /\ Waits(g, l)
             /\ g.inbox[l] = Append(Handler.inbox[l],
                                    [key |-> Expected(g, l), from |-> actor.inc])
      BY <1>0, <1>5, <3>2, Zenon DEF First
    <3> QED
      BY <1>0, <3>3, CopySent
  <2> QED
    BY <2>1 DEF CopyH
<1> QED
  BY <1>3, <1>4, <1>5, Zenon DEF Begun, s

\* Only the replies in the mail count.
LEMMA CopyMail ==
    ASSUME NEW h, NEW M, NEW N, \A l \in Legs : Replies(M, l) = Replies(N, l)
    PROVE  /\ CopyH(h, M) => CopyH(h, N)
           /\ \A l \in Legs : Quiet(h, M, l) => Quiet(h, N, l)
<1>1. ASSUME NEW l \in Legs, Answered(h, M, l)
      PROVE  Answered(h, N, l)
  <2>1. PICK m \in M : /\ Replies(M, l) = {m} /\ m.key = Expected(h, l)
                       /\ m.code = "refused" /\ h.stage # "reversing" => NoneLeft(h, l)
    BY <1>1 DEF Answered
  <2>2. Replies(N, l) = {m}
    BY <2>1
  <2>3. m \in N
    BY <2>2 DEF Replies
  <2> QED
    BY <1>1, <2>1, <2>2, <2>3 DEF Answered
<1> QED
  BY <1>1 DEF CopyH, CopyLeg, Quiet

\* A reply that is read is the one expected.
LEMMA ReplyExpected ==
    ASSUME TypeInv, CopyH(Handler, mail), actor.stage \in Working,
           NEW m \in mail, m \in ResultMsgs, Takes(m)
    PROVE  /\ Waits(Handler, m.leg) /\ Matches(Handler, m) /\ ~actor.leg[m.leg].done
           /\ NotMine(inbox[m.leg]) /\ Replies(mail, m.leg) = {m}
           /\ m.code = "refused" /\ actor.stage # "reversing" => NoneLeft(Handler, m.leg)
<1> DEFINE l == m.leg
<1>1. l \in Legs /\ m \in Replies(mail, l)
  BY DEF ResultMsgs, Replies, Takes
<1>2. Handler.stage = actor.stage /\ Handler.leg = actor.leg /\ Handler.inbox = inbox
  BY DEF Handler
<1>3. CopyLeg(Handler, mail, l)
  BY <1>1, <1>2 DEF CopyH
<1>4. Waits(Handler, l) /\ Answered(Handler, mail, l)
  BY <1>1, <1>3 DEF CopyLeg, Quiet
<1>5. PICK n \in mail : /\ Replies(mail, l) = {n} /\ n.key = Expected(Handler, l)
                        /\ n.code = "refused" /\ Handler.stage # "reversing"
                             => NoneLeft(Handler, l)
  BY <1>4 DEF Answered
<1>6. n = m
  BY <1>1, <1>5
<1>7. NotMine(inbox[l])
  BY <1>2, <1>4 DEF Answered
<1> QED
  BY <1>2, <1>4, <1>5, <1>6, <1>7 DEF Waits, Matches, Expected

LEMMA RecordSettles ==
    ASSUME TypeInv, CopyH(Handler, mail), actor.stage \in Working,
           NEW m \in mail, m \in ResultMsgs, Takes(m), NEW t \in TroubleTypes
    PROVE  \E f \in LegStates : /\ record(Handler, m, t) = Left(Handler, m.leg, f)
                                /\ Settles(Handler, actor.leg[m.leg], m.code, f)
<1>1. Handler \in Handlers /\ Handler.leg = actor.leg
  BY HandlerType DEF Handler
<1>2. Matches(Handler, m) /\ ~actor.leg[m.leg].done
  BY ReplyExpected
<1> QED
  BY <1>1, <1>2, RecordCases DEF AppliedAfterAll

LEMMA CopyRecord ==
    ASSUME TypeInv, CopyH(Handler, mail), actor.stage \in Working,
           NEW m \in mail, m \in ResultMsgs, Takes(m), NEW t \in TroubleTypes
    PROVE  CopyH(record(Handler, m, t), mail \ {m})
<1>1. /\ Handler \in Handlers /\ Handler.leg = actor.leg /\ Handler.stage = actor.stage
      /\ Handler.inbox = inbox /\ m.leg \in Legs /\ actor.leg[m.leg] \in LegStates
  BY HandlerType DEF Handler, ResultMsgs, TypeInv, Activations
<1>2. PICK f \in LegStates : /\ record(Handler, m, t) = Left(Handler, m.leg, f)
                             /\ Settles(Handler, actor.leg[m.leg], m.code, f)
  BY RecordSettles
<1> DEFINE g == Left(Handler, m.leg, f)
<1>3. /\ g \in Handlers /\ g.stage = actor.stage /\ g.inbox = inbox
      /\ g.leg[m.leg] = f /\ \A k \in Legs : k # m.leg => g.leg[k] = actor.leg[k]
  BY <1>1, SettleType
<1> HIDE DEF g
<1>4. f.done \/ f.retry
  BY <1>1, <1>2, Zenon DEF Settles, LegStates
<1>5. CopyLeg(g, mail \ {m}, m.leg)
  <2>1. ~Waits(g, m.leg)
    BY <1>3, <1>4 DEF Waits
  <2>2. Replies(mail, m.leg) = {m} /\ NotMine(inbox[m.leg])
    BY ReplyExpected
  <2>3. Replies(mail \ {m}, m.leg) = {}
    BY <2>2 DEF Replies
  <2> QED
    BY <1>3, <2>1, <2>2, <2>3 DEF CopyLeg, Quiet
<1>6. ASSUME NEW k \in Legs, k # m.leg
      PROVE  CopyLeg(g, mail \ {m}, k)
  <2>1. Replies(mail \ {m}, k) = Replies(mail, k)
    BY <1>6 DEF Replies
  <2>2. CopyLeg(Handler, mail, k)
    BY <1>1 DEF CopyH
  <2>3. /\ Waits(g, k) = Waits(Handler, k) /\ Expected(g, k) = Expected(Handler, k)
        /\ NoneLeft(g, k) = NoneLeft(Handler, k)
    BY <1>1, <1>3, <1>6 DEF Waits, Expected, NoneLeft, inStage
  <2>4. Answered(Handler, mail, k) => Answered(g, mail \ {m}, k)
    <3> SUFFICES ASSUME Answered(Handler, mail, k) PROVE Answered(g, mail \ {m}, k)
      OBVIOUS
    <3>1. PICK n \in mail : /\ Replies(mail, k) = {n} /\ n.key = Expected(Handler, k)
                            /\ n.code = "refused" /\ Handler.stage # "reversing"
                                 => NoneLeft(Handler, k)
      BY DEF Answered
    <3>2. n \in mail \ {m}
      BY <1>6, <3>1 DEF Replies
    <3> QED
      BY <1>1, <1>3, <2>1, <2>3, <3>1, <3>2 DEF Answered
  <2> QED
    BY <1>1, <1>3, <2>1, <2>2, <2>3, <2>4, Zenon DEF CopyLeg, Quiet
<1>7. \A k \in Legs : CopyLeg(g, mail \ {m}, k)
  BY <1>5, <1>6
<1> QED
  BY <1>2, <1>7 DEF CopyH, g

LEMMA CopyHandled ==
    ASSUME TypeInv, NEW m \in mail, NEW h \in Handlers, Takes(m), Handled(m, h),
           CopyH(Handler, mail),
           actor.stage = "idle" => \A l \in Legs : Quiet(Handler, mail, l)
    PROVE  /\ CopyH(h, mail \ {m})
           /\ h.stage = "idle" => \A l \in Legs : Quiet(h, mail \ {m}, l)
<1> DEFINE N == mail \ {m}
<1>0. /\ \A t \in Troubles : t \in TroubleTypes
      /\ Handler.stage = actor.stage /\ Handler.inbox = inbox
  BY TroubleType DEF Handler
<1>1. m.kind # "result" => \A l \in Legs : Replies(mail, l) = Replies(N, l)
  BY DEF Replies
<1>2. ASSUME m.kind # "result"
      PROVE  /\ CopyH(Handler, N)
             /\ actor.stage = "idle" => \A l \in Legs : Quiet(Handler, N, l)
  BY <1>1, <1>2, CopyMail, Zenon
<1>3. CASE h = Handler /\ (m.kind = "result" => actor.stage \notin Working)
  <2>1. CASE m.kind # "result"
    BY <1>0, <1>2, <1>3, <2>1
  <2>2. CASE m.kind = "result"
    <3>1. CopyH(h, N)
      BY <1>0, <1>3, <2>2 DEF CopyH
    <3>2. actor.stage = "idle" => FALSE
      <4>1. m \in ResultMsgs /\ m.leg \in Legs
        BY <2>2, MailKinds DEF ResultMsgs
      <4>2. m \in Replies(mail, m.leg)
        BY <2>2 DEF Replies, Takes
      <4> QED
        BY <4>1, <4>2 DEF Quiet
    <3> QED
      BY <1>0, <1>3, <3>1, <3>2
  <2> QED
    BY <2>1, <2>2
<1>4. CASE m.kind # "result" /\ actor.stage \in Working /\ \E t \in Troubles : Resent(t, h)
  <2>1. CopyH(h, N)
    BY <1>2, <1>4, CopyResent
  <2>2. h.stage = actor.stage
    BY <1>4, Zenon DEF Resent
  <2> QED
    BY <1>4, <2>1, <2>2 DEF Working
<1>5. CASE actor.stage = "idle" /\ m \in StartMsgs /\ startable(m) /\ Unstarted(h)
  <2>1. h.stage = "idle" /\ h.inbox = inbox /\ m.kind # "result"
    BY <1>5 DEF Unstarted, StartMsgs
  <2>2. CopyH(h, N)
    BY <2>1 DEF CopyH, Working
  <2> QED
    BY <1>0, <1>2, <1>5, <2>1, <2>2, Zenon DEF Quiet
<1>6. ASSUME NEW t \in Troubles, NEW g \in Handlers, h = advance(g, t),
             Recorded(m, t, g) \/ Begun(m, t, g)
      PROVE  CopyH(h, N) /\ h.stage # "idle"
  <2>1. CopyH(g, N) /\ g.stage \in Working
    <3>1. CASE Recorded(m, t, g)
      <4>1. CopyH(g, N)
        BY <1>0, <3>1, CopyRecord DEF Recorded
      <4>2. g.stage = actor.stage
        BY <1>0, <3>1, HandlerType, RecordRow DEF Recorded
      <4> QED
        BY <3>1, <4>1, <4>2 DEF Recorded
    <3>2. CASE Begun(m, t, g)
      <4>1. m.kind # "result" /\ actor.stage = "idle"
        BY <3>2 DEF Begun, StartMsgs
      <4>2. CopyH(g, N)
        BY <1>0, <1>2, <3>2, <4>1, CopyBegun
      <4>3. g.stage \in Working
        BY <3>2, Zenon DEF Begun, Forward, Backward, First, Working
      <4> QED
        BY <4>2, <4>3
    <3> QED
      BY <1>6, <3>1, <3>2
  <2>2. CopyH(h, N)
    BY <1>0, <1>6, <2>1, CopyAdvance
  <2>3. h.stage # "idle"
    BY <1>0, <1>6, <2>1, AdvanceKeeps DEF Working
  <2> QED
    BY <2>2, <2>3
<1> QED
  BY <1>3, <1>4, <1>5, <1>6, HandledCases

-----------------------------------------------------------------------------
(* The wallets and the network, without overtaking and duplicates          *)

\* Leg l's first operation is answered with code c, by its wallet or for it.
AnswerSent(l, c) ==
    LET e == Head(inbox[l])
    IN /\ inbox[l] # <<>>
       /\ inbox' = [inbox EXCEPT ![l] = Tail(inbox[l])]
       /\ mail' = mail \union {ResultMsg(e.from, l, e.key, c)}
       /\ ledger' \in {ledger, ledger \union {Key(l, e.key)}}
       /\ c = "refused" => ledger' = ledger /\ Key(l, e.key) \notin ledger
       /\ UNCHANGED <<row, actor>>

\* Leg l's first operation vanishes.
NothingSent(l) ==
    /\ inbox[l] # <<>>
    /\ inbox' = [inbox EXCEPT ![l] = Tail(inbox[l])]
    /\ actor.up /\ Head(inbox[l]).from = actor.inc => MaxFaults["lost"] # 0
    /\ UNCHANGED <<row, actor, ledger, mail>>

Answers(l) == \E c \in {"ok", "refused", "again"} : AnswerSent(l, c)

\* The faults left are at most the ones allowed.
Budget == faults["dup"] = 0 /\ faults["lost"] <= MaxFaults["lost"]

LEMMA ChargeNeeds ==
    ASSUME TypeInv, NEW k \in FaultKinds \ {"any"}, Charge({k})
    PROVE  faults[k] # 0
<1>1. faults[k] \in Nat
  BY DEF TypeInv
<1>2. faults[k] - 1 >= 0
  BY DEF Charge
<1> QED
  BY <1>1, <1>2

LEMMA QueueCases ==
    ASSUME Orderly, TypeInv, Budget, NEW l \in Legs
    PROVE  /\ \A i \in DOMAIN inbox[l] : WalletHandles(l, i) => Answers(l)
           /\ Network(l) => Answers(l) \/ NothingSent(l)
<1>0. inbox[l] \in Seq(Operations) /\ inbox \in [Legs -> Seq(Operations)]
  BY DEF TypeInv
<1>1. ASSUME NEW i \in DOMAIN inbox[l], WalletHandles(l, i)
      PROVE  Answers(l)
  <2> DEFINE q == inbox[l]
             e == q[i]
  <2>1. i = 1 /\ q # <<>> /\ e = Head(q)
    BY <1>0, <1>1 DEF WalletHandles, Orderly
  <2>2. SubSeq(q, 1, 1 - 1) \o SubSeq(q, 1 + 1, Len(q)) = Tail(q)
    BY <1>0, <2>1, FirstTaken, Zenon
  <2>3. inbox' = [inbox EXCEPT ![l] = SubSeq(q, 1, i - 1) \o SubSeq(q, i + 1, Len(q))]
    BY <1>0, <1>1 DEF WalletHandles
  <2>4. inbox' = [inbox EXCEPT ![l] = Tail(q)] /\ UNCHANGED <<row, actor>>
    BY <1>1, <2>1, <2>2, <2>3, Zenon DEF WalletHandles
  <2>5. \E c \in {"ok", "refused", "again"} :
          /\ mail' = mail \union {ResultMsg(e.from, l, e.key, c)}
          /\ ledger' \in {ledger, ledger \union {Key(l, e.key)}}
          /\ c = "refused" => ledger' = ledger /\ Key(l, e.key) \notin ledger
    BY <1>1 DEF WalletHandles
  <2> QED
    BY <2>1, <2>4, <2>5 DEF Answers, AnswerSent
<1>2. OperationDeadLettered(l) => AnswerSent(l, "again")
  BY <1>0 DEF OperationDeadLettered, AnswerSent
<1>3. ~OperationDuplicated(l)
  BY ChargeNeeds DEF OperationDuplicated, Budget, FaultKinds
<1>4. OperationLost(l) => NothingSent(l)
  <2> SUFFICES ASSUME OperationLost(l) PROVE NothingSent(l)
    OBVIOUS
  <2>1. actor.up /\ Head(inbox[l]).from = actor.inc => Charge({"lost"})
    BY DEF OperationLost
  <2>2. faults["lost"] \in Nat /\ MaxFaults["lost"] \in Nat
    BY TransactionConstants DEF TypeInv, FaultKinds
  <2>3. Charge({"lost"}) => MaxFaults["lost"] # 0
    BY <2>2, ChargeNeeds DEF Budget, FaultKinds
  <2> QED
    BY <1>0, <2>1, <2>3 DEF OperationLost, NothingSent
<1> QED
  BY <1>1, <1>2, <1>3, <1>4 DEF Network, Answers

\* Where nothing was left to apply, nothing is.
LEMMA NoneLeftKept ==
    ASSUME TypeInv, NEW l \in Legs, Answers(l) \/ NothingSent(l), NEW k \in Legs,
           NoneLeft(Handler, k)
    PROVE  NoneLeft(Handler, k)'
<1>0. /\ inbox \in [Legs -> Seq(Operations)] /\ inbox[l] # <<>>
      /\ inbox' = [inbox EXCEPT ![l] = Tail(inbox[l])]
      /\ ledger' \in {ledger, ledger \union {Key(l, Head(inbox[l]).key)}}
  BY DEF Answers, AnswerSent, NothingSent, TypeInv
<1>1. Head(inbox[l]) \in Entries(inbox[l]) /\ Entries(Tail(inbox[l])) \subseteq Entries(inbox[l])
  BY <1>0, EntriesType
<1>2. Entries(inbox'[k]) \subseteq Entries(inbox[k])
  BY <1>0, <1>1
<1>3. Key(k, 0) \notin ledger /\ \A e \in Entries(inbox[k]) : e.key # 0
  BY DEF NoneLeft, Handler
<1>4. Key(k, 0) \notin ledger'
  BY <1>0, <1>1, <1>3 DEF Key
<1> QED
  BY <1>2, <1>3, <1>4 DEF NoneLeft, Handler

LEMMA CopyQueue ==
    ASSUME TypeInv, NEW l \in Legs, Answers(l) \/ NothingSent(l), actor.up,
           CopyH(Handler, mail)
    PROVE  CopyH(Handler, mail)'
<1>0. /\ inbox \in [Legs -> Seq(Operations)] /\ inbox[l] # <<>>
      /\ inbox' = [inbox EXCEPT ![l] = Tail(inbox[l])] /\ UNCHANGED actor
  BY DEF Answers, AnswerSent, NothingSent, TypeInv
<1>1. /\ Handler.stage = actor.stage /\ Handler.leg = actor.leg /\ Handler.inbox = inbox
      /\ Handler'.stage = actor.stage /\ Handler'.leg = actor.leg /\ Handler'.inbox = inbox'
  BY <1>0 DEF Handler
<1> SUFFICES ASSUME actor.stage \in Working, NEW k \in Legs
             PROVE  CopyLeg(Handler, mail, k)'
  BY <1>1 DEF CopyH
<1>2. CopyLeg(Handler, mail, k)
  BY <1>1 DEF CopyH
<1>3. /\ Waits(Handler, k)' = Waits(Handler, k) /\ Expected(Handler, k)' = Expected(Handler, k)
      /\ Handler'.stage = Handler.stage
  BY <1>0, <1>1 DEF Waits, Expected, inStage
<1>4. NoneLeft(Handler, k) => NoneLeft(Handler, k)'
  BY NoneLeftKept
<1>5. ASSUME NotMine(inbox[k]), NotMine(inbox[k])', Replies(mail, k)' = Replies(mail, k),
             mail \subseteq mail'
      PROVE  CopyLeg(Handler, mail, k)'
  <2>1. Answered(Handler, mail, k) => Answered(Handler, mail, k)'
    <3> SUFFICES ASSUME Answered(Handler, mail, k) PROVE Answered(Handler, mail, k)'
      OBVIOUS
    <3>1. PICK n \in mail : /\ Replies(mail, k) = {n} /\ n.key = Expected(Handler, k)
                            /\ n.code = "refused" /\ Handler.stage # "reversing"
                                 => NoneLeft(Handler, k)
      BY DEF Answered
    <3> QED
      BY <1>1, <1>3, <1>4, <1>5, <3>1 DEF Answered
  <2>2. ~MineLast(inbox[k], Expected(Handler, k))
    <3>1. MineLast(inbox[k], Expected(Handler, k)) =>
            /\ Len(inbox[k]) \in DOMAIN inbox[k]
            /\ inbox[k][Len(inbox[k])].from = actor.inc
      BY <1>0, EmptyQueue DEF MineLast
    <3> QED
      BY <1>5, <3>1 DEF NotMine, Entries
  <2> QED
    BY <1>1, <1>2, <1>3, <1>5, <2>1, <2>2 DEF CopyLeg, Quiet
<1> DEFINE q == inbox[l]
           e == Head(q)
<1>6. q \in Seq(Operations) /\ q # <<>>
  BY <1>0
<1>7. mail \subseteq mail' /\ \A n \in mail' \ mail : n.kind = "result" /\ n.to = e.from /\ n.leg = l
  BY DEF Answers, AnswerSent, NothingSent, ResultMsg
<1>8. CASE k # l \/ e.from # actor.inc
  <2>0. inbox'[k] = inbox[k] \/ (k = l /\ inbox'[k] = Tail(q) /\ e.from # actor.inc)
    BY <1>0, <1>8
  <2>1. Replies(mail, k)' = Replies(mail, k)
    BY <1>0, <1>7, <1>8 DEF Replies
  <2>2. CASE NotMine(inbox[k])
    <3>1. NotMine(inbox'[k])
      BY <1>6, <2>0, <2>2, OthersLeft, Zenon
    <3>2. NotMine(inbox[k])'
      BY <1>0, <3>1 DEF NotMine
    <3> QED
      BY <1>5, <1>7, <2>1, <2>2, <3>2, Zenon
  <2>3. CASE ~NotMine(inbox[k])
    <3>1. /\ Waits(Handler, k) /\ Replies(mail, k) = {}
          /\ MineLast(inbox[k], Expected(Handler, k))
      BY <1>1, <1>2, <2>3, Zenon DEF CopyLeg, Quiet, Answered
    <3>2. MineLast(inbox'[k], Expected(Handler, k))
      <4>1. CASE k = l /\ inbox'[k] = Tail(q) /\ e.from # actor.inc
        <5>1. MineLast(q, Expected(Handler, k))
          BY <3>1, <4>1, Zenon
        <5>2. MineLast(Tail(q), Expected(Handler, k))
          BY <1>6, <4>1, <5>1, LastLeft, Zenon
        <5> QED
          BY <4>1, <5>2, Zenon
      <4> QED
        BY <2>0, <3>1, <4>1, Zenon
    <3>3. MineLast(inbox[k], Expected(Handler, k))'
      BY <1>0, <1>3, <3>2, Zenon DEF MineLast
    <3> QED
      BY <1>1, <1>3, <2>1, <3>1, <3>3, Zenon DEF CopyLeg
  <2> QED
    BY <2>2, <2>3
<1>9. CASE k = l /\ e.from = actor.inc
  <2>1. /\ Waits(Handler, l) /\ Replies(mail, l) = {} /\ MineLast(q, Expected(Handler, l))
    <3>1. ~NotMine(q)
      BY <1>6, <1>9, OthersLeft, Zenon
    <3> QED
      BY <1>1, <1>2, <1>9, <3>1, Zenon DEF CopyLeg, Quiet, Answered
  <2>2. Tail(q) = <<>> /\ e.key = Expected(Handler, l)
    BY <1>6, <1>9, <2>1, LastLeft, Zenon
  <2>3. inbox'[l] = <<>>
    BY <1>0, <2>2
  <2>4. Entries(inbox'[l]) = {} /\ NotMine(inbox[l])'
    BY <2>3 DEF Entries, NotMine
  <2>5. CASE NothingSent(l)
    <3>1. MaxFaults["lost"] # 0 /\ Replies(mail, l)' = {}
      BY <1>0, <1>9, <2>1, <2>5, Zenon DEF NothingSent, Replies
    <3> QED
      BY <1>1, <1>3, <1>9, <2>1, <2>4, <3>1 DEF CopyLeg, Quiet
  <2>6. ASSUME NEW c \in {"ok", "refused", "again"}, AnswerSent(l, c)
        PROVE  CopyLeg(Handler, mail, k)'
    <3> DEFINE r == ResultMsg(e.from, l, e.key, c)
    <3>1. /\ mail' = mail \union {r} /\ r.kind = "result" /\ r.to = actor.inc /\ r.leg = l
          /\ r.key = e.key /\ r.code = c
          /\ c = "refused" => ledger' = ledger /\ Key(l, e.key) \notin ledger
      BY <1>9, <2>6, Zenon DEF AnswerSent, ResultMsg
    <3> HIDE DEF r
    <3>2. Replies(mail, l)' = {r}
      BY <1>0, <2>1, <3>1 DEF Replies
    <3>3. c = "refused" /\ Handler'.stage # "reversing" => NoneLeft(Handler, l)'
      <4>1. Handler'.stage # "reversing" => e.key = 0
        BY <1>1, <2>2 DEF Expected
      <4> QED
        BY <1>1, <2>4, <3>1, <4>1 DEF NoneLeft
    <3>4. Answered(Handler, mail, l)'
      BY <1>1, <1>3, <1>9, <2>2, <2>4, <3>1, <3>2, <3>3, Zenon DEF Answered
    <3> QED
      BY <1>3, <1>9, <2>1, <3>4 DEF CopyLeg
  <2> QED
    BY <2>5, <2>6 DEF Answers
<1> QED
  BY <1>8, <1>9

\* A handler's result, seen from the state after it.
LEMMA CopyPrimed ==
    ASSUME NEW h, actor'.stage = h.stage, actor'.leg = h.leg, inbox' = h.inbox,
           actor'.inc = actor.inc, ledger' = ledger
    PROVE  /\ CopyH(h, mail') => CopyH(Handler, mail)'
           /\ \A l \in Legs : Quiet(h, mail', l) => Quiet(Handler, mail, l)'
<1>0. Handler'.stage = h.stage /\ Handler'.leg = h.leg /\ Handler'.inbox = h.inbox
  BY Zenon DEF Handler
<1>1. ASSUME NEW l \in Legs
      PROVE  /\ Replies(mail, l)' = Replies(mail', l)
             /\ NotMine(Handler.inbox[l])' = NotMine(h.inbox[l])
             /\ Waits(Handler, l)' = Waits(h, l) /\ Expected(Handler, l)' = Expected(h, l)
             /\ NoneLeft(Handler, l)' = NoneLeft(h, l)
  BY <1>0 DEF Replies, NotMine, Waits, Expected, NoneLeft, inStage
<1>2. ASSUME NEW l \in Legs
      PROVE  /\ Quiet(h, mail', l) => Quiet(Handler, mail, l)'
             /\ MineLast(h.inbox[l], Expected(h, l))
                  => MineLast(Handler.inbox[l], Expected(Handler, l))'
             /\ Answered(h, mail', l) => Answered(Handler, mail, l)'
  <2>1. Quiet(h, mail', l) => Quiet(Handler, mail, l)'
    BY <1>1 DEF Quiet
  <2>2. MineLast(h.inbox[l], Expected(h, l))
                  => MineLast(Handler.inbox[l], Expected(Handler, l))'
    BY <1>0, <1>1 DEF MineLast
  <2>3. Answered(h, mail', l) => Answered(Handler, mail, l)'
    BY <1>0, <1>1 DEF Answered
  <2> QED
    BY <2>1, <2>2, <2>3
<1> QED
  BY <1>0, <1>1, <1>2, Zenon DEF CopyH, CopyLeg

CopyInv ==
    /\ Budget
    /\ actor.up => CopyH(Handler, mail)
    /\ actor.up /\ actor.stage = "idle" => \A l \in Legs : Quiet(Handler, mail, l)
    /\ ~actor.up => actor.stage = "idle"
    /\ actor.try > 0 => actor.stage = "finalized"

\* Steps that touch neither queues nor ledger nor replies.
LEMMA CopyKept ==
    ASSUME TypeInv, CopyInv, Budget', actor'.inc = actor.inc, actor.up, actor'.up = actor.up,
           (actor'.stage = actor.stage /\ actor'.leg = actor.leg) \/ actor'.stage = "finalized",
           actor'.try > 0 => actor'.stage = "finalized",
           inbox' = inbox, ledger' = ledger,
           \A m \in mail' : m \in mail \/ m.kind # "result",
           \A m \in mail : m.kind = "result" /\ m.to = actor.inc => m \in mail'
    PROVE  CopyInv'
<1>1. \A l \in Legs : Replies(mail, l) = Replies(mail', l)
  BY DEF Replies
<1>2. /\ CopyH(Handler, mail')
      /\ actor.stage = "idle" => \A l \in Legs : Quiet(Handler, mail', l)
  BY <1>1, CopyMail, Zenon DEF CopyInv
<1>3. Handler.stage = actor.stage /\ Handler.leg = actor.leg /\ Handler.inbox = inbox
  BY DEF Handler
<1>4. CASE actor'.stage = actor.stage /\ actor'.leg = actor.leg
  <2>1. CopyH(Handler, mail)' /\ (actor'.stage = "idle" => \A l \in Legs : Quiet(Handler, mail, l)')
    BY <1>2, <1>3, <1>4, CopyPrimed
  <2> QED
    BY <1>4, <2>1 DEF CopyInv
<1>5. CASE actor'.stage = "finalized"
  <2>1. CopyH(Handler, mail)'
    BY <1>5 DEF CopyH, Handler, Working
  <2> QED
    BY <1>5, <2>1 DEF CopyInv
<1> QED
  BY <1>4, <1>5

LEMMA CopyStep ==
    ASSUME Orderly, TypeInv, PlanInv, Patient, CopyInv, [Next]_rvars
    PROVE  CopyInv'
<1>0. /\ Budget' /\ Budget /\ actor.inc \in Nat /\ actor \in Activations
      /\ inbox \in [Legs -> Seq(Operations)]
  <2>1. /\ \A k \in FaultKinds : faults'[k] <= faults[k] /\ faults[k] \in Nat /\ faults'[k] \in Nat
        /\ MaxFaults["lost"] \in Nat
    BY StepCases, TransactionConstants, Zenon DEF TypeInv, FaultKinds
  <2>2. faults["dup"] = 0 /\ faults["lost"] <= MaxFaults["lost"]
    BY DEF CopyInv, Budget
  <2>3. faults'["dup"] = 0 /\ faults'["lost"] <= MaxFaults["lost"]
    BY <2>1, <2>2 DEF FaultKinds
  <2> QED
    BY <2>2, <2>3 DEF Budget, TypeInv, Activations
<1>1. ASSUME ~actor'.up, actor'.stage = "idle", actor'.try = 0
      PROVE  CopyInv'
  BY <1>0, <1>1 DEF CopyInv
<1>2. ASSUME NEW m \in mail, NEW h \in Handlers, Reacts(m, h)
      PROVE  CopyInv'
  <2>1. Yield(m, h) /\ Takes(m) /\ Handled(m, h) /\ actor.up
    BY <1>2 DEF Reacts, Takes
  <2>2. /\ actor'.stage = h.stage /\ actor'.leg = h.leg /\ inbox' = h.inbox
        /\ ledger' = ledger /\ actor'.inc = actor.inc /\ actor'.up = actor.up
        /\ actor'.try = actor.try
    BY <2>1, YieldState, Zenon
  <2>3. /\ CopyH(h, mail \ {m})
        /\ h.stage = "idle" => \A l \in Legs : Quiet(h, mail \ {m}, l)
    BY <2>1, CopyHandled DEF CopyInv
  <2>4. \A l \in Legs : Replies(mail \ {m}, l) = Replies(mail', l)
    <3>1. mail' = (mail \ {m}) \/ mail' = (mail \ {m}) \union {FinalizeMsg(actor.inc)}
      BY <2>1 DEF Yield
    <3>2. FinalizeMsg(actor.inc).kind # "result"
      BY DEF FinalizeMsg
    <3> QED
      BY <3>1, <3>2 DEF Replies
  <2>5. /\ CopyH(h, mail')
        /\ h.stage = "idle" => \A l \in Legs : Quiet(h, mail', l)
    BY <2>3, <2>4, CopyMail, Zenon
  <2>6. /\ CopyH(Handler, mail)'
        /\ h.stage = "idle" => \A l \in Legs : Quiet(Handler, mail, l)'
    BY <2>2, <2>5, CopyPrimed
  <2>7. actor.try = 0
    BY <2>1 DEF Takes
  <2> QED
    BY <1>0, <2>1, <2>2, <2>6, <2>7 DEF CopyInv
<1>3. CASE Halts
  BY <1>1, <1>3, StoppedType, Zenon DEF Halts
<1>4. ASSUME NEW m \in mail, finalize(m)
      PROVE  CopyInv'
  <2>1. \/ actor' = actor
        \/ /\ actor'.stage = "finalized" /\ actor'.inc = actor.inc /\ actor'.up = actor.up
    BY <1>0, <1>4 DEF finalize, Activations
  <2>2. /\ actor.up /\ actor.try = 0 /\ inbox' = inbox /\ ledger' = ledger
        /\ mail' = mail \ {m} /\ m.kind # "result"
    BY <1>4 DEF finalize, Takes
  <2> QED
    BY <1>0, <2>1, <2>2, CopyKept, Zenon DEF CopyInv
<1>5. CASE TimerFires
  <2>1. /\ actor'.stage = actor.stage /\ actor'.leg = actor.leg /\ actor'.inc = actor.inc
        /\ actor'.up = actor.up /\ actor'.try = actor.try /\ actor.up
        /\ inbox' = inbox /\ ledger' = ledger
    BY <1>0, <1>5, Zenon DEF TimerFires, Activations
  <2>2. /\ \A m \in mail' : m \in mail \/ m.kind # "result"
        /\ mail \subseteq mail'
    BY <1>5 DEF TimerFires, TimeoutMsg
  <2> QED
    BY <1>0, <2>1, <2>2, CopyKept DEF CopyInv
<1>6. CASE Finals
  <2>1. /\ UNCHANGED <<ledger, inbox, mail>> /\ actor.up /\ actor.try > 0
        /\ Stopped \/ actor' = [actor EXCEPT !.try = @ + 1]
    BY <1>6, FinalType DEF Finals
  <2>2. CASE Stopped
    BY <1>1, <2>2, StoppedType, Zenon
  <2>3. CASE actor' = [actor EXCEPT !.try = @ + 1]
    <3>1. /\ actor'.stage = actor.stage /\ actor'.leg = actor.leg /\ actor'.inc = actor.inc
          /\ actor'.up = actor.up
      BY <1>0, <2>3 DEF Activations
    <3>2. actor.stage = "finalized"
      BY <2>1 DEF CopyInv
    <3> QED
      BY <1>0, <2>1, <3>1, <3>2, CopyKept
  <2> QED
    BY <2>1, <2>2, <2>3
<1>7. ASSUME NEW l \in Legs, Answers(l) \/ NothingSent(l)
      PROVE  CopyInv'
  <2>1. /\ UNCHANGED actor /\ inbox[l] # <<>>
        /\ inbox' = [inbox EXCEPT ![l] = Tail(inbox[l])]
    BY <1>7 DEF Answers, AnswerSent, NothingSent
  <2>2. actor.up => CopyH(Handler, mail)'
    BY <1>7, CopyQueue DEF CopyInv
  <2>3. ASSUME actor.up, actor.stage = "idle", NEW k \in Legs
        PROVE  Quiet(Handler, mail, k)'
    <3>1. NotMine(inbox[k]) /\ Replies(mail, k) = {} /\ NotMine(inbox[l])
      BY <2>3 DEF CopyInv, Quiet, Handler
    <3>2. Head(inbox[l]).from # actor.inc /\ NotMine(Tail(inbox[l]))
      BY <1>0, <2>1, <3>1, OthersLeft
    <3>3. NotMine(inbox'[k])
      BY <1>0, <2>1, <3>1, <3>2
    <3>4. \A n \in mail' : n \in mail \/ n.to # actor.inc
      BY <1>7, <3>2 DEF Answers, AnswerSent, NothingSent, ResultMsg
    <3> QED
      BY <2>1, <3>1, <3>3, <3>4 DEF Quiet, Handler, Replies, NotMine
  <2> QED
    BY <1>0, <2>1, <2>2, <2>3 DEF CopyInv
<1>8. ASSUME NEW l \in Legs, NEW i \in DOMAIN inbox[l], WalletHandles(l, i)
      PROVE  CopyInv'
  BY <1>0, <1>7, <1>8, QueueCases
<1>9. ASSUME NEW l \in Legs, Network(l)
      PROVE  CopyInv'
  BY <1>0, <1>7, <1>9, QueueCases
<1>10. ASSUME UNCHANGED <<actor, ledger, inbox>>,
              \A m \in mail' : m \in mail \/ m.kind # "result",
              \A m \in mail : actor.up /\ m.kind = "result" /\ m.to = actor.inc => m \in mail'
       PROVE  CopyInv'
  <2>1. CASE actor.up
    BY <1>0, <1>10, <2>1, CopyKept DEF CopyInv
  <2>2. CASE ~actor.up
    BY <1>0, <1>10, <2>2 DEF CopyInv
  <2> QED
    BY <2>1, <2>2
<1>11. CASE Around \/ GoStale
  BY <1>10, <1>11 DEF Around, GoStale
<1>12. ASSUME actor' = Placed, UNCHANGED <<ledger, inbox>>,
              \A m \in mail' : m \in mail \/ m.kind # "result",
              \A m \in mail : m.kind = "result" /\ m.to = actor.inc => m \in mail'
                \/ actor.stage = "idle"
       PROVE  CopyInv'
  <2>1. CASE actor.up
    <3>1. actor' = actor
      BY <1>12, <2>1, PlacedType
    <3>2. CASE actor.stage = "idle"
      <4>1. \A k \in Legs : NotMine(inbox[k]) /\ Replies(mail, k) = {}
        BY <2>1, <3>2 DEF CopyInv, Quiet, Handler
      <4>2. \A k \in Legs : Quiet(Handler, mail, k)'
        BY <1>12, <3>1, <4>1 DEF Quiet, Handler, Replies, NotMine
      <4>3. CopyH(Handler, mail)'
        BY <3>1, <3>2 DEF CopyH, Handler, Working
      <4> QED
        BY <1>0, <2>1, <3>1, <3>2, <4>2, <4>3 DEF CopyInv
    <3>3. CASE actor.stage # "idle"
      BY <1>10, <1>12, <3>1, <3>3
    <3> QED
      BY <3>2, <3>3
  <2>2. CASE ~actor.up
    <3>1. /\ actor'.inc = actor.inc + 1 /\ actor'.up /\ actor'.stage = "idle" /\ actor'.try = 0
      BY <1>12, <2>2, PlacedType, Zenon
    <3>2. \A m \in mail : m.to \in Nat /\ m.to <= actor.inc
      BY MailKinds DEF PlanInv
    <3>3. \A k \in Legs : Replies(mail, k)' = {}
      BY <1>0, <1>12, <3>1, <3>2 DEF Replies
    <3>4. \A k \in Legs : \A e \in Entries(inbox[k]) : e \in Operations /\ e.from <= actor.inc
      BY <1>0, EntriesType, Zenon DEF PlanInv, FromH, Handler
    <3>5. \A k \in Legs : NotMine(inbox[k])'
      BY <1>0, <1>12, <3>1, <3>4 DEF NotMine, Operations
    <3>6. CopyH(Handler, mail)'
      BY <3>1 DEF CopyH, Handler, Working
    <3> QED
      BY <1>0, <3>1, <3>3, <3>5, <3>6 DEF CopyInv, Quiet, Handler
  <2> QED
    BY <2>1, <2>2
<1>13. ASSUME NEW r \in Managers, recoverSend(r)
       PROVE  CopyInv'
  BY <1>12, <1>13 DEF recoverSend, StartMsg
<1>14. \A r \in Managers : ~markFailed(r)
  BY DEF markFailed, Patient
<1>15. CASE dispatch \/ dispatchCut
  <2>1. actor.stage = "idle"
    BY <1>15, Zenon DEF dispatch, dispatchCut, PlanInv, PlanH, Handler
  <2> QED
    BY <1>12, <1>15, <2>1 DEF dispatch, dispatchCut, StartMsg
<1> QED
  BY <1>2, <1>3, <1>4, <1>5, <1>6, <1>8, <1>9, <1>11, <1>13, <1>14, <1>15, StepCases

LEMMA CopyInit ==
    ASSUME Orderly, Init
    PROVE  CopyInv
BY TransactionConstants DEF Init, CopyInv, Budget, Orderly, Activation, FaultKinds

\* The two cardinalities that the counts below take.
LEMMA EmptyCount == Cardinality({}) = 0
<1> DEFINE F(f) == f = [T \in SUBSET {} |->
                          IF T = {} THEN 0 ELSE 1 + f[T \ {CHOOSE x : x \in T}]]
<1>1. F([T \in SUBSET {} |-> 0])
  OBVIOUS
<1>2. F(CHOOSE f : F(f))
  <2> HIDE DEF F
  <2> QED
    BY <1>1, Zenon
<1>3. (CHOOSE f : F(f))[{}] = 0
  BY <1>2, Zenon
<1> QED
  BY <1>3, Zenon DEF Cardinality

LEMMA SingleCount ==
    ASSUME NEW e
    PROVE  Cardinality({e}) = 1
<1> DEFINE F(f) == f = [T \in SUBSET {e} |->
                          IF T = {} THEN 0 ELSE 1 + f[T \ {CHOOSE x : x \in T}]]
           g == [T \in SUBSET {e} |-> IF T = {} THEN 0 ELSE 1]
<1>1. \A T \in SUBSET {e} : T # {} => T \ {CHOOSE x : x \in T} = {}
  <2> SUFFICES ASSUME NEW T \in SUBSET {e}, T # {}
               PROVE  T \ {CHOOSE x : x \in T} = {}
    OBVIOUS
  <2>1. (CHOOSE x : x \in T) \in T
    BY Zenon
  <2> QED
    BY <2>1
<1>2. F(g)
  <2>1. g[{}] = 0
    OBVIOUS
  <2> HIDE DEF g
  <2>2. g = [T \in SUBSET {e} |-> IF T = {} THEN 0 ELSE 1]
    BY DEF g
  <2> QED
    BY <1>1, <2>1, <2>2
<1>3. F(CHOOSE f : F(f))
  <2> HIDE DEF F
  <2> QED
    BY <1>2, Zenon
<1>4. (CHOOSE f : F(f))[{e}] = 1
  <2> PICK f : f = (CHOOSE h : F(h))
    OBVIOUS
  <2>1. F(f)
    BY <1>3, Zenon
  <2>2. f[{}] = 0 /\ f[{e}] = 1 + f[{e} \ {CHOOSE x : x \in {e}}]
    BY <2>1, Zenon
  <2> HIDE DEF F, g
  <2>3. PICK d : d = {e} \ {CHOOSE x : x \in {e}}
    BY Zenon
  <2>4. f[{e}] = 1 + f[d]
    BY <2>2, <2>3, Zenon
  <2>5. d = {}
    BY <1>1, <2>3
  <2>6. f[{e}] = 1
    BY <2>2, <2>4, <2>5
  <2> QED
    BY <2>6
<1> QED
  BY <1>4, Zenon DEF Cardinality

LEMMA CopyImplies ==
    ASSUME MaxFaults["lost"] = 0, TypeInv, CopyInv
    PROVE  OneCopyUnderWay
<1> SUFFICES ASSUME actor.up, actor.stage \in Working, NEW l \in Legs
             PROVE  UnderWay(l) = IF l \in outstanding(Handler) /\ ~actor.leg[l].retry
                                  THEN 1 ELSE 0
  BY DEF OneCopyUnderWay
<1> DEFINE q == inbox[l]
           mine == {i \in DOMAIN q : q[i].from = actor.inc}
<1>1. /\ Handler.stage = actor.stage /\ Handler.leg = actor.leg /\ Handler.inbox = inbox
      /\ q \in Seq(Operations)
  BY DEF Handler, TypeInv
<1>2. CopyLeg(Handler, mail, l)
  BY <1>1 DEF CopyInv, CopyH
<1>3. UnderWay(l) = Cardinality(mine) + Cardinality(Replies(mail, l))
  BY DEF UnderWay, Replies
<1>4. Cardinality({}) = 0 /\ \A x : Cardinality({x}) = 1
  BY EmptyCount, SingleCount
<1>5. (l \in outstanding(Handler) /\ ~actor.leg[l].retry) <=> Waits(Handler, l)
  BY <1>1 DEF outstanding, Waits
<1>6. NotMine(q) => Cardinality(mine) = 0
  <2>1. NotMine(q) => mine = {}
    BY DEF NotMine, Entries
  <2> QED
    BY <1>4, <2>1, Zenon
<1>7. ASSUME NEW k, MineLast(q, k)
      PROVE  Cardinality(mine) = 1
  <2>1. /\ q[Len(q)].from = actor.inc /\ q # <<>>
        /\ \A i \in 1 .. Len(q) - 1 : q[i].from # actor.inc
    BY <1>7 DEF MineLast
  <2>2. Len(q) \in Nat \ {0} /\ DOMAIN q = 1 .. Len(q)
    BY <1>1, <2>1
  <2>3. mine = {Len(q)}
    BY <2>1, <2>2
  <2> QED
    BY <1>4, <2>3, Zenon
<1>8. CASE Waits(Handler, l)
  <2>1. CASE Replies(mail, l) = {} /\ MineLast(q, Expected(Handler, l))
    <3>1. Cardinality(mine) = 1 /\ Cardinality(Replies(mail, l)) = 0
      BY <1>4, <1>7, <2>1
    <3> HIDE DEF mine
    <3> QED
      BY <1>3, <1>5, <1>8, <3>1
  <2>2. CASE Answered(Handler, mail, l)
    <3>1. Cardinality(mine) = 0
      BY <1>1, <1>6, <2>2 DEF Answered
    <3>2. PICK m \in mail : Replies(mail, l) = {m}
      BY <2>2 DEF Answered
    <3>3. Cardinality(Replies(mail, l)) = 1
      BY <1>4, <3>2, Zenon
    <3> HIDE DEF mine
    <3> QED
      BY <1>3, <1>5, <1>8, <3>1, <3>3
  <2> QED
    BY <1>1, <1>2, <1>8, <2>1, <2>2, Zenon DEF CopyLeg
<1>9. CASE ~Waits(Handler, l)
  <2>1. Cardinality(mine) = 0 /\ Cardinality(Replies(mail, l)) = 0
    BY <1>1, <1>2, <1>4, <1>6, <1>9, Zenon DEF CopyLeg, Quiet
  <2> HIDE DEF mine
  <2> QED
    BY <1>3, <1>5, <1>9, <2>1
<1> QED
  BY <1>8, <1>9

=============================================================================
