---------------------------- MODULE ServerProofs ----------------------------
(***************************************************************************)
(* Proofs about module Server, for every number of replicas, every length  *)
(* of a month, every MonthsAhead and every outage it is meant to survive.  *)
(***************************************************************************)
EXTENDS Server, FiniteSetTheorems, TLAPS

\* What the calendar and process variables range over.
CalendarOK ==
    /\ phase \in [Replicas -> Phases]
    /\ due \in [Replicas -> BOOLEAN]
    /\ day \in 0 .. DaysPerMonth - 1
    /\ sinceOk \in 0 .. MaxOutage

\* r months have begun since EnsurePartitions last succeeded: fewer than the
\* days since then account for, and each took one month off what is ready.
Rolled(r) ==
    /\ r * DaysPerMonth + day <= DaysPerMonth - 1 + sinceOk
    /\ partitionedTables \X (0 .. MonthsAhead - r) \subseteq partitions

\* A process that is up knows how long ago the last success was, because
\* sinceOk stops counting only when every process is down: a ticker that has
\* been served leaves room for one more day.
Ready ==
    /\ \A n \in Replicas : phase[n] # "down" => \E r \in 0 .. MonthsAhead : Rolled(r)
    /\ \A n \in Replicas : phase[n] \in {"down", "ready", "member"} => ~due[n]
    /\ \A n \in Replicas :
         phase[n] \in {"ready", "member", "serving"} /\ ~due[n] => sinceOk < MaxOutage

PartitionInv == CalendarOK /\ Ready

\* A month has DaysPerMonth days, and one more month adds that many.
LEMMA NextMonth ==
    ASSUME NEW r \in Nat
    PROVE  /\ (r + 1) * DaysPerMonth = r * DaysPerMonth + DaysPerMonth
           /\ r * DaysPerMonth \in Nat
           /\ MonthsAhead * DaysPerMonth \in Nat
<1>1. DaysPerMonth \in Nat /\ MonthsAhead \in Nat
  BY ServerConstants
<1> QED
  BY <1>1, SMT

\* Days short of MonthsAhead months span fewer months than that.
LEMMA MonthsWithin ==
    ASSUME NEW r \in Nat, r * DaysPerMonth < MonthsAhead * DaysPerMonth + DaysPerMonth
    PROVE  r <= MonthsAhead
<1>1. DaysPerMonth \in Nat /\ MonthsAhead \in Nat /\ DaysPerMonth > 0
  BY ServerConstants
<1>2. SUFFICES ASSUME r > MonthsAhead PROVE FALSE
  BY <1>1
<1>3. PICK k \in Nat : r = MonthsAhead + 1 + k
  BY <1>1, <1>2, r - MonthsAhead - 1 \in Nat, SMT
<1>4. r * DaysPerMonth = MonthsAhead * DaysPerMonth + DaysPerMonth + k * DaysPerMonth
  BY <1>1, <1>3, SMT
<1>5. k * DaysPerMonth \in Nat
  BY <1>1, <1>3, SMT
<1> QED
  BY <1>1, <1>4, <1>5, NextMonth

\* What a step must leave alone for PartitionInv to carry over.
LEMMA QuietStep ==
    ASSUME PartitionInv, UNCHANGED <<phase, calendarVars>>
    PROVE  PartitionInv'
  BY DEF PartitionInv, CalendarOK, Ready, Rolled, calendarVars

\* A success leaves every month up to MonthsAhead ready.
LEMMA FreshlyEnsured ==
    ASSUME CalendarOK, EnsurePartitions, day' = day
    PROVE  /\ (\E r \in 0 .. MonthsAhead : Rolled(r))'
           /\ sinceOk' \in 0 .. MaxOutage
           /\ sinceOk' < MaxOutage
<1>1. /\ DaysPerMonth \in Nat /\ MonthsAhead \in Nat /\ MaxOutage \in Nat
      /\ MaxOutage >= 1
      /\ 0 * DaysPerMonth = 0
  BY ServerConstants, NextMonth, SMT
<1>2. Rolled(0)'
  BY <1>1 DEF CalendarOK, EnsurePartitions, Creates, Rolled
<1> QED
  BY <1>1, <1>2 DEF EnsurePartitions

\* A day that begins while a process is up leaves the current month covered.
LEMMA DayPasses ==
    ASSUME PartitionInv, NextDay, NEW n \in Replicas, phase[n] # "down"
    PROVE  /\ (\E r \in 0 .. MonthsAhead : Rolled(r))'
           /\ sinceOk' = sinceOk + 1
<1>1. phase[n] = "serving" /\ ~due[n]
  BY DEF NextDay
<1>2. sinceOk < MaxOutage /\ sinceOk' = sinceOk + 1
  BY <1>1 DEF PartitionInv, Ready, NextDay
<1>3. PICK r \in 0 .. MonthsAhead : Rolled(r)
  BY DEF PartitionInv, Ready
<1>4. /\ DaysPerMonth \in Nat /\ MonthsAhead \in Nat /\ MaxOutage \in Nat
      /\ MaxOutage <= MonthsAhead * DaysPerMonth
      /\ r \in Nat /\ day \in Nat /\ sinceOk \in Nat /\ day < DaysPerMonth
  BY ServerConstants, NextMonth, <1>3 DEF PartitionInv, CalendarOK
<1>5. CASE day + 1 < DaysPerMonth
  <2>1. day' = day + 1 /\ partitions' = partitions
    BY <1>5 DEF NextDay
  <2>2. Rolled(r)'
    BY <1>2, <1>3, <1>4, <2>1, NextMonth DEF Rolled
  <2> QED
    BY <1>2, <2>2
<1>6. CASE ~(day + 1 < DaysPerMonth)
  <2>1. /\ day' = 0 /\ day = DaysPerMonth - 1
        /\ partitions' = {<<p[1], p[2] - 1>> : p \in {q \in partitions : q[2] > 0}}
    BY <1>4, <1>6 DEF NextDay
  <2>2. (r + 1) * DaysPerMonth + day' <= DaysPerMonth - 1 + sinceOk'
    BY <1>2, <1>3, <1>4, <2>1, NextMonth DEF Rolled
  <2>3. r + 1 <= MonthsAhead
    BY <1>2, <1>4, <2>1, <2>2, NextMonth, MonthsWithin
  <2>4. ASSUME NEW table \in partitionedTables, NEW m \in 0 .. MonthsAhead - (r + 1)
        PROVE  <<table, m>> \in partitions'
    <3>1. <<table, m + 1>> \in partitions
      BY <1>3, <1>4 DEF Rolled
    <3>2. /\ <<table, m + 1>>[2] > 0
          /\ <<table, m>> = <<<<table, m + 1>>[1], <<table, m + 1>>[2] - 1>>
      BY <1>4
    <3> QED
      BY <2>1, <3>1, <3>2
  <2>5. Rolled(r + 1)'
    BY <2>2, <2>4 DEF Rolled
  <2> QED
    BY <1>2, <1>4, <2>3, <2>5
<1> QED
  BY <1>5, <1>6

\* One action at a time, PartitionInv is preserved.
LEMMA PartitionStep ==
    ASSUME PartitionInv, [ServerNext]_serverVars
    PROVE  PartitionInv'
<1> USE DEF Phases
<1>1. CASE UNCHANGED serverVars
  BY <1>1, QuietStep DEF serverVars, processVars
<1>2. CASE NextDay
  <2>1. phase' = phase
    BY <1>2 DEF NextDay, processVars
  <2>2. CalendarOK'
    BY <1>2, ServerConstants DEF NextDay, PartitionInv, CalendarOK, processVars
  <2>3. ASSUME NEW n \in Replicas, phase'[n] # "down"
        PROVE  (\E r \in 0 .. MonthsAhead : Rolled(r))' /\ due'[n]
    BY <1>2, <2>1, <2>3, DayPasses DEF NextDay
  <2>4. ASSUME NEW n \in Replicas, phase'[n] \in {"down", "ready", "member"}
        PROVE  ~due'[n]
    BY <1>2, <2>1, <2>4 DEF NextDay
  <2>5. Ready'
    BY <2>3, <2>4 DEF Ready
  <2> QED
    BY <2>2, <2>5 DEF PartitionInv
<1>3. ASSUME NEW n \in Replicas, Maintain(n)
      PROVE  PartitionInv'
  <2>1. phase' = phase /\ day' = day /\ due' = [due EXCEPT ![n] = FALSE]
    BY <1>3 DEF Maintain, processVars
  <2>2. CASE EnsurePartitions
    BY <2>1, <2>2, FreshlyEnsured DEF PartitionInv, CalendarOK, Ready
  <2>3. CASE sinceOk < MaxOutage /\ UNCHANGED <<partitions, sinceOk>>
    BY <2>1, <2>3 DEF PartitionInv, CalendarOK, Ready, Rolled
  <2> QED
    BY <1>3, <2>2, <2>3 DEF Maintain
<1>4. ASSUME NEW n \in Replicas, Prepare(n)
      PROVE  PartitionInv'
  <2>1. /\ phase[n] = "down" /\ phase' = [phase EXCEPT ![n] = "ready"]
        /\ day' = day /\ due' = due /\ EnsurePartitions
    BY <1>4 DEF Prepare, Enter
  <2> QED
    BY <2>1, FreshlyEnsured DEF PartitionInv, CalendarOK, Ready
<1>5. ASSUME NEW n \in Replicas,
             Join(n) \/ Serve(n) \/ ShutdownHTTP(n) \/ GracefulStop(n) \/ Leave(n)
      PROVE  PartitionInv'
  <2>1. PICK from \in Phases \ {"down"}, to \in Phases \ {"down"} :
          /\ phase[n] = from /\ phase' = [phase EXCEPT ![n] = to]
          /\ from \in {"ready", "member"} \/ to \notin {"ready", "member", "serving"}
          /\ from \in {"ready"} \/ to # "member"
    BY <1>5 DEF Join, Serve, ShutdownHTTP, GracefulStop, Leave, Enter
  <2>2. UNCHANGED calendarVars
    BY <1>5 DEF Join, Serve, ShutdownHTTP, GracefulStop, Leave
  <2> QED
    BY <2>1, <2>2 DEF PartitionInv, CalendarOK, Ready, Rolled, calendarVars
<1>6. ASSUME NEW n \in Replicas, NEW why \in {"signal", "http", "grpc"}, Stop(n, why)
      PROVE  PartitionInv'
  <2>1. /\ phase[n] = "serving" /\ phase' = [phase EXCEPT ![n] = "stopHTTP"]
        /\ due' = [due EXCEPT ![n] = @ /\ why # "signal"]
        /\ UNCHANGED <<day, sinceOk, partitions>>
    BY <1>6 DEF Stop, Enter
  <2> QED
    BY <2>1 DEF PartitionInv, CalendarOK, Ready, Rolled
<1>7. ASSUME NEW n \in Replicas, Exit(n) \/ Crash(n)
      PROVE  PartitionInv'
  <2>1. /\ phase' = [phase EXCEPT ![n] = "down"]
        /\ due' = [due EXCEPT ![n] = FALSE]
        /\ UNCHANGED <<day, sinceOk, partitions>>
    BY <1>7 DEF Exit, Crash, Gone
  <2> QED
    BY <2>1 DEF PartitionInv, CalendarOK, Ready, Rolled
<1>8. ASSUME NEW n \in Replicas, NEW t \in Transports, Accept(n, t) \/ Answer(n, t)
      PROVE  PartitionInv'
  BY <1>8, QuietStep DEF Accept, Answer
<1>9. ASSUME NEW n \in Replicas, NEW c \in Callbacks, Finalize(n, c) \/ ResendCallback(n, c)
      PROVE  PartitionInv'
  BY <1>9, QuietStep DEF Finalize, ResendCallback, processVars
<1>10. ASSUME NEW c \in Callbacks, Works(c), UNCHANGED <<processVars, calendarVars>>
       PROVE  PartitionInv'
  BY <1>10, QuietStep DEF processVars
<1> QED
  BY <1>1, <1>2, <1>3, <1>4, <1>5, <1>6, <1>7, <1>8, <1>9, <1>10 
     DEF ServerNext, Shutdown, Signal, HTTPFails, GRPCFails

(* Partition maintenance keeps ahead of the calendar: for every length of  *)
(* a month and every MonthsAhead, no replica is in the cluster in a month  *)
(* without partitions, as long as no outage of the maintenance outlasts    *)
(* MonthsAhead months (db/partitions.go).                                  *)
THEOREM PartitionsReady == ServerSpec => []MonthCovered
<1>1. ServerInit => PartitionInv
  BY ServerConstants DEF ServerInit, PartitionInv, CalendarOK, Ready, Phases
<1>2. PartitionInv /\ [ServerNext]_serverVars => PartitionInv'
  BY PartitionStep
<1>3. PartitionInv => MonthCovered
  <2> SUFFICES ASSUME PartitionInv, NEW n \in Replicas, InCluster(n)
               PROVE  partitionedTables \X {0} \subseteq partitions
    BY DEF MonthCovered
  <2>1. PICK r \in 0 .. MonthsAhead : Rolled(r)
    BY DEF PartitionInv, Ready, InCluster
  <2>2. 0 \in 0 .. MonthsAhead - r
    BY <2>1, ServerConstants
  <2> QED
    BY <2>1, <2>2 DEF Rolled
<1> QED
  BY <1>1, <1>2, <1>3, PTL DEF ServerSpec

----------------------------------------------------------------------------
\* From the moment a server has been told to stop it takes no new requests,
\* so what its stop waited for stays true to the end.
DrainInv ==
    /\ requests \in [Replicas -> [Transports -> Nat]]
    /\ phase \in [Replicas -> Phases]
    /\ expired \in [Replicas -> BOOLEAN]
    /\ \A n \in Replicas :
         /\ phase[n] \in {"grace", "left"} => requests[n]["grpc"] = 0
         /\ phase[n] \in {"stopGRPC", "grace", "left"} /\ requests[n]["http"] > 0 => expired[n]

\* One action at a time, DrainInv is preserved.
LEMMA DrainStep ==
    ASSUME DrainInv, [ServerNext]_serverVars
    PROVE  DrainInv'
<1> USE DEF DrainInv, Phases, Transports
<1>1. CASE UNCHANGED processVars
  BY <1>1 DEF processVars
<1>2. CASE UNCHANGED serverVars \/ NextDay
           \/ (\E n \in Replicas : Maintain(n))
           \/ (\E n \in Replicas, c \in Callbacks : Finalize(n, c) \/ ResendCallback(n, c))
           \/ (\E c \in Callbacks : Works(c) /\ UNCHANGED <<processVars, calendarVars>>)
  <2>1. UNCHANGED processVars
    BY <1>2 DEF serverVars, NextDay, Maintain, Finalize, ResendCallback
  <2> QED
    BY <2>1, <1>1
<1>3. ASSUME NEW n \in Replicas, Prepare(n) \/ Join(n) \/ Serve(n)
      PROVE  DrainInv'
  BY <1>3 DEF Prepare, Join, Serve, Enter
<1>4. ASSUME NEW n \in Replicas, NEW why \in {"signal", "http", "grpc"}, Stop(n, why)
      PROVE  DrainInv'
  BY <1>4 DEF Stop, Enter
<1>5. ASSUME NEW n \in Replicas, NEW t \in Transports, Accept(n, t)
      PROVE  DrainInv'
  BY <1>5 DEF Accept, Accepts
<1>6. ASSUME NEW n \in Replicas, NEW t \in Transports, Answer(n, t)
      PROVE  DrainInv'
  BY <1>6 DEF Answer
<1>7. ASSUME NEW n \in Replicas, ShutdownHTTP(n)
      PROVE  DrainInv'
  <2>1. /\ phase[n] = "stopHTTP" /\ phase' = [phase EXCEPT ![n] = "stopGRPC"]
        /\ expired' = [expired EXCEPT ![n] = requests[n]["http"] > 0]
        /\ requests' = requests
    BY <1>7 DEF ShutdownHTTP, Enter
  <2>2. (requests[n]["http"] > 0) \in BOOLEAN
    OBVIOUS
  <2>3. expired' \in [Replicas -> BOOLEAN]
    BY <2>1, <2>2
  <2>4. ASSUME NEW k \in Replicas
        PROVE  /\ phase'[k] \in {"grace", "left"} => requests'[k]["grpc"] = 0
               /\ phase'[k] \in {"stopGRPC", "grace", "left"} /\ requests'[k]["http"] > 0
                    => expired'[k]
    <3>1. CASE k = n
      BY <2>1, <3>1
    <3>2. CASE k # n
      BY <2>1, <3>2
    <3> QED
      BY <3>1, <3>2
  <2> QED
    BY <2>1, <2>3, <2>4
<1>8. ASSUME NEW n \in Replicas, GracefulStop(n) \/ Leave(n)
      PROVE  DrainInv'
  BY <1>8 DEF GracefulStop, Leave, Enter
<1>9. ASSUME NEW n \in Replicas, Exit(n) \/ Crash(n)
      PROVE  DrainInv'
  <2>1. /\ phase' = [phase EXCEPT ![n] = "down"]
        /\ requests' = [requests EXCEPT ![n] = [t \in Transports |-> 0]]
        /\ expired' = [expired EXCEPT ![n] = FALSE]
    BY <1>9 DEF Exit, Crash, Gone
  <2>2. [t \in Transports |-> 0] \in [Transports -> Nat]
    OBVIOUS
  <2>3. /\ requests' \in [Replicas -> [Transports -> Nat]]
        /\ phase' \in [Replicas -> Phases]
        /\ expired' \in [Replicas -> BOOLEAN]
    BY <2>1, <2>2
  <2>4. ASSUME NEW k \in Replicas
        PROVE  /\ phase'[k] \in {"grace", "left"} => requests'[k]["grpc"] = 0
               /\ phase'[k] \in {"stopGRPC", "grace", "left"} /\ requests'[k]["http"] > 0
                    => expired'[k]
    <3>1. CASE k = n
      BY <2>1, <3>1
    <3>2. CASE k # n
      BY <2>1, <3>2
    <3> QED
      BY <3>1, <3>2
  <2> QED
    BY <2>3, <2>4
<1> QED
  BY <1>2, <1>3, <1>4, <1>5, <1>6, <1>7, <1>8, <1>9
     DEF ServerNext, Shutdown, Signal, HTTPFails, GRPCFails

(* A shutdown answers what was accepted: for any number of replicas and    *)
(* requests, a replica leaves the cluster with no gRPC request in flight   *)
(* and no HTTP request unless Shutdown's deadline passed (server.go Run).  *)
THEOREM DrainsBeforeLeaving == ServerSpec => []AnsweredBeforeLeaving
<1>1. ServerInit => DrainInv
  BY DEF ServerInit, DrainInv, Phases, Transports
<1>2. DrainInv /\ [ServerNext]_serverVars => DrainInv'
  BY DrainStep
<1>3. DrainInv => AnsweredBeforeLeaving
  BY DEF DrainInv, AnsweredBeforeLeaving
<1> QED
  BY <1>1, <1>2, <1>3, PTL DEF ServerSpec

----------------------------------------------------------------------------
(* The notifier's slots and attempts                                       *)

\* The channel holds one entry for every goroutine that builds, so a slot that
\* is given back was taken; attempts are counted from the first post on.
SlotInv ==
    /\ WebhookTypeOK
    /\ \A n \in Replicas : IsFiniteSet(Building(n)) /\ builds[n] = Cardinality(Building(n))
    /\ \A c \in Callbacks :
         /\ callback[c].at \in {"queued", "building"} => callback[c].posts = 0
         /\ callback[c].at \in {"posting", "sleeping"} => callback[c].posts < maxAttempts

\* What a step of one goroutine must do for SlotInv to carry over.
GoroutineOK(g) ==
    /\ g \in Goroutine
    /\ g.at \in {"queued", "building"} => g.posts = 0
    /\ g.at \in {"posting", "sleeping"} => g.posts < maxAttempts

LEMMA GoroutineStep ==
    ASSUME SlotInv, NEW c \in Callbacks, NEW g, GoroutineOK(g),
           callback' = [callback EXCEPT ![c] = g],
           \/ /\ callback[c].at # "building" /\ g.at # "building"
              /\ builds' = builds
           \/ /\ callback[c].at # "building" /\ g.at = "building" /\ g.on = callback[c].on
              /\ builds[g.on] < maxConcurrentBuilds
              /\ builds' = [builds EXCEPT ![g.on] = @ + 1]
           \/ /\ callback[c].at = "building" /\ g.at # "building" /\ g.on = callback[c].on
              /\ builds' = [builds EXCEPT ![g.on] = @ - 1]
    PROVE  SlotInv'
<1>0. /\ callback \in [Callbacks -> Goroutine]
      /\ builds \in [Replicas -> 0 .. maxConcurrentBuilds]
      /\ g \in Goroutine /\ g.on \in Replicas
      /\ maxConcurrentBuilds \in Nat
  BY WebhookConstants DEF SlotInv, WebhookTypeOK, GoroutineOK, Goroutine
<1>1. callback' \in [Callbacks -> Goroutine] /\ callback'[c] = g
  BY <1>0
<1>2. \A d \in Callbacks \ {c} : callback'[d] = callback[d]
  BY <1>0
<1>3. \A d \in Callbacks :
         /\ callback'[d].at \in {"queued", "building"} => callback'[d].posts = 0
         /\ callback'[d].at \in {"posting", "sleeping"} => callback'[d].posts < maxAttempts
  BY <1>1, <1>2 DEF SlotInv, GoroutineOK
<1>4. ASSUME NEW n \in Replicas
      PROVE  /\ IsFiniteSet(Building(n)') /\ builds'[n] = Cardinality(Building(n)')
             /\ builds'[n] \in 0 .. maxConcurrentBuilds
  <2>1. /\ IsFiniteSet(Building(n)) /\ builds[n] = Cardinality(Building(n))
        /\ builds[n] \in 0 .. maxConcurrentBuilds
    BY <1>0 DEF SlotInv
  <2>2. CASE Building(n)' = Building(n) /\ builds'[n] = builds[n]
    BY <2>1, <2>2
  <2>3. CASE /\ Building(n)' = Building(n) \union {c} /\ c \notin Building(n)
             /\ builds'[n] = builds[n] + 1 /\ builds[n] < maxConcurrentBuilds
    <3>1. IsFiniteSet(Building(n) \union {c})
            /\ Cardinality(Building(n) \union {c}) = Cardinality(Building(n)) + 1
      BY <2>1, <2>3, FS_AddElement
    <3> QED
      BY <1>0, <2>1, <2>3, <3>1
  <2>4. CASE /\ Building(n)' = Building(n) \ {c} /\ c \in Building(n)
             /\ builds'[n] = builds[n] - 1
    <3>1. IsFiniteSet(Building(n) \ {c})
            /\ Cardinality(Building(n) \ {c}) = Cardinality(Building(n)) - 1
      BY <2>1, <2>4, FS_RemoveElement
    <3>2. Cardinality(Building(n) \ {c}) \in Nat
      BY <3>1, FS_CardinalityType
    <3> QED
      BY <1>0, <2>1, <2>4, <3>1, <3>2
  <2>5. \A d \in Callbacks \ {c} : d \in Building(n)' <=> d \in Building(n)
    BY <1>2 DEF Building
  <2>6. /\ c \in Building(n) <=> callback[c].at = "building" /\ callback[c].on = n
        /\ c \in Building(n)' <=> g.at = "building" /\ g.on = n
        /\ Building(n) \subseteq Callbacks /\ Building(n)' \subseteq Callbacks
    BY <1>1 DEF Building
  <2>7. CASE c \in Building(n) <=> c \in Building(n)'
    <3>1. Building(n)' = Building(n)
      BY <2>5, <2>6, <2>7
    <3>2. builds'[n] = builds[n]
      BY <1>0, <2>6, <2>7
    <3> QED
      BY <2>2, <3>1, <3>2
  <2>8. CASE c \notin Building(n) /\ c \in Building(n)'
    <3>1. Building(n)' = Building(n) \union {c}
      BY <2>5, <2>6, <2>8
    <3>2. builds'[n] = builds[n] + 1 /\ builds[n] < maxConcurrentBuilds
      BY <1>0, <2>6, <2>8
    <3> QED
      BY <2>3, <2>8, <3>1, <3>2
  <2>9. CASE c \in Building(n) /\ c \notin Building(n)'
    <3>1. Building(n)' = Building(n) \ {c}
      BY <2>5, <2>6, <2>9
    <3>2. builds'[n] = builds[n] - 1
      BY <1>0, <2>6, <2>9
    <3> QED
      BY <2>4, <2>9, <3>1, <3>2
  <2> QED
    BY <2>7, <2>8, <2>9
<1>5. builds' \in [Replicas -> 0 .. maxConcurrentBuilds]
  <2>1. DOMAIN builds' = Replicas /\ builds' = [n \in Replicas |-> builds'[n]]
    BY <1>0
  <2> QED
    BY <1>4, <2>1
<1> QED
  BY <1>1, <1>3, <1>4, <1>5 DEF SlotInv, WebhookTypeOK

\* A process that ends takes its goroutines and its channel with it.
LEMMA EndStep ==
    ASSUME SlotInv, NEW n \in Replicas, ProcessEnds(n)
    PROVE  SlotInv'
<1>0. /\ callback \in [Callbacks -> Goroutine]
      /\ builds \in [Replicas -> 0 .. maxConcurrentBuilds]
      /\ maxConcurrentBuilds \in Nat
  BY WebhookConstants DEF SlotInv, WebhookTypeOK
<1>1. ASSUME NEW c \in Callbacks
      PROVE  /\ callback'[c] \in Goroutine
             /\ callback'[c].on = callback[c].on /\ callback'[c].posts = callback[c].posts
             /\ \/ callback'[c].at = callback[c].at
                \/ callback'[c].at = "lost" /\ callback[c].on = n
             /\ callback[c].on = n => callback'[c].at # "building"
  <2>1. callback[c] \in Goroutine
    BY <1>0
  <2>2. CASE callback[c].on = n /\ callback[c].at \notin Ended \cup {"none"}
    <3>1. callback'[c] = [callback[c] EXCEPT !.at = "lost"]
      BY <2>2 DEF ProcessEnds
    <3> QED
      BY <2>1, <2>2, <3>1 DEF Goroutine, At, Ended
  <2>3. CASE ~(callback[c].on = n /\ callback[c].at \notin Ended \cup {"none"})
    <3>1. callback'[c] = callback[c]
      BY <2>3 DEF ProcessEnds
    <3>2. callback[c].on = n => callback[c].at \in Ended \cup {"none"}
      BY <2>3
    <3> QED
      BY <2>1, <3>1, <3>2 DEF Ended
  <2> QED
    BY <2>2, <2>3
<1>2. callback' \in [Callbacks -> Goroutine]
  <2>1. callback' = [c \in Callbacks |-> callback'[c]]
    BY DEF ProcessEnds
  <2> QED
    BY <1>1, <2>1
<1>3. builds' = [builds EXCEPT ![n] = 0] /\ builds' \in [Replicas -> 0 .. maxConcurrentBuilds]
  BY <1>0 DEF ProcessEnds
<1>4. ASSUME NEW k \in Replicas
      PROVE  IsFiniteSet(Building(k)') /\ builds'[k] = Cardinality(Building(k)')
  <2>1. CASE k = n
    <3>1. Building(k)' = {}
      BY <1>1, <2>1 DEF Building
    <3> QED
      BY <1>0, <1>3, <2>1, <3>1, FS_EmptySet
  <2>2. CASE k # n
    <3>1. Building(k)' = Building(k)
      BY <1>1, <2>2 DEF Building
    <3> QED
      BY <1>0, <1>3, <2>2, <3>1 DEF SlotInv
  <2> QED
    BY <2>1, <2>2
<1>5. \A c \in Callbacks :
         /\ callback'[c].at \in {"queued", "building"} => callback'[c].posts = 0
         /\ callback'[c].at \in {"posting", "sleeping"} => callback'[c].posts < maxAttempts
  BY <1>1 DEF SlotInv
<1> QED
  BY <1>2, <1>3, <1>4, <1>5 DEF SlotInv, WebhookTypeOK

\* One action at a time, SlotInv is preserved.
LEMMA SlotStep ==
    ASSUME SlotInv, [ServerNext]_serverVars
    PROVE  SlotInv'
<1>0. /\ callback \in [Callbacks -> Goroutine]
      /\ maxAttempts \in Nat \ {0}
      /\ \A c \in Callbacks : GoroutineOK(callback[c])
  BY WebhookConstants DEF SlotInv, WebhookTypeOK, GoroutineOK
<1> USE DEF Goroutine, At, Ended, GoroutineOK
<1>1. ASSUME UNCHANGED webhookVars
      PROVE  SlotInv'
  BY <1>1 DEF SlotInv, WebhookTypeOK, Building, webhookVars
<1>2. ASSUME NEW n \in Replicas, NEW c \in Callbacks, Notify(n, c)
      PROVE  SlotInv'
  <2> DEFINE g == [at |-> "queued", on |-> n, posts |-> 0]
  <2>1. GoroutineOK(g) /\ g.at = "queued"
    BY <1>0
  <2>2. callback' = [callback EXCEPT ![c] = g] /\ builds' = builds /\ callback[c].at # "building"
    BY <1>2 DEF Notify
  <2> QED
    BY <2>1, <2>2, GoroutineStep
<1>3. ASSUME NEW c \in Callbacks, BeginBuild(c)
      PROVE  SlotInv'
  <2> DEFINE g == [callback[c] EXCEPT !.at = "building"]
  <2>1. GoroutineOK(g) /\ g.at = "building" /\ g.on = callback[c].on
    BY <1>0, <1>3 DEF BeginBuild
  <2>2. callback' = [callback EXCEPT ![c] = g] /\ callback[c].at # "building"
        /\ builds[g.on] < maxConcurrentBuilds /\ builds' = [builds EXCEPT ![g.on] = @ + 1]
    BY <1>3, <2>1 DEF BeginBuild
  <2> QED
    BY <2>1, <2>2, GoroutineStep
<1>4. ASSUME NEW c \in Callbacks, EndBuild(c)
      PROVE  SlotInv'
  <2>0. PICK next \in {"posting", "dropped"} : callback' = [callback EXCEPT ![c].at = next]
    BY <1>4 DEF EndBuild
  <2> DEFINE g == [callback[c] EXCEPT !.at = next]
  <2>1. GoroutineOK(g) /\ g.at = next /\ g.on = callback[c].on
    BY <1>0, <1>4 DEF EndBuild
  <2>2. callback' = [callback EXCEPT ![c] = g] /\ callback[c].at = "building"
        /\ builds' = [builds EXCEPT ![g.on] = @ - 1]
    BY <1>4, <2>0, <2>1 DEF EndBuild
  <2> QED
    BY <2>1, <2>2, GoroutineStep
<1>5. ASSUME NEW c \in Callbacks, Deliver(c)
      PROVE  SlotInv'
  <2>1. PICK ok \in BOOLEAN :
          callback' = [callback EXCEPT ![c].posts = @ + 1, ![c].at = post(c, ok)]
    BY <1>5 DEF Deliver
  <2> DEFINE g == [callback[c] EXCEPT !.posts = @ + 1, !.at = post(c, ok)]
  <2>2. callback[c].posts \in Nat /\ callback[c].posts < maxAttempts /\ callback[c].on \in Replicas
    BY <1>0, <1>5 DEF Deliver
  <2>3. /\ post(c, ok) \in {"acknowledged", "sleeping", "dropped"}
        /\ post(c, ok) = "sleeping" => callback[c].posts + 1 < maxAttempts
    BY <1>0, <2>2 DEF post
  <2>4. /\ g \in Goroutine /\ g.posts = callback[c].posts + 1 /\ g.at = post(c, ok)
    <3>1. callback[c] \in Goroutine /\ callback[c].posts + 1 \in 0 .. maxAttempts
          /\ post(c, ok) \in At
      BY <1>0, <2>2, <2>3
    <3> QED
      BY <3>1 DEF Goroutine
  <2>5. GoroutineOK(g) /\ g.at # "building"
    BY <2>3, <2>4
  <2>6. callback' = [callback EXCEPT ![c] = g] /\ builds' = builds /\ callback[c].at # "building"
    BY <1>0, <1>5, <2>1 DEF Deliver
  <2> QED
    BY <2>5, <2>6, GoroutineStep
<1>6. ASSUME NEW c \in Callbacks, Backoff(c)
      PROVE  SlotInv'
  <2> DEFINE g == [callback[c] EXCEPT !.at = "posting"]
  <2>1. GoroutineOK(g) /\ g.at = "posting"
    BY <1>0, <1>6 DEF Backoff
  <2>2. callback' = [callback EXCEPT ![c] = g] /\ callback[c].at # "building" /\ builds' = builds
    BY <1>6 DEF Backoff
  <2> QED
    BY <2>1, <2>2, GoroutineStep
<1>7. ASSUME NEW n \in Replicas,
             \/ Prepare(n) \/ Join(n) \/ Serve(n) \/ Maintain(n)
             \/ ShutdownHTTP(n) \/ GracefulStop(n) \/ Leave(n)
             \/ (\E t \in Transports : Accept(n, t) \/ Answer(n, t))
             \/ (\E why \in {"signal", "http", "grpc"} : Stop(n, why))
      PROVE  SlotInv'
  BY <1>1, <1>7 DEF Prepare, Join, Serve, Maintain, ShutdownHTTP, GracefulStop, Leave,
                    Accept, Answer, Stop
<1>8. ASSUME NEW n \in Replicas, Exit(n) \/ Crash(n)
      PROVE  SlotInv'
  BY <1>8, EndStep DEF Exit, Crash, Gone
<1>9. CASE NextDay \/ UNCHANGED serverVars
  BY <1>1, <1>9 DEF NextDay, serverVars
<1>10. ASSUME NEW n \in Replicas, NEW c \in Callbacks, Finalize(n, c) \/ ResendCallback(n, c)
       PROVE  SlotInv'
  BY <1>2, <1>10 DEF Finalize, ResendCallback
<1>11. ASSUME NEW c \in Callbacks, Works(c)
       PROVE  SlotInv'
  BY <1>3, <1>4, <1>5, <1>6, <1>11 DEF Works
<1> QED
  BY <1>7, <1>8, <1>9, <1>10, <1>11
     DEF ServerNext, Shutdown, Signal, HTTPFails, GRPCFails

LEMMA SlotInit == ServerInit => SlotInv
<1> SUFFICES ASSUME ServerInit PROVE SlotInv
  OBVIOUS
<1>1. PICK n \in Replicas :
        callback = [c \in Callbacks |-> [at |-> "none", on |-> n, posts |-> 0]]
  BY DEF ServerInit, NewNotifier
<1>2. builds = [k \in Replicas |-> 0]
  BY DEF ServerInit, NewNotifier
<1>3. \A k \in Replicas : Building(k) = {}
  BY <1>1 DEF Building
<1>4. IsFiniteSet({}) /\ Cardinality({}) = 0
  BY FS_EmptySet
<1>5. WebhookTypeOK
  BY <1>1, <1>2, WebhookConstants DEF WebhookTypeOK, Goroutine, At, Ended
<1> QED
  BY <1>1, <1>2, <1>3, <1>4, <1>5 DEF SlotInv

(* For any number of callbacks, replicas, attempts and slots, and however  *)
(* builds, posts, crashes and restarts interleave, a process renders at    *)
(* most maxConcurrentBuilds payloads at once (webhook.go Notify): the      *)
(* channel has one entry for each goroutine that builds.                   *)
THEOREM BuildsAreCapped == ServerSpec => []BuildsCapped
<1>1. SlotInv /\ [ServerNext]_serverVars => SlotInv'
  BY SlotStep
<1>2. SlotInv => BuildsCapped
  BY WebhookConstants DEF SlotInv, WebhookTypeOK, BuildsCapped
<1> QED
  BY <1>1, <1>2, SlotInit, PTL DEF ServerSpec

----------------------------------------------------------------------------
(* Types                                                                   *)

\* The variables that neither PartitionInv nor SlotInv types.
RestOK ==
    /\ cause \in [Replicas -> {"none", "signal", "http", "grpc"}]
    /\ requests \in [Replicas -> [Transports -> 0 .. MaxRequests]]
    /\ expired \in [Replicas -> BOOLEAN]
    /\ partitions \subseteq partitionedTables \X (0 .. MonthsAhead)

LEMMA RestStep ==
    ASSUME RestOK, [ServerNext]_serverVars
    PROVE  RestOK'
<1>0. MonthsAhead \in Nat /\ MaxRequests \in Nat
  BY ServerConstants
<1> USE DEF RestOK
<1>1. ASSUME UNCHANGED <<cause, requests, expired, partitions>>
      PROVE  RestOK'
  BY <1>1
<1>2. EnsurePartitions => partitions' \subseteq partitionedTables \X (0 .. MonthsAhead)
  BY DEF EnsurePartitions, Creates
<1>3. CASE NextDay
  <2>1. UNCHANGED <<cause, requests, expired>>
    BY <1>3 DEF NextDay, processVars
  <2>2. ASSUME NEW p \in partitions, p[2] > 0
        PROVE  <<p[1], p[2] - 1>> \in partitionedTables \X (0 .. MonthsAhead)
    BY <1>0, <2>2
  <2>3. \/ partitions' = partitions
        \/ partitions' = {<<p[1], p[2] - 1>> : p \in {q \in partitions : q[2] > 0}}
    BY <1>3 DEF NextDay
  <2> QED
    BY <2>1, <2>2, <2>3
<1>4. ASSUME NEW n \in Replicas, Maintain(n) \/ Prepare(n)
      PROVE  RestOK'
  <2>1. UNCHANGED <<cause, requests, expired>>
    BY <1>4 DEF Maintain, Prepare, processVars
  <2>2. EnsurePartitions \/ partitions' = partitions
    BY <1>4 DEF Maintain, Prepare
  <2> QED
    BY <1>2, <2>1, <2>2
<1>5. ASSUME NEW n \in Replicas, Join(n) \/ Serve(n) \/ GracefulStop(n) \/ Leave(n)
      PROVE  RestOK'
  BY <1>1, <1>5 DEF Join, Serve, GracefulStop, Leave, calendarVars
<1>6. ASSUME NEW n \in Replicas, NEW why \in {"signal", "http", "grpc"}, Stop(n, why)
      PROVE  RestOK'
  BY <1>6 DEF Stop
<1>7. ASSUME NEW n \in Replicas, ShutdownHTTP(n)
      PROVE  RestOK'
  <2>1. (requests[n]["http"] > 0) \in BOOLEAN
    OBVIOUS
  <2>2. /\ expired' = [expired EXCEPT ![n] = requests[n]["http"] > 0]
        /\ UNCHANGED <<cause, requests, partitions>>
    BY <1>7 DEF ShutdownHTTP, calendarVars
  <2>3. expired' \in [Replicas -> BOOLEAN]
    BY <2>1, <2>2
  <2> QED
    BY <2>2, <2>3
<1>8. ASSUME NEW n \in Replicas, NEW t \in Transports, Accept(n, t) \/ Answer(n, t)
      PROVE  RestOK'
  <2>1. requests[n] \in [Transports -> 0 .. MaxRequests] /\ requests[n][t] \in 0 .. MaxRequests
    OBVIOUS
  <2>2. PICK i \in 0 .. MaxRequests : requests' = [requests EXCEPT ![n][t] = i]
    <3>1. CASE Accept(n, t)
      <4>1. requests[n][t] + 1 \in 0 .. MaxRequests
              /\ requests' = [requests EXCEPT ![n][t] = requests[n][t] + 1]
        BY <1>0, <2>1, <3>1 DEF Accept
      <4> QED
        BY <4>1
    <3>2. CASE Answer(n, t)
      <4>1. requests[n][t] - 1 \in 0 .. MaxRequests
              /\ requests' = [requests EXCEPT ![n][t] = requests[n][t] - 1]
        BY <1>0, <2>1, <3>2 DEF Answer
      <4> QED
        BY <4>1
    <3> QED
      BY <1>8, <3>1, <3>2
  <2>3. requests' \in [Replicas -> [Transports -> 0 .. MaxRequests]]
    BY <2>1, <2>2
  <2>4. UNCHANGED <<cause, expired, partitions>>
    BY <1>8 DEF Accept, Answer, calendarVars
  <2> QED
    BY <2>3, <2>4
<1>9. ASSUME NEW n \in Replicas, Exit(n) \/ Crash(n)
      PROVE  RestOK'
  <2>1. [t \in Transports |-> 0] \in [Transports -> 0 .. MaxRequests]
    BY <1>0
  <2>2. /\ cause' = [cause EXCEPT ![n] = "none"]
        /\ requests' = [requests EXCEPT ![n] = [t \in Transports |-> 0]]
        /\ expired' = [expired EXCEPT ![n] = FALSE]
        /\ partitions' = partitions
    BY <1>9 DEF Exit, Crash, Gone
  <2>3. requests' \in [Replicas -> [Transports -> 0 .. MaxRequests]]
    BY <2>1, <2>2
  <2>4. /\ cause' \in [Replicas -> {"none", "signal", "http", "grpc"}]
        /\ expired' \in [Replicas -> BOOLEAN]
    BY <2>2
  <2> QED
    BY <2>2, <2>3, <2>4
<1>10. ASSUME NEW n \in Replicas, NEW c \in Callbacks, Finalize(n, c) \/ ResendCallback(n, c)
       PROVE  RestOK'
  BY <1>1, <1>10 DEF Finalize, ResendCallback, processVars, calendarVars
<1>11. CASE UNCHANGED <<processVars, calendarVars>>
  BY <1>1, <1>11 DEF processVars, calendarVars
<1>12. CASE UNCHANGED serverVars
  BY <1>11, <1>12 DEF serverVars
<1> QED
  BY <1>3, <1>4, <1>5, <1>6, <1>7, <1>8, <1>9, <1>10, <1>11, <1>12
     DEF ServerNext, Shutdown, Signal, HTTPFails, GRPCFails

(* Every variable of the process keeps its type.  Not by its form alone:   *)
(* the length of n.builds stays between zero and the channel's capacity    *)
(* only because one entry stands for each goroutine that builds, and posts *)
(* stay within maxAttempts only because the loop ends there.               *)
THEOREM ServerTypes == ServerSpec => []TypeOK
<1>1. ServerInit => PartitionInv /\ SlotInv /\ RestOK
  <2>1. ServerInit => PartitionInv
    BY ServerConstants DEF ServerInit, PartitionInv, CalendarOK, Ready, Phases
  <2>2. ServerInit => RestOK
    BY ServerConstants DEF ServerInit, RestOK, Transports
  <2> QED
    BY <2>1, <2>2, SlotInit
<1>2. PartitionInv /\ SlotInv /\ RestOK /\ [ServerNext]_serverVars
        => PartitionInv' /\ SlotInv' /\ RestOK'
  BY PartitionStep, SlotStep, RestStep
<1>3. PartitionInv /\ SlotInv /\ RestOK => TypeOK
  BY DEF PartitionInv, CalendarOK, SlotInv, RestOK, TypeOK
<1> QED
  BY <1>1, <1>2, <1>3, PTL DEF ServerSpec
=============================================================================
