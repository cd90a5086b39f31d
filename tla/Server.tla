------------------------------- MODULE Server -------------------------------
(***************************************************************************)
(* The life of a replica's process: main (migrations, partitions), Run     *)
(* (cluster member, servers, maintenance), the shutdown sequence, crashes  *)
(* and restarts; the monthly partitions the replicas keep ready; and the   *)
(* callback notifier of each process (module Webhook).                     *)
(*                                                                         *)
(* Time is unbounded: months have DaysPerMonth days, and partitions are    *)
(* named by how far their month is ahead of the current one.  Booting and  *)
(* shutting down take well under a day.  The boot steps that cannot be     *)
(* told apart by the properties (logger, configuration, cache connection)  *)
(* are left out; any of the others may fail, which ends the process.       *)
(***************************************************************************)
EXTENDS Webhook

CONSTANTS
    MonthsAhead,
    DaysPerMonth,
    MaxOutage,    \* longest run of days on which no maintenance succeeds
    MaxRequests   \* bound: requests in flight per replica and transport

ASSUME ServerConstants ==
    /\ {MonthsAhead, DaysPerMonth, MaxOutage, MaxRequests} \subseteq Nat
    /\ DaysPerMonth > 0
    /\ MaxOutage \in 1 .. MonthsAhead * DaysPerMonth

VARIABLES
    phase,       \* phase[n]: how far main and Run are on replica n
    cause,       \* cause[n]: which case of Run's select was taken
    requests,    \* requests[n][t]: requests in flight on transport t
    expired,     \* expired[n]: httpServer.Shutdown returned at its deadline
    day,         \* the day of the month, from 0
    due,         \* due[n]: the daily ticker of replica n has fired
    sinceOk,     \* days since EnsurePartitions last succeeded anywhere
    partitions   \* the <<table, months ahead>> that have a partition

processVars == <<phase, cause, requests, expired>>
calendarVars == <<day, due, sinceOk, partitions>>
serverVars == <<processVars, calendarVars, webhookVars>>

Transports == {"http", "grpc"}
\* down; migrated and partitioned; member of the cluster; serving; in
\* httpServer.Shutdown; in GracefulStop; in the grace period; cluster left.
Phases == {"down", "ready", "member", "serving", "stopHTTP", "stopGRPC", "grace", "left"}
InCluster(n) == phase[n] \in {"member", "serving", "stopHTTP", "stopGRPC", "grace"}
Stopping(n) == phase[n] \in {"stopHTTP", "stopGRPC", "grace", "left"}

ServerInit ==
    /\ NewNotifier
    /\ phase = [n \in Replicas |-> "down"]
    /\ cause = [n \in Replicas |-> "none"]
    /\ requests = [n \in Replicas |-> [t \in Transports |-> 0]]
    /\ expired = [n \in Replicas |-> FALSE]
    /\ day = 0
    /\ due = [n \in Replicas |-> FALSE]
    /\ sinceOk = 0
    /\ partitions = {}

----------------------------------------------------------------------------
(* Partitions.                                                             *)

partitionedTables == {"transactions", "ledgers"}

\* Broken variant: the loop stops before the last month.
CreatesOneShort == partitionedTables \X {m \in 0 .. MonthsAhead : m < MonthsAhead}

\* The partitions one call of EnsurePartitions leaves in place.
Creates == partitionedTables \X (0 .. MonthsAhead)

\* One transaction under the advisory lock: all the partitions or none.
EnsurePartitions ==
    /\ partitions' = partitions \cup Creates
    /\ sinceOk' = 0

\* An error of the maintenance run is only logged.
Maintain(n) ==
    /\ due[n]
    /\ due' = [due EXCEPT ![n] = FALSE]
    /\ \/ EnsurePartitions
       \/ sinceOk < MaxOutage /\ UNCHANGED <<partitions, sinceOk>>
    /\ UNCHANGED <<day, processVars, webhookVars>>

NextDay ==
    /\ \A n \in Replicas : phase[n] \in {"down", "serving"} /\ ~due[n]
    /\ IF day + 1 < DaysPerMonth
       THEN day' = day + 1 /\ UNCHANGED partitions
       ELSE day' = 0 /\ partitions' = {<<p[1], p[2] - 1>> : p \in {q \in partitions : q[2] > 0}}
    /\ sinceOk' = IF sinceOk < MaxOutage THEN sinceOk + 1 ELSE sinceOk
    /\ due' = [n \in Replicas |-> phase[n] = "serving"]
    /\ UNCHANGED <<processVars, webhookVars>>

----------------------------------------------------------------------------
(* Boot.                                                                   *)

Enter(n, from, to) ==
    /\ phase[n] = from
    /\ phase' = [phase EXCEPT ![n] = to]

\* Migrations, then the partitions.  When either fails nothing is left
\* behind but migrations already applied, and the process ends: no step.
Prepare(n) ==
    /\ Enter(n, "down", "ready")
    /\ EnsurePartitions
    /\ UNCHANGED <<cause, requests, expired, day, due, webhookVars>>

Join(n) ==
    /\ Enter(n, "ready", "member")
    /\ UNCHANGED <<cause, requests, expired, calendarVars, webhookVars>>

Serve(n) ==
    /\ Enter(n, "member", "serving")
    /\ UNCHANGED <<cause, requests, expired, calendarVars, webhookVars>>

----------------------------------------------------------------------------
(* Requests.  While HTTP drains, the gRPC server has not been told to stop *)
(* and still accepts, unless it is the one that failed.                    *)

Accepts(n, t) ==
    \/ phase[n] = "serving"
    \/ t = "grpc" /\ phase[n] = "stopHTTP" /\ cause[n] # "grpc"

Accept(n, t) ==
    /\ Accepts(n, t)
    /\ requests[n][t] < MaxRequests
    /\ requests' = [requests EXCEPT ![n][t] = @ + 1]
    /\ UNCHANGED <<phase, cause, expired, calendarVars, webhookVars>>

Answer(n, t) ==
    /\ requests[n][t] > 0
    /\ requests' = [requests EXCEPT ![n][t] = @ - 1]
    /\ UNCHANGED <<phase, cause, expired, calendarVars, webhookVars>>

\* An actor of this replica finalizes a transaction.
Finalize(n, c) ==
    /\ InCluster(n)
    /\ Notify(n, c)
    /\ UNCHANGED <<processVars, calendarVars>>

\* A request this replica serves asks for the callback again.
ResendCallback(n, c) ==
    /\ \E t \in Transports : requests[n][t] > 0
    /\ Notify(n, c)
    /\ UNCHANGED <<processVars, calendarVars>>

----------------------------------------------------------------------------
(* Shutdown.                                                               *)

\* Run leaves its select.  A signal also ends ctx, and with it the
\* maintenance loop; the error of a server does not.
Stop(n, why) ==
    /\ Enter(n, "serving", "stopHTTP")
    /\ cause' = [cause EXCEPT ![n] = why]
    /\ due' = [due EXCEPT ![n] = @ /\ why # "signal"]
    /\ UNCHANGED <<requests, expired, day, sinceOk, partitions, webhookVars>>

Signal(n) == Stop(n, "signal")

\* Its listener could not be opened, or failed later.
HTTPFails(n) == Stop(n, "http")
GRPCFails(n) == Stop(n, "grpc")

\* Broken variant: Shutdown is given no deadline.
ShutdownHTTPPatient(n) ==
    /\ Enter(n, "stopHTTP", "stopGRPC")
    /\ requests[n]["http"] = 0
    /\ UNCHANGED <<cause, requests, expired, calendarVars, webhookVars>>

\* Shutdown returns when HTTP is idle, or at ShutdownTimeout leaving the
\* requests running.
ShutdownHTTP(n) ==
    /\ Enter(n, "stopHTTP", "stopGRPC")
    /\ expired' = [expired EXCEPT ![n] = requests[n]["http"] > 0]
    /\ UNCHANGED <<cause, requests, calendarVars, webhookVars>>

\* Broken variant: Stop, which does not wait for the requests.
GracefulStopAtOnce(n) ==
    /\ Enter(n, "stopGRPC", "grace")
    /\ UNCHANGED <<cause, requests, expired, calendarVars, webhookVars>>

\* GracefulStop has no deadline.
GracefulStop(n) ==
    /\ Enter(n, "stopGRPC", "grace")
    /\ requests[n]["grpc"] = 0
    /\ UNCHANGED <<cause, requests, expired, calendarVars, webhookVars>>

Leave(n) ==
    /\ Enter(n, "grace", "left")
    /\ UNCHANGED <<cause, requests, expired, calendarVars, webhookVars>>

\* The process is gone, with its requests, callbacks and ticker.
Gone(n) ==
    /\ phase' = [phase EXCEPT ![n] = "down"]
    /\ cause' = [cause EXCEPT ![n] = "none"]
    /\ requests' = [requests EXCEPT ![n] = [t \in Transports |-> 0]]
    /\ expired' = [expired EXCEPT ![n] = FALSE]
    /\ due' = [due EXCEPT ![n] = FALSE]
    /\ ProcessEnds(n)
    /\ UNCHANGED <<day, sinceOk, partitions>>

\* Run returns, and main with it.
Exit(n) == phase[n] = "left" /\ Gone(n)

\* The process is killed, or main ends it on an error of Run while booting.
Crash(n) == phase[n] # "down" /\ Gone(n)

----------------------------------------------------------------------------
Shutdown(n) == ShutdownHTTP(n) \/ GracefulStop(n) \/ Leave(n) \/ Exit(n)

ServerNext ==
    \/ NextDay
    \/ \E n \in Replicas :
         \/ Prepare(n) \/ Join(n) \/ Serve(n)
         \/ \E t \in Transports : Accept(n, t) \/ Answer(n, t)
         \/ Signal(n) \/ HTTPFails(n) \/ GRPCFails(n)
         \/ Shutdown(n) \/ Crash(n) \/ Maintain(n)
         \/ \E c \in Callbacks : Finalize(n, c) \/ ResendCallback(n, c)
    \/ \E c \in Callbacks : Works(c) /\ UNCHANGED <<processVars, calendarVars>>

\* Run goes on to its next statement.  Nothing is assumed of handlers (a
\* health watch or a reflection stream stays open as long as its client
\* likes), of boots, of days or of the receivers of callbacks.
ServerFairness ==
    /\ NotifierFairness
    /\ \A n \in Replicas : WF_serverVars(Shutdown(n))

ServerSpec == ServerInit /\ [][ServerNext]_serverVars /\ ServerFairness

----------------------------------------------------------------------------
TypeOK ==
    /\ WebhookTypeOK
    /\ phase \in [Replicas -> Phases]
    /\ cause \in [Replicas -> {"none", "signal", "http", "grpc"}]
    /\ requests \in [Replicas -> [Transports -> 0 .. MaxRequests]]
    /\ expired \in [Replicas -> BOOLEAN]
    /\ day \in 0 .. DaysPerMonth - 1
    /\ due \in [Replicas -> BOOLEAN]
    /\ sinceOk \in 0 .. MaxOutage
    /\ partitions \subseteq partitionedTables \X (0 .. MonthsAhead)

(* While any replica is in the cluster, and so may insert rows, the current *)
(* month has its partitions: neither a fleet that was down for months nor  *)
(* MonthsAhead months of failing maintenance reaches a month without one   *)
(* (partitions.go, "a long-running node never reaches a month without a    *)
(* partition").                                                            *)
MonthCovered ==
    \A n \in Replicas : InCluster(n) => partitionedTables \X {0} \subseteq partitions

(* A replica leaves the cluster only when the gRPC requests it accepted are *)
(* answered, and the HTTP ones too unless ShutdownTimeout cut the wait     *)
(* short (server.go, "Stop accepting work first, then leave the cluster"), *)
(* although gRPC still accepts requests while HTTP drains.                 *)
AnsweredBeforeLeaving ==
    \A n \in Replicas : phase[n] = "left" =>
      /\ requests[n]["grpc"] = 0
      /\ requests[n]["http"] > 0 => expired[n]

\* GracefulStop waits for gRPC calls of replica n that are never over.
HeldByGRPC(n) == <>[](phase[n] = "stopGRPC" /\ requests[n]["grpc"] > 0)

(* A shutdown, once begun, ends with the process gone, whatever HTTP       *)
(* requests hang and whatever callbacks are still being retried; the one   *)
(* thing that can keep the process for ever is a gRPC call that stays open *)
(* once GracefulStop waits for it, which has no deadline (Run).            *)
Exits == \A n \in Replicas : HeldByGRPC(n) \/ (Stopping(n) ~> phase[n] = "down")
=============================================================================
