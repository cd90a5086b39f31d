------------------------------ MODULE Webhook ------------------------------
(***************************************************************************)
(* The callback notifier of internal/webhook: one goroutine per call of    *)
(* Notify, which takes a build slot, renders the payload, gives the slot   *)
(* back and posts up to maxAttempts times.  Each replica has its own       *)
(* notifier, so a goroutine and its slot live on one replica and die with  *)
(* its process.  Every callback here has a callback_url: without one,      *)
(* Notify returns at once.  What the payload says is in module Movements.  *)
(***************************************************************************)
EXTENDS Integers, FiniteSets

CONSTANTS Replicas, Callbacks, maxAttempts, maxConcurrentBuilds

ASSUME WebhookConstants == {maxAttempts, maxConcurrentBuilds} \subseteq Nat \ {0}

VARIABLES
    callback,  \* callback[c]: where goroutine c is and on which replica
    builds     \* builds[n]: the length of the channel n.builds

webhookVars == <<callback, builds>>

\* How a goroutine ends: a 2xx answer; no encoding or no attempt left;
\* process gone.
Ended == {"acknowledged", "dropped", "lost"}
At == {"none", "queued", "building", "posting", "sleeping"} \cup Ended

Goroutine == [at : At, on : Replicas, posts : 0 .. maxAttempts]

NewNotifier ==
    /\ \E n \in Replicas :
         callback = [c \in Callbacks |-> [at |-> "none", on |-> n, posts |-> 0]]
    /\ builds = [n \in Replicas |-> 0]

Notify(n, c) ==
    /\ callback[c].at \in Ended \cup {"none"}
    /\ callback' = [callback EXCEPT ![c] =
                      [at |-> "queued", on |-> n, posts |-> 0]]
    /\ UNCHANGED builds

\* Broken variant: the send is not on a bounded channel.
BeginBuildUncapped(c) ==
    /\ callback[c].at = "queued"
    /\ callback' = [callback EXCEPT ![c].at = "building"]
    /\ builds' = [builds EXCEPT ![callback[c].on] = @ + 1]

\* Broken variant: the send is tried once, and the build made all the same.
BeginBuildUnblocked(c) ==
    /\ callback[c].at = "queued"
    /\ callback' = [callback EXCEPT ![c].at = "building"]
    /\ \/ /\ builds[callback[c].on] < maxConcurrentBuilds
          /\ builds' = [builds EXCEPT ![callback[c].on] = @ + 1]
       \/ builds[callback[c].on] = maxConcurrentBuilds /\ UNCHANGED builds

\* The send on n.builds: it blocks while the channel is full.
BeginBuild(c) ==
    /\ callback[c].at = "queued"
    /\ builds[callback[c].on] < maxConcurrentBuilds
    /\ callback' = [callback EXCEPT ![c].at = "building"]
    /\ builds' = [builds EXCEPT ![callback[c].on] = @ + 1]

\* Broken variant: the slot is not given back.
EndBuildLeaking(c) ==
    /\ callback[c].at = "building"
    /\ callback' = [callback EXCEPT ![c].at = "posting"]
    /\ UNCHANGED builds

\* The payload is built and the slot given back; deliver drops a payload it
\* cannot encode before the first post.
EndBuild(c) ==
    /\ callback[c].at = "building"
    /\ \E next \in {"posting", "dropped"} : callback' = [callback EXCEPT ![c].at = next]
    /\ builds' = [builds EXCEPT ![callback[c].on] = @ - 1]

\* A post is acknowledged by a 2xx answer.  Any other answer, an error or a
\* timeout counts as a failure, although the receiver may have had it.
post(c, ok) ==
    IF ok THEN "acknowledged"
    ELSE IF callback[c].posts + 1 < maxAttempts THEN "sleeping" ELSE "dropped"

\* One pass of the loop of deliver.
Deliver(c) ==
    /\ callback[c].at = "posting"
    /\ \E ok \in BOOLEAN :
         callback' = [callback EXCEPT ![c].posts = @ + 1, ![c].at = post(c, ok)]
    /\ UNCHANGED builds

Backoff(c) ==
    /\ callback[c].at = "sleeping"
    /\ callback' = [callback EXCEPT ![c].at = "posting"]
    /\ UNCHANGED builds

\* Nothing waits for these goroutines: the process ends under them.
ProcessEnds(n) ==
    /\ callback' = [c \in Callbacks |->
         IF callback[c].on = n /\ callback[c].at \notin Ended \cup {"none"}
         THEN [callback[c] EXCEPT !.at = "lost"] ELSE callback[c]]
    /\ builds' = [builds EXCEPT ![n] = 0]

Works(c) == BeginBuild(c) \/ EndBuild(c) \/ Deliver(c) \/ Backoff(c)

\* A post ends at its timeout, and a backoff too.  A build ends when its
\* queries do: they carry no deadline, so that is assumed of the database.
\* Blocked senders of a Go channel are served in order, so a slot that keeps
\* coming free is obtained.
NotifierFairness ==
    \A c \in Callbacks :
      /\ SF_webhookVars(BeginBuild(c))
      /\ WF_webhookVars(EndBuild(c) \/ Deliver(c) \/ Backoff(c))

WebhookTypeOK ==
    /\ callback \in [Callbacks -> Goroutine]
    /\ builds \in [Replicas -> 0 .. maxConcurrentBuilds]

\* The callbacks replica n is rendering, each with queries of its own.
Building(n) == {c \in Callbacks : callback[c].at = "building" /\ callback[c].on = n}

(* However callbacks, failed posts, crashes and restarts interleave, a     *)
(* process never renders more than maxConcurrentBuilds payloads at once:   *)
(* a slot is given back only by the goroutine that took it (webhook.go,    *)
(* "cap them so callbacks can't starve the DB pool").                      *)
BuildsCapped ==
    \A n \in Replicas : Cardinality(Building(n)) <= maxConcurrentBuilds

(* Whatever the receivers answer, every callback handed to Notify comes to *)
(* an end: a build slot is never leaked, so no later callback waits on the *)
(* builds channel for ever (webhook.go Notify and deliver).                *)
Concludes ==
    \A c \in Callbacks : (callback[c].at = "queued") ~> (callback[c].at \in Ended)
=============================================================================
