----------------------------- MODULE ReadCache -----------------------------
(***************************************************************************)
(* The Redis read cache shared by the replicas (dpk/cache), the reads that *)
(* fill it (services/transaction.go detail, services/wallet.go Get,        *)
(* GetByNumber, Create, ValidateWallets) and the writes that invalidate it *)
(* (TransactionActor.finalize, WalletActor.persist).                       *)
(*                                                                         *)
(* A row is the sequence of the ages of its versions (the time since each  *)
(* was committed), so its current version is the length of that sequence.  *)
(* A rendered payload is abstracted to the version it was rendered from.   *)
(* Versions of a transaction: 1 processing, 2 completed, 3 reversed (a     *)
(* payment only).  Time is unbounded: ages stop counting at Horizon.       *)
(* The date windows of the transaction lookups are left out: every lookup  *)
(* is inside its window, where alone a cached copy is used, and payments   *)
(* that share an order_id are of one day.                                  *)
(***************************************************************************)
EXTENDS Naturals, Sequences, FiniteSetsExt

CONSTANTS Replicas, Callers, Payments, Reversals, Wallets,
          Undoes,          \* the payment a reversal names in its provider_ref
          Orders,
          OrderOf,         \* a payment's order_id; nothing makes it unique
          CompletedTxnTTL, WalletReadTTL, WalletMetaTTL,
          MaxLoad,         \* longest time between a database answer and the
                           \* last cache call that follows from it
          MaxVersion,
          None

ASSUME CacheConstants ==
    /\ Undoes \in [Reversals -> Payments]
    /\ OrderOf \in [Payments -> Orders]
    /\ {CompletedTxnTTL, WalletReadTTL, WalletMetaTTL} \subseteq Nat \ {0}
    /\ {MaxLoad, MaxVersion} \subseteq Nat

VARIABLES
    rows,      \* rows[e]: the ages of the versions of entity e
    newest,    \* newest[o]: the payment of order o created last
    enabled,   \* enabled[n]: Start reached Redis when replica n booted
    cache,     \* the Redis keys
    caller,    \* the requests that read through the cache
    actor      \* invalidations that actors still have to send

vars == <<rows, newest, enabled, cache, caller, actor>>

----------------------------------------------------------------------------
(* Entities and keys.  A wallet's metadata is an entity of its own: it is  *)
(* cached apart from the balances.                                         *)

Txns == Payments \cup Reversals
Meta(w) == <<"meta", w>>
Entities == Txns \cup Wallets \cup {Meta(w) : w \in Wallets}

\* Transactions and wallets have ids of their own.
ASSUME EntitiesDistinct ==
    /\ Payments \cap Reversals = {} /\ Txns \cap Wallets = {}
    /\ \A w \in Wallets : Meta(w) \notin Txns \cup Wallets

TransactionKey(t) == <<"txn:id", t>>
TransactionRRNKey(t) == <<"txn:rrn", t>>
\* A reversal shares its original's order_id, and so may another payment.
TransactionOrderKey(t) == <<"txn:order", OrderOf[IF t \in Reversals THEN Undoes[t] ELSE t]>>
WalletKey(w) == <<"wallet:id", w>>
WalletNumberKey(w) == <<"wallet:number", w>>
WalletMetaKey(w) == <<"wallet:meta", w>>

TxnKeys(t) == {TransactionKey(t), TransactionRRNKey(t), TransactionOrderKey(t)}
Keys == (UNION {TxnKeys(t) : t \in Txns})
          \cup (UNION {{WalletKey(w), WalletNumberKey(w), WalletMetaKey(w)} : w \in Wallets})

walletTTL(k) == IF k[1] = "wallet:meta" THEN WalletMetaTTL ELSE WalletReadTTL
ttl(k) == IF k[1] \in {"txn:id", "txn:rrn", "txn:order"} THEN CompletedTxnTTL ELSE walletTTL(k)

\* What the database finds for a key (None: no row).  findByOrderID returns the
\* payment created last, and never a reversal.
find(k) == CASE k[1] = "wallet:meta" -> Meta(k[2])
             [] k[1] = "txn:order" -> newest[k[2]]
             [] OTHER -> k[2]

Version(e) == Len(rows[e])

\* Broken variant: a reversal is filled under the order_id it shares.
FillsOrderAlways(k, e, version) ==
    IF e \in Txns
    THEN IF version >= 2 THEN <<TransactionKey(e), TransactionRRNKey(e), TransactionOrderKey(e)>>
         ELSE <<>>
    ELSE <<k>>

\* The keys a request fills from a row, in the order of its Set calls.
Fills(k, e, version) ==
    CASE e \in Payments /\ version >= 2 ->
             <<TransactionKey(e), TransactionRRNKey(e), TransactionOrderKey(e)>>
      [] e \in Reversals /\ version >= 2 -> <<TransactionKey(e), TransactionRRNKey(e)>>
      [] e \in Txns /\ version < 2 -> <<>>
      [] OTHER -> <<k>>

----------------------------------------------------------------------------
Idle == [todo |-> <<>>]
Done == [keys |-> {}, on |-> None, age |-> 0]
Horizon == MaxLoad + Max({CompletedTxnTTL, WalletReadTTL, WalletMetaTTL})

Init ==
    /\ rows = [e \in Entities |-> <<>>]
    /\ newest = [o \in Orders |-> None]
    /\ enabled \in [Replicas -> BOOLEAN]
    /\ cache = [k \in Keys |-> None]
    /\ caller = [c \in Callers |-> Idle]
    /\ actor = [a \in Wallets \cup Reversals |-> Done]

\* Whether a cache call from replica n takes effect: a disabled client never
\* reaches Redis, an enabled one may time out; both only log.
Reaches(n) == IF enabled[n] THEN BOOLEAN ELSE {FALSE}

\* History: why an entry that is out of date, given the rows R, is not removed
\* by an invalidation of these keys.
Missed(R, keys, why) ==
    [k \in Keys |-> IF k \in keys /\ cache[k] # None /\ cache[k].version # Len(R[cache[k].of])
                    THEN [cache[k] EXCEPT !.why = why] ELSE cache[k]]

\* Start, at a restart of the replica: requests and actors on it are gone.
Start(n) ==
    LET gone == {a \in DOMAIN actor : actor[a].on = n}
    IN /\ \E up \in BOOLEAN : enabled' = [enabled EXCEPT ![n] = up]
       /\ caller' = [c \in Callers |-> IF caller[c] # Idle /\ caller[c].on = n
                                       THEN Idle ELSE caller[c]]
       /\ actor' = [a \in DOMAIN actor |-> IF a \in gone THEN Done ELSE actor[a]]
       /\ cache' = Missed(rows, UNION {actor[a].keys : a \in gone}, "unsent")
       /\ UNCHANGED <<rows, newest>>

----------------------------------------------------------------------------
(* Reads. *)

\* Broken variant: a load that found no row is cached all the same.
MissNotFound(c, n, k) ==
    /\ caller[c] = Idle
    /\ find(k) \in Wallets
    /\ caller' = [caller EXCEPT ![c] = [on |-> n, of |-> find(k), version |-> Version(find(k)),
                                       age |-> 0, todo |-> <<k>>]]
    /\ UNCHANGED <<rows, newest, enabled, cache, actor>>

\* Get finds nothing (or does not reach Redis) and the row is read from the
\* database; a hit answers at once and changes nothing.  A row that is not
\* there is an error and nothing is cached.
Miss(c, n, k) ==
    LET e == find(k)
        todo == Fills(k, e, Version(e))
    IN /\ caller[c] = Idle
       /\ FALSE \in Reaches(n) \/ cache[k] = None
       /\ e # None /\ Version(e) > 0
       /\ caller' = [caller EXCEPT ![c] =
             IF todo = <<>> THEN Idle
             ELSE [on |-> n, of |-> e, version |-> Version(e), age |-> 0, todo |-> todo]]
       /\ UNCHANGED <<rows, newest, enabled, cache, actor>>

GetByID(c, n, t) == Miss(c, n, TransactionKey(t))
GetByRRN(c, n, t) == Miss(c, n, TransactionRRNKey(t))
GetByOrderID(c, n, p) == Miss(c, n, TransactionOrderKey(p))
Get(c, n, w) == Miss(c, n, WalletKey(w))
GetByNumber(c, n, w) == Miss(c, n, WalletNumberKey(w))
ValidateWallets(c, n, w) == Miss(c, n, WalletMetaKey(w))

\* Create renders both the wallet and its metadata.
Rendered(e, k) == IF k[1] = "wallet:meta" THEN Meta(k[2]) ELSE e

\* History: a version superseded since the request loaded it is late.
Lateness(e, version) == IF version = Version(e) THEN "none" ELSE "late"

\* Broken variant: every key gets the longest TTL.
PutLongest(e, version, k) ==
    cache' = [cache EXCEPT ![k] = [of |-> Rendered(e, k), version |-> version,
                                   left |-> Horizon - MaxLoad,
                                   why |-> Lateness(Rendered(e, k), version)]]

Put(e, version, k) ==
    cache' = [cache EXCEPT ![k] =
                [of |-> Rendered(e, k), version |-> version, left |-> ttl(k),
                 why |-> Lateness(Rendered(e, k), version)]]

\* One Set call of a request.
Set(c) ==
    /\ caller[c] # Idle
    /\ \E reached \in Reaches(caller[c].on) :
         IF reached THEN Put(caller[c].of, caller[c].version, Head(caller[c].todo))
                    ELSE UNCHANGED cache
    /\ caller' = [caller EXCEPT ![c] = IF Len(@.todo) = 1 THEN Idle
                                       ELSE [@ EXCEPT !.todo = Tail(caller[c].todo)]]
    /\ UNCHANGED <<rows, newest, enabled, actor>>

\* Create commits the wallet, then fills its three keys.
Create(c, n, w) ==
    /\ caller[c] = Idle
    /\ Version(w) = 0
    /\ rows' = [rows EXCEPT ![w] = <<0>>, ![Meta(w)] = <<0>>]
    /\ caller' = [caller EXCEPT ![c] =
          [on |-> n, of |-> w, version |-> 1, age |-> 0,
           todo |-> <<WalletKey(w), WalletNumberKey(w), WalletMetaKey(w)>>]]
    /\ UNCHANGED <<newest, enabled, cache, actor>>

----------------------------------------------------------------------------
(* Writes. *)

Commit(es) == [e \in Entities |-> IF e \in es THEN Append(rows[e], 0) ELSE rows[e]]

\* A request inserts a transaction row; a reversal needs a settled original.
\* created_at is taken before the insert, so of two payments of one order the
\* later insert need not be the newest.
Insert(t) ==
    /\ Version(t) = 0
    /\ t \in Reversals => Version(Undoes[t]) = 2
    /\ rows' = Commit({t})
    /\ \/ t \in Payments /\ newest' = [newest EXCEPT ![OrderOf[t]] = t]
       \/ t \in Payments /\ newest[OrderOf[t]] # None /\ UNCHANGED newest
       \/ t \in Reversals /\ UNCHANGED newest
    /\ UNCHANGED <<enabled, cache, caller, actor>>

\* finalize of a payment, or of a reversal that failed: the row's own keys
\* were never filled, so there is nothing to invalidate.
Finalize(t) ==
    /\ Version(t) = 1
    /\ rows' = Commit({t})
    /\ UNCHANGED <<newest, enabled, cache, caller, actor>>

\* finalize of a successful reversal on replica n: markReversed flips the
\* original in the same commit, if it still is in success.
FinalizeReversal(r, n) ==
    LET p == Undoes[r]
        flipped == Version(p) = 2
        outdated == IF flipped THEN TxnKeys(p) ELSE {}
        Deletes(keys) == actor' = [actor EXCEPT ![r] = [keys |-> keys, on |-> n, age |-> 0]]
    IN /\ Version(r) = 1
       /\ rows' = Commit(IF flipped THEN {r, p} ELSE {r})
       /\ \/ Deletes(outdated) /\ UNCHANGED cache
          \* The acknowledgement is lost: a later attempt finds the row
          \* completed, and alreadyFinal knows the original by RRN and order.
          \/ /\ Deletes({TransactionRRNKey(p), TransactionOrderKey(p)})
             /\ cache' = Missed(rows', outdated \cap {TransactionKey(p)}, "unnamed")
          \* It is lost and every later attempt fails, or alreadyFinal's read.
          \/ UNCHANGED actor /\ cache' = Missed(rows', outdated, "unsent")
       /\ UNCHANGED <<newest, enabled, caller>>

\* Broken variant: only the key by id is deleted.
PersistIdOnly(w, n) ==
    /\ Version(w) \in 1..(MaxVersion - 1)
    /\ actor[w].keys = {}
    /\ rows' = Commit({w})
    /\ actor' = [actor EXCEPT ![w] = [keys |-> {WalletKey(w)}, on |-> n, age |-> 0]]
    /\ UNCHANGED <<newest, enabled, cache, caller>>

\* persist on replica n: the balance change commits, then both read keys are
\* deleted.  A commit whose acknowledgement is lost returns before the Delete.
Persist(w, n) ==
    /\ Version(w) \in 1..(MaxVersion - 1)
    /\ actor[w].keys = {}
    /\ rows' = Commit({w})
    /\ \E acked \in BOOLEAN :
         LET keys == {WalletKey(w), WalletNumberKey(w)}
         IN IF acked
            THEN /\ actor' = [actor EXCEPT ![w] = [keys |-> keys, on |-> n, age |-> 0]]
                 /\ UNCHANGED cache
            ELSE /\ cache' = Missed(rows', keys, "unsent")
                 /\ UNCHANGED actor
    /\ UNCHANGED <<newest, enabled, caller>>

\* Delete: one command removes all the keys, or none when it is not reached.
Delete(a) ==
    /\ actor[a].keys # {}
    /\ \E reached \in Reaches(actor[a].on) :
         cache' = IF reached
                  THEN [k \in Keys |-> IF k \in actor[a].keys THEN None ELSE cache[k]]
                  ELSE Missed(rows, actor[a].keys, "unsent")
    /\ actor' = [actor EXCEPT ![a] = Done]
    /\ UNCHANGED <<rows, newest, enabled, caller>>

\* An operator changes a wallet's status in SQL; no code invalidates the
\* cached metadata (the service has no operation that changes it).
ChangeMeta(w) ==
    /\ Version(Meta(w)) \in 1..(MaxVersion - 1)
    /\ rows' = Commit({Meta(w)})
    /\ UNCHANGED <<newest, enabled, cache, caller, actor>>

----------------------------------------------------------------------------
\* Time passes; Redis drops what has expired.  No request or actor dwells
\* longer than MaxLoad between its database answer and its cache calls.
Tick ==
    /\ \A c \in Callers : caller[c] # Idle => caller[c].age < MaxLoad
    /\ \A a \in DOMAIN actor : actor[a].keys # {} => actor[a].age < MaxLoad
    /\ rows' = [e \in Entities |-> [v \in DOMAIN rows[e] |-> Min({rows[e][v] + 1, Horizon})]]
    /\ cache' = [k \in Keys |-> IF cache[k] = None \/ cache[k].left = 1 THEN None
                                ELSE [cache[k] EXCEPT !.left = @ - 1]]
    /\ caller' = [c \in Callers |-> IF caller[c] = Idle THEN Idle
                                    ELSE [caller[c] EXCEPT !.age = @ + 1]]
    /\ actor' = [a \in DOMAIN actor |-> IF actor[a].keys = {} THEN Done
                                        ELSE [actor[a] EXCEPT !.age = @ + 1]]
    /\ UNCHANGED <<newest, enabled>>

Next ==
    \/ \E n \in Replicas : Start(n)
    \/ \E c \in Callers, n \in Replicas :
         \/ \E t \in Txns : GetByID(c, n, t) \/ GetByRRN(c, n, t)
         \/ \E p \in Payments : GetByOrderID(c, n, p)
         \/ \E w \in Wallets : Get(c, n, w) \/ GetByNumber(c, n, w) \/ ValidateWallets(c, n, w)
    \/ \E c \in Callers : Set(c)
    \/ \E c \in Callers, n \in Replicas, w \in Wallets : Create(c, n, w)
    \/ \E t \in Txns : Insert(t) \/ Finalize(t)
    \/ \E r \in Reversals, n \in Replicas : FinalizeReversal(r, n)
    \/ \E w \in Wallets, n \in Replicas : Persist(w, n)
    \/ \E a \in Wallets \cup Reversals : Delete(a)
    \/ \E w \in Wallets : ChangeMeta(w)
    \/ Tick

Spec == Init /\ [][Next]_vars

----------------------------------------------------------------------------
(* Properties. *)

Entry == [of : Entities, version : Nat, left : 1..Horizon,
          why : {"none", "late", "unsent", "unnamed"}]

ASSUME NoneIsNothing == None \notin Entry /\ None \notin Entities

\* Types: every key holds nothing or an entry that has not expired, of a
\* version some commit wrote.
TypeOK ==
    /\ rows \in [Entities -> Seq(0..Horizon)]
    /\ newest \in [Orders -> Payments \cup {None}]
    /\ enabled \in [Replicas -> BOOLEAN]
    /\ \A c \in Callers : caller[c] # Idle => caller[c].todo \in Seq(Keys)
    /\ \A a \in DOMAIN actor : actor[a].keys \subseteq Keys
    /\ \A k \in Keys : cache[k] # None =>
         /\ cache[k] \in Entry
         /\ cache[k].version \in 1..Version(cache[k].of)

Stale(k) == cache[k] # None /\ cache[k].version # Version(cache[k].of)

\* The TTL bounds every race (services/wallet.go: "the short TTL bounds the
\* one race a read-then-write can leave behind"): whatever is interleaved,
\* fails, restarts or runs without a cache, a superseded version is served
\* for less than the key's TTL plus the time a filling request may dwell.
StaleBounded ==
    \A k \in Keys : Stale(k) =>
        rows[cache[k].of][cache[k].version + 1] < MaxLoad + ttl(k)

\* A wallet read or transaction detail that is out of date is about to be
\* deleted by the actor that changed the row, was put there by a reader that
\* had loaded the row before that change, or was left by an invalidation that
\* was never made or never reached Redis: no key that detail, Get, GetByNumber
\* and Create fill is forgotten by finalize, alreadyFinal and persist, but for
\* the one alreadyFinal leaves to its TTL ("the original's id key").
InvalidatedUnlessLate ==
    \A k \in Keys : Stale(k) /\ k[1] # "wallet:meta" =>
        \/ \E a \in DOMAIN actor : k \in actor[a].keys
        \/ cache[k].why \in {"late", "unsent"}
        \/ /\ cache[k].why = "unnamed"
           /\ \E r \in Reversals : Version(r) >= 2 /\ k = TransactionKey(Undoes[r])

\* The entities that a lookup by key k may answer with.
Named(k) == CASE k[1] = "wallet:meta" -> {Meta(k[2])}
              [] k[1] = "txn:order" -> {p \in Payments : OrderOf[p] = k[2]}
              [] OTHER -> {k[2]}

\* A cached answer is an answer to the lookup: the entry under a key is of an
\* entity that has that id, number, RRN or order_id (an order_id never answers
\* with its reversal), and never of a transaction that is still processing.
\* It is the one that the database finds, unless the key is an order_id that a
\* second payment was inserted with: detail of either fills that key.
AnswersLookup ==
    \A k \in Keys : cache[k] # None =>
        /\ cache[k].of \in Named(k)
        /\ cache[k].of \in Txns => cache[k].version >= 2
        /\ cache[k].of # find(k) =>
             \E p \in Payments \ {cache[k].of} : k = TransactionOrderKey(p) /\ Version(p) > 0

============================================================================
