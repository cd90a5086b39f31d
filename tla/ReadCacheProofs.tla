-------------------------- MODULE ReadCacheProofs --------------------------
(***************************************************************************)
(* Theorems about ReadCache for any number of replicas, requests, payments *)
(* and wallets, any lifetimes of the keys and any number of versions.      *)
(***************************************************************************)
EXTENDS ReadCache, SequenceTheorems, TLAPS

\* A request between its database answer and its last Set call.
Loads == [on : Replicas, of : Entities, version : Nat, age : 0 .. MaxLoad,
          todo : Seq(Keys) \ {<<>>}]

\* With the rows R: of a version of entity e, the next one is at most age old.
Recent(R, e, version, age) ==
    /\ version \in 1 .. Len(R[e])
    /\ e \in Txns => version >= 2
    /\ version < Len(R[e]) => R[e][version + 1] <= age

\* What a request is about to set answers the lookup of its key, and is
\* outdated by no more than the time the request has taken.
Loaded(R, q) ==
    \/ q = Idle
    \/ /\ q \in Loads
       /\ \A i \in 1 .. Len(q.todo) :
            /\ Rendered(q.of, q.todo[i]) \in Named(q.todo[i])
            /\ Recent(R, Rendered(q.of, q.todo[i]), q.version, q.age)

\* What is left of a key's lifetime makes up for the age of what it misses.
Cached(R, x, k) ==
    \/ x = None
    \/ /\ x \in Entry /\ x.of \in Named(k) /\ x.left <= ttl(k)
       /\ Recent(R, x.of, x.version, MaxLoad + ttl(k) - x.left)

\* An actor has something to invalidate only after its commit.
Sends(R, a, keys) ==
    keys \subseteq Keys /\ (a \in Reversals /\ keys # {} => Len(R[a]) >= 2)

\* Why no invalidation removes an entry under k.
Excuse(R, k, why) ==
    \/ why \in {"late", "unsent"}
    \/ /\ why = "unnamed"
       /\ \E r \in Reversals : Len(R[r]) >= 2 /\ k = TransactionKey(Undoes[r])

\* A read or detail that is out of date is accounted for.
Covered(R, x, k, A) ==
    x # None /\ x.version # Len(R[x.of]) /\ k[1] # "wallet:meta" =>
        (\E a \in DOMAIN A : k \in A[a].keys) \/ Excuse(R, k, x.why)

RowTypes == [Entities -> Seq(0 .. Horizon)]

CacheInv ==
    /\ rows \in RowTypes
    /\ \A w \in Wallets : Len(rows[w]) = 0 => Len(rows[Meta(w)]) = 0
    /\ enabled \in [Replicas -> BOOLEAN]
    /\ caller = [c \in Callers |-> caller[c]]
    /\ actor = [a \in Wallets \cup Reversals |-> actor[a]]
    /\ cache = [k \in Keys |-> cache[k]]
    /\ \A c \in Callers : Loaded(rows, caller[c])
    /\ \A a \in Wallets \cup Reversals : Sends(rows, a, actor[a].keys)
    /\ \A k \in Keys : Cached(rows, cache[k], k) /\ Covered(rows, cache[k], k, actor)

\* The database finds a payment by its order once one was inserted.
OrderInv ==
    /\ newest \in [Orders -> Payments \cup {None}]
    /\ \A o \in Orders : newest[o] # None => OrderOf[newest[o]] = o /\ Len(rows[newest[o]]) > 0
    /\ \A p \in Payments : Len(rows[p]) > 0 => newest[OrderOf[p]] # None

-----------------------------------------------------------------------------
(* Keys and lifetimes                                                      *)

LEMMA Lifetimes ==
    /\ MaxLoad \in Nat /\ Horizon \in Nat
    /\ {CompletedTxnTTL, WalletReadTTL, WalletMetaTTL} \subseteq 1 .. Horizon - MaxLoad
<1> DEFINE S == {CompletedTxnTTL, WalletReadTTL, WalletMetaTTL}
<1>1. MaxLoad \in Nat /\ CompletedTxnTTL \in Nat \ {0} /\ WalletReadTTL \in Nat \ {0}
      /\ WalletMetaTTL \in Nat \ {0}
  BY CacheConstants
<1>2. \E x \in S : \A y \in S : x >= y
  <2>1. CASE CompletedTxnTTL >= WalletReadTTL /\ CompletedTxnTTL >= WalletMetaTTL
    BY <1>1, <2>1
  <2>2. CASE WalletReadTTL >= CompletedTxnTTL /\ WalletReadTTL >= WalletMetaTTL
    BY <1>1, <2>2
  <2>3. CASE WalletMetaTTL >= CompletedTxnTTL /\ WalletMetaTTL >= WalletReadTTL
    BY <1>1, <2>3
  <2> QED
    BY <1>1, <2>1, <2>2, <2>3
<1>3. Max(S) \in S /\ \A y \in S : Max(S) >= y
  BY <1>2 DEF Max
<1>4. Horizon = MaxLoad + Max(S)
  BY DEF Horizon
<1> QED
  BY <1>1, <1>3, <1>4

LEMMA KeysAre ==
    ASSUME NEW k
    PROVE  k \in Keys <=>
             \/ \E t \in Txns : k \in TxnKeys(t)
             \/ \E w \in Wallets : k \in {WalletKey(w), WalletNumberKey(w), WalletMetaKey(w)}
<1> DEFINE W(w) == {WalletKey(w), WalletNumberKey(w), WalletMetaKey(w)}
<1> HIDE DEF W
<1>1. k \in UNION {TxnKeys(t) : t \in Txns} <=> \E t \in Txns : k \in TxnKeys(t)
  BY Zenon
<1>2. k \in UNION {W(w) : w \in Wallets} <=> \E w \in Wallets : k \in W(w)
  BY Zenon
<1>3. Keys = (UNION {TxnKeys(t) : t \in Txns}) \cup (UNION {W(w) : w \in Wallets})
  BY DEF Keys, W
<1>4. k \in Keys <=> (\E t \in Txns : k \in TxnKeys(t)) \/ (\E w \in Wallets : k \in W(w))
  BY <1>1, <1>2, <1>3, Zenon
<1> QED
  BY <1>4 DEF W

LEMMA KeyFacts ==
    ASSUME NEW k \in Keys
    PROVE  /\ k = <<k[1], k[2]>>
           /\ \/ k[1] \in {"txn:id", "txn:rrn"} /\ k[2] \in Txns
              \/ k[1] = "txn:order" /\ k[2] \in Orders
              \/ k[1] \in {"wallet:id", "wallet:number", "wallet:meta"} /\ k[2] \in Wallets
<1>1. CASE \E t \in Txns : k \in TxnKeys(t)
  <2>1. PICK t \in Txns : k \in TxnKeys(t)
    BY <1>1
  <2> DEFINE p == IF t \in Reversals THEN Undoes[t] ELSE t
  <2>2. p \in Payments
    BY CacheConstants DEF Txns
  <2>3. OrderOf[p] \in Orders
    BY <2>2, CacheConstants
  <2>4. k \in {<<"txn:id", t>>, <<"txn:rrn", t>>, <<"txn:order", OrderOf[p]>>}
    BY <2>1 DEF TxnKeys, TransactionKey, TransactionRRNKey, TransactionOrderKey
  <2> HIDE DEF p
  <2> QED
    BY <2>3, <2>4
<1>2. CASE \E w \in Wallets : k \in {WalletKey(w), WalletNumberKey(w), WalletMetaKey(w)}
  BY <1>2 DEF WalletKey, WalletNumberKey, WalletMetaKey
<1> QED
  BY <1>1, <1>2, KeysAre, Zenon

LEMMA KeyOf ==
    ASSUME NEW k \in Keys
    PROVE  /\ Named(k) \subseteq Entities /\ ttl(k) \in 1 .. Horizon - MaxLoad
           /\ \A p \in Payments : p \in Named(k) => k \in TxnKeys(p)
           /\ \A w \in Wallets : w \in Named(k) => k \in {WalletKey(w), WalletNumberKey(w)}
           /\ \A w \in Wallets : Meta(w) \in Named(k) => k[1] = "wallet:meta"
<1>0. /\ k[1] = "wallet:meta" => k[2] \in Wallets /\ Named(k) = {Meta(k[2])}
      /\ k[1] = "txn:order" => Named(k) = {p \in Payments : OrderOf[p] = k[2]}
      /\ k[1] \in {"txn:id", "txn:rrn"} => k[2] \in Txns /\ Named(k) = {k[2]}
      /\ k[1] \in {"wallet:id", "wallet:number"} => k[2] \in Wallets /\ Named(k) = {k[2]}
  BY KeyFacts DEF Named
<1>1. Named(k) \subseteq Entities
  BY <1>0, KeyFacts DEF Entities, Txns
<1>2. ttl(k) \in 1 .. Horizon - MaxLoad
  BY KeyFacts, Lifetimes DEF ttl, walletTTL
<1>3. ASSUME NEW p \in Payments, p \in Named(k)
      PROVE  k \in TxnKeys(p)
  <2>1. p \notin Reversals /\ p \in Txns /\ p \notin Wallets /\ \A w \in Wallets : p # Meta(w)
    BY EntitiesDistinct DEF Txns
  <2>2. \/ k[1] \in {"txn:id", "txn:rrn"} /\ k[2] = p
        \/ k[1] = "txn:order" /\ k[2] = OrderOf[p]
    BY <1>0, <1>3, <2>1, KeyFacts
  <2> QED
    BY <2>1, <2>2, KeyFacts DEF TxnKeys, TransactionKey, TransactionRRNKey, TransactionOrderKey
<1>4. ASSUME NEW w \in Wallets, w \in Named(k)
      PROVE  k \in {WalletKey(w), WalletNumberKey(w)}
  <2>1. w \notin Txns /\ \A v \in Wallets : w # Meta(v)
    BY EntitiesDistinct
  <2>2. k[1] \in {"wallet:id", "wallet:number"} /\ k[2] = w
    BY <1>0, <1>4, <2>1, KeyFacts DEF Txns
  <2> QED
    BY <2>2, KeyFacts DEF WalletKey, WalletNumberKey
<1>5. ASSUME NEW w \in Wallets, Meta(w) \in Named(k)
      PROVE  k[1] = "wallet:meta"
  <2>1. Meta(w) \notin Txns \cup Wallets
    BY EntitiesDistinct
  <2> QED
    BY <1>0, <1>5, <2>1, KeyFacts DEF Txns
<1> QED
  BY <1>1, <1>2, <1>3, <1>4, <1>5

\* The keys a request fills name the row they are filled from.
LEMMA KeysOfRows ==
    /\ \A t \in Txns : /\ TxnKeys(t) \subseteq Keys
                       /\ t \in Named(TransactionKey(t)) /\ t \in Named(TransactionRRNKey(t))
    /\ \A p \in Payments : p \in Named(TransactionOrderKey(p))
    /\ \A w \in Wallets :
         /\ {WalletKey(w), WalletNumberKey(w), WalletMetaKey(w)} \subseteq Keys
         /\ w \in Named(WalletKey(w)) /\ w \in Named(WalletNumberKey(w))
         /\ Meta(w) \in Named(WalletMetaKey(w))
<1>1. \A t \in Txns : TxnKeys(t) \subseteq Keys
  BY KeysAre, Zenon
<1>2. \A w \in Wallets : {WalletKey(w), WalletNumberKey(w), WalletMetaKey(w)} \subseteq Keys
  BY KeysAre, Zenon
<1>3. \A t \in Txns : t \in Named(TransactionKey(t)) /\ t \in Named(TransactionRRNKey(t))
  BY DEF Named, TransactionKey, TransactionRRNKey
<1>4. \A p \in Payments : p \in Named(TransactionOrderKey(p))
  <2>1. \A p \in Payments : p \notin Reversals
    BY EntitiesDistinct
  <2> QED
    BY <2>1 DEF Named, TransactionOrderKey
<1>5. \A w \in Wallets : /\ w \in Named(WalletKey(w)) /\ w \in Named(WalletNumberKey(w))
                         /\ Meta(w) \in Named(WalletMetaKey(w))
  BY DEF Named, WalletKey, WalletNumberKey, WalletMetaKey
<1> QED
  BY <1>1, <1>2, <1>3, <1>4, <1>5

-----------------------------------------------------------------------------
(* What commits and the passing of time do to what was read.               *)

\* Versions are only added, and what is added is new.
Grown(R, T) ==
    \A e \in Entities :
        /\ Len(R[e]) <= Len(T[e])
        /\ \A v \in 1 .. Len(R[e]) : T[e][v] = R[e][v]
        /\ \A v \in 1 .. Len(T[e]) : v > Len(R[e]) => T[e][v] = 0

\* The same versions, none more than one older.
Older(R, T) ==
    \A e \in Entities : /\ Len(T[e]) = Len(R[e])
                        /\ \A v \in 1 .. Len(R[e]) : T[e][v] <= R[e][v] + 1

LEMMA RowFacts ==
    ASSUME NEW R \in RowTypes, NEW e \in Entities
    PROVE  /\ Len(R[e]) \in Nat
           /\ \A v \in 1 .. Len(R[e]) : R[e][v] \in 0 .. Horizon
<1>1. R[e] \in Seq(0 .. Horizon)
  BY DEF RowTypes
<1> QED
  BY <1>1, LenProperties, ElementOfSeq

LEMMA GrownRecent ==
    ASSUME NEW R \in RowTypes, NEW T \in RowTypes, Grown(R, T),
           NEW e \in Entities, NEW version, NEW age \in Nat, Recent(R, e, version, age)
    PROVE  Recent(T, e, version, age)
<1>2. Len(R[e]) \in Nat /\ Len(T[e]) \in Nat
  BY RowFacts
<1>3. Len(R[e]) <= Len(T[e])
  BY DEF Grown
<1>4. \A v \in 1 .. Len(R[e]) : T[e][v] = R[e][v]
  BY DEF Grown
<1>5. \A v \in 1 .. Len(T[e]) : v > Len(R[e]) => T[e][v] = 0
  BY DEF Grown
<1>6. /\ version \in 1 .. Len(R[e]) /\ (e \in Txns => version >= 2)
      /\ version < Len(R[e]) => R[e][version + 1] <= age
  BY DEF Recent
<1>7. ASSUME version < Len(T[e])
      PROVE  T[e][version + 1] <= age
  <2>1. version + 1 \in 1 .. Len(T[e])
    BY <1>2, <1>6, <1>7
  <2>2. CASE version < Len(R[e])
    <3>1. version + 1 \in 1 .. Len(R[e])
      BY <1>2, <1>6, <2>2
    <3> QED
      BY <1>4, <1>6, <2>2, <3>1
  <2>3. CASE ~(version < Len(R[e]))
    <3>1. version + 1 > Len(R[e])
      BY <1>2, <1>6, <2>3
    <3>2. T[e][version + 1] = 0
      BY <1>5, <2>1, <3>1
    <3> QED
      BY <3>2
  <2> QED
    BY <2>2, <2>3
<1>8. version \in 1 .. Len(T[e])
  BY <1>2, <1>3, <1>6
<1> QED
  BY <1>6, <1>7, <1>8 DEF Recent

LEMMA OlderRecent ==
    ASSUME NEW R \in RowTypes, NEW T \in RowTypes, Older(R, T),
           NEW e \in Entities, NEW version, NEW age \in Nat, Recent(R, e, version, age)
    PROVE  Recent(T, e, version, age + 1)
<1>2. Len(R[e]) \in Nat /\ Len(T[e]) = Len(R[e])
  BY RowFacts DEF Older
<1>3. \A v \in 1 .. Len(R[e]) : /\ T[e][v] <= R[e][v] + 1
                               /\ T[e][v] \in Nat /\ R[e][v] \in Nat
  <2>1. \A v \in 1 .. Len(R[e]) : T[e][v] <= R[e][v] + 1
    BY DEF Older
  <2>2. \A v \in 1 .. Len(R[e]) : T[e][v] \in 0 .. Horizon /\ R[e][v] \in 0 .. Horizon
    BY <1>2, RowFacts
  <2> QED
    BY <2>1, <2>2
<1>4. /\ version \in 1 .. Len(R[e]) /\ (e \in Txns => version >= 2)
      /\ version < Len(R[e]) => R[e][version + 1] <= age
  BY DEF Recent
<1>5. ASSUME version < Len(T[e])
      PROVE  T[e][version + 1] <= age + 1
  <2>1. version + 1 \in 1 .. Len(R[e])
    BY <1>2, <1>4, <1>5
  <2> QED
    BY <1>2, <1>3, <1>4, <1>5, <2>1
<1> QED
  BY <1>2, <1>4, <1>5 DEF Recent

LEMMA MoreRecent ==
    ASSUME NEW R \in RowTypes, NEW e \in Entities, NEW version, NEW age \in Nat, NEW older \in Nat,
           Recent(R, e, version, age), age <= older
    PROVE  Recent(R, e, version, older)
<1>2. Len(R[e]) \in Nat
      /\ \A v \in 1 .. Len(R[e]) : R[e][v] \in 0 .. Horizon
  BY RowFacts
<1>3. /\ version \in 1 .. Len(R[e])
      /\ version < Len(R[e]) => R[e][version + 1] <= age
  BY DEF Recent
<1>4. version < Len(R[e]) => version + 1 \in 1 .. Len(R[e])
  BY <1>2, <1>3
<1>5. version < Len(R[e]) => R[e][version + 1] <= older
  BY <1>2, <1>3, <1>4
<1> QED
  BY <1>5 DEF Recent

\* The version just read.
LEMMA NowRecent ==
    ASSUME NEW R \in RowTypes, NEW e \in Entities, Len(R[e]) > 0,
           e \in Txns => Len(R[e]) >= 2
    PROVE  Recent(R, e, Len(R[e]), 0)
<1>1. Len(R[e]) \in Nat
  BY RowFacts
<1> QED
  BY <1>1 DEF Recent

LEMMA EntryFacts ==
    ASSUME NEW x \in Entry, NEW k \in Keys, x.left <= ttl(k)
    PROVE  /\ x # None /\ x.left \in Nat /\ x.left >= 1
           /\ MaxLoad + ttl(k) - x.left \in Nat /\ ttl(k) \in Nat /\ MaxLoad \in Nat
<1>1. x.left \in 1 .. Horizon
  BY DEF Entry
<1>2. ttl(k) \in 1 .. Horizon - MaxLoad /\ MaxLoad \in Nat /\ Horizon \in Nat
  BY KeyOf, Lifetimes
<1>3. x # None
  BY NoneIsNothing
<1> QED
  BY <1>1, <1>2, <1>3

\* A commit leaves what was read and what is cached as good as it was.
LEMMA GrownKept ==
    ASSUME NEW R \in RowTypes, NEW T \in RowTypes, Grown(R, T)
    PROVE  /\ \A q : Loaded(R, q) => Loaded(T, q)
           /\ \A k \in Keys : \A x : Cached(R, x, k) => Cached(T, x, k)
           /\ \A a \in Wallets \cup Reversals : \A keys : Sends(R, a, keys) => Sends(T, a, keys)
<1>1. ASSUME NEW q, Loaded(R, q)
      PROVE  Loaded(T, q)
  <2>1. CASE q = Idle
    BY <2>1 DEF Loaded
  <2>2. CASE q # Idle
    <3>1. /\ q \in Loads
          /\ \A i \in 1 .. Len(q.todo) : /\ Rendered(q.of, q.todo[i]) \in Named(q.todo[i])
                                         /\ Recent(R, Rendered(q.of, q.todo[i]), q.version, q.age)
      BY <1>1, <2>2 DEF Loaded
    <3>2. q.todo \in Seq(Keys) /\ q.age \in Nat
      BY <3>1, Lifetimes DEF Loads
    <3>3. \A i \in 1 .. Len(q.todo) : Rendered(q.of, q.todo[i]) \in Entities
      <4>1. \A i \in 1 .. Len(q.todo) : q.todo[i] \in Keys
        BY <3>2, ElementOfSeq
      <4> QED
        BY <3>1, <4>1, KeyOf
    <3>4. \A i \in 1 .. Len(q.todo) : Recent(T, Rendered(q.of, q.todo[i]), q.version, q.age)
      BY <3>1, <3>2, <3>3, GrownRecent
    <3> QED
      BY <3>1, <3>4 DEF Loaded
  <2> QED
    BY <2>1, <2>2
<1>2. ASSUME NEW k \in Keys, NEW x, Cached(R, x, k)
      PROVE  Cached(T, x, k)
  <2>1. CASE x = None
    BY <2>1 DEF Cached
  <2>2. CASE x # None
    <3>1. /\ x \in Entry /\ x.of \in Named(k) /\ x.left <= ttl(k)
          /\ Recent(R, x.of, x.version, MaxLoad + ttl(k) - x.left)
      BY <1>2, <2>2 DEF Cached
    <3>2. MaxLoad + ttl(k) - x.left \in Nat /\ x.of \in Entities
      BY <3>1, EntryFacts, KeyOf
    <3>3. Recent(T, x.of, x.version, MaxLoad + ttl(k) - x.left)
      BY <3>1, <3>2, GrownRecent
    <3> QED
      BY <3>1, <3>3 DEF Cached
  <2> QED
    BY <2>1, <2>2
<1>3. ASSUME NEW a \in Wallets \cup Reversals, NEW keys, Sends(R, a, keys)
      PROVE  Sends(T, a, keys)
  <2>1. a \in Entities
    BY DEF Entities, Txns
  <2>2. Len(R[a]) \in Nat /\ Len(T[a]) \in Nat /\ Len(R[a]) <= Len(T[a])
    BY <2>1, RowFacts DEF Grown
  <2> QED
    BY <1>3, <2>2 DEF Sends
<1> QED
  BY <1>1, <1>2, <1>3

\* Time passes for a request that still may take some, and for an entry that
\* has not expired.
LEMMA OlderKept ==
    ASSUME NEW R \in RowTypes, NEW T \in RowTypes, Older(R, T)
    PROVE  /\ \A q : Loaded(R, q) /\ q # Idle /\ q.age < MaxLoad =>
                       Loaded(T, [q EXCEPT !.age = @ + 1])
           /\ \A k \in Keys : \A x : Cached(R, x, k) /\ x # None /\ x.left # 1 =>
                       Cached(T, [x EXCEPT !.left = @ - 1], k)
           /\ \A a \in Wallets \cup Reversals : \A keys : Sends(R, a, keys) => Sends(T, a, keys)
<1>1. ASSUME NEW q, Loaded(R, q), q # Idle, q.age < MaxLoad
      PROVE  Loaded(T, [q EXCEPT !.age = @ + 1])
  <2>1. /\ q \in Loads
        /\ \A i \in 1 .. Len(q.todo) : /\ Rendered(q.of, q.todo[i]) \in Named(q.todo[i])
                                       /\ Recent(R, Rendered(q.of, q.todo[i]), q.version, q.age)
    BY <1>1 DEF Loaded
  <2>2. q.todo \in Seq(Keys) /\ q.age \in 0 .. MaxLoad /\ MaxLoad \in Nat
    BY <2>1, Lifetimes DEF Loads
  <2>3. \A i \in 1 .. Len(q.todo) : Rendered(q.of, q.todo[i]) \in Entities
    <3>1. \A i \in 1 .. Len(q.todo) : q.todo[i] \in Keys
      BY <2>2, ElementOfSeq
    <3> QED
      BY <2>1, <3>1, KeyOf
  <2>4. q.age \in Nat /\ q.age + 1 \in 0 .. MaxLoad
    BY <1>1, <2>2
  <2>5. \A i \in 1 .. Len(q.todo) : Recent(T, Rendered(q.of, q.todo[i]), q.version, q.age + 1)
    BY <2>1, <2>3, <2>4, OlderRecent
  <2> DEFINE p == [q EXCEPT !.age = @ + 1]
  <2>6. p \in Loads
    BY <2>1, <2>4 DEF Loads
  <2>7. p.of = q.of /\ p.todo = q.todo /\ p.version = q.version /\ p.age = q.age + 1
    BY <2>1 DEF Loads
  <2> HIDE DEF p
  <2>8. \A i \in 1 .. Len(p.todo) : /\ Rendered(p.of, p.todo[i]) \in Named(p.todo[i])
                                   /\ Recent(T, Rendered(p.of, p.todo[i]), p.version, p.age)
    BY <2>1, <2>5, <2>7
  <2>9. Loaded(T, p)
    BY <2>6, <2>8 DEF Loaded
  <2> QED
    BY <2>9 DEF p
<1>2. ASSUME NEW k \in Keys, NEW x, Cached(R, x, k), x # None, x.left # 1
      PROVE  Cached(T, [x EXCEPT !.left = @ - 1], k)
  <2>1. /\ x \in Entry /\ x.of \in Named(k) /\ x.left <= ttl(k)
        /\ Recent(R, x.of, x.version, MaxLoad + ttl(k) - x.left)
    BY <1>2 DEF Cached
  <2>2. /\ x.left \in Nat /\ x.left >= 1 /\ ttl(k) \in Nat /\ MaxLoad \in Nat
        /\ MaxLoad + ttl(k) - x.left \in Nat /\ x.of \in Entities
    BY <2>1, EntryFacts, KeyOf
  <2>3. Recent(T, x.of, x.version, MaxLoad + ttl(k) - x.left + 1)
    BY <2>1, <2>2, OlderRecent
  <2>4. MaxLoad + ttl(k) - x.left + 1 = MaxLoad + ttl(k) - (x.left - 1)
    BY <2>2
  <2> DEFINE y == [x EXCEPT !.left = @ - 1]
  <2>5. x.left \in 1 .. Horizon /\ Horizon \in Nat
    BY <2>1, Lifetimes DEF Entry
  <2>6. x.left - 1 \in 1 .. Horizon /\ x.left - 1 <= ttl(k)
    BY <1>2, <2>1, <2>2, <2>5
  <2>7. y \in Entry
    BY <2>1, <2>6 DEF Entry
  <2>8. y.of = x.of /\ y.version = x.version /\ y.left = x.left - 1
    BY <2>1 DEF Entry
  <2> HIDE DEF y
  <2>9. Recent(T, y.of, y.version, MaxLoad + ttl(k) - y.left)
    BY <2>3, <2>4, <2>8
  <2>10. Cached(T, y, k)
    BY <2>1, <2>6, <2>7, <2>8, <2>9 DEF Cached
  <2> QED
    BY <2>10 DEF y
<1>3. ASSUME NEW a \in Wallets \cup Reversals, NEW keys, Sends(R, a, keys)
      PROVE  Sends(T, a, keys)
  <2>1. a \in Entities
    BY DEF Entities, Txns
  <2>2. Len(T[a]) = Len(R[a])
    BY <2>1 DEF Older
  <2> QED
    BY <1>3, <2>2 DEF Sends
<1> QED
  BY <1>1, <1>2, <1>3

-----------------------------------------------------------------------------
(* The steps.                                                              *)

LEMMA Together ==
    ASSUME rows' \in RowTypes,
           \A w \in Wallets : Len(rows'[w]) = 0 => Len(rows'[Meta(w)]) = 0,
           enabled' \in [Replicas -> BOOLEAN],
           caller' = [c \in Callers |-> caller'[c]],
           actor' = [a \in Wallets \cup Reversals |-> actor'[a]],
           cache' = [k \in Keys |-> cache'[k]],
           \A c \in Callers : Loaded(rows', caller'[c]),
           \A a \in Wallets \cup Reversals : Sends(rows', a, actor'[a].keys),
           \A k \in Keys : Cached(rows', cache'[k], k) /\ Covered(rows', cache'[k], k, actor')
    PROVE  CacheInv'
  BY DEF CacheInv

LEMMA CommitGrows ==
    ASSUME CacheInv, NEW es \in SUBSET Entities
    PROVE  /\ Commit(es) \in RowTypes /\ Grown(rows, Commit(es))
           /\ \A e \in Entities : Len(Commit(es)[e]) = IF e \in es THEN Len(rows[e]) + 1
                                                      ELSE Len(rows[e])
<1>1. rows \in RowTypes
  BY DEF CacheInv
<1>2. 0 \in 0 .. Horizon
  BY Lifetimes
<1>3. ASSUME NEW e \in Entities
      PROVE  /\ Commit(es)[e] \in Seq(0 .. Horizon)
             /\ Len(rows[e]) \in Nat
             /\ Len(Commit(es)[e]) = IF e \in es THEN Len(rows[e]) + 1 ELSE Len(rows[e])
             /\ \A v \in 1 .. Len(rows[e]) : Commit(es)[e][v] = rows[e][v]
             /\ e \in es => Commit(es)[e][Len(rows[e]) + 1] = 0
  <2>1. rows[e] \in Seq(0 .. Horizon)
    BY <1>1 DEF RowTypes
  <2>2. Commit(es)[e] = IF e \in es THEN Append(rows[e], 0) ELSE rows[e]
    BY DEF Commit
  <2>3. /\ Append(rows[e], 0) \in Seq(0 .. Horizon)
        /\ Len(Append(rows[e], 0)) = Len(rows[e]) + 1
        /\ \A v \in 1 .. Len(rows[e]) : Append(rows[e], 0)[v] = rows[e][v]
        /\ Append(rows[e], 0)[Len(rows[e]) + 1] = 0
    BY <1>2, <2>1, AppendProperties
  <2>4. Len(rows[e]) \in Nat
    BY <1>1, RowFacts
  <2> QED
    BY <2>1, <2>2, <2>3, <2>4
<1>4. Commit(es) \in RowTypes
  <2>1. Commit(es) = [e \in Entities |-> Commit(es)[e]]
    BY DEF Commit
  <2> QED
    BY <1>3, <2>1 DEF RowTypes
<1>5. ASSUME NEW e \in Entities
      PROVE  /\ Len(rows[e]) <= Len(Commit(es)[e])
             /\ \A v \in 1 .. Len(Commit(es)[e]) : v > Len(rows[e]) => Commit(es)[e][v] = 0
  <2>1. Len(rows[e]) \in Nat
        /\ Len(Commit(es)[e]) = IF e \in es THEN Len(rows[e]) + 1 ELSE Len(rows[e])
    BY <1>3
  <2>2. e \in es => Commit(es)[e][Len(rows[e]) + 1] = 0
    BY <1>3
  <2>3. ASSUME NEW v \in 1 .. Len(Commit(es)[e]), v > Len(rows[e])
        PROVE  e \in es /\ v = Len(rows[e]) + 1
    BY <2>1, <2>3
  <2>4. Len(rows[e]) <= Len(Commit(es)[e])
    BY <2>1
  <2> QED
    BY <2>2, <2>3, <2>4
<1>6. Grown(rows, Commit(es))
  BY <1>3, <1>5 DEF Grown
<1> QED
  BY <1>3, <1>4, <1>6

\* What a missed invalidation leaves of entry x under key k: y.
Left(x, y, R, k, K, why) ==
    /\ x = None => y = None
    /\ x # None => /\ y # None /\ y.of = x.of /\ y.version = x.version
                   /\ y.why = IF k \in K /\ x.version # Len(R[x.of]) THEN why ELSE x.why
    /\ \A T : Cached(T, x, k) => Cached(T, y, k)

LEMMA MissedIs ==
    ASSUME CacheInv, NEW R, NEW K, NEW why \in {"unsent", "unnamed"}, NEW k \in Keys
    PROVE  Left(cache[k], Missed(R, K, why)[k], R, k, K, why)
<1> DEFINE marked == k \in K /\ cache[k] # None /\ cache[k].version # Len(R[cache[k].of])
<1>2. Missed(R, K, why)[k] = IF marked THEN [cache[k] EXCEPT !.why = why] ELSE cache[k]
  BY DEF Missed
<1>3. cache[k] # None => cache[k] \in Entry
  <2>1. Cached(rows, cache[k], k)
    BY DEF CacheInv
  <2> QED
    BY <2>1 DEF Cached
<1>4. CASE ~marked
  BY <1>2, <1>4 DEF Left
<1>5. CASE marked
  <2> DEFINE x == cache[k]
             y == [x EXCEPT !.why = why]
  <2>1. Missed(R, K, why)[k] = y
    BY <1>2, <1>5
  <2>2. x \in Entry
    BY <1>3, <1>5
  <2>3. y \in Entry /\ y.of = x.of /\ y.version = x.version /\ y.left = x.left /\ y.why = why
    BY <2>2 DEF Entry
  <2>4. y # None /\ x # None
    BY <1>5, <2>3, NoneIsNothing
  <2> HIDE DEF y, x
  <2>5. \A T : Cached(T, x, k) => Cached(T, y, k)
    BY <2>3, <2>4 DEF Cached
  <2>6. \A T : Cached(T, cache[k], k) => Cached(T, Missed(R, K, why)[k], k)
    BY <2>1, <2>5 DEF x
  <2> QED
    BY <1>5, <2>1, <2>3, <2>4, <2>6 DEF x, Left
<1> QED
  BY <1>4, <1>5

\* What is cached is of a row its key names, and of a version that is there.
LEMMA CachedFacts ==
    ASSUME CacheInv, NEW k \in Keys, cache[k] # None
    PROVE  /\ cache[k].of \in Named(k) /\ cache[k].of \in Entities
           /\ Len(rows[cache[k].of]) \in Nat /\ Len(rows[cache[k].of]) >= 1
           /\ cache[k].of \in Txns => Len(rows[cache[k].of]) >= 2
<1> DEFINE e == cache[k].of
<1>1. rows \in RowTypes /\ Cached(rows, cache[k], k)
  BY DEF CacheInv
<1>2. e \in Named(k) /\ \E age : Recent(rows, e, cache[k].version, age)
  BY <1>1 DEF Cached
<1>3. e \in Entities
  BY <1>2, KeyOf
<1> HIDE DEF e
<1>4. Len(rows[e]) \in Nat
  BY <1>1, <1>3, RowFacts
<1>5. cache[k].version \in 1 .. Len(rows[e]) /\ (e \in Txns => cache[k].version >= 2)
  BY <1>2 DEF Recent
<1>6. Len(rows[e]) >= 1 /\ (e \in Txns => Len(rows[e]) >= 2)
  BY <1>4, <1>5
<1> QED
  BY <1>2, <1>3, <1>4, <1>6 DEF e

LEMMA GrownExcuse ==
    ASSUME NEW R \in RowTypes, NEW T \in RowTypes, \A e \in Entities : Len(R[e]) <= Len(T[e]),
           NEW k, NEW why, Excuse(R, k, why)
    PROVE  Excuse(T, k, why)
<1>1. \A r \in Reversals : Len(R[r]) \in Nat /\ Len(T[r]) \in Nat /\ Len(R[r]) <= Len(T[r])
  BY RowFacts DEF Entities, Txns
<1>2. \A r \in Reversals : Len(R[r]) >= 2 => Len(T[r]) >= 2
  BY <1>1
<1> QED
  BY <1>2 DEF Excuse

\* A commit: what it makes stale is about to be deleted, or its deletion was
\* missed.
CommitStep(es, K, why) ==
    /\ rows' = Commit(es) /\ UNCHANGED <<enabled, caller>>
    /\ (cache' = cache /\ K = {}) \/ cache' = Missed(Commit(es), K, why)
    /\ \A k \in K : Excuse(Commit(es), k, why)
    /\ \A w \in Wallets : Meta(w) \in es => Len(rows[w]) # 0
    /\ actor' = [a \in Wallets \cup Reversals |-> actor'[a]]
    /\ \A a \in Wallets \cup Reversals : /\ Sends(Commit(es), a, actor'[a].keys)
                                         /\ actor[a].keys \subseteq actor'[a].keys
    /\ \A k \in Keys : cache[k] # None /\ cache[k].of \in es /\ k[1] # "wallet:meta" =>
         k \in K \/ \E a \in Wallets \cup Reversals : k \in actor'[a].keys

LEMMA Committed ==
    ASSUME CacheInv, NEW es \in SUBSET Entities, NEW K, NEW why \in {"unsent", "unnamed"},
           CommitStep(es, K, why)
    PROVE  CacheInv'
<1>a. rows' = Commit(es) /\ UNCHANGED <<enabled, caller>>
  BY DEF CommitStep
<1>b. (cache' = cache /\ K = {}) \/ cache' = Missed(Commit(es), K, why)
  BY DEF CommitStep
<1>c. \A k \in K : Excuse(Commit(es), k, why)
  BY DEF CommitStep
<1>d. \A w \in Wallets : Meta(w) \in es => Len(rows[w]) # 0
  BY DEF CommitStep
<1>e. /\ actor' = [a \in Wallets \cup Reversals |-> actor'[a]]
      /\ \A a \in Wallets \cup Reversals : /\ Sends(Commit(es), a, actor'[a].keys)
                                           /\ actor[a].keys \subseteq actor'[a].keys
  BY DEF CommitStep
<1>f. \A k \in Keys : cache[k] # None /\ cache[k].of \in es /\ k[1] # "wallet:meta" =>
        k \in K \/ \E a \in Wallets \cup Reversals : k \in actor'[a].keys
  BY DEF CommitStep
<1>1. /\ rows \in RowTypes /\ rows' \in RowTypes /\ Grown(rows, rows')
      /\ \A e \in Entities : Len(rows'[e]) = IF e \in es THEN Len(rows[e]) + 1 ELSE Len(rows[e])
  BY <1>a, CommitGrows DEF CacheInv
<1>2. \A e \in Entities : Len(rows[e]) \in Nat
  BY <1>1, RowFacts
<1>3. ASSUME NEW w \in Wallets, Len(rows'[w]) = 0
      PROVE  Len(rows'[Meta(w)]) = 0
  <2>1. w \in Entities /\ Meta(w) \in Entities
    BY DEF Entities
  <2>2. Len(rows[w]) = 0
    BY <1>1, <1>2, <1>3, <2>1
  <2>3. Len(rows[Meta(w)]) = 0 /\ Meta(w) \notin es
    BY <1>d, <2>2 DEF CacheInv
  <2> QED
    BY <1>1, <2>1, <2>3
<1>4. enabled' \in [Replicas -> BOOLEAN] /\ caller' = [c \in Callers |-> caller'[c]]
  BY <1>a DEF CacheInv
<1>5. \A c \in Callers : Loaded(rows', caller'[c])
  <2>1. \A c \in Callers : Loaded(rows, caller[c])
    BY DEF CacheInv
  <2>2. \A q : Loaded(rows, q) => Loaded(rows', q)
    BY <1>1, GrownKept
  <2> QED
    BY <1>a, <2>1, <2>2
<1>6. cache' = [k \in Keys |-> cache'[k]]
  <2>1. CASE cache' = cache
    BY <2>1 DEF CacheInv
  <2>2. CASE cache' = Missed(Commit(es), K, why)
    BY <2>2 DEF Missed
  <2> QED
    BY <1>b, <2>1, <2>2
<1>7. ASSUME NEW k \in Keys
      PROVE  /\ cache[k] = None => cache'[k] = None
             /\ cache[k] # None =>
                  /\ cache'[k] # None
                  /\ cache'[k].of = cache[k].of /\ cache'[k].version = cache[k].version
                  /\ k \in K /\ cache[k].version # Len(rows'[cache[k].of]) => cache'[k].why = why
                  /\ cache'[k].why # cache[k].why => k \in K /\ cache'[k].why = why
             /\ \A R : Cached(R, cache[k], k) => Cached(R, cache'[k], k)
  <2>1. CASE cache' = cache /\ K = {}
    BY <2>1
  <2>2. CASE cache' = Missed(rows', K, why)
    <3>1. PICK R : R = rows'
      OBVIOUS
    <3>2. Left(cache[k], Missed(R, K, why)[k], R, k, K, why)
      BY MissedIs
    <3>3. Left(cache[k], cache'[k], rows', k, K, why)
      BY <2>2, <3>1, <3>2
    <3> QED
      BY <3>3 DEF Left
  <2> QED
    BY <1>a, <1>b, <2>1, <2>2
<1>8. ASSUME NEW k \in Keys
      PROVE  Cached(rows', cache'[k], k)
  <2>1. Cached(rows, cache[k], k)
    BY DEF CacheInv
  <2>2. Cached(rows', cache[k], k)
    BY <1>1, <2>1, GrownKept
  <2> QED
    BY <1>7, <2>2
<1>9. ASSUME NEW k \in Keys
      PROVE  Covered(rows', cache'[k], k, actor')
  <2>1. SUFFICES ASSUME cache'[k] # None, cache'[k].version # Len(rows'[cache'[k].of]),
                        k[1] # "wallet:meta"
                 PROVE  (\E a \in DOMAIN actor' : k \in actor'[a].keys)
                        \/ Excuse(rows', k, cache'[k].why)
    BY DEF Covered
  <2>2. /\ cache[k] # None /\ cache'[k].of = cache[k].of /\ cache'[k].version = cache[k].version
        /\ k \in K => cache'[k].why = why
        /\ cache'[k].why # cache[k].why => k \in K /\ cache'[k].why = why
    BY <1>7, <2>1
  <2>3. cache[k].of \in Entities
    BY <2>2, CachedFacts
  <2>4. DOMAIN actor' = Wallets \cup Reversals /\ DOMAIN actor = Wallets \cup Reversals
    BY <1>e DEF CacheInv
  <2>5. ASSUME k \in K
        PROVE  Excuse(rows', k, cache'[k].why)
    BY <1>a, <1>c, <2>2, <2>5
  <2>6. CASE cache[k].of \in es
    BY <1>f, <2>1, <2>2, <2>4, <2>5, <2>6
  <2>7. CASE cache[k].of \notin es
    <3>1. cache[k].version # Len(rows[cache[k].of])
      BY <1>1, <2>1, <2>2, <2>3, <2>7
    <3>2. Covered(rows, cache[k], k, actor)
      BY DEF CacheInv
    <3>3. (\E a \in DOMAIN actor : k \in actor[a].keys) \/ Excuse(rows, k, cache[k].why)
      BY <2>1, <2>2, <3>1, <3>2 DEF Covered
    <3>4. ASSUME Excuse(rows, k, cache[k].why), k \notin K
          PROVE  Excuse(rows', k, cache'[k].why)
      BY <1>1, <2>2, <3>4, GrownExcuse DEF Grown
    <3> QED
      BY <1>e, <2>4, <2>5, <3>3, <3>4
  <2> QED
    BY <2>6, <2>7
<1>10. \A a \in Wallets \cup Reversals : Sends(rows', a, actor'[a].keys)
  BY <1>a, <1>e
<1> QED
  BY <1>1, <1>3, <1>4, <1>5, <1>6, <1>8, <1>9, <1>10, <1>e, Together

LEMMA ActorForm ==
    ASSUME CacheInv
    PROVE  /\ rows \in RowTypes
           /\ actor = [a \in Wallets \cup Reversals |-> actor[a]]
           /\ \A es \in SUBSET Entities : \A a \in Wallets \cup Reversals :
                Sends(Commit(es), a, actor[a].keys)
<1>1. rows \in RowTypes /\ actor = [a \in Wallets \cup Reversals |-> actor[a]]
      /\ \A a \in Wallets \cup Reversals : Sends(rows, a, actor[a].keys)
  BY DEF CacheInv
<1>2. ASSUME NEW es \in SUBSET Entities, NEW a \in Wallets \cup Reversals
      PROVE  Sends(Commit(es), a, actor[a].keys)
  <2>1. Commit(es) \in RowTypes /\ Grown(rows, Commit(es))
    BY CommitGrows
  <2> QED
    BY <1>1, <2>1, GrownKept
<1> QED
  BY <1>1, <1>2

\* A transaction that is not completed is not cached.
LEMMA TransactionStep ==
    ASSUME CacheInv, NEW t \in Txns, Insert(t) \/ Finalize(t)
    PROVE  CacheInv'
<1>1. /\ Len(rows[t]) \in {0, 1} /\ rows' = Commit({t}) /\ UNCHANGED <<enabled, caller>>
      /\ cache' = cache /\ actor' = actor
  <2>1. CASE Insert(t)
    BY <2>1 DEF Insert, Version
  <2>2. CASE Finalize(t)
    BY <2>2 DEF Finalize, Version
  <2> QED
    BY <2>1, <2>2
<1>2. {t} \in SUBSET Entities /\ \A w \in Wallets : Meta(w) \notin {t}
  BY EntitiesDistinct DEF Entities
<1>3. ASSUME NEW k \in Keys, cache[k] # None, cache[k].of \in {t}
      PROVE  FALSE
  <2>1. Len(rows[t]) >= 2
    BY <1>3, CachedFacts
  <2>2. Len(rows[t]) = 0 \/ Len(rows[t]) = 1
    BY <1>1
  <2>3. CASE Len(rows[t]) = 0
    BY <2>1, <2>3
  <2>4. CASE Len(rows[t]) = 1
    BY <2>1, <2>4
  <2> QED
    BY <2>2, <2>3, <2>4
<1>4. actor' = [a \in Wallets \cup Reversals |-> actor'[a]]
  BY <1>1, ActorForm
<1>5. \A a \in Wallets \cup Reversals : /\ Sends(Commit({t}), a, actor'[a].keys)
                                        /\ actor[a].keys \subseteq actor'[a].keys
  BY <1>1, <1>2, ActorForm
<1>6. PICK K : K = {}
  OBVIOUS
<1>7. \A k \in K : Excuse(Commit({t}), k, "unsent")
  BY <1>6
<1> QED
  BY <1>1, <1>2, <1>3, <1>4, <1>5, <1>6, <1>7, Committed DEF CommitStep

LEMMA MetaStep ==
    ASSUME CacheInv, NEW w \in Wallets, ChangeMeta(w)
    PROVE  CacheInv'
<1>1. /\ Len(rows[Meta(w)]) # 0 /\ rows' = Commit({Meta(w)}) /\ UNCHANGED <<enabled, caller>>
      /\ cache' = cache /\ actor' = actor
  BY DEF ChangeMeta, Version
<1>2. {Meta(w)} \in SUBSET Entities
  BY DEF Entities
<1>3. \A u \in Wallets : Meta(u) \in {Meta(w)} => Len(rows[u]) # 0
  BY <1>1 DEF CacheInv
<1>4. \A k \in Keys : cache[k] # None /\ cache[k].of \in {Meta(w)} => k[1] = "wallet:meta"
  BY CachedFacts, KeyOf
<1>5. actor' = [a \in Wallets \cup Reversals |-> actor'[a]]
  BY <1>1, ActorForm
<1>6. \A a \in Wallets \cup Reversals : /\ Sends(Commit({Meta(w)}), a, actor'[a].keys)
                                        /\ actor[a].keys \subseteq actor'[a].keys
  BY <1>1, <1>2, ActorForm
<1>7. PICK K : K = {}
  OBVIOUS
<1>8. \A k \in K : Excuse(Commit({Meta(w)}), k, "unsent")
  BY <1>7
<1> QED
  BY <1>1, <1>2, <1>3, <1>4, <1>5, <1>6, <1>7, <1>8, Committed DEF CommitStep

LEMMA PersistStep ==
    ASSUME CacheInv, NEW w \in Wallets, NEW n \in Replicas, Persist(w, n)
    PROVE  CacheInv'
<1> DEFINE keys == {WalletKey(w), WalletNumberKey(w)}
<1>1. /\ actor[w].keys = {} /\ rows' = Commit({w}) /\ UNCHANGED <<enabled, caller>>
      /\ \/ /\ actor' = [actor EXCEPT ![w] = [keys |-> keys, on |-> n, age |-> 0]]
            /\ cache' = cache
         \/ cache' = Missed(Commit({w}), keys, "unsent") /\ actor' = actor
  BY DEF Persist
<1>2. {w} \in SUBSET Entities /\ \A u \in Wallets : Meta(u) \notin {w}
  BY EntitiesDistinct DEF Entities
<1>3. \A k \in Keys : cache[k] # None /\ cache[k].of \in {w} => k \in keys
  BY CachedFacts, KeyOf
<1>4. keys \subseteq Keys /\ w \notin Reversals
  BY KeysOfRows, EntitiesDistinct DEF Txns
<1>5. actor = [a \in Wallets \cup Reversals |-> actor[a]]
      /\ \A a \in Wallets \cup Reversals : Sends(Commit({w}), a, actor[a].keys)
  BY <1>2, ActorForm
<1> HIDE DEF keys
<1>6. CASE actor' = [actor EXCEPT ![w] = [keys |-> keys, on |-> n, age |-> 0]] /\ cache' = cache
  <2>1. actor' = [a \in Wallets \cup Reversals |-> actor'[a]] /\ actor'[w].keys = keys
        /\ \A a \in Wallets \cup Reversals : a # w => actor'[a] = actor[a]
    BY <1>5, <1>6
  <2>2. \A a \in Wallets \cup Reversals : /\ Sends(Commit({w}), a, actor'[a].keys)
                                          /\ actor[a].keys \subseteq actor'[a].keys
    <3>1. Sends(Commit({w}), w, keys)
      BY <1>4 DEF Sends
    <3> QED
      BY <1>1, <1>5, <2>1, <3>1
  <2>3. \A k \in Keys : cache[k] # None /\ cache[k].of \in {w} =>
          \E a \in Wallets \cup Reversals : k \in actor'[a].keys
    BY <1>3, <2>1
  <2>4. PICK K : K = {}
    OBVIOUS
  <2>5. cache' = cache /\ K = {} /\ \A k \in K : Excuse(Commit({w}), k, "unsent")
    BY <1>6, <2>4
  <2>6. rows' = Commit({w}) /\ UNCHANGED <<enabled, caller>>
    BY <1>1
  <2>7. actor' = [a \in Wallets \cup Reversals |-> actor'[a]]
    BY <2>1
  <2> QED
    BY <1>2, <2>2, <2>3, <2>5, <2>6, <2>7, Committed DEF CommitStep
<1>7. CASE cache' = Missed(Commit({w}), keys, "unsent") /\ actor' = actor
  <2>1. \A k \in keys : Excuse(Commit({w}), k, "unsent")
    BY DEF Excuse
  <2> QED
    BY <1>1, <1>2, <1>3, <1>5, <1>7, <2>1, Committed DEF CommitStep
<1> QED
  BY <1>1, <1>6, <1>7

\* A reversal is final once: only then its actor has keys to delete.
LEMMA ReversalStep ==
    ASSUME CacheInv, NEW r \in Reversals, NEW n \in Replicas, FinalizeReversal(r, n)
    PROVE  CacheInv'
<1> DEFINE p == Undoes[r]
           flipped == Version(p) = 2
           outdated == IF flipped THEN TxnKeys(p) ELSE {}
           known == {TransactionRRNKey(p), TransactionOrderKey(p)}
           es == IF flipped THEN {r, p} ELSE {r}
           Deletes(keys) == actor' = [actor EXCEPT ![r] = [keys |-> keys, on |-> n, age |-> 0]]
<1>1. /\ Len(rows[r]) = 1 /\ rows' = Commit(es) /\ UNCHANGED <<enabled, caller>>
      /\ \/ Deletes(outdated) /\ cache' = cache
         \/ Deletes(known) /\ cache' = Missed(Commit(es), outdated \cap {TransactionKey(p)}, "unnamed")
         \/ actor' = actor /\ cache' = Missed(Commit(es), outdated, "unsent")
  BY DEF FinalizeReversal, Version
<1>2. p \in Payments /\ p \in Txns /\ p # r /\ r \in Txns
  BY CacheConstants, EntitiesDistinct DEF Txns
<1>3. es \in SUBSET Entities /\ r \in es /\ \A w \in Wallets : Meta(w) \notin es
  BY <1>2, EntitiesDistinct DEF Entities
<1>4. TxnKeys(p) = {TransactionKey(p)} \cup known /\ TxnKeys(p) \subseteq Keys
  BY <1>2, KeysOfRows DEF TxnKeys
<1>5. ASSUME NEW k \in Keys, cache[k] # None, cache[k].of \in es
      PROVE  k \in outdated
  <2>1. ASSUME cache[k].of = r PROVE FALSE
    <3>1. Len(rows[r]) >= 2
      BY <1>2, <1>5, <2>1, CachedFacts
    <3> QED
      BY <1>1, <3>1
  <2>2. flipped /\ cache[k].of = p
    BY <1>5, <2>1
  <2>3. k \in TxnKeys(p)
    BY <1>2, <1>5, <2>2, CachedFacts, KeyOf
  <2> QED
    BY <2>2, <2>3
<1>6. outdated \subseteq Keys /\ known \subseteq Keys
      /\ outdated \subseteq known \cup (outdated \cap {TransactionKey(p)})
  BY <1>4
<1>7. /\ actor = [a \in Wallets \cup Reversals |-> actor[a]]
      /\ \A a \in Wallets \cup Reversals : Sends(Commit(es), a, actor[a].keys)
  BY <1>3, ActorForm
<1>8. actor[r].keys = {}
  <2>1. Sends(rows, r, actor[r].keys)
    BY DEF CacheInv
  <2> QED
    BY <1>1, <2>1 DEF Sends
<1>9. Len(Commit(es)[r]) >= 2
  <2>0. r \in Entities
    BY <1>3
  <2>1. Len(Commit(es)[r]) = Len(rows[r]) + 1
    BY <1>3, <2>0, CommitGrows
  <2>2. Len(rows[r]) = 1
    BY <1>1
  <2> HIDE DEF es
  <2> QED
    BY <2>1, <2>2
<1>10. PICK fs \in SUBSET Entities : fs = es
  BY <1>3
<1> HIDE DEF es, outdated, known
<1>11. ASSUME NEW keys \in SUBSET Keys, Deletes(keys)
       PROVE  /\ actor' = [a \in Wallets \cup Reversals |-> actor'[a]] /\ actor'[r].keys = keys
              /\ \A a \in Wallets \cup Reversals : /\ Sends(Commit(fs), a, actor'[a].keys)
                                                   /\ actor[a].keys \subseteq actor'[a].keys
  <2>1. actor' = [a \in Wallets \cup Reversals |-> actor'[a]] /\ actor'[r].keys = keys
        /\ \A a \in Wallets \cup Reversals : a # r => actor'[a] = actor[a]
    BY <1>7, <1>11
  <2>2. Sends(Commit(es), r, keys)
    BY <1>9 DEF Sends
  <2> QED
    BY <1>7, <1>8, <1>10, <2>1, <2>2
<1> HIDE DEF Deletes
<1>12. /\ rows' = Commit(fs) /\ UNCHANGED <<enabled, caller>>
       /\ \A w \in Wallets : Meta(w) \notin fs
  BY <1>1, <1>3, <1>10
<1>13. ASSUME NEW K, NEW why \in {"unsent", "unnamed"}, NEW keys \in SUBSET Keys,
              \/ cache' = cache /\ K = {}
              \/ cache' = Missed(Commit(es), K, why),
              \A k \in K : Excuse(Commit(es), k, why),
              Deletes(keys) \/ (actor' = actor /\ keys = {}),
              outdated \subseteq K \cup keys
       PROVE  CacheInv'
  <2>1. /\ actor' = [a \in Wallets \cup Reversals |-> actor'[a]]
        /\ keys # {} => actor'[r].keys = keys
        /\ \A a \in Wallets \cup Reversals : /\ Sends(Commit(fs), a, actor'[a].keys)
                                             /\ actor[a].keys \subseteq actor'[a].keys
    <3>1. CASE Deletes(keys)
      BY <1>11, <3>1
    <3>2. CASE actor' = actor /\ keys = {}
      BY <1>7, <1>10, <3>2
    <3> QED
      BY <1>13, <3>1, <3>2
  <2>2. \A k \in Keys : cache[k] # None /\ cache[k].of \in fs /\ k[1] # "wallet:meta" =>
          k \in K \/ \E a \in Wallets \cup Reversals : k \in actor'[a].keys
    BY <1>5, <1>10, <1>13, <2>1
  <2>3. (cache' = cache /\ K = {}) \/ cache' = Missed(Commit(fs), K, why)
    BY <1>10, <1>13
  <2>4. \A k \in K : Excuse(Commit(fs), k, why)
    BY <1>10, <1>13
  <2>5. actor' = [a \in Wallets \cup Reversals |-> actor'[a]]
    BY <2>1
  <2>6. \A a \in Wallets \cup Reversals : /\ Sends(Commit(fs), a, actor'[a].keys)
                                         /\ actor[a].keys \subseteq actor'[a].keys
    BY <2>1
  <2>7. rows' = Commit(fs) /\ UNCHANGED <<enabled, caller>>
        /\ \A w \in Wallets : Meta(w) \in fs => Len(rows[w]) # 0
    BY <1>12
  <2>8. CommitStep(fs, K, why)
    BY <2>2, <2>3, <2>4, <2>5, <2>6, <2>7 DEF CommitStep
  <2> QED
    BY <2>8, Committed
<1>14. CASE Deletes(outdated) /\ cache' = cache
  <2>1. PICK K : K = {}
    OBVIOUS
  <2> QED
    BY <1>6, <1>13, <1>14, <2>1
<1>15. CASE Deletes(known) /\ cache' = Missed(Commit(es), outdated \cap {TransactionKey(p)}, "unnamed")
  <2>1. PICK K : K = outdated \cap {TransactionKey(p)}
    OBVIOUS
  <2>2. \A k \in K : Excuse(Commit(es), k, "unnamed")
    BY <1>9, <2>1 DEF Excuse
  <2>3. cache' = Missed(Commit(es), K, "unnamed") /\ outdated \subseteq K \cup known
    BY <1>6, <1>15, <2>1
  <2> QED
    BY <1>6, <1>13, <1>15, <2>2, <2>3
<1>16. CASE actor' = actor /\ cache' = Missed(Commit(es), outdated, "unsent")
  <2>1. \A k \in outdated : Excuse(Commit(es), k, "unsent")
    BY DEF Excuse
  <2>2. PICK keys \in SUBSET Keys : keys = {}
    OBVIOUS
  <2> QED
    BY <1>13, <1>16, <2>1, <2>2
<1> QED
  BY <1>1, <1>14, <1>15, <1>16

LEMMA ShortSeqs ==
    ASSUME NEW S, NEW a \in S, NEW b \in S, NEW d \in S
    PROVE  <<a>> \in Seq(S) /\ <<a, b>> \in Seq(S) /\ <<a, b, d>> \in Seq(S)
  OBVIOUS

\* The keys a request fills are answered by the row it read, whichever key it
\* looked that row up by.
LEMMA FillsAnswer ==
    ASSUME NEW k \in Keys, NEW e \in Named(k), NEW version \in Nat
    PROVE  /\ Fills(k, e, version) \in Seq(Keys)
           /\ \A i \in 1 .. Len(Fills(k, e, version)) :
                /\ e \in Named(Fills(k, e, version)[i])
                /\ Rendered(e, Fills(k, e, version)[i]) = e
           /\ e \in Txns /\ Fills(k, e, version) # <<>> => version >= 2
<1> DEFINE F == Fills(k, e, version)
           Answers(f) == f \in Keys /\ e \in Named(f) /\ Rendered(e, f) = e
           S == {f \in Keys : Answers(f)}
<1>1. ASSUME e \in Payments, version >= 2
      PROVE  /\ F = <<TransactionKey(e), TransactionRRNKey(e), TransactionOrderKey(e)>>
             /\ Answers(TransactionKey(e)) /\ Answers(TransactionRRNKey(e))
             /\ Answers(TransactionOrderKey(e))
  <2>1. e \in Txns
    BY <1>1 DEF Txns
  <2>2. F = <<TransactionKey(e), TransactionRRNKey(e), TransactionOrderKey(e)>>
    BY <1>1, <2>1, EntitiesDistinct DEF Fills
  <2>3. {TransactionKey(e), TransactionRRNKey(e), TransactionOrderKey(e)} \subseteq Keys
    BY <2>1, KeysOfRows DEF TxnKeys
  <2>4. /\ e \in Named(TransactionKey(e)) /\ e \in Named(TransactionRRNKey(e))
        /\ e \in Named(TransactionOrderKey(e))
    BY <1>1, <2>1, KeysOfRows
  <2>5. /\ Rendered(e, TransactionKey(e)) = e /\ Rendered(e, TransactionRRNKey(e)) = e
        /\ Rendered(e, TransactionOrderKey(e)) = e
    BY DEF Rendered, TransactionKey, TransactionRRNKey, TransactionOrderKey
  <2> QED
    BY <2>2, <2>3, <2>4, <2>5
<1>2. ASSUME e \in Reversals, version >= 2
      PROVE  /\ F = <<TransactionKey(e), TransactionRRNKey(e)>>
             /\ Answers(TransactionKey(e)) /\ Answers(TransactionRRNKey(e))
  <2>1. e \in Txns /\ e \notin Payments
    BY <1>2, EntitiesDistinct DEF Txns
  <2>2. F = <<TransactionKey(e), TransactionRRNKey(e)>>
    BY <1>2, <2>1 DEF Fills
  <2>3. {TransactionKey(e), TransactionRRNKey(e)} \subseteq Keys
    BY <2>1, KeysOfRows DEF TxnKeys
  <2>4. e \in Named(TransactionKey(e)) /\ e \in Named(TransactionRRNKey(e))
    BY <2>1, KeysOfRows
  <2>5. Rendered(e, TransactionKey(e)) = e /\ Rendered(e, TransactionRRNKey(e)) = e
    BY DEF Rendered, TransactionKey, TransactionRRNKey
  <2> QED
    BY <2>2, <2>3, <2>4, <2>5
<1>3. ASSUME e \in Txns, ~(version >= 2)
      PROVE  F = <<>>
  BY <1>3 DEF Fills, Txns
<1>4. ASSUME e \notin Txns
      PROVE  F = <<k>> /\ Answers(k)
  <2>1. F = <<k>>
    BY <1>4 DEF Fills, Txns
  <2>2. Rendered(e, k) = e
    BY DEF Rendered, Named
  <2> QED
    BY <2>1, <2>2
<1> HIDE DEF F, Answers
<1>5. \A f : Answers(f) => f \in S
  BY DEF Answers
<1>6. S \subseteq Keys /\ \A f \in S : Answers(f)
  OBVIOUS
<1> HIDE DEF S
<1>7. F \in Seq(S) /\ (e \in Txns /\ F # <<>> => version >= 2)
  <2>1. CASE e \in Payments /\ version >= 2
    <3>1. /\ TransactionKey(e) \in S /\ TransactionRRNKey(e) \in S
          /\ TransactionOrderKey(e) \in S
      BY <1>1, <1>5, <2>1
    <3>2. <<TransactionKey(e), TransactionRRNKey(e), TransactionOrderKey(e)>> \in Seq(S)
      BY <3>1, ShortSeqs
    <3> QED
      BY <1>1, <2>1, <3>2
  <2>2. CASE e \in Reversals /\ version >= 2
    <3>1. TransactionKey(e) \in S /\ TransactionRRNKey(e) \in S
      BY <1>2, <1>5, <2>2
    <3>2. <<TransactionKey(e), TransactionRRNKey(e)>> \in Seq(S)
      BY <3>1, ShortSeqs
    <3> QED
      BY <1>2, <2>2, <3>2
  <2>3. CASE e \in Txns /\ ~(version >= 2)
    BY <1>3, <2>3
  <2>4. CASE e \notin Txns
    <3>1. k \in S
      BY <1>4, <1>5, <2>4
    <3>2. <<k>> \in Seq(S)
      BY <3>1, ShortSeqs
    <3> QED
      BY <1>4, <2>4, <3>2
  <2> QED
    BY <2>1, <2>2, <2>3, <2>4 DEF Txns
<1>8. \A i \in 1 .. Len(F) : F[i] \in S
  BY <1>7, ElementOfSeq
<1>9. F \in Seq(Keys)
  BY <1>6, <1>7, SeqMonotonic
<1>10. \A i \in 1 .. Len(F) : e \in Named(F[i]) /\ Rendered(e, F[i]) = e
  BY <1>6, <1>8 DEF Answers
<1> QED
  BY <1>7, <1>9, <1>10 DEF F

\* Only a request moves.
LEMMA RequestStep ==
    ASSUME CacheInv, NEW c \in Callers, NEW q, Loaded(rows, q),
           caller' = [caller EXCEPT ![c] = q], UNCHANGED <<rows, enabled, actor>>,
           cache' = [k \in Keys |-> cache'[k]],
           \A k \in Keys : \/ cache'[k] = cache[k]
                           \/ /\ Cached(rows, cache'[k], k)
                              /\ Covered(rows, cache'[k], k, actor)
    PROVE  CacheInv'
<1>1. /\ rows' \in RowTypes
      /\ \A w \in Wallets : Len(rows'[w]) = 0 => Len(rows'[Meta(w)]) = 0
      /\ enabled' \in [Replicas -> BOOLEAN]
  BY DEF CacheInv
<1>2. /\ actor' = [a \in Wallets \cup Reversals |-> actor'[a]]
      /\ \A a \in Wallets \cup Reversals : Sends(rows', a, actor'[a].keys)
  BY DEF CacheInv
<1>3. caller = [d \in Callers |-> caller[d]] /\ \A d \in Callers : Loaded(rows, caller[d])
  BY DEF CacheInv
<1>4. caller' = [d \in Callers |-> caller'[d]] /\ \A d \in Callers : Loaded(rows', caller'[d])
  BY <1>3
<1>5. \A k \in Keys : Cached(rows, cache[k], k) /\ Covered(rows, cache[k], k, actor)
  BY DEF CacheInv
<1>6. \A k \in Keys : Cached(rows', cache'[k], k) /\ Covered(rows', cache'[k], k, actor')
  BY <1>5
<1> QED
  BY <1>1, <1>2, <1>4, <1>6, Together

\* What the database finds for a key is named by it.
LEMMA FoundIsNamed ==
    ASSUME OrderInv, NEW k \in Keys, find(k) # None
    PROVE  find(k) \in Named(k)
<1>1. CASE k[1] = "txn:order"
  <2>1. k[2] \in Orders /\ find(k) = newest[k[2]]
    BY <1>1, KeyFacts DEF find
  <2>2. newest[k[2]] \in Payments /\ OrderOf[newest[k[2]]] = k[2]
    BY <2>1 DEF OrderInv
  <2>3. Named(k) = {p \in Payments : OrderOf[p] = k[2]}
    BY <1>1 DEF Named
  <2> QED
    BY <2>1, <2>2, <2>3
<1>2. CASE k[1] # "txn:order"
  BY <1>2 DEF find, Named
<1> QED
  BY <1>1, <1>2

LEMMA MissStep ==
    ASSUME CacheInv, OrderInv, NEW c \in Callers, NEW n \in Replicas, NEW k \in Keys, Miss(c, n, k)
    PROVE  CacheInv'
<1> DEFINE e == find(k)
           todo == Fills(k, e, Version(e))
           read == [on |-> n, of |-> e, version |-> Version(e), age |-> 0, todo |-> todo]
           q == IF todo = <<>> THEN Idle ELSE read
<1>1. /\ Len(rows[e]) > 0 /\ UNCHANGED <<rows, enabled, actor>> /\ cache' = cache
      /\ caller' = [caller EXCEPT ![c] = q]
  BY DEF Miss, Version
<1>0. e \in Named(k)
  BY FoundIsNamed DEF Miss
<1>2. rows \in RowTypes /\ e \in Entities /\ MaxLoad \in Nat
  BY <1>0, KeyOf, Lifetimes DEF CacheInv
<1>3. Version(e) \in Nat /\ Version(e) = Len(rows[e])
  BY <1>2, RowFacts DEF Version
<1>4. /\ todo \in Seq(Keys) /\ (e \in Txns /\ todo # <<>> => Version(e) >= 2)
      /\ \A i \in 1 .. Len(todo) : e \in Named(todo[i]) /\ Rendered(e, todo[i]) = e
  BY <1>0, <1>3, FillsAnswer
<1> HIDE DEF e, todo
<1>6. ASSUME todo # <<>>
      PROVE  Loaded(rows, read)
  <2>1. read \in Loads
    BY <1>2, <1>3, <1>4, <1>6 DEF Loads
  <2>2. Recent(rows, e, Version(e), 0)
    BY <1>1, <1>2, <1>3, <1>4, <1>6, NowRecent
  <2> QED
    BY <1>4, <2>1, <2>2 DEF Loaded
<1>7. Loaded(rows, q)
  BY <1>6 DEF Loaded
<1>8. cache' = [l \in Keys |-> cache'[l]]
  BY <1>1 DEF CacheInv
<1> HIDE DEF q
<1>9. PICK p : p = q
  OBVIOUS
<1>10. Loaded(rows, p) /\ caller' = [caller EXCEPT ![c] = p]
  BY <1>1, <1>7, <1>9
<1>11. UNCHANGED <<rows, enabled, actor>> /\ \A l \in Keys : cache'[l] = cache[l]
  BY <1>1
<1> QED
  BY <1>8, <1>10, <1>11, RequestStep

LEMMA SetStep ==
    ASSUME CacheInv, NEW c \in Callers, Set(c)
    PROVE  CacheInv'
<1>1. PICK q : q = caller[c]
  OBVIOUS
<1>2. q # Idle
  BY <1>1 DEF Set
<1>3. /\ q \in Loads
      /\ \A i \in 1 .. Len(q.todo) : /\ Rendered(q.of, q.todo[i]) \in Named(q.todo[i])
                                     /\ Recent(rows, Rendered(q.of, q.todo[i]), q.version, q.age)
  <2>1. Loaded(rows, q)
    BY <1>1 DEF CacheInv
  <2> QED
    BY <1>2, <2>1 DEF Loaded
<1>4. q.todo \in Seq(Keys) /\ q.todo # <<>> /\ q.age \in 0 .. MaxLoad /\ q.version \in Nat
  BY <1>3 DEF Loads
<1>5. Len(q.todo) \in Nat /\ 1 \in 1 .. Len(q.todo) /\ Head(q.todo) = q.todo[1]
  BY <1>4, LenProperties, EmptySeq
<1>6. PICK k \in Keys : k = Head(q.todo)
  BY <1>4, <1>5, ElementOfSeq
<1> DEFINE r == IF Len(q.todo) = 1 THEN Idle ELSE [q EXCEPT !.todo = Tail(@)]
<1>7. caller' = [caller EXCEPT ![c] = r] /\ UNCHANGED <<rows, enabled, actor>>
  <2> DEFINE s == IF Len(caller[c].todo) = 1 THEN Idle
                  ELSE [caller[c] EXCEPT !.todo = Tail(caller[c].todo)]
  <2>1. caller' = [caller EXCEPT ![c] = s] /\ UNCHANGED <<rows, enabled, actor>>
    BY DEF Set
  <2>2. s = r
    BY <1>1
  <2> HIDE DEF s, r
  <2> QED
    BY <2>1, <2>2
<1>8. cache' = cache \/ Put(q.of, q.version, k)
  BY <1>1, <1>6 DEF Set
<1>9. Loaded(rows, r)
  <2>1. CASE Len(q.todo) = 1
    BY <2>1 DEF Loaded
  <2>2. CASE Len(q.todo) # 1
    <3> DEFINE t == Tail(q.todo)
               p == [q EXCEPT !.todo = t]
    <3>1. /\ t \in Seq(Keys) /\ Len(t) = Len(q.todo) - 1
          /\ \A i \in 1 .. Len(t) : t[i] = q.todo[i + 1]
      BY <1>4, HeadTailProperties
    <3>2. t # <<>>
      <4>1. Len(t) # 0
        BY <1>5, <2>2, <3>1
      <4>2. Len(<<>>) = 0
        OBVIOUS
      <4> QED
        BY <4>1, <4>2
    <3> HIDE DEF t
    <3>3. p \in Loads /\ p.todo = t /\ p.of = q.of /\ p.version = q.version /\ p.age = q.age
      BY <1>3, <3>1, <3>2 DEF Loads
    <3>4. \A i \in 1 .. Len(t) : i + 1 \in 1 .. Len(q.todo)
      BY <1>5, <3>1
    <3>5. \A i \in 1 .. Len(t) : /\ Rendered(q.of, t[i]) \in Named(t[i])
                                 /\ Recent(rows, Rendered(q.of, t[i]), q.version, q.age)
      BY <1>3, <3>1, <3>4
    <3> HIDE DEF p
    <3>6. Loaded(rows, p)
      BY <3>3, <3>5 DEF Loaded
    <3> QED
      BY <2>2, <3>6 DEF p, t
  <2> QED
    BY <2>1, <2>2
<1>10. cache = [l \in Keys |-> cache[l]] /\ rows \in RowTypes
  BY DEF CacheInv
<1> HIDE DEF r
<1>11. CASE cache' = cache
  BY <1>7, <1>9, <1>10, <1>11, RequestStep
<1>12. CASE Put(q.of, q.version, k)
  <2> DEFINE e == Rendered(q.of, k)
             y == [of |-> e, version |-> q.version, left |-> ttl(k), why |-> Lateness(e, q.version)]
  <2>1. e \in Named(k) /\ Recent(rows, e, q.version, q.age)
    BY <1>3, <1>5, <1>6
  <2>2. cache' = [cache EXCEPT ![k] = y]
    BY <1>12 DEF Put
  <2> HIDE DEF e
  <2>3. e \in Entities /\ ttl(k) \in 1 .. Horizon - MaxLoad /\ MaxLoad \in Nat /\ Horizon \in Nat
    BY <2>1, KeyOf, Lifetimes
  <2>4. y \in Entry
    <3>1. ttl(k) \in 1 .. Horizon
      BY <2>3
    <3>2. Lateness(e, q.version) \in {"none", "late"}
      BY DEF Lateness
    <3> QED
      BY <1>4, <2>3, <3>1, <3>2 DEF Entry
  <2>5. y.of = e /\ y.version = q.version /\ y.left = ttl(k)
        /\ (q.version # Version(e) => y.why = "late")
    BY DEF Lateness
  <2> HIDE DEF y
  <2>6. q.age <= MaxLoad /\ q.age \in Nat /\ MaxLoad + ttl(k) - ttl(k) = MaxLoad /\ ttl(k) <= ttl(k)
    BY <1>4, <2>3
  <2>7. Recent(rows, y.of, y.version, MaxLoad + ttl(k) - y.left)
    BY <1>10, <2>1, <2>3, <2>5, <2>6, MoreRecent
  <2>8. Cached(rows, y, k)
    BY <2>1, <2>4, <2>5, <2>6, <2>7 DEF Cached
  <2>9. Covered(rows, y, k, actor)
    BY <2>5 DEF Covered, Excuse, Version
  <2>10. cache'[k] = y /\ \A l \in Keys : l # k => cache'[l] = cache[l]
    BY <1>10, <2>2
  <2>11. cache' = [l \in Keys |-> cache'[l]]
    BY <1>10, <2>2
  <2>12. \A l \in Keys : \/ cache'[l] = cache[l]
                        \/ /\ Cached(rows, cache'[l], l)
                           /\ Covered(rows, cache'[l], l, actor)
    BY <2>8, <2>9, <2>10
  <2> QED
    BY <1>7, <1>9, <2>11, <2>12, RequestStep
<1> QED
  BY <1>8, <1>11, <1>12

LEMMA CreateStep ==
    ASSUME CacheInv, NEW c \in Callers, NEW n \in Replicas, NEW w \in Wallets, Create(c, n, w)
    PROVE  CacheInv'
<1> DEFINE todo == <<WalletKey(w), WalletNumberKey(w), WalletMetaKey(w)>>
           q == [on |-> n, of |-> w, version |-> 1, age |-> 0, todo |-> todo]
           T == [rows EXCEPT ![w] = <<0>>, ![Meta(w)] = <<0>>]
<1>1. /\ Len(rows[w]) = 0 /\ rows' = T /\ caller' = [caller EXCEPT ![c] = q]
      /\ UNCHANGED <<enabled, cache, actor>>
  BY DEF Create, Version
<1>2. rows \in RowTypes /\ Len(rows[Meta(w)]) = 0
  BY <1>1 DEF CacheInv
<1>3. w \in Entities /\ Meta(w) \in Entities /\ w # Meta(w) /\ w \notin Txns /\ Meta(w) \notin Txns
  BY EntitiesDistinct DEF Entities
<1>4. \A e \in Entities : rows'[e] = IF e \in {w, Meta(w)} THEN <<0>> ELSE rows[e]
  BY <1>1, <1>2, <1>3 DEF RowTypes
<1>5. <<0>> \in Seq(0 .. Horizon) /\ Len(<<0>>) = 1 /\ <<0>>[1] = 0
  BY Lifetimes
<1>6. rows' \in RowTypes
  BY <1>1, <1>2, <1>3, <1>5 DEF RowTypes
<1>7. \A e \in {w, Meta(w)} : Len(rows'[e]) = 1 /\ Len(rows[e]) = 0 /\ rows'[e][1] = 0
  BY <1>1, <1>2, <1>3, <1>4, <1>5
<1>8. \A e \in Entities : e \notin {w, Meta(w)} => rows'[e] = rows[e] /\ Len(rows[e]) \in Nat
  BY <1>2, <1>4, RowFacts
<1>9. Grown(rows, rows')
  <2>1. ASSUME NEW e \in {w, Meta(w)}
        PROVE  /\ Len(rows[e]) <= Len(rows'[e])
               /\ \A v \in 1 .. Len(rows[e]) : rows'[e][v] = rows[e][v]
               /\ \A v \in 1 .. Len(rows'[e]) : v > Len(rows[e]) => rows'[e][v] = 0
    <3>1. Len(rows'[e]) = 1 /\ Len(rows[e]) = 0 /\ rows'[e][1] = 0
      BY <1>7
    <3> QED
      BY <3>1
  <2>2. ASSUME NEW e \in Entities, e \notin {w, Meta(w)}
        PROVE  /\ Len(rows[e]) <= Len(rows'[e])
               /\ \A v \in 1 .. Len(rows[e]) : rows'[e][v] = rows[e][v]
               /\ \A v \in 1 .. Len(rows'[e]) : v > Len(rows[e]) => rows'[e][v] = 0
    <3>1. rows'[e] = rows[e] /\ Len(rows[e]) \in Nat
      BY <1>8, <2>2
    <3> QED
      BY <3>1
  <2> QED
    BY <2>1, <2>2 DEF Grown
<1>10. ASSUME NEW u \in Wallets, Len(rows'[u]) = 0
       PROVE  Len(rows'[Meta(u)]) = 0
  <2>1. u \in Entities /\ Meta(u) \in Entities /\ u \notin {w, Meta(w)}
    BY <1>7, <1>10 DEF Entities
  <2>2. Meta(u) \notin {w, Meta(w)}
    BY <2>1, EntitiesDistinct DEF Meta
  <2>3. rows'[u] = rows[u] /\ rows'[Meta(u)] = rows[Meta(u)]
    BY <1>8, <2>1, <2>2
  <2>4. Len(rows[u]) = 0
    BY <1>10, <2>3
  <2>5. Len(rows[Meta(u)]) = 0
    BY <2>4 DEF CacheInv
  <2> QED
    BY <2>3, <2>5
<1>11. Loaded(rows', q)
  <2>1. /\ WalletKey(w) \in Keys /\ WalletNumberKey(w) \in Keys /\ WalletMetaKey(w) \in Keys
        /\ w \in Named(WalletKey(w)) /\ w \in Named(WalletNumberKey(w))
        /\ Meta(w) \in Named(WalletMetaKey(w))
    BY KeysOfRows
  <2>2. /\ Rendered(w, WalletKey(w)) = w /\ Rendered(w, WalletNumberKey(w)) = w
        /\ Rendered(w, WalletMetaKey(w)) = Meta(w)
    BY DEF Rendered, WalletKey, WalletNumberKey, WalletMetaKey
  <2>3. Recent(rows', w, 1, 0) /\ Recent(rows', Meta(w), 1, 0)
    BY <1>3, <1>7 DEF Recent
  <2>4. todo \in Seq(Keys) /\ todo # <<>> /\ Len(todo) = 3
        /\ todo[1] = WalletKey(w) /\ todo[2] = WalletNumberKey(w) /\ todo[3] = WalletMetaKey(w)
    BY <2>1, ShortSeqs
  <2> HIDE DEF todo
  <2>5. q \in Loads
    BY <1>3, <2>4, Lifetimes DEF Loads
  <2>6. \A i \in 1 .. Len(todo) : i = 1 \/ i = 2 \/ i = 3
    BY <2>4
  <2>7. \A i \in 1 .. Len(todo) : /\ Rendered(w, todo[i]) \in Named(todo[i])
                                  /\ Recent(rows', Rendered(w, todo[i]), 1, 0)
    BY <2>1, <2>2, <2>3, <2>4, <2>6
  <2> QED
    BY <2>5, <2>7 DEF Loaded
<1> HIDE DEF q
<1>12. caller' = [d \in Callers |-> caller'[d]] /\ \A d \in Callers : Loaded(rows', caller'[d])
  <2>1. caller = [d \in Callers |-> caller[d]] /\ \A d \in Callers : Loaded(rows, caller[d])
    BY DEF CacheInv
  <2>2. \A d \in Callers : Loaded(rows', caller[d])
    BY <1>2, <1>6, <1>9, <2>1, GrownKept
  <2> QED
    BY <1>1, <1>11, <2>1, <2>2
<1>13. /\ enabled' \in [Replicas -> BOOLEAN] /\ cache' = [k \in Keys |-> cache'[k]]
       /\ actor' = [a \in Wallets \cup Reversals |-> actor'[a]]
  BY <1>1 DEF CacheInv
<1>14. \A a \in Wallets \cup Reversals : Sends(rows', a, actor'[a].keys)
  <2>1. \A a \in Wallets \cup Reversals : Sends(rows, a, actor[a].keys)
    BY DEF CacheInv
  <2> QED
    BY <1>1, <1>2, <1>6, <1>9, <2>1, GrownKept
<1>15. ASSUME NEW k \in Keys
       PROVE  Cached(rows', cache'[k], k) /\ Covered(rows', cache'[k], k, actor')
  <2>1. Cached(rows, cache[k], k) /\ Covered(rows, cache[k], k, actor)
    BY DEF CacheInv
  <2>2. Cached(rows', cache[k], k)
    BY <1>2, <1>6, <1>9, <2>1, GrownKept
  <2>3. ASSUME cache[k] # None
        PROVE  rows'[cache[k].of] = rows[cache[k].of]
    <3>1. cache[k].of \in Entities /\ Len(rows[cache[k].of]) >= 1
      BY <2>3, CachedFacts
    <3>2. cache[k].of \notin {w, Meta(w)}
      BY <1>1, <1>2, <3>1
    <3> QED
      BY <1>8, <3>1, <3>2
  <2>4. Covered(rows', cache[k], k, actor)
    <3>1. \A why : Excuse(rows, k, why) => Excuse(rows', k, why)
      BY <1>2, <1>6, <1>9, GrownExcuse DEF Grown
    <3> QED
      BY <2>1, <2>3, <3>1 DEF Covered
  <2> QED
    BY <1>1, <2>2, <2>4
<1> QED
  BY <1>6, <1>10, <1>12, <1>13, <1>14, <1>15, Together

\* A replica restarts: what its actors still had to delete was missed.
LEMMA StartStep ==
    ASSUME CacheInv, NEW n \in Replicas, Start(n)
    PROVE  CacheInv'
<1> DEFINE gone == {a \in DOMAIN actor : actor[a].on = n}
           K == UNION {actor[a].keys : a \in gone}
<1>1. /\ \E up \in BOOLEAN : enabled' = [enabled EXCEPT ![n] = up]
      /\ caller' = [c \in Callers |-> IF caller[c] # Idle /\ caller[c].on = n
                                      THEN Idle ELSE caller[c]]
      /\ actor' = [a \in DOMAIN actor |-> IF a \in gone THEN Done ELSE actor[a]]
      /\ cache' = Missed(rows, K, "unsent") /\ rows' = rows
  BY DEF Start
<1>2. /\ rows' \in RowTypes /\ enabled' \in [Replicas -> BOOLEAN]
      /\ \A w \in Wallets : Len(rows'[w]) = 0 => Len(rows'[Meta(w)]) = 0
  BY <1>1 DEF CacheInv
<1>3. caller' = [c \in Callers |-> caller'[c]] /\ \A c \in Callers : Loaded(rows', caller'[c])
  <2>1. \A c \in Callers : Loaded(rows, caller[c]) /\ Loaded(rows, Idle)
    BY DEF CacheInv, Loaded
  <2>2. \A c \in Callers : caller'[c] = Idle \/ caller'[c] = caller[c]
    BY <1>1
  <2>3. caller' = [c \in Callers |-> caller'[c]]
    BY <1>1
  <2> QED
    BY <1>1, <2>1, <2>2, <2>3
<1>4. DOMAIN actor = Wallets \cup Reversals
  BY DEF CacheInv
<1>5. /\ actor' = [a \in Wallets \cup Reversals |-> actor'[a]]
      /\ \A a \in Wallets \cup Reversals : actor'[a] = IF a \in gone THEN Done ELSE actor[a]
  BY <1>1, <1>4
<1>6. ASSUME NEW a \in Wallets \cup Reversals
      PROVE  Sends(rows', a, actor'[a].keys)
  <2>1. Sends(rows, a, actor[a].keys) /\ Sends(rows, a, {})
    BY DEF CacheInv, Sends
  <2>2. Done.keys = {}
    BY DEF Done
  <2> QED
    BY <1>1, <1>5, <2>1, <2>2
<1>7. PICK L : L = K
  OBVIOUS
<1>8. \A a \in gone : \A k \in actor[a].keys : k \in L
  BY <1>7
<1>9. cache' = Missed(rows, L, "unsent")
  BY <1>1, <1>7
<1> HIDE DEF gone, K
<1>10. cache' = [k \in Keys |-> cache'[k]]
  BY <1>9 DEF Missed
<1>11. ASSUME NEW k \in Keys
       PROVE  Cached(rows', cache'[k], k) /\ Covered(rows', cache'[k], k, actor')
  <2>1. Cached(rows, cache[k], k) /\ Covered(rows, cache[k], k, actor)
    BY DEF CacheInv
  <2>2. /\ cache[k] = None => cache'[k] = None
        /\ cache[k] # None =>
             /\ cache'[k] # None
             /\ cache'[k].of = cache[k].of /\ cache'[k].version = cache[k].version
             /\ cache[k].version # Len(rows[cache[k].of]) =>
                  cache'[k].why = IF k \in L THEN "unsent" ELSE cache[k].why
        /\ Cached(rows, cache[k], k) => Cached(rows, cache'[k], k)
    <3>1. PICK R : R = rows
      OBVIOUS
    <3>2. Left(cache[k], Missed(R, L, "unsent")[k], R, k, L, "unsent")
      BY MissedIs
    <3>3. Left(cache[k], cache'[k], rows, k, L, "unsent")
      BY <1>9, <3>1, <3>2
    <3> QED
      BY <3>3 DEF Left
  <2>3. Covered(rows, cache'[k], k, actor')
    <3>1. SUFFICES ASSUME cache'[k] # None, cache'[k].version # Len(rows[cache'[k].of]),
                          k[1] # "wallet:meta"
                   PROVE  (\E a \in DOMAIN actor' : k \in actor'[a].keys)
                          \/ Excuse(rows, k, cache'[k].why)
      BY DEF Covered
    <3>2. cache[k] # None /\ cache[k].version # Len(rows[cache[k].of])
          /\ cache'[k].why = IF k \in L THEN "unsent" ELSE cache[k].why
      BY <2>2, <3>1
    <3>3. (\E a \in DOMAIN actor : k \in actor[a].keys) \/ Excuse(rows, k, cache[k].why)
      BY <2>1, <3>1, <3>2 DEF Covered
    <3>4. CASE Excuse(rows, k, cache[k].why)
      BY <3>2, <3>4 DEF Excuse
    <3>5. ASSUME NEW a \in DOMAIN actor, k \in actor[a].keys
          PROVE  (\E b \in DOMAIN actor' : k \in actor'[b].keys) \/ Excuse(rows, k, cache'[k].why)
      <4>1. CASE a \in gone
        BY <1>8, <3>2, <3>5, <4>1 DEF Excuse
      <4>2. CASE a \notin gone
        <5>1. a \in DOMAIN actor' /\ actor'[a] = actor[a]
          BY <1>4, <1>5, <4>2
        <5> QED
          BY <3>5, <5>1
      <4> QED
        BY <4>1, <4>2
    <3> QED
      BY <3>3, <3>4, <3>5
  <2> QED
    BY <1>1, <2>1, <2>2, <2>3
<1> QED
  BY <1>2, <1>3, <1>5, <1>6, <1>10, <1>11, Together

LEMMA DeleteStep ==
    ASSUME CacheInv, NEW a \in Wallets \cup Reversals, Delete(a)
    PROVE  CacheInv'
<1>1. PICK K : K = actor[a].keys
  OBVIOUS
<1>2. /\ \/ cache' = [k \in Keys |-> IF k \in K THEN None ELSE cache[k]]
         \/ cache' = Missed(rows, K, "unsent")
      /\ actor' = [actor EXCEPT ![a] = Done] /\ UNCHANGED <<rows, enabled, caller>>
  BY <1>1 DEF Delete
<1>3. /\ rows' \in RowTypes /\ enabled' \in [Replicas -> BOOLEAN]
      /\ \A w \in Wallets : Len(rows'[w]) = 0 => Len(rows'[Meta(w)]) = 0
      /\ caller' = [c \in Callers |-> caller'[c]]
      /\ \A c \in Callers : Loaded(rows', caller'[c])
  BY <1>2 DEF CacheInv
<1>4. actor = [b \in Wallets \cup Reversals |-> actor[b]]
      /\ \A b \in Wallets \cup Reversals : Sends(rows, b, actor[b].keys)
  BY DEF CacheInv
<1>5. actor' = [b \in Wallets \cup Reversals |-> actor'[b]] /\ actor'[a].keys = {}
      /\ \A b \in Wallets \cup Reversals : b # a => actor'[b] = actor[b]
  BY <1>2, <1>4 DEF Done
<1>6. \A b \in Wallets \cup Reversals : Sends(rows', b, actor'[b].keys)
  <2>1. Sends(rows, a, {})
    BY DEF Sends
  <2> QED
    BY <1>2, <1>4, <1>5, <2>1
<1>7. cache' = [k \in Keys |-> cache'[k]]
  <2>1. CASE cache' = [k \in Keys |-> IF k \in K THEN None ELSE cache[k]]
    BY <2>1
  <2>2. CASE cache' = Missed(rows, K, "unsent")
    BY <2>2 DEF Missed
  <2> QED
    BY <1>2, <2>1, <2>2
<1>8. ASSUME NEW k \in Keys
      PROVE  /\ cache'[k] # None =>
                  /\ cache[k] # None
                  /\ cache'[k].of = cache[k].of /\ cache'[k].version = cache[k].version
                  /\ cache[k].version # Len(rows[cache[k].of]) =>
                       cache'[k].why = IF k \in K THEN "unsent" ELSE cache[k].why
             /\ Cached(rows, cache[k], k) => Cached(rows, cache'[k], k)
  <2>1. CASE cache' = [l \in Keys |-> IF l \in K THEN None ELSE cache[l]]
    BY <2>1 DEF Cached
  <2>2. CASE cache' = Missed(rows, K, "unsent")
    <3>1. PICK R : R = rows
      OBVIOUS
    <3>2. Left(cache[k], Missed(R, K, "unsent")[k], R, k, K, "unsent")
      BY MissedIs
    <3>3. Left(cache[k], cache'[k], rows, k, K, "unsent")
      BY <2>2, <3>1, <3>2
    <3> QED
      BY <3>3 DEF Left
  <2> QED
    BY <1>2, <2>1, <2>2
<1>9. ASSUME NEW k \in Keys
      PROVE  Cached(rows', cache'[k], k) /\ Covered(rows', cache'[k], k, actor')
  <2>1. Cached(rows, cache[k], k) /\ Covered(rows, cache[k], k, actor)
    BY DEF CacheInv
  <2>2. Covered(rows, cache'[k], k, actor')
    <3>1. SUFFICES ASSUME cache'[k] # None, cache'[k].version # Len(rows[cache'[k].of]),
                          k[1] # "wallet:meta"
                   PROVE  (\E b \in DOMAIN actor' : k \in actor'[b].keys)
                          \/ Excuse(rows, k, cache'[k].why)
      BY DEF Covered
    <3>2. cache[k] # None /\ cache[k].version # Len(rows[cache[k].of])
          /\ cache'[k].why = IF k \in K THEN "unsent" ELSE cache[k].why
      BY <1>8, <3>1
    <3>3. (\E b \in DOMAIN actor : k \in actor[b].keys) \/ Excuse(rows, k, cache[k].why)
      BY <2>1, <3>1, <3>2 DEF Covered
    <3>4. ASSUME NEW b \in DOMAIN actor, k \in actor[b].keys
          PROVE  (b \in DOMAIN actor' /\ k \in actor'[b].keys) \/ k \in K
      BY <1>1, <1>4, <1>5, <3>4
    <3>5. k \in K \/ Excuse(rows, k, cache[k].why) => Excuse(rows, k, cache'[k].why)
      BY <3>2 DEF Excuse
    <3> QED
      BY <3>3, <3>4, <3>5
  <2> QED
    BY <1>2, <1>8, <2>1, <2>2
<1> QED
  BY <1>3, <1>5, <1>6, <1>7, <1>9, Together

LEMMA TickAges ==
    ASSUME CacheInv, Tick
    PROVE  /\ rows \in RowTypes /\ rows' \in RowTypes /\ Older(rows, rows')
           /\ \A e \in Entities : Len(rows'[e]) = Len(rows[e])
<1> DEFINE age(e, v) == Min({rows[e][v] + 1, Horizon})
<1>1. rows \in RowTypes /\ Horizon \in Nat
  BY Lifetimes DEF CacheInv
<1>2. rows' = [e \in Entities |-> [v \in DOMAIN rows[e] |-> age(e, v)]]
  BY DEF Tick
<1>3. ASSUME NEW e \in Entities, NEW v \in 1 .. Len(rows[e])
      PROVE  age(e, v) \in 0 .. Horizon /\ age(e, v) <= rows[e][v] + 1
  <2> DEFINE S == {rows[e][v] + 1, Horizon}
  <2>1. rows[e][v] \in 0 .. Horizon
    BY <1>1, RowFacts
  <2>2. \E x \in S : \A y \in S : x <= y
    <3>1. CASE rows[e][v] + 1 <= Horizon
      BY <1>1, <2>1, <3>1
    <3>2. CASE ~(rows[e][v] + 1 <= Horizon)
      BY <1>1, <2>1, <3>2
    <3> QED
      BY <3>1, <3>2
  <2>3. Min(S) \in S /\ \A y \in S : Min(S) <= y
    BY <2>2 DEF Min
  <2> QED
    BY <1>1, <2>1, <2>3
<1> HIDE DEF age
<1>4. ASSUME NEW e \in Entities
      PROVE  /\ rows'[e] \in Seq(0 .. Horizon) /\ Len(rows'[e]) = Len(rows[e])
             /\ \A v \in 1 .. Len(rows[e]) : rows'[e][v] <= rows[e][v] + 1
  <2>1. rows[e] \in Seq(0 .. Horizon) /\ Len(rows[e]) \in Nat
    BY <1>1, RowFacts DEF RowTypes
  <2>2. DOMAIN rows[e] = 1 .. Len(rows[e])
    BY <2>1, LenProperties
  <2>3. rows'[e] = [v \in 1 .. Len(rows[e]) |-> age(e, v)]
    BY <1>2, <2>2
  <2>4. rows'[e] \in Seq(0 .. Horizon) /\ Len(rows'[e]) = Len(rows[e])
    BY <1>3, <2>1, <2>3, IsASeq
  <2> QED
    BY <1>3, <2>3, <2>4
<1>5. rows' \in RowTypes
  <2>1. rows' = [e \in Entities |-> rows'[e]]
    BY <1>2
  <2> QED
    BY <1>4, <2>1 DEF RowTypes
<1>6. Older(rows, rows')
  BY <1>4 DEF Older
<1> QED
  BY <1>1, <1>4, <1>5, <1>6

LEMMA TickStep ==
    ASSUME CacheInv, Tick
    PROVE  CacheInv'
<1>1. rows \in RowTypes
  BY TickAges
<1>4. \A e \in Entities : Len(rows'[e]) = Len(rows[e])
  BY TickAges
<1>5. rows' \in RowTypes
  BY TickAges
<1>6. Older(rows, rows')
  BY TickAges
<1>7. ASSUME NEW w \in Wallets, Len(rows'[w]) = 0
      PROVE  Len(rows'[Meta(w)]) = 0
  <2>1. w \in Entities /\ Meta(w) \in Entities
    BY DEF Entities
  <2>2. Len(rows[w]) = 0
    BY <1>4, <1>7, <2>1
  <2>3. Len(rows[Meta(w)]) = 0
    BY <2>2 DEF CacheInv
  <2> QED
    BY <1>4, <2>1, <2>3
<1>8. enabled' \in [Replicas -> BOOLEAN]
  BY DEF Tick, CacheInv
<1>9. caller' = [c \in Callers |-> caller'[c]]
  BY DEF Tick
<1>10. ASSUME NEW c \in Callers
       PROVE  Loaded(rows', caller'[c])
  <2>1. Loaded(rows, caller[c])
    BY DEF CacheInv
  <2>2. caller'[c] = IF caller[c] = Idle THEN Idle ELSE [caller[c] EXCEPT !.age = @ + 1]
    BY DEF Tick
  <2>3. CASE caller[c] = Idle
    BY <2>2, <2>3 DEF Loaded
  <2>4. CASE caller[c] # Idle
    <3>1. caller[c].age < MaxLoad
      BY <2>4 DEF Tick
    <3>2. Loaded(rows', [caller[c] EXCEPT !.age = @ + 1])
      BY <1>1, <1>5, <1>6, <2>1, <2>4, <3>1, OlderKept
    <3> QED
      BY <2>2, <2>4, <3>2
  <2> QED
    BY <2>3, <2>4
<1>11. DOMAIN actor = Wallets \cup Reversals
       /\ \A a \in Wallets \cup Reversals : Sends(rows, a, actor[a].keys)
  BY DEF CacheInv
<1>12. actor' = [a \in DOMAIN actor |-> IF actor[a].keys = {} THEN Done
                                        ELSE [actor[a] EXCEPT !.age = @ + 1]]
  BY DEF Tick
<1>13. \A a \in Wallets \cup Reversals : \A k : k \in actor[a].keys <=> k \in actor'[a].keys
  <2>1. ASSUME NEW a \in Wallets \cup Reversals, actor[a].keys = {}
        PROVE  actor'[a].keys = {}
    BY <1>11, <1>12, <2>1 DEF Done
  <2>2. ASSUME NEW a \in Wallets \cup Reversals, actor[a].keys # {}
        PROVE  actor'[a].keys = actor[a].keys
    <3>1. actor'[a] = [actor[a] EXCEPT !.age = @ + 1]
      BY <1>11, <1>12, <2>2
    <3> QED
      BY <3>1
  <2> QED
    BY <2>1, <2>2
<1>14. actor' = [a \in Wallets \cup Reversals |-> actor'[a]]
  BY <1>11, <1>12
<1>15. ASSUME NEW a \in Wallets \cup Reversals
       PROVE  Sends(rows', a, actor'[a].keys)
  <2>1. Sends(rows', a, actor[a].keys)
    BY <1>1, <1>5, <1>6, <1>11, OlderKept
  <2> QED
    BY <1>13, <2>1 DEF Sends
<1>16. cache' = [k \in Keys |-> cache'[k]]
  BY DEF Tick
<1>17. ASSUME NEW k \in Keys
       PROVE  Cached(rows', cache'[k], k) /\ Covered(rows', cache'[k], k, actor')
  <2>1. Cached(rows, cache[k], k) /\ Covered(rows, cache[k], k, actor)
    BY DEF CacheInv
  <2>2. cache'[k] = IF cache[k] = None \/ cache[k].left = 1 THEN None
                    ELSE [cache[k] EXCEPT !.left = @ - 1]
    BY DEF Tick
  <2>3. CASE cache[k] = None \/ cache[k].left = 1
    BY <2>2, <2>3 DEF Cached, Covered
  <2>4. CASE ~(cache[k] = None \/ cache[k].left = 1)
    <3> DEFINE y == [cache[k] EXCEPT !.left = @ - 1]
    <3>1. Cached(rows', y, k)
      BY <1>1, <1>5, <1>6, <2>1, <2>4, OlderKept
    <3>2. cache[k] \in Entry
      BY <2>1, <2>4 DEF Cached
    <3>3. y.of = cache[k].of /\ y.version = cache[k].version /\ y.why = cache[k].why
      BY <3>2 DEF Entry
    <3> HIDE DEF y
    <3>4. cache[k].of \in Entities /\ Len(rows'[cache[k].of]) = Len(rows[cache[k].of])
      BY <1>4, <2>4, CachedFacts
    <3>5. (\E a \in DOMAIN actor : k \in actor[a].keys) => \E a \in DOMAIN actor' : k \in actor'[a].keys
      BY <1>11, <1>13, <1>14
    <3>6. Covered(rows', y, k, actor')
      <4>1. \A r \in Reversals : Len(rows'[r]) = Len(rows[r])
        BY <1>4 DEF Entities, Txns
      <4>2. Excuse(rows, k, y.why) => Excuse(rows', k, y.why)
        BY <4>1 DEF Excuse
      <4> QED
        BY <2>1, <2>4, <3>3, <3>4, <3>5, <4>2 DEF Covered
    <3>7. cache'[k] = y
      BY <2>2, <2>4 DEF y
    <3> QED
      BY <3>1, <3>6, <3>7
  <2> QED
    BY <2>3, <2>4
<1> QED
  BY <1>5, <1>7, <1>8, <1>9, <1>10, <1>14, <1>15, <1>16, <1>17, Together

LEMMA CacheInit ==
    ASSUME Init
    PROVE  CacheInv
<1>1. \A e \in Entities : rows[e] = <<>>
  BY DEF Init
<1>2. rows \in RowTypes
  BY EmptySeq DEF Init, RowTypes
<1>3. \A w \in Wallets : Len(rows[Meta(w)]) = 0
  BY <1>1 DEF Entities
<1>4. enabled \in [Replicas -> BOOLEAN] /\ caller = [c \in Callers |-> Idle]
      /\ actor = [a \in Wallets \cup Reversals |-> Done] /\ cache = [k \in Keys |-> None]
  BY DEF Init
<1>5. caller = [c \in Callers |-> caller[c]] /\ \A c \in Callers : Loaded(rows, caller[c])
  BY <1>4 DEF Loaded
<1>6. actor = [a \in Wallets \cup Reversals |-> actor[a]]
      /\ \A a \in Wallets \cup Reversals : Sends(rows, a, actor[a].keys)
  BY <1>4 DEF Sends, Done
<1>7. cache = [k \in Keys |-> cache[k]]
      /\ \A k \in Keys : Cached(rows, cache[k], k) /\ Covered(rows, cache[k], k, actor)
  BY <1>4 DEF Cached, Covered
<1> QED
  BY <1>2, <1>3, <1>4, <1>5, <1>6, <1>7 DEF CacheInv

\* A step that inserts no payment leaves what the database finds by order.
LEMMA OrderKept ==
    ASSUME OrderInv, newest' = newest,
           \A p \in Payments : Len(rows'[p]) > 0 <=> Len(rows[p]) > 0
    PROVE  OrderInv'
<1>1. /\ newest' \in [Orders -> Payments \cup {None}]
      /\ \A o \in Orders : newest[o] # None => newest[o] \in Payments
  BY DEF OrderInv
<1> QED
  BY <1>1 DEF OrderInv

LEMMA OrderStep ==
    ASSUME CacheInv, OrderInv, [Next]_vars
    PROVE  OrderInv'
<1> DEFINE Kept == newest' = newest /\ \A p \in Payments : Len(rows'[p]) > 0 <=> Len(rows[p]) > 0
<1>0. \A p \in Payments : p \in Entities /\ p \notin Wallets /\ p \notin Reversals /\ p # None
  BY EntitiesDistinct, NoneIsNothing DEF Entities, Txns
<1>1. \A p \in Payments : Len(rows[p]) \in Nat
  BY <1>0, RowFacts DEF CacheInv
<1>2. ASSUME NEW es \in SUBSET Entities, rows' = Commit(es), newest' = newest,
             \A p \in Payments : p \in es => Len(rows[p]) > 0
      PROVE  Kept
  <2>1. \A p \in Payments : Len(rows'[p]) = IF p \in es THEN Len(rows[p]) + 1 ELSE Len(rows[p])
    BY <1>0, <1>2, CommitGrows
  <2> QED
    BY <1>1, <1>2, <2>1
<1>3. ASSUME NEW t \in Txns, Insert(t)
      PROVE  OrderInv'
  <2>1. t \in Entities /\ rows' = Commit({t}) /\ Len(rows[t]) = 0
    BY <1>3 DEF Insert, Version, Entities
  <2>2. CASE t \in Reversals /\ newest' = newest
    <3>1. Kept
      BY <1>0, <1>2, <2>1, <2>2
    <3> QED
      BY <3>1, OrderKept
  <2>3. ASSUME t \in Payments,
               \/ newest' = [newest EXCEPT ![OrderOf[t]] = t]
               \/ newest[OrderOf[t]] # None /\ newest' = newest
        PROVE  OrderInv'
    <3>1. \A p \in Payments : Len(rows'[p]) = IF p = t THEN Len(rows[p]) + 1 ELSE Len(rows[p])
      <4>1. {t} \in SUBSET Entities
        BY <2>1
      <4>2. \A e \in Entities : Len(Commit({t})[e]) = IF e \in {t} THEN Len(rows[e]) + 1
                                                      ELSE Len(rows[e])
        BY <4>1, CommitGrows
      <4> QED
        BY <1>0, <2>1, <4>2
    <3>2. /\ Len(rows'[t]) > 0
          /\ \A p \in Payments : Len(rows[p]) > 0 => Len(rows'[p]) > 0
          /\ \A p \in Payments : p # t /\ Len(rows'[p]) > 0 => Len(rows[p]) > 0
      <4>1. Len(rows'[t]) = Len(rows[t]) + 1
        BY <2>3, <3>1
      <4>2. \A p \in Payments : p # t => Len(rows'[p]) = Len(rows[p])
        BY <3>1
      <4>3. Len(rows'[t]) > 0
        BY <2>1, <4>1
      <4>4. ASSUME NEW p \in Payments, Len(rows[p]) > 0
            PROVE  Len(rows'[p]) > 0
        BY <4>2, <4>3, <4>4
      <4>5. ASSUME NEW p \in Payments, p # t, Len(rows'[p]) > 0
            PROVE  Len(rows[p]) > 0
        BY <4>2, <4>5
      <4> QED
        BY <4>3, <4>4, <4>5
    <3>3. OrderOf[t] \in Orders /\ t # None
      BY <1>0, <2>3, CacheConstants
    <3>4. /\ newest' \in [Orders -> Payments \cup {None}]
          /\ newest'[OrderOf[t]] # None
          /\ \A o \in Orders : newest'[o] = newest[o] \/ (o = OrderOf[t] /\ newest'[o] = t)
      <4>1. newest \in [Orders -> Payments \cup {None}]
        BY DEF OrderInv
      <4>2. CASE newest' = [newest EXCEPT ![OrderOf[t]] = t]
        BY <2>3, <3>3, <4>1, <4>2
      <4>3. CASE newest[OrderOf[t]] # None /\ newest' = newest
        BY <4>1, <4>3
      <4> QED
        BY <2>3, <4>2, <4>3
    <3>5. \A o \in Orders : newest'[o] # None =>
            OrderOf[newest'[o]] = o /\ Len(rows'[newest'[o]]) > 0
      <4>1. ASSUME NEW o \in Orders, newest'[o] # None, newest'[o] = newest[o]
            PROVE  OrderOf[newest'[o]] = o /\ Len(rows'[newest'[o]]) > 0
        <5>1. newest[o] \in Payments /\ OrderOf[newest[o]] = o /\ Len(rows[newest[o]]) > 0
          BY <4>1 DEF OrderInv
        <5> QED
          BY <3>2, <4>1, <5>1
      <4> QED
        BY <3>2, <3>4, <4>1
    <3>6. \A p \in Payments : Len(rows'[p]) > 0 => newest'[OrderOf[p]] # None
      <4>1. ASSUME NEW p \in Payments, p # t, Len(rows'[p]) > 0
            PROVE  newest'[OrderOf[p]] # None
        <5>1. OrderOf[p] \in Orders /\ newest[OrderOf[p]] # None
          BY <3>2, <4>1, CacheConstants DEF OrderInv
        <5> QED
          BY <3>3, <3>4, <5>1
      <4> QED
        BY <3>4, <4>1
    <3> QED
      BY <3>4, <3>5, <3>6 DEF OrderInv
  <2> QED
    BY <1>3, <2>2, <2>3 DEF Insert
<1>4. ASSUME NEW t \in Txns, Finalize(t)
      PROVE  Kept
  <2>1. {t} \in SUBSET Entities /\ rows' = Commit({t}) /\ Len(rows[t]) > 0 /\ newest' = newest
    BY <1>4 DEF Finalize, Version, Entities
  <2> QED
    BY <1>2, <2>1
<1>5. ASSUME NEW r \in Reversals, NEW n \in Replicas, FinalizeReversal(r, n)
      PROVE  Kept
  <2> DEFINE es == IF Version(Undoes[r]) = 2 THEN {r, Undoes[r]} ELSE {r}
  <2>1. rows' = Commit(es) /\ newest' = newest
    BY <1>5 DEF FinalizeReversal
  <2>2. Undoes[r] \in Payments
    BY CacheConstants
  <2>3. es \in SUBSET Entities /\ \A p \in Payments : p \in es => Len(rows[p]) > 0
    BY <1>0, <2>2 DEF Version, Entities, Txns
  <2> HIDE DEF es
  <2> QED
    BY <1>2, <2>1, <2>3
<1>6. ASSUME NEW w \in Wallets, NEW n \in Replicas, Persist(w, n)
      PROVE  Kept
  <2>1. {w} \in SUBSET Entities /\ rows' = Commit({w}) /\ newest' = newest
    BY <1>6 DEF Persist, Entities
  <2> QED
    BY <1>0, <1>2, <2>1
<1>7. ASSUME NEW w \in Wallets, ChangeMeta(w)
      PROVE  Kept
  <2>1. {Meta(w)} \in SUBSET Entities /\ rows' = Commit({Meta(w)}) /\ newest' = newest
    BY <1>7 DEF ChangeMeta, Entities
  <2>2. \A p \in Payments : p \notin {Meta(w)}
    BY EntitiesDistinct DEF Txns
  <2> QED
    BY <1>2, <2>1, <2>2
<1>8. ASSUME NEW c \in Callers, NEW n \in Replicas, NEW w \in Wallets, Create(c, n, w)
      PROVE  Kept
  <2>1. rows' = [rows EXCEPT ![w] = <<0>>, ![Meta(w)] = <<0>>] /\ newest' = newest
    BY <1>8 DEF Create
  <2>2. \A p \in Payments : p # w /\ p # Meta(w)
    BY EntitiesDistinct DEF Txns
  <2>3. \A p \in Payments : rows'[p] = rows[p]
    BY <1>0, <2>1, <2>2 DEF CacheInv, RowTypes
  <2> QED
    BY <2>1, <2>3
<1>9. ASSUME Tick
      PROVE  Kept
  BY <1>0, <1>9, TickAges DEF Tick
<1>10. ASSUME \/ \E n \in Replicas : Start(n)
              \/ \E c \in Callers, n \in Replicas :
                   \/ \E t \in Txns : GetByID(c, n, t) \/ GetByRRN(c, n, t)
                   \/ \E p \in Payments : GetByOrderID(c, n, p)
                   \/ \E w \in Wallets : \/ Get(c, n, w) \/ GetByNumber(c, n, w)
                                        \/ ValidateWallets(c, n, w)
              \/ \E c \in Callers : Set(c)
              \/ \E a \in Wallets \cup Reversals : Delete(a)
              \/ UNCHANGED vars
       PROVE  Kept
  <2>1. rows' = rows /\ newest' = newest
    <3>1. ASSUME NEW c \in Callers, NEW n \in Replicas, NEW k, Miss(c, n, k)
          PROVE  rows' = rows /\ newest' = newest
      BY <3>1 DEF Miss
    <3>2. ASSUME NEW n \in Replicas, Start(n)
          PROVE  rows' = rows /\ newest' = newest
      BY <3>2 DEF Start
    <3>3. ASSUME NEW c \in Callers, Set(c)
          PROVE  rows' = rows /\ newest' = newest
      BY <3>3 DEF Set
    <3>4. ASSUME NEW a \in Wallets \cup Reversals, Delete(a)
          PROVE  rows' = rows /\ newest' = newest
      BY <3>4 DEF Delete
    <3>5. CASE UNCHANGED vars
      BY <3>5 DEF vars
    <3> QED
      BY <1>10, <3>1, <3>2, <3>3, <3>4, <3>5
         DEF GetByID, GetByRRN, GetByOrderID, Get, GetByNumber, ValidateWallets
  <2> QED
    BY <2>1
<1>11. Kept => OrderInv'
  BY OrderKept
<1> HIDE DEF Kept
<1> QED
  BY <1>3, <1>4, <1>5, <1>6, <1>7, <1>8, <1>9, <1>10, <1>11 DEF Next

LEMMA CacheStep ==
    ASSUME CacheInv, OrderInv, [Next]_vars
    PROVE  CacheInv'
<1>1. ASSUME NEW c \in Callers, NEW n \in Replicas, NEW t \in Txns, GetByID(c, n, t) \/ GetByRRN(c, n, t)
      PROVE  CacheInv'
  <2>1. TransactionKey(t) \in Keys /\ TransactionRRNKey(t) \in Keys
    BY KeysOfRows DEF TxnKeys
  <2> QED
    BY <1>1, <2>1, MissStep DEF GetByID, GetByRRN
<1>2. ASSUME NEW c \in Callers, NEW n \in Replicas, NEW p \in Payments, GetByOrderID(c, n, p)
      PROVE  CacheInv'
  <2>1. TransactionOrderKey(p) \in Keys
    BY KeysOfRows DEF TxnKeys, Txns
  <2> QED
    BY <1>2, <2>1, MissStep DEF GetByOrderID
<1>3. ASSUME NEW c \in Callers, NEW n \in Replicas, NEW w \in Wallets,
             Get(c, n, w) \/ GetByNumber(c, n, w) \/ ValidateWallets(c, n, w)
      PROVE  CacheInv'
  <2>1. WalletKey(w) \in Keys /\ WalletNumberKey(w) \in Keys /\ WalletMetaKey(w) \in Keys
    BY KeysOfRows
  <2> QED
    BY <1>3, <2>1, MissStep DEF Get, GetByNumber, ValidateWallets
<1>4. CASE UNCHANGED vars
  BY <1>4 DEF vars, CacheInv
<1> QED
  BY <1>1, <1>2, <1>3, <1>4, StartStep, SetStep, CreateStep, TransactionStep, ReversalStep,
     PersistStep, DeleteStep, MetaStep, TickStep DEF Next

LEMMA CacheInvariant == Spec => [](CacheInv /\ OrderInv)
<1>1. Init => OrderInv
  <2>1. ASSUME Init
        PROVE  OrderInv
    <3>1. newest = [o \in Orders |-> None] /\ \A p \in Payments : Len(rows[p]) = 0
      BY <2>1 DEF Init, Entities, Txns
    <3> QED
      BY <3>1 DEF OrderInv
  <2> QED
    BY <2>1
<1>2. CacheInv /\ OrderInv /\ [Next]_vars => CacheInv' /\ OrderInv'
  BY CacheStep, OrderStep
<1> QED
  BY <1>1, <1>2, CacheInit, PTL DEF Spec

-----------------------------------------------------------------------------
(* The theorems.                                                           *)

LEMMA EntriesAre ==
    ASSUME CacheInv, NEW k \in Keys, cache[k] # None, NEW e, e = cache[k].of
    PROVE  /\ cache[k] \in Entry /\ e \in Named(k) /\ e \in Entities
           /\ cache[k].left \in Nat /\ cache[k].left >= 1 /\ ttl(k) \in Nat /\ MaxLoad \in Nat
           /\ Len(rows[e]) \in Nat
           /\ cache[k].version \in 1 .. Len(rows[e])
           /\ e \in Txns => cache[k].version >= 2
           /\ cache[k].version < Len(rows[e]) =>
                /\ rows[e][cache[k].version + 1] \in Nat
                /\ rows[e][cache[k].version + 1] <= MaxLoad + ttl(k) - cache[k].left
<1>1. rows \in RowTypes /\ Cached(rows, cache[k], k)
  BY DEF CacheInv
<1>2. /\ cache[k] \in Entry /\ e \in Named(k) /\ cache[k].left <= ttl(k)
      /\ Recent(rows, e, cache[k].version, MaxLoad + ttl(k) - cache[k].left)
  BY <1>1 DEF Cached
<1>3. cache[k].left \in Nat /\ cache[k].left >= 1 /\ ttl(k) \in Nat /\ MaxLoad \in Nat
  BY <1>2, EntryFacts
<1>4. e \in Entities
  BY <1>2, KeyOf
<1>5. /\ cache[k].version \in 1 .. Len(rows[e])
      /\ e \in Txns => cache[k].version >= 2
      /\ cache[k].version < Len(rows[e]) =>
           rows[e][cache[k].version + 1] <= MaxLoad + ttl(k) - cache[k].left
  BY <1>2 DEF Recent
<1>6. Len(rows[e]) \in Nat /\ \A v \in 1 .. Len(rows[e]) : rows[e][v] \in 0 .. Horizon
  BY <1>1, <1>4, RowFacts
<1>7. ASSUME cache[k].version < Len(rows[e])
      PROVE  rows[e][cache[k].version + 1] \in Nat
  <2>1. PICK v : v = cache[k].version + 1
    OBVIOUS
  <2>2. v \in 1 .. Len(rows[e])
    BY <1>5, <1>6, <1>7, <2>1
  <2>3. rows[e][v] \in 0 .. Horizon
    BY <1>6, <2>2
  <2> QED
    BY <2>1, <2>3
<1> QED
  BY <1>2, <1>3, <1>4, <1>5, <1>6, <1>7

\* Types: a key holds nothing or an unexpired entry of a version that some
\* commit wrote, for every set of replicas, requests and rows.
THEOREM CacheTypes == Spec => []TypeOK
<1>1. ASSUME CacheInv, OrderInv
      PROVE  TypeOK
  <2>1. rows \in [Entities -> Seq(0 .. Horizon)] /\ enabled \in [Replicas -> BOOLEAN]
        /\ newest \in [Orders -> Payments \cup {None}]
    BY <1>1 DEF CacheInv, RowTypes, OrderInv
  <2>2. \A c \in Callers : caller[c] # Idle => caller[c].todo \in Seq(Keys)
    BY <1>1 DEF CacheInv, Loaded, Loads
  <2>3. \A a \in DOMAIN actor : actor[a].keys \subseteq Keys
    BY <1>1 DEF CacheInv, Sends
  <2>4. \A k \in Keys : cache[k] # None =>
          cache[k] \in Entry /\ cache[k].version \in 1 .. Version(cache[k].of)
    BY <1>1, EntriesAre DEF Version
  <2> QED
    BY <2>1, <2>2, <2>3, <2>4 DEF TypeOK
<1> QED
  BY <1>1, CacheInvariant, PTL

\* The TTL bounds every race of a read that fills the cache with a write that
\* invalidates it, whatever is lost or restarted: a superseded version is
\* served for less than the key's TTL plus the longest a request may dwell,
\* for every TTL in config and every such time.
THEOREM StalenessIsBounded == Spec => []StaleBounded
<1>1. ASSUME CacheInv
      PROVE  StaleBounded
  <2>1. SUFFICES ASSUME NEW k \in Keys, cache[k] # None,
                        cache[k].version # Len(rows[cache[k].of])
                 PROVE  rows[cache[k].of][cache[k].version + 1] < MaxLoad + ttl(k)
    BY DEF StaleBounded, Stale, Version
  <2>2. PICK e : e = cache[k].of
    OBVIOUS
  <2>3. /\ cache[k].left \in Nat /\ cache[k].left >= 1 /\ ttl(k) \in Nat /\ MaxLoad \in Nat
        /\ Len(rows[e]) \in Nat /\ cache[k].version \in 1 .. Len(rows[e])
        /\ cache[k].version < Len(rows[e]) =>
             /\ rows[e][cache[k].version + 1] \in Nat
             /\ rows[e][cache[k].version + 1] <= MaxLoad + ttl(k) - cache[k].left
    BY <1>1, <2>1, <2>2, EntriesAre
  <2>4. cache[k].version < Len(rows[e])
    BY <2>1, <2>2, <2>3
  <2>5. rows[e][cache[k].version + 1] < MaxLoad + ttl(k)
    BY <2>3, <2>4
  <2> QED
    BY <2>2, <2>5
<1> QED
  BY <1>1, CacheInvariant, PTL

\* No key that the reads fill is forgotten by finalize, alreadyFinal and
\* persist, but for the one left to its TTL: an outdated wallet read or
\* transaction detail is about to be deleted, was loaded before the change, its
\* deletion was never made or never reached Redis, or it is under the id of a
\* payment whose reversal is final, left by an alreadyFinal that knew only the
\* RRN and the order.
THEOREM EveryKeyIsInvalidated == Spec => []InvalidatedUnlessLate
<1>1. ASSUME CacheInv
      PROVE  InvalidatedUnlessLate
  <2>1. \A k \in Keys : Covered(rows, cache[k], k, actor)
    BY <1>1 DEF CacheInv
  <2> QED
    BY <2>1 DEF InvalidatedUnlessLate, Stale, Version, Covered, Excuse
<1> QED
  BY <1>1, CacheInvariant, PTL

\* A hit answers the lookup it was made for: what detail, Get and GetByNumber
\* find under a key is of a row that has that id, number, RRN or order_id
\* (never the reversal that shares the order_id), never a transaction in
\* processing, and the row the database finds, unless a second payment was
\* inserted with the order_id looked up.
THEOREM HitsAnswerTheLookup == Spec => []AnswersLookup
<1>1. ASSUME CacheInv, OrderInv
      PROVE  AnswersLookup
  <2>1. SUFFICES ASSUME NEW k \in Keys, cache[k] # None, NEW e, e = cache[k].of
                 PROVE  /\ e \in Named(k)
                        /\ e \in Txns => cache[k].version >= 2
                        /\ e # find(k) => \E p \in Payments \ {e} :
                                            k = TransactionOrderKey(p) /\ Version(p) > 0
    BY DEF AnswersLookup
  <2>2. /\ e \in Named(k) /\ (e \in Txns => cache[k].version >= 2)
        /\ Len(rows[e]) \in Nat /\ cache[k].version \in 1 .. Len(rows[e])
    BY <1>1, <2>1, EntriesAre
  <2>3. ASSUME k[1] # "txn:order"
        PROVE  e = find(k)
    BY <2>2, <2>3 DEF Named, find
  <2>4. ASSUME k[1] = "txn:order", e # find(k)
        PROVE  \E p \in Payments \ {e} : k = TransactionOrderKey(p) /\ Version(p) > 0
    <3>1. /\ k = <<"txn:order", k[2]>> /\ k[2] \in Orders
          /\ e \in Payments /\ OrderOf[e] = k[2] /\ find(k) = newest[k[2]]
      BY <2>2, <2>4, KeyFacts DEF Named, find
    <3>2. Len(rows[e]) > 0
      BY <2>2
    <3>3. newest[k[2]] # None
      BY <1>1, <3>1, <3>2 DEF OrderInv
    <3>4. /\ newest[k[2]] \in Payments \ {e} /\ OrderOf[newest[k[2]]] = k[2]
          /\ Len(rows[newest[k[2]]]) > 0
      BY <1>1, <2>4, <3>1, <3>3 DEF OrderInv
    <3>5. newest[k[2]] \notin Reversals
      BY <3>4, EntitiesDistinct
    <3>6. k = TransactionOrderKey(newest[k[2]])
      BY <3>1, <3>4, <3>5 DEF TransactionOrderKey
    <3> QED
      BY <3>4, <3>6 DEF Version
  <2> QED
    BY <2>2, <2>3, <2>4
<1> QED
  BY <1>1, CacheInvariant, PTL
=============================================================================
