------------------------- MODULE WalletActorProofs -------------------------
(***************************************************************************)
(* Theorems about WalletActor for every set of messages, every initial     *)
(* row, every integer width and, up to AppliedOnce, any number of          *)
(* activations.                                                            *)
(***************************************************************************)
EXTENDS WalletActor, TLAPS

\* What every activation's memory satisfies between two steps: a message past
\* the prechecks is one of Messages with a positive amount, persist() works on
\* a copy, and a copy has sound books.
MemorySound ==
    \A a \in Activations :
        /\ job[a].pc # "idle" =>
            job[a].msg \in Messages /\ job[a].msg.amount \in 1 .. MaxInt64
        /\ job[a].pc = "persist" => wallet[a].status = "active"
        /\ wallet[a].status = "active" => Sound(wallet[a])

\* The inductive invariant.
IInv == TypeOK /\ LedgerChains /\ BooksBalance /\ ChecksumMatches /\ CopyTracksVersion
        /\ MemorySound

-----------------------------------------------------------------------------

\* The checksum of a wallet is a checksum.
LEMMA ChecksumType ==
    ASSUME NEW w, w.actual \in Int64, w.available \in Int64, w.processing \in Int64,
           w.version \in Nat
    PROVE  ComputeChecksum(w) \in Checksums
BY DEF ComputeChecksum, Checksums

\* Writing balances and version of a wallet gives a wallet.
LEMMA UpdatedType ==
    ASSUME NEW w \in Wallets, NEW A \in Int64, NEW V \in Int64, NEW N \in Nat
    PROVE  [w EXCEPT !.available = V, !.actual = A, !.version = N] \in Wallets
BY DEF Wallets

\* An addition persist() goes on with has not wrapped: the wallet it writes
\* has sound books and differs from the copy by exactly the amount.
LEMMA NextWalletExact ==
    ASSUME NEW w \in Wallets, Sound(w), NEW m \in Messages,
           m.amount \in 1 .. MaxInt64, ~GoesNegative(NextWallet(w, m))
    PROVE  LET n == NextWallet(w, m) IN
           /\ n \in Wallets /\ Sound(n)
           /\ n.actual = w.actual + Delta(m) /\ n.available = w.available + Delta(m)
           /\ n.processing = w.processing /\ n.version = w.version + 1
           /\ n.status = w.status /\ n.checksum = ComputeChecksum(n)
<1> DEFINE A == Wrap(w.actual + Delta(m))
           V == Wrap(w.available + Delta(m))
           moved == [w EXCEPT !.available = V, !.actual = A, !.version = w.version + 1]
           n == NextWallet(w, m)
<1>0. n = [moved EXCEPT !.checksum = ComputeChecksum(moved)]
  BY DEF NextWallet
<1>1. /\ n.actual = A /\ n.available = V /\ n.processing = w.processing
      /\ n.version = w.version + 1 /\ n.status = w.status
      /\ n.checksum = ComputeChecksum(moved)
      /\ ComputeChecksum(moved) = <<A, V, w.processing, w.version + 1>>
  <2> HIDE DEF A, V, n
  <2>1. /\ moved.actual = A /\ moved.available = V /\ moved.processing = w.processing
        /\ moved.version = w.version + 1 /\ moved.status = w.status
    BY DEF Wallets
  <2>2. ComputeChecksum(moved) = <<A, V, w.processing, w.version + 1>>
    BY <2>1 DEF ComputeChecksum
  <2>3. /\ n.actual = moved.actual /\ n.available = moved.available
        /\ n.processing = moved.processing /\ n.version = moved.version
        /\ n.status = moved.status /\ n.checksum = ComputeChecksum(moved)
    BY <1>0 DEF Wallets
  <2> QED BY <2>1, <2>2, <2>3
<1>2. /\ w.actual \in 0 .. MaxInt64 /\ w.available \in 0 .. MaxInt64
      /\ w.processing \in Int64 /\ w.version \in Nat /\ w.status \in Statuses
      /\ w.actual = w.available + w.processing
  BY DEF Sound, Wallets
<1>3. m.action \in Actions
  BY MessagesAssumption
<1>4. A >= 0 /\ V >= 0
  <2>1. A \in Int /\ V \in Int
    BY <1>2, <1>3, BoundsAssumption DEF Wrap, Delta, Actions, Int64
  <2>2. ~(V < 0) /\ ~(A < 0)
    BY <1>1 DEF GoesNegative
  <2> QED BY <2>1, <2>2
<1>5. /\ A = w.actual + Delta(m) /\ V = w.available + Delta(m)
      /\ A \in 0 .. MaxInt64 /\ V \in 0 .. MaxInt64
  BY <1>2, <1>3, <1>4, BoundsAssumption DEF Wrap, Delta, Actions
<1>6. A = V + w.processing
  BY <1>2, <1>3, <1>5, BoundsAssumption DEF Delta, Actions, Int64
<1>7. n \in Wallets
  <2>1. A \in Int64 /\ V \in Int64
    BY <1>5, BoundsAssumption DEF Int64
  <2>2. <<A, V, w.processing, w.version + 1>> \in Checksums
    BY <1>2, <2>1 DEF Checksums
  <2> HIDE DEF A, V, n
  <2>3. moved \in Wallets
    <3>1. w.version + 1 \in Nat
      BY <1>2
    <3> QED BY <2>1, <3>1, UpdatedType
  <2> HIDE DEF moved
  <2> QED BY <1>0, <1>1, <2>2, <2>3 DEF Wallets
<1>8. n.checksum = ComputeChecksum(n)
  BY <1>1 DEF ComputeChecksum
<1> HIDE DEF A, V, n
<1>9. Sound(n)
  BY <1>1, <1>5, <1>6, <1>8 DEF Sound
<1> QED BY <1>1, <1>5, <1>7, <1>8, <1>9 DEF n

\* NoWallet, Idle and NoReply have their types.
LEMMA Blanks ==
    /\ NoWallet \in Wallets
    /\ Idle \in [pc : {"idle", "find", "load", "persist"},
                 msg : Messages \union {NoMessage}, attempt : 0 .. maxVersionRetries]
    /\ NoWallet.status = "none" /\ Idle.pc = "idle"
<1>1. 0 \in Int64
  BY BoundsAssumption DEF Int64
<1>2. NoChecksum \in Checksums
  BY DEF Checksums
<1>3. NoWallet \in Wallets
  BY <1>1, <1>2 DEF NoWallet, Wallets, Statuses
<1> QED BY <1>3, BoundsAssumption DEF NoWallet, Idle

\* The initial states satisfy the invariant.
LEMMA InitIInv == Init => IInv
<1> SUFFICES ASSUME Init PROVE IInv
  OBVIOUS
<1>1. row \in Wallets /\ Sound(row)
  BY RowsAssumption DEF Init
<1>2. TypeOK
  <2>1. reply \in [key : MessageKeys \union {"none"}, code : Codes,
                   initial : 0 .. MaxInt64, updated : 0 .. MaxInt64]
    BY BoundsAssumption DEF Init, NoReply, Reply, NoMessage, Codes, Transient
  <2>2. ledger \in Seq(LedgerEntries)
    BY DEF Init
  <2>3. opening \in 0 .. MaxInt64 /\ touches \in 0 .. MaxTouches
    BY <1>1, BoundsAssumption DEF Init, Sound
  <2> QED BY <1>1, <2>1, <2>2, <2>3, Blanks DEF Init, TypeOK
<1>3. LedgerChains /\ BooksBalance /\ ChecksumMatches
  BY <1>1 DEF Init, LedgerChains, BooksBalance, ChecksumMatches, Sound
<1>4. CopyTracksVersion /\ MemorySound
  BY Blanks DEF Init, CopyTracksVersion, MemorySound
<1> QED BY <1>2, <1>3, <1>4 DEF IInv

\* A commit extends the chain and keeps the books, whichever activation makes
\* it: its copy has the row's version, hence the row's money.
LEMMA CommitSound ==
    ASSUME IInv, NEW a \in Activations, job[a].pc = "persist",
           ~GoesNegative(NextWallet(wallet[a], job[a].msg)), Commit(a),
           UNCHANGED opening
    PROVE  LET n == NextWallet(wallet[a], job[a].msg) IN
           /\ n \in Wallets /\ Sound(n) /\ n.status = "active"
           /\ row' \in Wallets /\ row'.actual = n.actual /\ row'.available = n.available
           /\ row'.processing = n.processing /\ row'.version = n.version
           /\ row'.version = row.version + 1
           /\ ledger' \in Seq(LedgerEntries)
           /\ LedgerChains' /\ BooksBalance' /\ ChecksumMatches'
<1> DEFINE w == wallet[a]
           m == job[a].msg
           n == NextWallet(w, m)
           e == [key |-> m.key, action |-> m.action, amount |-> m.amount,
                 initial |-> w.actual, updated |-> n.actual]
<1>1. /\ w \in Wallets /\ Sound(w) /\ w.status = "active"
      /\ m \in Messages /\ m.amount \in 1 .. MaxInt64
  BY DEF IInv, TypeOK, MemorySound
<1>2. /\ n \in Wallets /\ Sound(n)
      /\ n.actual = w.actual + Delta(m) /\ n.available = w.available + Delta(m)
      /\ n.processing = w.processing /\ n.version = w.version + 1
      /\ n.status = w.status /\ n.checksum = ComputeChecksum(n)
  <2> HIDE DEF w, m
  <2>1. ~GoesNegative(NextWallet(w, m))
    BY DEF w, m
  <2> QED BY <1>1, <2>1, NextWalletExact
<1>3. /\ row.version = w.version /\ row.actual = w.actual
      /\ row.available = w.available /\ row.processing = w.processing
  BY <1>1 DEF Commit, IInv, CopyTracksVersion
<1>4. row' = [row EXCEPT !.available = n.available, !.actual = n.actual,
                         !.version = n.version, !.checksum = n.checksum]
  BY DEF Commit
<1>5. ledger' = Append(ledger, e)
  BY DEF Commit
<1> HIDE DEF n, w, m
<1>6. /\ row' \in Wallets /\ row'.actual = n.actual /\ row'.available = n.available
      /\ row'.version = n.version /\ row'.checksum = n.checksum
      /\ row'.processing = row.processing /\ row'.status = row.status
  <2>1. /\ row \in Wallets /\ n.actual \in Int64 /\ n.available \in Int64
        /\ n.version \in Nat /\ n.checksum \in Checksums
    BY <1>2 DEF IInv, TypeOK, Wallets
  <2> DEFINE A == n.actual
             V == n.available
             N == n.version
             C == n.checksum
             u == [row EXCEPT !.available = V, !.actual = A, !.version = N, !.checksum = C]
  <2> HIDE DEF A, V, N, C
  <2>2. A \in Int64 /\ V \in Int64 /\ N \in Nat /\ C \in Checksums
    BY <2>1 DEF A, V, N, C
  <2>3. /\ u \in Wallets /\ u.actual = A /\ u.available = V /\ u.version = N
        /\ u.checksum = C /\ u.processing = row.processing /\ u.status = row.status
    BY <2>1, <2>2 DEF Wallets
  <2>4. row' = u
    BY <1>4 DEF A, V, N, C
  <2> HIDE DEF u
  <2> QED BY <2>3, <2>4 DEF A, V, N, C
<1>7. /\ w.actual \in 0 .. MaxInt64 /\ n.actual \in 0 .. MaxInt64
      /\ n.available \in 0 .. MaxInt64 /\ n.actual = n.available + n.processing
  BY <1>1, <1>2 DEF Sound
<1>8. e \in LedgerEntries
  <2>1. m.key \in MessageKeys /\ m.action \in Actions
    BY <1>1, MessagesAssumption
  <2> QED BY <1>1, <1>7, <2>1 DEF LedgerEntries
<1>9. ledger \in Seq(LedgerEntries)
  BY DEF IInv, TypeOK
<1> HIDE DEF e
<1>10. /\ ledger' \in Seq(LedgerEntries) /\ Len(ledger') = Len(ledger) + 1
       /\ \A i \in 1 .. Len(ledger) : ledger'[i] = ledger[i]
       /\ ledger'[Len(ledger) + 1] = e /\ Len(ledger) \in Nat
  BY <1>5, <1>8, <1>9
<1>11. e.initial = w.actual /\ e.updated = n.actual /\ Delta(e) = Delta(m)
  BY DEF e, Delta
<1>12. LedgerChains'
  <2>1. \A i \in 1 .. Len(ledger') :
          ledger'[i].initial = IF i = 1 THEN opening ELSE ledger'[i - 1].updated
    <3> SUFFICES ASSUME NEW i \in 1 .. Len(ledger')
                 PROVE  ledger'[i].initial = IF i = 1 THEN opening ELSE ledger'[i - 1].updated
      OBVIOUS
    <3>1. CASE i \in 1 .. Len(ledger)
      <4>1. ledger'[i] = ledger[i] /\ (i # 1 => ledger'[i - 1] = ledger[i - 1])
        BY <3>1, <1>10
      <4> QED BY <3>1, <4>1 DEF IInv, LedgerChains
    <3>2. CASE i = Len(ledger) + 1
      <4>1. ledger'[i].initial = row.actual
        BY <3>2, <1>3, <1>10, <1>11
      <4>2. CASE Len(ledger) = 0
        <5>1. ledger = <<>>
          BY <1>9, <4>2
        <5> QED BY <3>2, <4>1, <4>2, <5>1 DEF IInv, LedgerChains
      <4>3. CASE Len(ledger) # 0
        <5>1. ledger # <<>> /\ ledger'[i - 1] = ledger[Len(ledger)] /\ i # 1
          BY <1>9, <1>10, <3>2, <4>3
        <5> QED BY <4>1, <5>1 DEF IInv, LedgerChains
      <4> QED BY <4>2, <4>3
    <3> QED BY <3>1, <3>2, <1>10
  <2>2. row'.actual = ledger'[Len(ledger')].updated /\ ledger' # <<>>
    BY <1>5, <1>6, <1>9, <1>10, <1>11
  <2> QED BY <2>1, <2>2 DEF LedgerChains
<1>13. BooksBalance'
  <2>1. \A i \in 1 .. Len(ledger') :
          ledger'[i].updated = ledger'[i].initial + Delta(ledger'[i])
    <3> SUFFICES ASSUME NEW i \in 1 .. Len(ledger')
                 PROVE  ledger'[i].updated = ledger'[i].initial + Delta(ledger'[i])
      OBVIOUS
    <3>1. CASE i \in 1 .. Len(ledger)
      <4>1. ledger'[i] = ledger[i]
        BY <3>1, <1>10
      <4>2. ledger[i].updated = ledger[i].initial + Delta(ledger[i])
        BY <3>1 DEF IInv, BooksBalance
      <4> QED BY <4>1, <4>2
    <3>2. CASE i = Len(ledger) + 1
      <4>1. ledger'[i] = e
        BY <3>2, <1>10
      <4> QED BY <4>1, <1>2, <1>11
    <3> QED BY <3>1, <3>2, <1>10
  <2>2. /\ row'.actual \in 0 .. MaxInt64 /\ row'.available \in 0 .. MaxInt64
        /\ row'.actual = row'.available + row'.processing
    BY <1>2, <1>3, <1>6, <1>7
  <2> QED BY <2>1, <2>2 DEF BooksBalance
<1>14. ChecksumMatches'
  <2>1. row'.checksum = <<n.actual, n.available, n.processing, n.version>>
    BY <1>2, <1>6 DEF ComputeChecksum
  <2>2. row'.checksum = <<row'.actual, row'.available, row'.processing, row'.version>>
    BY <2>1, <1>2, <1>3, <1>6
  <2> QED BY <2>2 DEF ChecksumMatches, ComputeChecksum
<1> QED BY <1>1, <1>2, <1>3, <1>6, <1>10, <1>12, <1>13, <1>14 DEF n, w, m

-----------------------------------------------------------------------------

\* A copy w next to the row r: sound, not ahead, and equal in money when it
\* has the row's version.
CopyOK(w, r) ==
    w.status = "active" =>
        /\ Sound(w)
        /\ w.version <= r.version
        /\ w.version = r.version =>
            /\ w.actual = r.actual
            /\ w.available = r.available
            /\ w.processing = r.processing

Jobs == [pc : {"idle", "find", "load", "persist"}, msg : Messages \union {NoMessage},
         attempt : 0 .. maxVersionRetries]

Replies == [key : MessageKeys \union {"none"}, code : Codes,
            initial : 0 .. MaxInt64, updated : 0 .. MaxInt64]

\* What the invariant says of activation a.
MemoryOf(a) ==
    /\ TypeOK
    /\ job \in [Activations -> Jobs] /\ wallet \in [Activations -> Wallets]
    /\ reply \in Replies /\ wallet[a].status \in {"active", "none"}
    /\ job[a].pc # "idle" =>
        job[a].msg \in Messages /\ job[a].msg.amount \in 1 .. MaxInt64
    /\ job[a].pc = "persist" => wallet[a].status = "active"
    /\ CopyOK(wallet[a], row)

\* The invariant says all of this of each activation.
LEMMA MemoryFacts ==
    ASSUME IInv, NEW a \in Activations
    PROVE  MemoryOf(a)
BY DEF MemoryOf, IInv, TypeOK, Jobs, Replies, MemorySound, CopyTracksVersion, CopyOK

\* Money and its history stay as they are when row and ledger do.
LEMMA BooksKept ==
    ASSUME IInv, UNCHANGED <<row, ledger, opening>>
    PROVE  /\ row' \in Wallets /\ ledger' \in Seq(LedgerEntries) /\ opening' \in 0 .. MaxInt64
           /\ LedgerChains' /\ BooksBalance' /\ ChecksumMatches'
BY DEF IInv, TypeOK, LedgerChains, BooksBalance, ChecksumMatches

\* A reply without balances has its type.
LEMMA ReplyType ==
    ASSUME NEW m \in Messages \union {NoMessage}, NEW code \in Codes
    PROVE  Reply(m, code, 0, 0) \in Replies
<1>1. m.key \in MessageKeys \union {"none"}
  BY DEF MessageKeys, NoMessage
<1> QED BY <1>1, BoundsAssumption DEF Reply, Replies

\* Answering without success leaves the activation idle, the others alone.
LEMMA FailKept ==
    ASSUME TypeOK, NEW a \in Activations, NEW code \in Codes, Fail(a, code)
    PROVE  /\ job' \in [Activations -> Jobs] /\ job'[a].pc = "idle"
           /\ \A b \in Activations \ {a} : job'[b] = job[b]
           /\ reply' \in Replies
<1>1. job \in [Activations -> Jobs] /\ job[a].msg \in Messages \union {NoMessage}
  BY DEF TypeOK, Jobs
<1>2. reply' \in Replies
  BY <1>1, ReplyType DEF Fail
<1>3. Idle \in Jobs /\ Idle.pc = "idle"
  BY Blanks DEF Jobs
<1> QED BY <1>1, <1>2, <1>3 DEF Fail

\* How the pieces of the invariant are put together again when one activation
\* has worked: its own memory is sound, the others' is untouched, and the row
\* has not gone back.
LEMMA OneWorked ==
    ASSUME IInv, NEW a \in Activations,
           row' \in Wallets, ledger' \in Seq(LedgerEntries),
           opening' = opening, touches' = touches,
           LedgerChains', BooksBalance', ChecksumMatches',
           row' = row \/ row'.version = row.version + 1,
           reply' \in Replies,
           job' \in [Activations -> Jobs], wallet' \in [Activations -> Wallets],
           \A b \in Activations \ {a} : job'[b] = job[b] /\ wallet'[b] = wallet[b],
           wallet'[a].status \in {"active", "none"},
           job'[a].pc # "idle" =>
               job'[a].msg \in Messages /\ job'[a].msg.amount \in 1 .. MaxInt64,
           job'[a].pc = "persist" => wallet'[a].status = "active",
           CopyOK(wallet'[a], row')
    PROVE  IInv'
<1>1. \A b \in Activations : b # a => job'[b] = job[b] /\ wallet'[b] = wallet[b]
  OBVIOUS
<1>2. TypeOK'
  <2>1. \A b \in Activations : wallet'[b].status \in {"active", "none"}
    BY <1>1 DEF IInv, TypeOK
  <2>2. opening \in 0 .. MaxInt64 /\ touches \in 0 .. MaxTouches
    BY DEF IInv, TypeOK
  <2> QED BY <2>1, <2>2 DEF TypeOK, Jobs, Replies
<1>3. CopyTracksVersion'
  <2> SUFFICES ASSUME NEW b \in Activations, wallet'[b].status = "active"
               PROVE  /\ wallet'[b].version <= row'.version
                      /\ wallet'[b].version = row'.version =>
                           /\ wallet'[b].actual = row'.actual
                           /\ wallet'[b].available = row'.available
                           /\ wallet'[b].processing = row'.processing
    BY DEF CopyTracksVersion
  <2>1. CASE b = a
    BY <2>1 DEF CopyOK
  <2>2. CASE b # a
    <3>1. wallet'[b] = wallet[b]
      BY <1>1, <2>2
    <3>2. wallet[b].version \in Nat /\ row.version \in Nat
      BY DEF IInv, TypeOK, Wallets
    <3>3. /\ wallet[b].version <= row.version
          /\ wallet[b].version = row.version =>
               /\ wallet[b].actual = row.actual
               /\ wallet[b].available = row.available
               /\ wallet[b].processing = row.processing
      BY <3>1 DEF IInv, CopyTracksVersion
    <3>4. CASE row' = row
      BY <3>1, <3>3, <3>4
    <3>5. CASE row'.version = row.version + 1
      BY <3>1, <3>2, <3>3, <3>5
    <3> QED BY <3>4, <3>5
  <2> QED BY <2>1, <2>2
<1>4. MemorySound'
  <2> SUFFICES ASSUME NEW b \in Activations
               PROVE  /\ job'[b].pc # "idle" =>
                          job'[b].msg \in Messages /\ job'[b].msg.amount \in 1 .. MaxInt64
                      /\ job'[b].pc = "persist" => wallet'[b].status = "active"
                      /\ wallet'[b].status = "active" => Sound(wallet'[b])
    BY DEF MemorySound, Sound, ComputeChecksum
  <2>1. CASE b = a
    BY <2>1 DEF CopyOK
  <2>2. CASE b # a
    <3>1. job'[b] = job[b] /\ wallet'[b] = wallet[b]
      BY <1>1, <2>2
    <3> QED BY <3>1 DEF IInv, MemorySound
  <2> QED BY <2>1, <2>2
<1> QED BY <1>2, <1>3, <1>4 DEF IInv

-----------------------------------------------------------------------------
(* One lemma per action                                                    *)

\* Taking a message (handle, and the prechecks of apply) keeps the invariant.
LEMMA ReceiveIInv ==
    ASSUME IInv, NEW a \in Activations, NEW m \in Messages, Receive(a, m)
    PROVE  IInv'
<1>1. UNCHANGED <<row, ledger, wallet, opening, touches>> /\ job[a].pc = "idle"
  BY DEF Receive
<1>2. MemoryOf(a)
  BY MemoryFacts
<1>4. CASE Precheck(m) = "ok" /\ job' = [job EXCEPT ![a] = [pc |-> "find", msg |-> m, attempt |-> 0]]
           /\ UNCHANGED reply
  <2>1. m.amount \in 1 .. MaxInt64
    <3>1. m.amount \in Int64
      BY MessagesAssumption
    <3>2. ~(m.amount <= 0)
      BY <1>4 DEF Precheck
    <3> QED BY <3>1, <3>2, BoundsAssumption DEF Int64
  <2>2. [pc |-> "find", msg |-> m, attempt |-> 0] \in Jobs
    BY BoundsAssumption DEF Jobs
  <2>3. /\ job' \in [Activations -> Jobs] /\ job'[a].msg = m /\ job'[a].pc = "find"
        /\ \A b \in Activations \ {a} : job'[b] = job[b]
    BY <1>2, <1>4, <2>2 DEF MemoryOf
  <2> QED BY <1>1, <1>2, <1>4, <2>1, <2>3, BooksKept, OneWorked DEF MemoryOf
<1>5. CASE reply' = Reply(m, Precheck(m), 0, 0) /\ UNCHANGED job
  <2>1. reply' \in Replies
    <3>1. Precheck(m) \in Codes
      BY DEF Precheck, Codes, Definitive
    <3> QED BY <1>5, <3>1, ReplyType
  <2> QED BY <1>1, <1>2, <1>5, <2>1, BooksKept, OneWorked DEF MemoryOf
<1> QED BY <1>4, <1>5 DEF Receive

\* The idempotency look-up keeps it.
LEMMA FindLedgerIInv ==
    ASSUME IInv, NEW a \in Activations, findLedger(a)
    PROVE  IInv'
<1>1. UNCHANGED <<row, ledger, wallet, opening, touches>> /\ job[a].pc = "find"
  BY DEF findLedger
<1>2. MemoryOf(a)
  BY MemoryFacts
<1>3. job[a].msg \in Messages /\ job[a].msg.amount \in 1 .. MaxInt64
  BY <1>1, <1>2 DEF MemoryOf
<1>4. ASSUME NEW e \in LedgerRows, reply' = Reply(job[a].msg, "ok", e.initial, e.updated),
             job' = [job EXCEPT ![a] = Idle]
      PROVE  IInv'
  <2>1. e \in LedgerEntries
    BY <1>2 DEF LedgerRows, MemoryOf, TypeOK
  <2>2. reply' \in Replies
    <3>1. job[a].msg.key \in MessageKeys
      BY <1>3 DEF MessageKeys
    <3>2. e.initial \in 0 .. MaxInt64 /\ e.updated \in 0 .. MaxInt64
      BY <2>1 DEF LedgerEntries
    <3> QED BY <1>4, <3>1, <3>2 DEF Reply, Replies, Codes
  <2>3. /\ job' \in [Activations -> Jobs] /\ job'[a].pc = "idle"
        /\ \A b \in Activations \ {a} : job'[b] = job[b]
    <3>1. Idle \in Jobs /\ Idle.pc = "idle"
      BY Blanks DEF Jobs
    <3> QED BY <1>2, <1>4, <3>1 DEF MemoryOf
  <2> QED BY <1>1, <1>2, <1>3, <2>2, <2>3, BooksKept, OneWorked DEF MemoryOf
<1>5. CASE job' = [job EXCEPT ![a].pc = "load"] /\ UNCHANGED reply
  <2>1. /\ job' \in [Activations -> Jobs] /\ job'[a].msg = job[a].msg /\ job'[a].pc = "load"
        /\ \A b \in Activations \ {a} : job'[b] = job[b]
    BY <1>2, <1>5 DEF Jobs, MemoryOf
  <2> QED BY <1>1, <1>2, <1>3, <1>5, <2>1, BooksKept, OneWorked DEF MemoryOf
<1>6. CASE Fail(a, "internal_error")
  <2>1. "internal_error" \in Codes
    BY DEF Codes, Transient
  <2>2. /\ job' \in [Activations -> Jobs] /\ job'[a].pc = "idle"
        /\ \A b \in Activations \ {a} : job'[b] = job[b]
        /\ reply' \in Replies
    BY <1>2, <1>6, <2>1, FailKept DEF MemoryOf
  <2> QED BY <1>1, <1>2, <1>3, <2>2, BooksKept, OneWorked DEF MemoryOf
<1> QED BY <1>4, <1>5, <1>6 DEF findLedger

\* The funds check either answers or goes on to persist with the message.
LEMMA CheckFundsKept ==
    ASSUME NEW a \in Activations, MemoryOf(a), job[a].pc = "load", NEW w, CheckFunds(a, w)
    PROVE  /\ job' \in [Activations -> Jobs] /\ reply' \in Replies
           /\ \A b \in Activations \ {a} : job'[b] = job[b]
           /\ job'[a].pc # "idle" =>
               job'[a].msg \in Messages /\ job'[a].msg.amount \in 1 .. MaxInt64
<1>1. CASE Fail(a, "insufficient_funds")
  <2>1. "insufficient_funds" \in Codes
    BY DEF Codes, Definitive
  <2> QED BY <1>1, <2>1, FailKept DEF MemoryOf
<1>2. CASE job' = [job EXCEPT ![a].pc = "persist"] /\ UNCHANGED reply
  <2>1. /\ job' \in [Activations -> Jobs] /\ job'[a].msg = job[a].msg
        /\ \A b \in Activations \ {a} : job'[b] = job[b]
    BY <1>2 DEF Jobs, MemoryOf
  <2> QED BY <1>2, <2>1 DEF MemoryOf
<1> QED BY <1>1, <1>2 DEF CheckFunds

\* Loading the row, or using the copy, keeps it: load() lets only sound
\* active rows through.
LEMMA CurrentIInv ==
    ASSUME IInv, NEW a \in Activations, current(a)
    PROVE  IInv'
<1>1. UNCHANGED <<row, ledger, opening, touches>> /\ job[a].pc = "load"
  BY DEF current
<1>2. MemoryOf(a)
  BY MemoryFacts
<1>3. CASE wallet[a].status = "active" /\ CheckFunds(a, wallet[a]) /\ UNCHANGED wallet
  BY <1>1, <1>2, <1>3, CheckFundsKept, BooksKept, OneWorked DEF MemoryOf
<1>4. CASE LoadVerdict(row) = "ok" /\ wallet' = [wallet EXCEPT ![a] = row] /\ CheckFunds(a, row)
  <2>1. row.status = "active"
    BY <1>4 DEF LoadVerdict
  <2>2. row \in Wallets /\ Sound(row) /\ row.version \in Nat
    BY DEF IInv, TypeOK, BooksBalance, ChecksumMatches, Sound, Wallets
  <2>3. /\ wallet' \in [Activations -> Wallets] /\ wallet'[a] = row
        /\ \A b \in Activations \ {a} : wallet'[b] = wallet[b]
    BY <1>2, <1>4, <2>2 DEF MemoryOf
  <2>4. CopyOK(wallet'[a], row')
    BY <1>1, <2>2, <2>3 DEF CopyOK
  <2>5. /\ job' \in [Activations -> Jobs] /\ reply' \in Replies
        /\ \A b \in Activations \ {a} : job'[b] = job[b]
        /\ job'[a].pc # "idle" =>
            job'[a].msg \in Messages /\ job'[a].msg.amount \in 1 .. MaxInt64
    BY <1>1, <1>2, <1>4, CheckFundsKept
  <2> QED BY <1>1, <2>1, <2>3, <2>4, <2>5, BooksKept, OneWorked
<1>5. ASSUME NEW code \in Codes, Fail(a, code), UNCHANGED wallet
      PROVE  IInv'
  BY <1>1, <1>2, <1>5, FailKept, BooksKept, OneWorked DEF MemoryOf
<1>6. LoadVerdict(row) \in Codes /\ "internal_error" \in Codes
  BY DEF LoadVerdict, Codes, Definitive, Transient
<1> QED BY <1>3, <1>4, <1>5, <1>6 DEF current

\* Dropping the copy and answering, or retrying, with the money untouched.
LEMMA DroppedIInv ==
    ASSUME IInv, NEW a \in Activations,
           UNCHANGED <<opening, touches>>,
           row' \in Wallets, ledger' \in Seq(LedgerEntries),
           LedgerChains', BooksBalance', ChecksumMatches',
           row' = row \/ row'.version = row.version + 1,
           wallet' = [wallet EXCEPT ![a] = NoWallet],
           job' \in [Activations -> Jobs], reply' \in Replies,
           \A b \in Activations \ {a} : job'[b] = job[b],
           job'[a].pc # "persist",
           job'[a].pc # "idle" =>
               job'[a].msg \in Messages /\ job'[a].msg.amount \in 1 .. MaxInt64
    PROVE  IInv'
<1>1. MemoryOf(a)
  BY MemoryFacts
<1>2. /\ wallet' \in [Activations -> Wallets] /\ wallet'[a].status = "none"
      /\ \A b \in Activations \ {a} : wallet'[b] = wallet[b]
  BY <1>1, Blanks DEF MemoryOf
<1>3. CopyOK(wallet'[a], row')
  BY <1>2 DEF CopyOK
<1> QED BY <1>2, <1>3, OneWorked

\* persist() keeps it, whether it commits, conflicts or fails.
LEMMA PersistIInv ==
    ASSUME IInv, NEW a \in Activations, persist(a)
    PROVE  IInv'
<1> DEFINE n == NextWallet(wallet[a], job[a].msg)
<1>1. UNCHANGED <<opening, touches>> /\ job[a].pc = "persist"
  BY DEF persist
<1>2. MemoryOf(a) /\ job[a].msg \in Messages /\ job[a].msg.amount \in 1 .. MaxInt64
  BY <1>1, MemoryFacts DEF MemoryOf
<1>3. "insufficient_funds" \in Codes /\ "internal_error" \in Codes /\ "version_conflict" \in Codes
  BY DEF Codes, Definitive, Transient
<1>4. ASSUME NEW code \in Codes, Fail(a, code)
      PROVE  /\ job' \in [Activations -> Jobs] /\ reply' \in Replies
             /\ \A b \in Activations \ {a} : job'[b] = job[b]
             /\ job'[a].pc = "idle"
  BY <1>2, <1>4, FailKept DEF MemoryOf
<1>5. ASSUME NEW code \in Codes, Fail(a, code), wallet' = [wallet EXCEPT ![a] = NoWallet],
             UNCHANGED <<row, ledger>>
      PROVE  IInv'
  BY <1>1, <1>4, <1>5, BooksKept, DroppedIInv
<1>6. ASSUME ~GoesNegative(n), Commit(a)
      PROVE  /\ n \in Wallets /\ Sound(n) /\ n.status = "active"
             /\ row' \in Wallets /\ row'.actual = n.actual /\ row'.available = n.available
             /\ row'.processing = n.processing /\ row'.version = n.version
             /\ row'.version = row.version + 1
             /\ ledger' \in Seq(LedgerEntries)
             /\ LedgerChains' /\ BooksBalance' /\ ChecksumMatches'
  BY <1>1, <1>6, CommitSound
<1>7. CASE ~GoesNegative(n) /\ persistCommitted(a)
  <2>1. /\ wallet' = [wallet EXCEPT ![a] = n]
        /\ reply' = Reply(job[a].msg, "ok", wallet[a].actual, n.actual)
        /\ job' = [job EXCEPT ![a] = Idle]
    BY <1>7 DEF persistCommitted
  <2>2. Commit(a)
    BY <1>7 DEF persistCommitted
  <2> HIDE DEF n
  <2>3. /\ n \in Wallets /\ Sound(n) /\ n.status = "active"
        /\ row' \in Wallets /\ row'.actual = n.actual /\ row'.available = n.available
        /\ row'.processing = n.processing /\ row'.version = n.version
        /\ row'.version = row.version + 1
        /\ ledger' \in Seq(LedgerEntries)
        /\ LedgerChains' /\ BooksBalance' /\ ChecksumMatches'
    BY <1>6, <1>7, <2>2
  <2>4. /\ wallet' \in [Activations -> Wallets] /\ wallet'[a] = n
        /\ \A b \in Activations \ {a} : wallet'[b] = wallet[b]
    BY <1>2, <2>1, <2>3 DEF MemoryOf
  <2>5. CopyOK(wallet'[a], row')
    <3>1. n.version \in Nat
      BY <2>3 DEF Wallets
    <3>2. CopyOK(n, row')
      BY <2>3, <3>1 DEF CopyOK
    <3> QED BY <2>4, <3>2
  <2>6. /\ job' \in [Activations -> Jobs] /\ job'[a].pc = "idle"
        /\ \A b \in Activations \ {a} : job'[b] = job[b]
    <3>1. Idle \in Jobs /\ Idle.pc = "idle"
      BY Blanks DEF Jobs
    <3> QED BY <1>2, <2>1, <3>1 DEF MemoryOf
  <2>7. reply' \in Replies
    <3>1. job[a].msg.key \in MessageKeys
      BY <1>2 DEF MessageKeys
    <3>2. wallet[a].actual \in 0 .. MaxInt64 /\ n.actual \in 0 .. MaxInt64
      BY <1>1, <1>2, <2>3 DEF MemoryOf, CopyOK, Sound
    <3> QED BY <2>1, <3>1, <3>2 DEF Reply, Replies, Codes
  <2> QED BY <1>1, <2>3, <2>4, <2>5, <2>6, <2>7, OneWorked
<1>8. CASE ~GoesNegative(n) /\ persistUnacknowledged(a)
  <2>1. Commit(a) /\ wallet' = [wallet EXCEPT ![a] = NoWallet] /\ Fail(a, "internal_error")
    BY <1>8 DEF persistUnacknowledged
  <2> HIDE DEF n
  <2> QED BY <1>1, <1>3, <1>4, <1>6, <1>8, <2>1, DroppedIInv
<1>9. CASE persistConflict(a)
  <2>1. wallet' = [wallet EXCEPT ![a] = NoWallet] /\ UNCHANGED <<row, ledger>>
    BY <1>9 DEF persistConflict
  <2>2. CASE /\ job[a].attempt + 1 < maxVersionRetries
             /\ job' = [job EXCEPT ![a].pc = "load", ![a].attempt = @ + 1]
             /\ UNCHANGED reply
    <3>1. job[a].attempt + 1 \in 0 .. maxVersionRetries
      BY <1>2, <2>2, BoundsAssumption DEF MemoryOf, Jobs
    <3>2. job' = [job EXCEPT ![a] = [pc |-> "load", msg |-> job[a].msg,
                                     attempt |-> job[a].attempt + 1]]
      BY <1>2, <2>2 DEF MemoryOf, Jobs
    <3>3. [pc |-> "load", msg |-> job[a].msg, attempt |-> job[a].attempt + 1] \in Jobs
      BY <1>2, <3>1 DEF Jobs
    <3>4. /\ job' \in [Activations -> Jobs] /\ job'[a].msg = job[a].msg
          /\ job'[a].pc = "load" /\ \A b \in Activations \ {a} : job'[b] = job[b]
      BY <1>2, <3>2, <3>3 DEF MemoryOf
    <3> QED BY <1>1, <1>2, <2>1, <2>2, <3>4, BooksKept, DroppedIInv DEF MemoryOf
  <2>3. CASE Fail(a, "version_conflict")
    BY <1>3, <1>5, <2>1, <2>3
  <2> QED BY <1>9, <2>2, <2>3 DEF persistConflict
<1>10. CASE persistFailed(a)
  BY <1>3, <1>5, <1>10 DEF persistFailed
<1>11. CASE Fail(a, "insufficient_funds") /\ wallet' = [wallet EXCEPT ![a] = NoWallet]
            /\ UNCHANGED <<row, ledger>>
  BY <1>3, <1>5, <1>11
<1> HIDE DEF n
<1> QED BY <1>7, <1>8, <1>9, <1>10, <1>11 DEF persist, n

\* Losing an activation keeps it.
LEMMA CrashIInv ==
    ASSUME IInv, NEW a \in Activations, Crash(a)
    PROVE  IInv'
<1>1. MemoryOf(a)
  BY MemoryFacts
<1>2. Idle \in Jobs /\ Idle.pc = "idle"
  BY Blanks DEF Jobs
<1>3. /\ job' \in [Activations -> Jobs] /\ job'[a].pc = "idle"
      /\ \A b \in Activations \ {a} : job'[b] = job[b]
      /\ reply' \in Replies
  BY <1>1, <1>2 DEF Crash, MemoryOf
<1> QED BY <1>3, BooksKept, DroppedIInv DEF Crash

\* A write of the row that keeps its money and does not lower its version.
LEMMA OutOfBandIInv ==
    ASSUME IInv, UNCHANGED <<ledger, wallet, job, reply, opening>>,
           row' \in Wallets, touches' \in 0 .. MaxTouches,
           row'.actual = row.actual, row'.available = row.available,
           row'.processing = row.processing,
           row'.version = row.version \/ row'.version = row.version + 1,
           ChecksumMatches'
    PROVE  IInv'
<1>1. TypeOK'
  BY DEF IInv, TypeOK
<1>2. LedgerChains' /\ BooksBalance'
  BY DEF IInv, LedgerChains, BooksBalance
<1>3. CopyTracksVersion'
  <2> SUFFICES ASSUME NEW a \in Activations, wallet[a].status = "active"
               PROVE  /\ wallet[a].version <= row'.version
                      /\ wallet[a].version = row'.version =>
                           /\ wallet[a].actual = row'.actual
                           /\ wallet[a].available = row'.available
                           /\ wallet[a].processing = row'.processing
    BY DEF CopyTracksVersion
  <2>1. wallet[a].version \in Nat /\ row.version \in Nat
    BY DEF IInv, TypeOK, Wallets
  <2>2. /\ wallet[a].version <= row.version
        /\ wallet[a].version = row.version =>
             /\ wallet[a].actual = row.actual
             /\ wallet[a].available = row.available
             /\ wallet[a].processing = row.processing
    BY DEF IInv, CopyTracksVersion
  <2> QED BY <2>1, <2>2
<1>4. MemorySound'
  BY DEF IInv, MemorySound, Sound, ComputeChecksum
<1> QED BY <1>1, <1>2, <1>3, <1>4 DEF IInv

\* A status change by SQL keeps it.
LEMMA SetStatusIInv ==
    ASSUME IInv, NEW s \in {"active", "suspended"}, SetStatus(s)
    PROVE  IInv'
<1>1. row \in Wallets /\ ChecksumMatches /\ touches \in 0 .. MaxTouches
  BY DEF IInv, TypeOK
<1>2. /\ row' \in Wallets /\ row'.actual = row.actual /\ row'.available = row.available
      /\ row'.processing = row.processing /\ row'.version = row.version
      /\ row'.checksum = row.checksum
  BY <1>1 DEF SetStatus, Wallets, Statuses
<1>3. ChecksumMatches'
  BY <1>1, <1>2 DEF ChecksumMatches, ComputeChecksum
<1> QED BY <1>1, <1>2, <1>3, OutOfBandIInv DEF SetStatus

\* An out-of-band write that takes a new version keeps it.
LEMMA TouchIInv ==
    ASSUME IInv, Touch
    PROVE  IInv'
<1> DEFINE t == [row EXCEPT !.version = @ + 1]
<1>1. row \in Wallets /\ touches \in 0 .. MaxTouches /\ row.version + 1 \in Nat
  BY DEF IInv, TypeOK, Wallets
<1>2. /\ t \in Wallets /\ t.actual = row.actual /\ t.available = row.available
      /\ t.processing = row.processing /\ t.version = row.version + 1
  BY <1>1 DEF Wallets
<1>3. row' = [t EXCEPT !.checksum = ComputeChecksum(t)]
  BY DEF Touch
<1> HIDE DEF t
<1>4. ComputeChecksum(t) \in Checksums
  BY <1>2, ChecksumType DEF Wallets
<1>5. /\ row' \in Wallets /\ row'.actual = t.actual /\ row'.available = t.available
      /\ row'.processing = t.processing /\ row'.version = t.version
      /\ row'.checksum = ComputeChecksum(t)
  BY <1>2, <1>3, <1>4 DEF Wallets
<1>6. ChecksumMatches'
  BY <1>5 DEF ChecksumMatches, ComputeChecksum
<1>7. touches' \in 0 .. MaxTouches
  BY <1>1, BoundsAssumption DEF Touch
<1> QED BY <1>2, <1>5, <1>6, <1>7, OutOfBandIInv DEF Touch

-----------------------------------------------------------------------------
(* The theorems                                                            *)

\* The invariant is inductive.
LEMMA NextIInv == IInv /\ [Next]_vars => IInv'
<1> SUFFICES ASSUME IInv, [Next]_vars PROVE IInv'
  OBVIOUS
<1>1. ASSUME NEW a \in Activations, NEW m \in Messages, Receive(a, m) PROVE IInv'
  BY <1>1, ReceiveIInv
<1>2. ASSUME NEW a \in Activations, Handle(a) PROVE IInv'
  BY <1>2, FindLedgerIInv, CurrentIInv, PersistIInv DEF Handle
<1>3. ASSUME NEW a \in Activations, Crash(a) PROVE IInv'
  BY <1>3, CrashIInv
<1>4. ASSUME NEW s \in {"active", "suspended"}, SetStatus(s) PROVE IInv'
  BY <1>4, SetStatusIInv
<1>5. CASE Touch
  BY <1>5, TouchIInv
<1>6. CASE UNCHANGED vars
  BY <1>6 DEF vars, IInv, TypeOK, LedgerChains, BooksBalance, ChecksumMatches,
             CopyTracksVersion, MemorySound, Sound, ComputeChecksum
<1> QED BY <1>1, <1>2, <1>3, <1>4, <1>5, <1>6 DEF Next

\* Every reachable state satisfies the invariant.
THEOREM Invariance == Spec => []IInv
<1>1. Init => IInv
  BY InitIInv
<1>2. IInv /\ [Next]_vars => IInv'
  BY NextIInv
<1> QED BY <1>1, <1>2, PTL DEF Spec

\* Types are kept, for every width of integers and set of messages: no
\* handler of wallet.go leaves its state outside its domain.
THEOREM TypeCorrect == Spec => []TypeOK
<1>1. IInv => TypeOK
  BY DEF IInv
<1> QED BY <1>1, Invariance, PTL

\* No update is ever lost: with any number of activations at once, the ledger
\* is a chain from the opening balance to the row's balance.
THEOREM NoLostUpdate == Spec => []LedgerChains
<1>1. IInv => LedgerChains
  BY DEF IInv
<1> QED BY <1>1, Invariance, PTL

\* Balances add up, stay within 0 and the integer range, and every ledger row
\* records exactly its amount: no wrapped addition is ever committed.
THEOREM BooksAlwaysBalance == Spec => []BooksBalance
<1>1. IInv => BooksBalance
  BY DEF IInv
<1> QED BY <1>1, Invariance, PTL

\* The service's own writes, and out-of-band ones that stamp the checksum,
\* never make a wallet fail its integrity check.
THEOREM ChecksumAlwaysMatches == Spec => []ChecksumMatches
<1>1. IInv => ChecksumMatches
  BY DEF IInv
<1> QED BY <1>1, Invariance, PTL

\* A copy of the row's version has the row's money, so the version guard of
\* persist() is enough.
THEOREM VersionGuardSuffices == Spec => []CopyTracksVersion
<1>1. IInv => CopyTracksVersion
  BY DEF IInv
<1> QED BY <1>1, Invariance, PTL

-----------------------------------------------------------------------------
(* At most once, given the cluster's promise                               *)

\* The cluster keeps at most one activation of the wallet (README.md:240).
OneActivation == \A a, b \in Activations : a = b

KeyInv == AppliedOnce /\ PendingNotApplied

\* As long as the ledger is untouched only the look-up makes a message pending.
LEMMA LedgerKept ==
    ASSUME KeyInv, UNCHANGED ledger,
           \A a \in Activations :
               job'[a].pc \in {"load", "persist"} =>
                   \/ job[a].pc \in {"load", "persist"} /\ job'[a].msg = job[a].msg
                   \/ job'[a].msg.key \notin AppliedKeys
    PROVE  KeyInv'
<1>1. AppliedOnce'
  BY DEF KeyInv, AppliedOnce
<1>2. AppliedKeys' = AppliedKeys
  BY DEF AppliedKeys, LedgerRows
<1>3. PendingNotApplied'
  BY <1>2 DEF KeyInv, PendingNotApplied
<1> QED BY <1>1, <1>3 DEF KeyInv

\* A commit adds a key that was not there and leaves nothing pending.
LEMMA CommitOnce ==
    ASSUME OneActivation, IInv, KeyInv, NEW a \in Activations, job[a].pc = "persist",
           Commit(a), job'[a].pc = "idle"
    PROVE  KeyInv'
<1> DEFINE m == job[a].msg
           e == [key |-> m.key, action |-> m.action, amount |-> m.amount,
                 initial |-> wallet[a].actual,
                 updated |-> NextWallet(wallet[a], m).actual]
<1>1. ledger' = Append(ledger, e) /\ e.key = m.key
  BY DEF Commit
<1>2. \A i \in 1 .. Len(ledger) : ledger[i].key # m.key
  BY DEF KeyInv, PendingNotApplied, AppliedKeys, LedgerRows
<1>3. ledger \in Seq(LedgerEntries)
  BY DEF IInv, TypeOK
<1> HIDE DEF e, m
<1>4. /\ Len(ledger') = Len(ledger) + 1 /\ Len(ledger) \in Nat
      /\ \A i \in 1 .. Len(ledger) : ledger'[i] = ledger[i]
      /\ ledger'[Len(ledger) + 1] = e
  BY <1>1, <1>3
<1>5. AppliedOnce'
  <2> SUFFICES ASSUME NEW i \in 1 .. Len(ledger'), NEW j \in 1 .. Len(ledger'),
                      ledger'[i].key = ledger'[j].key
               PROVE  i = j
    BY DEF AppliedOnce
  <2>1. CASE i \in 1 .. Len(ledger) /\ j \in 1 .. Len(ledger)
    BY <1>4, <2>1 DEF KeyInv, AppliedOnce
  <2>2. CASE i = Len(ledger) + 1 /\ j \in 1 .. Len(ledger)
    BY <1>1, <1>2, <1>4, <2>2
  <2>3. CASE i \in 1 .. Len(ledger) /\ j = Len(ledger) + 1
    BY <1>1, <1>2, <1>4, <2>3
  <2>4. CASE i = Len(ledger) + 1 /\ j = Len(ledger) + 1
    BY <2>4
  <2> QED BY <1>4, <2>1, <2>2, <2>3, <2>4
<1>6. PendingNotApplied'
  BY DEF PendingNotApplied, OneActivation
<1> QED BY <1>5, <1>6 DEF KeyInv

\* Every step keeps the key invariant.
LEMMA NextKeyInv ==
    ASSUME OneActivation
    PROVE  IInv /\ KeyInv /\ [Next]_vars => KeyInv'
<1> SUFFICES ASSUME IInv, KeyInv, [Next]_vars PROVE KeyInv'
  OBVIOUS
<1>0. job \in [Activations -> Jobs]
  BY DEF IInv, TypeOK, Jobs
<1>1. ASSUME NEW a \in Activations, job' = [job EXCEPT ![a] = Idle], UNCHANGED ledger
      PROVE  KeyInv'
  <2>1. \A b \in Activations : b = a
    BY DEF OneActivation
  <2>2. job'[a].pc = "idle"
    BY <1>0, <1>1, Blanks
  <2> QED BY <1>1, <2>1, <2>2, LedgerKept
<1>2. ASSUME NEW a \in Activations, NEW m \in Messages, Receive(a, m) PROVE KeyInv'
  <2>1. \A b \in Activations :
          job'[b].pc \in {"load", "persist"} => job'[b] = job[b]
    BY <1>0, <1>2 DEF Receive
  <2> QED BY <1>2, <2>1, LedgerKept DEF Receive
<1>3. ASSUME NEW a \in Activations, findLedger(a) PROVE KeyInv'
  <2>1. CASE job' = [job EXCEPT ![a] = Idle]
    BY <1>1, <1>3, <2>1 DEF findLedger
  <2>2. CASE job[a].msg.key \notin AppliedKeys /\ job' = [job EXCEPT ![a].pc = "load"]
    <3>1. job'[a].msg = job[a].msg /\ \A b \in Activations : b # a => job'[b] = job[b]
      BY <1>0, <2>2 DEF Jobs
    <3> QED BY <1>3, <2>2, <3>1, LedgerKept DEF findLedger
  <2> QED BY <1>3, <2>1, <2>2 DEF findLedger, Fail
<1>4. ASSUME NEW a \in Activations, current(a) PROVE KeyInv'
  <2>1. UNCHANGED ledger /\ job[a].pc = "load"
    BY <1>4 DEF current
  <2>2. CASE job' = [job EXCEPT ![a] = Idle]
    BY <1>1, <2>1, <2>2
  <2>3. CASE job' = [job EXCEPT ![a].pc = "persist"]
    <3>1. job'[a].msg = job[a].msg /\ \A b \in Activations : b # a => job'[b] = job[b]
      BY <1>0, <2>3 DEF Jobs
    <3> QED BY <2>1, <3>1, LedgerKept
  <2> QED BY <1>4, <2>2, <2>3 DEF current, CheckFunds, Fail
<1>5. ASSUME NEW a \in Activations, persist(a) PROVE KeyInv'
  <2>1. job[a].pc = "persist"
    BY <1>5 DEF persist
  <2>2. CASE Commit(a) /\ job' = [job EXCEPT ![a] = Idle]
    <3>1. job'[a].pc = "idle"
      BY <1>0, <2>2, Blanks
    <3> QED BY <2>1, <2>2, <3>1, CommitOnce
  <2>3. CASE UNCHANGED ledger /\ job' = [job EXCEPT ![a] = Idle]
    BY <1>1, <2>3
  <2>4. CASE /\ UNCHANGED ledger
             /\ job' = [job EXCEPT ![a].pc = "load", ![a].attempt = @ + 1]
    <3>1. job'[a].msg = job[a].msg /\ \A b \in Activations : b # a => job'[b] = job[b]
      BY <1>0, <2>4 DEF Jobs
    <3> QED BY <2>1, <2>4, <3>1, LedgerKept
  <2> QED BY <1>5, <2>2, <2>3, <2>4
          DEF persist, persistCommitted, persistUnacknowledged, persistConflict,
              persistFailed, Fail
<1>6. ASSUME NEW a \in Activations, Crash(a) PROVE KeyInv'
  BY <1>1, <1>6 DEF Crash
<1>7. CASE UNCHANGED <<ledger, job>>
  BY <1>7, LedgerKept
<1> QED BY <1>2, <1>3, <1>4, <1>5, <1>6, <1>7 DEF Next, Handle, SetStatus, Touch, vars

\* Given one activation, no idempotency key is ever applied twice, whatever is
\* redelivered, lost after its commit or interrupted.
THEOREM AtMostOnce ==
    ASSUME OneActivation
    PROVE  Spec => []AppliedOnce
<1>1. Init => KeyInv
  BY Blanks DEF Init, KeyInv, AppliedOnce, PendingNotApplied
<1>2. IInv /\ KeyInv /\ [Next]_vars => KeyInv'
  BY NextKeyInv
<1>3. KeyInv => AppliedOnce
  BY DEF KeyInv
<1> QED BY <1>1, <1>2, <1>3, Invariance, PTL DEF Spec


\* Given one activation, a message past the look-up is never already applied:
\* the answer of findLedger is still true when persist() commits.
THEOREM LookUpStaysTrue ==
    ASSUME OneActivation
    PROVE  Spec => []PendingNotApplied
<1>1. Init => KeyInv
  BY Blanks DEF Init, KeyInv, AppliedOnce, PendingNotApplied
<1>2. IInv /\ KeyInv /\ [Next]_vars => KeyInv'
  BY NextKeyInv
<1>3. KeyInv => PendingNotApplied
  BY DEF KeyInv
<1> QED BY <1>1, <1>2, <1>3, Invariance, PTL DEF Spec

-----------------------------------------------------------------------------
(* The wallet is an account                                                *)

\* Only messages that passed the checks of apply() are worked on and entered
\* in the ledger, so one that is turned away unread was never applied.
CheckedInv ==
    /\ \A a \in Activations : job[a].pc # "idle" => Precheck(job[a].msg) = "ok"
    /\ \A e \in LedgerRows : \A m \in Messages : m.key = e.key => Precheck(m) = "ok"

\* The row persist() adds to the ledger.
NewEntry(a) ==
    [key |-> job[a].msg.key, action |-> job[a].msg.action, amount |-> job[a].msg.amount,
     initial |-> wallet[a].actual,
     updated |-> NextWallet(wallet[a], job[a].msg).actual]

LEMMA LedgerGrows ==
    ASSUME IInv, NEW a \in Activations, Commit(a)
    PROVE  LedgerRows' = LedgerRows \union {NewEntry(a)}
<1>1. ledger' = Append(ledger, NewEntry(a))
  BY DEF Commit, NewEntry
<1>2. ledger \in Seq(LedgerEntries)
  BY DEF IInv, TypeOK
<1> DEFINE e == NewEntry(a)
<1> HIDE DEF e
<1>3. /\ Len(ledger') = Len(ledger) + 1 /\ Len(ledger) \in Nat
      /\ \A i \in 1 .. Len(ledger) : ledger'[i] = ledger[i]
      /\ ledger'[Len(ledger) + 1] = e
  BY <1>1, <1>2 DEF e
<1>4. \A i : i \in 1 .. Len(ledger') <=> i \in 1 .. Len(ledger) \/ i = Len(ledger) + 1
  BY <1>3
<1>5. {ledger'[i] : i \in 1 .. Len(ledger')} = {ledger[i] : i \in 1 .. Len(ledger)} \union {e}
  BY <1>3, <1>4
<1> QED BY <1>5 DEF LedgerRows, e

LEMMA CheckedStep ==
    ASSUME IInv, CheckedInv, [Next]_vars
    PROVE  CheckedInv'
<1>0. job \in [Activations -> Jobs]
  BY DEF IInv, TypeOK, Jobs
<1>1. ASSUME UNCHANGED ledger,
             \A a \in Activations : job'[a].pc # "idle" =>
                 \/ job[a].pc # "idle" /\ job'[a].msg = job[a].msg
                 \/ Precheck(job'[a].msg) = "ok"
      PROVE  CheckedInv'
  BY <1>1 DEF CheckedInv, LedgerRows
<1>2. ASSUME NEW a \in Activations, job[a].pc # "idle",
             \/ job' = [job EXCEPT ![a] = Idle]
             \/ job' = [job EXCEPT ![a].pc = "load"]
             \/ job' = [job EXCEPT ![a].pc = "persist"]
             \/ job' = [job EXCEPT ![a].pc = "load", ![a].attempt = @ + 1]
             \/ job' = job
      PROVE  \A b \in Activations : job'[b].pc # "idle" =>
                 job[b].pc # "idle" /\ job'[b].msg = job[b].msg
  BY <1>0, <1>2, Blanks DEF Jobs
<1>3. ASSUME NEW a \in Activations, NEW m \in Messages, Receive(a, m)
      PROVE  CheckedInv'
  <2>1. CASE Precheck(m) = "ok" /\ job' = [job EXCEPT ![a] = [pc |-> "find", msg |-> m, attempt |-> 0]]
    <3>1. job'[a].msg = m /\ \A b \in Activations : b # a => job'[b] = job[b]
      BY <1>0, <2>1
    <3> QED BY <1>1, <1>3, <2>1, <3>1 DEF Receive
  <2>2. CASE UNCHANGED job
    BY <1>1, <1>3, <2>2 DEF Receive
  <2> QED BY <1>3, <2>1, <2>2 DEF Receive
<1>4. ASSUME NEW a \in Activations, findLedger(a) \/ current(a)
      PROVE  CheckedInv'
  <2>1. /\ job[a].pc # "idle" /\ UNCHANGED ledger
        /\ \/ job' = [job EXCEPT ![a] = Idle]
           \/ job' = [job EXCEPT ![a].pc = "load"]
           \/ job' = [job EXCEPT ![a].pc = "persist"]
    BY <1>4 DEF findLedger, current, CheckFunds, Fail
  <2> QED BY <1>1, <1>2, <2>1
<1>5. ASSUME NEW a \in Activations, persist(a)
      PROVE  CheckedInv'
  <2>1. /\ job[a].pc = "persist"
        /\ \/ job' = [job EXCEPT ![a] = Idle]
           \/ job' = [job EXCEPT ![a].pc = "load", ![a].attempt = @ + 1]
        /\ Commit(a) \/ UNCHANGED ledger
    BY <1>5 DEF persist, persistCommitted, persistUnacknowledged, persistConflict,
                persistFailed, Fail
  <2>2. CASE UNCHANGED ledger
    BY <1>1, <1>2, <2>1, <2>2
  <2>3. CASE Commit(a)
    <3>1. LedgerRows' = LedgerRows \union {NewEntry(a)} /\ NewEntry(a).key = job[a].msg.key
      BY <2>3, LedgerGrows DEF NewEntry
    <3>2. job[a].msg \in Messages /\ Precheck(job[a].msg) = "ok"
      BY <2>1 DEF IInv, MemorySound, CheckedInv
    <3>3. \A e \in LedgerRows' : \A m \in Messages : m.key = e.key => Precheck(m) = "ok"
      BY <3>1, <3>2, MessagesAssumption DEF CheckedInv
    <3>4. \A b \in Activations : job'[b].pc # "idle" =>
                 job[b].pc # "idle" /\ job'[b].msg = job[b].msg
      BY <1>2, <2>1
    <3> QED BY <3>3, <3>4 DEF CheckedInv
  <2> QED BY <2>1, <2>2, <2>3
<1>6. ASSUME NEW a \in Activations, Crash(a)
      PROVE  CheckedInv'
  <2>1. \A b \in Activations : job'[b].pc # "idle" => job'[b] = job[b]
    BY <1>0, <1>6, Blanks DEF Crash
  <2> QED BY <1>1, <1>6, <2>1 DEF Crash
<1>7. CASE UNCHANGED <<ledger, job>>
  BY <1>1, <1>7
<1> QED BY <1>3, <1>4, <1>5, <1>6, <1>7 DEF Next, Handle, SetStatus, Touch, vars

\* The wallet as Account sees it.
AccEffect == [k \in MessageKeys |-> Delta(CHOOSE m \in Messages : m.key = k)]
AccApplied == {[key |-> e.key, initial |-> e.initial, updated |-> e.updated] : e \in LedgerRows}
AccTold ==
    IF reply.code \in Transient THEN <<>>
    ELSE <<[key |-> reply.key, ok |-> reply.code = "ok",
            initial |-> reply.initial, updated |-> reply.updated]>>

LEMMA EffectIs ==
    ASSUME NEW m \in Messages
    PROVE  m.key \in MessageKeys /\ AccEffect[m.key] = Delta(m)
<1>1. m.key \in MessageKeys
  BY DEF MessageKeys
<1>2. (CHOOSE n \in Messages : n.key = m.key) = m
  BY MessagesAssumption
<1> QED BY <1>1, <1>2 DEF AccEffect

LEMMA SameKeys == Acc!AppliedKeys = AppliedKeys
<1>1. \A e \in LedgerRows : [key |-> e.key, initial |-> e.initial, updated |-> e.updated].key = e.key
  OBVIOUS
<1>2. \A k : k \in {d.key : d \in AccApplied} <=> k \in AppliedKeys
  BY <1>1 DEF AccApplied, AppliedKeys
<1> QED BY <1>2 DEF Acc!AppliedKeys, AccApplied

\* An answer without success: a refusal of something not applied, or nothing
\* the orchestrator may rely on.
LEMMA AnswersNo ==
    ASSUME NEW m \in Messages, NEW code \in Definitive \union Transient,
           reply' = Reply(m, code, 0, 0), row'.actual = row.actual, ledger' = ledger,
           code \in Definitive => m.key \notin AppliedKeys
    PROVE  Acc!Next
<1>1. AccApplied' = AccApplied
  BY DEF AccApplied, LedgerRows
<1>2. reply'.code = code /\ reply'.key = m.key /\ reply'.initial = 0 /\ reply'.updated = 0
  BY DEF Reply
<1>3. CASE code \in Transient
  <2>1. AccTold' = <<>>
    BY <1>2, <1>3 DEF AccTold
  <2> QED BY <1>1, <2>1 DEF Acc!Next, Acc!Hedge, AccTold, AccApplied
<1>4. CASE code \in Definitive
  <2>1. code \notin Transient /\ (code = "ok") = FALSE
    BY <1>4 DEF Definitive, Transient
  <2>2. AccTold' = <<[key |-> m.key, ok |-> FALSE, initial |-> 0, updated |-> 0]>>
    BY <1>2, <2>1 DEF AccTold
  <2>3. m.key \notin Acc!AppliedKeys
    BY <1>4, SameKeys
  <2>4. Acc!Refuse(m.key)
    BY <1>1, <2>2, <2>3 DEF Acc!Refuse, Acc!Refused, AccTold, AccApplied
  <2>5. m.key \in MessageKeys
    BY DEF MessageKeys
  <2> QED BY <2>4, <2>5 DEF Acc!Next
<1> QED BY <1>3, <1>4

\* The answer of findLedger repeats what was carried out.
LEMMA AnswersAgain ==
    ASSUME NEW m \in Messages, NEW e \in LedgerRows, e.key = m.key,
           reply' = Reply(m, "ok", e.initial, e.updated), row'.actual = row.actual,
           ledger' = ledger
    PROVE  Acc!Next
<1>1. AccApplied' = AccApplied
  BY DEF AccApplied, LedgerRows
<1> DEFINE d == [key |-> e.key, initial |-> e.initial, updated |-> e.updated]
<1>2. d \in AccApplied
  BY DEF AccApplied
<1>3. d.key = e.key /\ d.initial = e.initial /\ d.updated = e.updated
  OBVIOUS
<1>4. /\ reply'.code = "ok" /\ reply'.key = e.key /\ reply'.initial = e.initial
      /\ reply'.updated = e.updated
  BY DEF Reply
<1>5. AccTold' = <<[key |-> e.key, ok |-> TRUE, initial |-> e.initial, updated |-> e.updated]>>
  BY <1>4 DEF AccTold, Transient
<1> HIDE DEF d
<1>6. Acc!Repeat(d)
  BY <1>1, <1>2, <1>3, <1>5 DEF Acc!Repeat, Acc!Accepted, AccTold, AccApplied
<1> QED BY <1>2, <1>6 DEF Acc!Next, AccApplied

\* A commit carries out an operation that was not, and what is answered is
\* the entry or nothing.
LEMMA Carries ==
    ASSUME IInv, KeyInv, NEW a \in Activations, job[a].pc = "persist",
           ~GoesNegative(NextWallet(wallet[a], job[a].msg)), Commit(a), UNCHANGED opening,
           \/ reply' = Reply(job[a].msg, "ok", wallet[a].actual,
                             NextWallet(wallet[a], job[a].msg).actual)
           \/ reply' = Reply(job[a].msg, "internal_error", 0, 0)
    PROVE  Acc!Next
<1> DEFINE w == wallet[a]
           m == job[a].msg
           n == NextWallet(w, m)
<1>1. /\ w \in Wallets /\ Sound(w) /\ w.status = "active"
      /\ m \in Messages /\ m.amount \in 1 .. MaxInt64
  BY DEF IInv, TypeOK, MemorySound
<1>2. n.actual = w.actual + Delta(m) /\ Sound(n)
  <2> HIDE DEF w, m
  <2>1. ~GoesNegative(NextWallet(w, m))
    BY DEF w, m
  <2> QED BY <1>1, <2>1, NextWalletExact
<1>3. row.actual = w.actual
  BY <1>1 DEF Commit, IInv, CopyTracksVersion
<1>4. row'.actual = n.actual
  BY CommitSound
<1>5. m.key \notin AppliedKeys
  BY DEF KeyInv, PendingNotApplied
<1>6. LedgerRows' = LedgerRows \union {NewEntry(a)}
  BY LedgerGrows
<1>7. NewEntry(a).key = m.key /\ NewEntry(a).initial = w.actual /\ NewEntry(a).updated = n.actual
  BY DEF NewEntry
<1>8. \/ reply' = Reply(m, "ok", w.actual, n.actual)
      \/ reply' = Reply(m, "internal_error", 0, 0)
  OBVIOUS
<1> HIDE DEF w, m, n
<1> DEFINE d == [key |-> m.key, initial |-> row.actual, updated |-> row.actual + AccEffect[m.key]]
<1>9. /\ m.key \in MessageKeys /\ AccEffect[m.key] = Delta(m)
  BY <1>1, EffectIs
<1>10. d.key = m.key /\ d.initial = w.actual /\ d.updated = n.actual
  BY <1>2, <1>3, <1>9
<1>11. d = [key |-> NewEntry(a).key, initial |-> NewEntry(a).initial, updated |-> NewEntry(a).updated]
  BY <1>2, <1>3, <1>7, <1>9
<1>12. AccApplied' = AccApplied \union {d}
  BY <1>6, <1>11 DEF AccApplied
<1>13. AccTold' \in {<<[key |-> d.key, ok |-> TRUE, initial |-> d.initial, updated |-> d.updated]>>, <<>>}
  <2>1. CASE reply' = Reply(m, "ok", w.actual, n.actual)
    <3>1. /\ reply'.code = "ok" /\ reply'.key = m.key /\ reply'.initial = w.actual
          /\ reply'.updated = n.actual
      BY <2>1 DEF Reply
    <3> QED BY <1>10, <3>1 DEF AccTold, Transient
  <2>2. CASE reply' = Reply(m, "internal_error", 0, 0)
    BY <2>2 DEF AccTold, Transient, Reply
  <2> QED BY <1>8, <2>1, <2>2
<1>14. row'.actual = row.actual + AccEffect[m.key] /\ row.actual + AccEffect[m.key] >= 0
  <2>1. n.actual >= 0
    BY <1>2 DEF Sound
  <2> QED BY <1>2, <1>3, <1>4, <1>9, <2>1
<1>15. PICK k \in MessageKeys : k = m.key
  BY <1>9
<1>16. k \notin Acc!AppliedKeys
  BY <1>5, <1>15, SameKeys
<1>17. Acc!Entry(k, row.actual) = d
  BY <1>15 DEF Acc!Entry, AccEffect
<1> HIDE DEF d
<1>18. row'.actual = row.actual + AccEffect[k] /\ row.actual + AccEffect[k] >= 0
  BY <1>14, <1>15
<1>19. Acc!Apply(k)
  BY <1>12, <1>13, <1>16, <1>17, <1>18 DEF Acc!Apply, Acc!Accepted, AccTold, AccApplied, AccEffect
<1> QED BY <1>19 DEF Acc!Next

\* Every step of the wallet is a step of an account, or nothing to it.
LEMMA AccountStep ==
    ASSUME IInv, KeyInv, CheckedInv, [Next]_vars
    PROVE  [Acc!Next]_<<row.actual, AccApplied, AccTold>>
<1>0. job \in [Activations -> Jobs] /\ row \in Wallets
  BY DEF IInv, TypeOK, Jobs
<1>1. ASSUME row'.actual = row.actual, ledger' = ledger, reply' = reply
      PROVE  UNCHANGED <<row.actual, AccApplied, AccTold>>
  BY <1>1 DEF AccApplied, AccTold, LedgerRows
<1>2. ASSUME NEW a \in Activations, NEW code \in Definitive \union Transient, Fail(a, code),
             job[a].pc # "idle", row'.actual = row.actual, ledger' = ledger,
             code \in Definitive => job[a].pc \in {"load", "persist"}
      PROVE  Acc!Next
  <2>1. PICK m \in Messages : m = job[a].msg
    BY <1>2 DEF IInv, MemorySound
  <2>2. code \in Definitive => m.key \notin AppliedKeys
    BY <1>2, <2>1 DEF KeyInv, PendingNotApplied
  <2>3. reply' = Reply(m, code, 0, 0)
    BY <1>2, <2>1 DEF Fail
  <2> QED BY <1>2, <2>2, <2>3, AnswersNo
<1>3. ASSUME NEW a \in Activations, NEW m \in Messages, Receive(a, m)
      PROVE  [Acc!Next]_<<row.actual, AccApplied, AccTold>>
  <2>1. row' = row /\ ledger' = ledger
    BY <1>3 DEF Receive
  <2>2. CASE UNCHANGED reply
    BY <1>1, <2>1, <2>2
  <2>3. CASE Precheck(m) # "ok" /\ reply' = Reply(m, Precheck(m), 0, 0)
    <3>1. PICK code \in Definitive : code = Precheck(m)
      BY <2>3 DEF Precheck, Definitive
    <3>2. m.key \notin AppliedKeys
      BY <2>3 DEF CheckedInv, AppliedKeys
    <3> QED BY <2>1, <2>3, <3>1, <3>2, AnswersNo
  <2> QED BY <1>3, <2>2, <2>3 DEF Receive
<1>4. ASSUME NEW a \in Activations, findLedger(a)
      PROVE  [Acc!Next]_<<row.actual, AccApplied, AccTold>>
  <2>1. row' = row /\ ledger' = ledger /\ job[a].pc = "find"
    BY <1>4 DEF findLedger
  <2>2. ASSUME NEW e \in LedgerRows, e.key = job[a].msg.key,
               reply' = Reply(job[a].msg, "ok", e.initial, e.updated)
        PROVE  Acc!Next
    <3>1. PICK m \in Messages : m = job[a].msg
      BY <2>1 DEF IInv, MemorySound
    <3>2. PICK d : d = e
      OBVIOUS
    <3>3. d \in LedgerRows /\ d.key = m.key /\ reply' = Reply(m, "ok", d.initial, d.updated)
      BY <2>2, <3>1, <3>2
    <3> QED BY <2>1, <3>3, AnswersAgain
  <2>3. CASE UNCHANGED reply
    BY <1>1, <2>1, <2>3
  <2>4. CASE Fail(a, "internal_error")
    <3>1. "internal_error" \in Transient /\ "internal_error" \notin Definitive
      BY DEF Transient, Definitive
    <3> QED BY <1>2, <2>1, <2>4, <3>1
  <2> QED BY <1>4, <2>2, <2>3, <2>4 DEF findLedger
<1>5. ASSUME NEW a \in Activations, current(a)
      PROVE  [Acc!Next]_<<row.actual, AccApplied, AccTold>>
  <2>1. row' = row /\ ledger' = ledger /\ job[a].pc = "load"
    BY <1>5 DEF current
  <2>2. CASE UNCHANGED reply
    BY <1>1, <2>1, <2>2
  <2>3. ASSUME NEW code \in Definitive \union Transient, Fail(a, code)
        PROVE  Acc!Next
    BY <1>2, <2>1, <2>3
  <2>4. /\ "insufficient_funds" \in Definitive /\ "internal_error" \in Transient
        /\ LoadVerdict(row) # "ok" => LoadVerdict(row) \in Definitive
    BY DEF Definitive, Transient, LoadVerdict
  <2>5. CASE LoadVerdict(row) # "ok" /\ Fail(a, LoadVerdict(row))
    <3>1. PICK code \in Definitive : code = LoadVerdict(row)
      BY <2>4, <2>5
    <3>2. Fail(a, code)
      BY <2>5, <3>1 DEF Fail
    <3> QED BY <2>3, <3>2
  <2>6. \/ UNCHANGED reply
        \/ Fail(a, "insufficient_funds")
        \/ Fail(a, "internal_error")
        \/ LoadVerdict(row) # "ok" /\ Fail(a, LoadVerdict(row))
    BY <1>5 DEF current, CheckFunds
  <2> QED BY <2>2, <2>3, <2>4, <2>5, <2>6
<1>6. ASSUME NEW a \in Activations, persist(a)
      PROVE  [Acc!Next]_<<row.actual, AccApplied, AccTold>>
  <2>1. job[a].pc = "persist" /\ UNCHANGED opening
    BY <1>6 DEF persist
  <2>2. CASE /\ ~GoesNegative(NextWallet(wallet[a], job[a].msg))
             /\ persistCommitted(a) \/ persistUnacknowledged(a)
    BY <2>1, <2>2, Carries DEF persistCommitted, persistUnacknowledged, Fail
  <2>3. ASSUME NEW code \in Definitive \union Transient, Fail(a, code), UNCHANGED <<row, ledger>>
        PROVE  Acc!Next
    BY <1>2, <2>1, <2>3
  <2>4. CASE UNCHANGED <<row, ledger, reply>>
    BY <1>1, <2>4
  <2>5. /\ "insufficient_funds" \in Definitive /\ "internal_error" \in Transient
        /\ "version_conflict" \in Transient
    BY DEF Definitive, Transient
  <2>6. \/ /\ ~GoesNegative(NextWallet(wallet[a], job[a].msg))
           /\ persistCommitted(a) \/ persistUnacknowledged(a)
        \/ UNCHANGED <<row, ledger, reply>>
        \/ Fail(a, "insufficient_funds") /\ UNCHANGED <<row, ledger>>
        \/ Fail(a, "internal_error") /\ UNCHANGED <<row, ledger>>
        \/ Fail(a, "version_conflict") /\ UNCHANGED <<row, ledger>>
    BY <1>6 DEF persist, persistConflict, persistFailed
  <2> QED BY <2>2, <2>3, <2>4, <2>5, <2>6
<1>7. ASSUME NEW a \in Activations, Crash(a)
      PROVE  [Acc!Next]_<<row.actual, AccApplied, AccTold>>
  BY <1>1, <1>7 DEF Crash
<1>8. ASSUME Touch \/ \E s \in {"active", "suspended"} : SetStatus(s)
      PROVE  [Acc!Next]_<<row.actual, AccApplied, AccTold>>
  <2>1. row'.actual = row.actual
    BY <1>0, <1>8 DEF Touch, SetStatus, Wallets
  <2> QED BY <1>1, <1>8, <2>1 DEF Touch, SetStatus
<1>9. CASE UNCHANGED vars
  BY <1>1, <1>9 DEF vars
<1> QED BY <1>3, <1>4, <1>5, <1>6, <1>7, <1>8, <1>9 DEF Next, Handle

LEMMA AccountInit == Init => Acc!Init
<1> SUFFICES ASSUME Init PROVE Acc!Init
  OBVIOUS
<1>1. row.actual \in Nat
  BY RowsAssumption, BoundsAssumption DEF Init, Sound
<1>2. AccApplied = {}
  BY DEF Init, AccApplied, LedgerRows
<1>3. AccTold = <<>>
  BY DEF Init, AccTold, NoReply, Reply, Transient
<1> QED BY <1>1, <1>2, <1>3 DEF Acc!Init, AccApplied, AccTold

\* Given one activation, the wallet is an account for every set of messages,
\* initial row and integer width: each key takes effect at most once, the
\* balance never falls below zero, and every answer that settles a leg is
\* true when it is given, through crashes, lost acknowledgements, version
\* conflicts and out-of-band writes (wallet.go apply).
THEOREM WalletIsAnAccount ==
    ASSUME OneActivation
    PROVE  Spec => AccountSpec
<1>1. Init => KeyInv /\ CheckedInv
  BY Blanks DEF Init, KeyInv, AppliedOnce, PendingNotApplied, CheckedInv, LedgerRows
<1>2. IInv /\ KeyInv /\ CheckedInv /\ [Next]_vars => KeyInv' /\ CheckedInv'
  BY NextKeyInv, CheckedStep
<1>3. IInv /\ KeyInv /\ CheckedInv /\ [Next]_vars
        => [Acc!Next]_<<row.actual, AccApplied, AccTold>>
  BY AccountStep
<1> QED BY <1>1, <1>2, <1>3, Invariance, AccountInit, PTL
        DEF Spec, AccountSpec, Acc!Spec, Acc!avars, AccApplied, AccTold
=============================================================================
