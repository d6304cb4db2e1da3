---------------------------- MODULE LedgerProofs ----------------------------
(***************************************************************************)
(* Proofs about Ledger, for every set of calls, any clock and any number of  *)
(* retries and faults: the inductive invariant IInv says that the tip read   *)
(* under the advisory lock is still the head when its successor commits.     *)
(* Then about LedgerReaders, for any clients, replicas and page size, and    *)
(* about LedgerVerify, for a chain of any length and any number of changes.  *)
(***************************************************************************)
EXTENDS LedgerReaders, LedgerVerify, FiniteSetTheorems, SequenceTheorems,
        WellFoundedInduction, NaturalsInduction, TLAPS

\* What Postgres stores of a normalised time is normalised to the same time.
LEMMA StoredTime ==
  ASSUME NEW t \in Nat
  PROVE  /\ normalizeTimestamp(t) \in Nat
         /\ normalizeTimestamp(Stored(normalizeTimestamp(t)))
              = normalizeTimestamp(normalizeTimestamp(t))
BY DEF normalizeTimestamp, Stored, Micro

\* The hash appendOnce computes is the one VerifyChain recomputes from the row.
LEMMA RowHash ==
  ASSUME NEW c, NEW t \in Nat, NEW v
  PROVE  NewEntry(c, t, v).hash = calculateHash(NewEntry(c, t, v))
BY StoredTime, Zenon DEF NewEntry, calculateHash

\* The latest entry of a table numbered without a gap.
LEMMA LatestEntry ==
  ASSUME TypeOK, Numbered
  PROVE  LET t == GetLatestLedgerEntry(table) IN
         /\ t.seq = Cardinality(table)
         /\ IF table = {} THEN t.hash = <<>>
            ELSE \E r \in table : r.seq = t.seq /\ r.hash = t.hash
<1>1. Cardinality(table) \in Nat
  BY FS_CardinalityType, Zenon DEF Numbered
<1>2. CASE table = {}
  BY <1>2, FS_EmptySet, Zenon DEF GetLatestLedgerEntry, NoTip
<1>3. CASE table # {}
  <2>1. Cardinality(table) # 0
    BY <1>3, FS_EmptySet, Zenon DEF Numbered
  <2>2. PICK m \in table : m.seq = Cardinality(table)
    BY <1>1, <2>1 DEF Numbered
  <2>3. \A s \in table : s.seq <= m.seq
    BY <1>1, <2>2 DEF Numbered
  <2> DEFINE h == CHOOSE r \in table : \A s \in table : s.seq <= r.seq
  <2>4. h \in table /\ \A s \in table : s.seq <= h.seq
    BY <2>3, Zenon
  <2>5. h.seq = Cardinality(table)
    BY <1>1, <2>2, <2>4 DEF Numbered
  <2> QED
    BY <1>3, <2>4, <2>5, Zenon DEF GetLatestLedgerEntry
<1> QED
  BY <1>2, <1>3, Zenon

\* Committing the pending row makes the table one row longer.
LEMMA CommitCounts ==
  ASSUME IInv, NEW c \in Calls, pc[c] = "commit"
  PROVE  /\ row[c] \notin table
         /\ row[c].seq = Cardinality(table) + 1
         /\ Cardinality(table) \in Nat
         /\ IsFiniteSet(table \cup {row[c]})
         /\ Cardinality(table \cup {row[c]}) = Cardinality(table) + 1
<1>1. Cardinality(table) \in Nat /\ IsFiniteSet(table)
  BY FS_CardinalityType, Zenon DEF IInv, Numbered
<1>2. row[c].seq = Cardinality(table) + 1
  BY DEF IInv, TipIsHead, RowIsNext
<1>3. row[c] \notin table
  BY <1>1, <1>2 DEF IInv, Numbered
<1> QED
  BY <1>1, <1>2, <1>3, FS_AddElement, Zenon

\* The end of a transaction keeps lock, tip and row in their domains.
LEMMA EndTxType ==
  ASSUME TypeOK, NEW c \in Calls, EndTx(c)
  PROVE  /\ lock' \in Calls \cup {Nobody}
         /\ tip' = [d \in Calls |-> tip'[d]] /\ row' = [d \in Calls |-> row'[d]]
         /\ \A d \in Calls : tip'[d].seq \in Nat /\ row'[d].seq \in Nat
<1>1. lock' \in Calls \cup {Nobody}
  BY Zenon DEF TypeOK, EndTx
<1>2. tip' = [d \in Calls |-> IF d = c THEN NoTip ELSE tip[d]]
  BY Zenon DEF TypeOK, EndTx
<1>3. row' = [d \in Calls |-> IF d = c THEN NoRow ELSE row[d]]
  BY Zenon DEF TypeOK, EndTx
<1>4. NoTip.seq \in Nat /\ NoRow.seq \in Nat
  BY Zenon DEF NoTip, NoRow
<1>5. \A d \in Calls : tip[d].seq \in Nat /\ row[d].seq \in Nat
  BY Zenon DEF TypeOK
<1>6. \A d \in Calls : tip'[d].seq \in Nat /\ row'[d].seq \in Nat
  BY <1>2, <1>3, <1>4, <1>5, Zenon
<1>7. tip' = [d \in Calls |-> tip'[d]] /\ row' = [d \in Calls |-> row'[d]]
  BY <1>2, <1>3, Zenon
<1> QED
  BY <1>1, <1>6, <1>7, Zenon

\* No step leaves the declared domains.
LEMMA TypeStep ==
  ASSUME IInv, [Next]_vars
  PROVE  TypeOK'
<1>a. TypeOK /\ Numbered /\ RowIsNext
  BY Zenon DEF IInv
<1> USE LedgerAssumption DEF TypeOK, Labels
<1>1. ASSUME NEW c \in Calls, Call(c) \/ BeginTx(c) \/ Retry(c) PROVE TypeOK'
  BY <1>a, <1>1, Zenon DEF Call, BeginTx, Retry, Goto
<1>2. ASSUME NEW c \in Calls, Lock(c) PROVE TypeOK'
  BY <1>a, <1>2, Zenon DEF Lock, Goto
<1>3. ASSUME NEW c \in Calls, ReadTip(c) PROVE TypeOK'
  <2>1. Cardinality(table) \in Nat
    BY <1>a, FS_CardinalityType, Zenon DEF Numbered
  <2>2. GetLatestLedgerEntry(table).seq \in Nat
    BY <1>a, <2>1, LatestEntry, Zenon
  <2> QED
    BY <1>a, <1>3, <2>2, Zenon DEF ReadTip, Goto
<1>4. ASSUME NEW c \in Calls, Insert(c) PROVE TypeOK'
  <2>1. CASE EndTx(c)
    BY <1>a, <1>4, <2>1, EndTxType, Zenon DEF Insert, Goto
  <2>2. ASSUME NEW t, NEW v, row' = [row EXCEPT ![c] = NewEntry(c, t, v)],
               UNCHANGED <<lock, tip>>
        PROVE  TypeOK'
    <3>1. NewEntry(c, t, v).seq \in Nat
      BY <1>a DEF NewEntry
    <3> QED
      BY <1>a, <1>4, <2>2, <3>1, Zenon DEF Insert, Goto
  <2> QED
    BY <1>4, <2>1, <2>2, Zenon DEF Insert
<1>5. ASSUME NEW c \in Calls, Commit(c) PROVE TypeOK'
  <2>1. row[c].seq \in Nat \ {0} /\ row[c].data \in Calls
    BY <1>a, <1>5, CommitCounts DEF Commit, RowIsNext
  <2>2. /\ \A r \in table' : r.seq \in Nat \ {0} /\ r.data \in Calls
        /\ pc' \in [Calls -> Labels]
        /\ faults' \in 0 .. MaxFaults
        /\ attempt' = attempt /\ EndTx(c)
    BY <1>a, <1>5, <2>1 DEF Commit, Goto, Fault
  <2> QED
    BY <1>a, <2>2, EndTxType, Zenon
<1>6. ASSUME NEW c \in Calls, Abort(c) PROVE TypeOK'
  BY <1>a, <1>6, EndTxType DEF Abort, Goto, Fault
<1>7. ASSUME NEW c \in Calls, SerializationFailure(c) PROVE TypeOK'
  <2>1. /\ table' = table
        /\ pc' \in [Calls -> Labels]
        /\ faults' \in 0 .. MaxFaults
        /\ attempt' \in [Calls -> 0 .. MaxRetries - 1]
        /\ EndTx(c)
    BY <1>a, <1>7 DEF SerializationFailure, Goto, Fault
  <2> QED
    BY <1>a, <2>1, EndTxType, Zenon
<1>8. CASE UNCHANGED vars
  BY <1>a, <1>8, Zenon DEF vars
<1> QED
  BY <1>1, <1>2, <1>3, <1>4, <1>5, <1>6, <1>7, <1>8, Zenon DEF Next, Step

\* The advisory lock is taken before the tip is read and released with the
\* transaction, so its holder is the only call that reads, inserts or commits.
LEMMA LockStep ==
  ASSUME IInv, [Next]_vars
  PROVE  LockIsHeld'
<1> USE LedgerAssumption DEF LockIsHeld
<1>a. /\ pc \in [Calls -> Labels]
      /\ lock \in Calls \cup {Nobody}
      /\ LockIsHeld
  BY Zenon DEF IInv, TypeOK
<1>1. ASSUME NEW c \in Calls, Call(c) \/ BeginTx(c) \/ Retry(c) PROVE LockIsHeld'
  BY <1>a, <1>1, Zenon DEF Call, BeginTx, Retry, Goto
<1>2. ASSUME NEW c \in Calls, Lock(c) PROVE LockIsHeld'
  BY <1>a, <1>2, Zenon DEF Lock, Goto
<1>3. ASSUME NEW c \in Calls, ReadTip(c) PROVE LockIsHeld'
  BY <1>a, <1>3, Zenon DEF ReadTip, Goto
<1>4. ASSUME NEW c \in Calls, Insert(c) PROVE LockIsHeld'
  BY <1>a, <1>4 DEF Insert, Goto, EndTx
<1>5. ASSUME NEW c \in Calls, Commit(c) PROVE LockIsHeld'
  BY <1>a, <1>5, Zenon DEF Commit, Goto, EndTx
<1>6. ASSUME NEW c \in Calls, Abort(c) PROVE LockIsHeld'
  BY <1>a, <1>6, Zenon DEF Abort, Goto, EndTx
<1>7. ASSUME NEW c \in Calls, SerializationFailure(c) PROVE LockIsHeld'
  BY <1>a, <1>7, Zenon DEF SerializationFailure, Goto, EndTx
<1>8. CASE UNCHANGED vars
  BY <1>a, <1>8, Zenon DEF vars
<1> QED
  BY <1>1, <1>2, <1>3, <1>4, <1>5, <1>6, <1>7, <1>8, Zenon DEF Next, Step

\* A committed row is the successor of the head: numbering, links, hashes and
\* the one row per call survive every step.
LEMMA ChainStep ==
  ASSUME IInv, [Next]_vars
  PROVE  Numbered' /\ ChainIntact' /\ RecordedOnce'
<1>a. pc \in [Calls -> Labels] /\ Numbered /\ ChainIntact /\ RecordedOnce
  BY Zenon DEF IInv, TypeOK
<1>1. CASE UNCHANGED vars
  BY <1>a, <1>1 DEF vars, Numbered, ChainIntact, RecordedOnce, RowsOf, Returned
<1>2. ASSUME NEW c \in Calls, Commit(c)
      PROVE  Numbered' /\ ChainIntact' /\ RecordedOnce'
  <2>1. pc[c] = "commit" /\ table' = table \cup {row[c]}
    BY <1>2, Zenon DEF Commit
  <2>2. /\ row[c].seq = Cardinality(table) + 1
        /\ Cardinality(table) \in Nat
        /\ IsFiniteSet(table')
        /\ Cardinality(table') = Cardinality(table) + 1
    BY <2>1, CommitCounts, Zenon
  <2>3. Numbered'
    <3>1. \A r \in table' : r.seq \in 1 .. Cardinality(table')
      BY <1>a, <2>1, <2>2 DEF Numbered
    <3>2. ASSUME NEW i \in 1 .. Cardinality(table') PROVE \E r \in table' : r.seq = i
      <4>1. CASE i = Cardinality(table) + 1
        BY <4>1, <2>1, <2>2, Zenon
      <4>2. CASE i # Cardinality(table) + 1
        <5>1. i \in 1 .. Cardinality(table)
          BY <4>2, <3>2, <2>2
        <5> QED
          BY <5>1, <1>a, <2>1, Zenon DEF Numbered
      <4> QED
        BY <4>1, <4>2, Zenon
    <3> QED
      BY <2>2, <3>1, <3>2, Zenon DEF Numbered
  <2>4. ChainIntact'
    <3>1. /\ row[c].hash = calculateHash(row[c])
          /\ row[c].prev = tip[c].hash
          /\ tip[c].seq = Cardinality(table)
          /\ IF table = {} THEN tip[c].hash = <<>>
             ELSE \E r \in table : r.seq = tip[c].seq /\ r.hash = tip[c].hash
      BY <2>1, Zenon DEF IInv, TipIsHead, RowIsNext
    <3>2. \A s \in table' : s.seq = row[c].seq => s = row[c]
      BY <1>a, <2>1, <2>2 DEF Numbered
    <3>3. IF row[c].seq = 1 THEN row[c].prev = <<>>
          ELSE \E p \in table' : p.seq + 1 = row[c].seq /\ row[c].prev = p.hash
      <4>1. CASE table = {}
        BY <4>1, <3>1, <2>2, FS_EmptySet
      <4>2. CASE table # {}
        <5>1. PICK p \in table : p.seq = tip[c].seq /\ p.hash = tip[c].hash
          BY <4>2, <3>1, Zenon
        <5>2. p.seq \in 1 .. Cardinality(table)
          BY <1>a, Zenon DEF Numbered
        <5> QED
          BY <5>1, <5>2, <3>1, <2>1, <2>2
      <4> QED
        BY <4>1, <4>2, Zenon
    <3>4. ASSUME NEW r \in table
          PROVE  /\ r.hash = calculateHash(r)
                 /\ \A s \in table' : s.seq = r.seq => s = r
                 /\ IF r.seq = 1 THEN r.prev = <<>>
                    ELSE \E p \in table' : p.seq + 1 = r.seq /\ r.prev = p.hash
      BY <1>a, <2>1, <3>2, Zenon DEF ChainIntact
    <3>5. \A r \in table' :
            /\ r.hash = calculateHash(r)
            /\ \A s \in table' : s.seq = r.seq => s = r
            /\ IF r.seq = 1 THEN r.prev = <<>>
               ELSE \E p \in table' : p.seq + 1 = r.seq /\ r.prev = p.hash
      BY <2>1, <3>1, <3>2, <3>3, <3>4
    <3> QED
      BY <3>5, Zenon DEF ChainIntact, calculateHash, normalizeTimestamp, Micro
  <2>5. RecordedOnce'
    <3>1. row[c].data = c /\ RowsOf(c) = {}
      BY <1>a, <2>1, Zenon DEF IInv, RowIsNext, RecordedOnce, Returned
    <3>2. /\ pc' \in [Calls -> Labels]
          /\ pc'[c] \in {"ok", "error"}
          /\ \A d \in Calls : d # c => pc'[d] = pc[d]
      BY <1>a, <1>2, Zenon DEF Commit, Goto, Labels
    <3>3. ASSUME NEW d \in Calls
          PROVE  /\ pc'[d] = "ok" => \E r \in table' : r.data = d
                 /\ ~Returned(d)' => RowsOf(d)' = {}
                 /\ \A r, s \in RowsOf(d)' : r = s
      BY <1>a, <2>1, <3>1, <3>2 DEF RecordedOnce, RowsOf, Returned
    <3> QED
      BY <3>3, Zenon DEF RecordedOnce
  <2> QED
    BY <2>3, <2>4, <2>5, Zenon
<1>3. ASSUME NEW c \in Calls,
             Call(c) \/ BeginTx(c) \/ Lock(c) \/ ReadTip(c) \/ Insert(c)
               \/ Retry(c) \/ Abort(c) \/ SerializationFailure(c)
      PROVE  Numbered' /\ ChainIntact' /\ RecordedOnce'
  <2>1. /\ table' = table
        /\ ~Returned(c)
        /\ pc'[c] # "ok"
        /\ \A d \in Calls : d # c => pc'[d] = pc[d]
    BY <1>a, <1>3, Zenon DEF Call, BeginTx, Lock, ReadTip, Insert, Retry, Abort, InTx,
       SerializationFailure, Goto, Returned, Labels
  <2> QED
    BY <1>a, <2>1 DEF Numbered, ChainIntact, RecordedOnce, RowsOf, Returned
<1> QED
  BY <1>1, <1>2, <1>3, Zenon DEF Next, Step

\* A pending row that nobody touches stays the next one.
LEMMA RowKept ==
  ASSUME RowIsNext,
         \A d \in Calls : pc'[d] = "commit" =>
           pc[d] = "commit" /\ tip'[d] = tip[d] /\ row'[d] = row[d]
  PROVE  RowIsNext'
<1>1. ASSUME NEW d \in Calls, pc'[d] = "commit"
      PROVE  /\ row'[d].seq = tip'[d].seq + 1
             /\ row'[d].prev = tip'[d].hash
             /\ row'[d].data = d
             /\ row'[d].hash = calculateHash(row'[d])
  <2>1. pc[d] = "commit" /\ tip'[d] = tip[d] /\ row'[d] = row[d]
    BY <1>1, Zenon
  <2> QED
    BY <1>1, <2>1, Zenon DEF RowIsNext
<1> QED
  BY <1>1, Zenon DEF RowIsNext, calculateHash, normalizeTimestamp, Micro

\* The tip and the pending row of the lock's holder stay what the chain needs
\* next: no other call commits between ReadTip and Commit.
LEMMA TipStep ==
  ASSUME IInv, [Next]_vars
  PROVE  TipIsHead' /\ RowIsNext'
<1>a. /\ pc \in [Calls -> Labels] /\ LockIsHeld /\ TipIsHead /\ RowIsNext
      /\ tip = [c \in Calls |-> tip[c]] /\ row = [c \in Calls |-> row[c]]
  BY Zenon DEF IInv, TypeOK
<1>b. RowIsNext
  BY <1>a, Zenon
<1>1. CASE UNCHANGED vars
  <2>1. TipIsHead'
    BY <1>a, <1>1, Zenon DEF vars, TipIsHead
  <2>2. RowIsNext'
    BY <1>b, <1>1, RowKept, Zenon DEF vars
  <2> QED
    BY <2>1, <2>2, Zenon
<1>2. ASSUME NEW c \in Calls, ReadTip(c)
      PROVE  TipIsHead' /\ RowIsNext'
  <2>1. /\ table' = table /\ row' = row
        /\ tip'[c] = GetLatestLedgerEntry(table)
        /\ pc'[c] = "insert"
        /\ \A d \in Calls : d # c => pc'[d] = pc[d] /\ tip'[d] = tip[d]
    BY <1>a, <1>2, Zenon DEF ReadTip, Goto
  <2>2. TipIsHead'
    BY <1>a, <2>1, LatestEntry DEF IInv, TipIsHead
  <2>3. \A d \in Calls : pc'[d] = "commit" =>
          pc[d] = "commit" /\ tip'[d] = tip[d] /\ row'[d] = row[d]
    BY <2>1, Zenon
  <2>4. RowIsNext'
    BY <1>b, <2>3, RowKept, Zenon
  <2> QED
    BY <2>2, <2>4, Zenon
<1>3. ASSUME NEW c \in Calls, Insert(c), pc'[c] = "commit"
      PROVE  TipIsHead' /\ RowIsNext'
  <2>1. PICK t \in Times, v \in PolicyVersions :
          row' = [row EXCEPT ![c] = NewEntry(c, t, v)]
    BY <1>a, <1>3, Zenon DEF Insert, Goto
  <2>2. /\ table' = table /\ tip' = tip /\ pc[c] = "insert"
        /\ row'[c] = NewEntry(c, t, v)
        /\ \A d \in Calls : d # c => pc'[d] = pc[d] /\ row'[d] = row[d]
    BY <1>a, <1>3, <2>1, Zenon DEF Insert, Goto
  <2>3. TipIsHead'
    BY <1>a, <2>2, Zenon DEF TipIsHead
  <2>4. /\ row'[c].seq = tip'[c].seq + 1
        /\ row'[c].prev = tip'[c].hash
        /\ row'[c].data = c
    BY <2>2 DEF NewEntry
  <2>5. row'[c].hash = calculateHash(row'[c])
    BY <2>2, RowHash, LedgerAssumption
  <2>6. \A d \in Calls : pc'[d] = "commit" =>
          /\ row'[d].seq = tip'[d].seq + 1
          /\ row'[d].prev = tip'[d].hash
          /\ row'[d].data = d
          /\ row'[d].hash = calculateHash(row'[d])
    BY <1>a, <2>2, <2>4, <2>5 DEF RowIsNext
  <2>7. RowIsNext'
    BY <2>6, Zenon DEF RowIsNext, calculateHash, normalizeTimestamp, Micro
  <2> QED
    BY <2>3, <2>7, Zenon
<1>4. ASSUME NEW c \in Calls, Commit(c)
      PROVE  TipIsHead' /\ RowIsNext'
  <2>1. \A d \in Calls : pc'[d] \notin {"insert", "commit"}
    BY <1>a, <1>4, Zenon DEF Commit, Goto, LockIsHeld
  <2> QED
    BY <2>1, Zenon DEF TipIsHead, RowIsNext
<1>5. ASSUME NEW c \in Calls,
             \/ Call(c) \/ BeginTx(c) \/ Lock(c) \/ Retry(c)
             \/ Abort(c) \/ SerializationFailure(c)
             \/ Insert(c) /\ pc'[c] # "commit"
      PROVE  TipIsHead' /\ RowIsNext'
  <2>1. /\ table' = table
        /\ pc'[c] \notin {"insert", "commit"}
        /\ \A d \in Calls : d # c => /\ pc'[d] = pc[d]
                                     /\ tip'[d] = tip[d] /\ row'[d] = row[d]
    BY <1>a, <1>5, Zenon DEF Call, BeginTx, Lock, Insert, Retry, Abort, EndTx,
       SerializationFailure, Goto
  <2>2. TipIsHead'
    BY <1>a, <2>1 DEF TipIsHead
  <2>3. \A d \in Calls : pc'[d] = "commit" =>
          pc[d] = "commit" /\ tip'[d] = tip[d] /\ row'[d] = row[d]
    BY <2>1, Zenon
  <2>4. RowIsNext'
    BY <1>b, <2>3, RowKept, Zenon
  <2> QED
    BY <2>2, <2>4, Zenon
<1> QED
  BY <1>1, <1>2, <1>3, <1>4, <1>5, Zenon DEF Next, Step

\* The empty ledger satisfies the invariant.
LEMMA InitInv ==
  ASSUME Init
  PROVE  IInv
<1>1. TypeOK
  BY LedgerAssumption DEF Init, TypeOK, Labels, NoTip, NoRow
<1>2. LockIsHeld
  BY LedgerAssumption, Zenon DEF Init, LockIsHeld
<1>3. Numbered
  BY FS_EmptySet DEF Init, Numbered
<1>4. TipIsHead /\ RowIsNext /\ ChainIntact /\ RecordedOnce
  BY Zenon DEF Init, TipIsHead, RowIsNext, ChainIntact, RecordedOnce, RowsOf
<1> QED
  BY <1>1, <1>2, <1>3, <1>4, Zenon DEF IInv

\* IInv is an invariant of Append, for any number of concurrent calls.
THEOREM Invariance == Spec => []IInv
<1>1. Init => IInv
  BY InitInv, Zenon
<1>2. IInv /\ [Next]_vars => IInv'
  BY TypeStep, LockStep, ChainStep, TipStep, Zenon DEF IInv
<1> QED
  BY <1>1, <1>2, PTL DEF Spec

\* Whatever the interleaving of appendOnce's statements, the committed rows are
\* one chain without a gap or a fork whose hashes verify.
THEOREM ChainStaysIntact == Spec => []ChainIntact
<1>1. IInv => ChainIntact
  BY Zenon DEF IInv
<1> QED
  BY <1>1, Invariance, PTL

\* appendWithRetry records an entry at most once, and always when it returns nil.
THEOREM EntriesRecordedOnce == Spec => []RecordedOnce
<1>1. IInv => RecordedOnce
  BY Zenon DEF IInv
<1> QED
  BY <1>1, Invariance, PTL

\* A call ends in an error in a step that is a fault, and no step ends two calls:
\* under the lock the INSERT never meets its own number.
LEMMA FaultsStep ==
  ASSUME IInv, FaultsCover, [Next]_vars
  PROVE  FaultsCover'
<1> DEFINE E == {c \in Calls : pc[c] = "error"}
           F == {c \in Calls : pc'[c] = "error"}
<1>1. /\ IsFiniteSet(E) /\ Cardinality(E) <= faults /\ Cardinality(E) \in Nat
      /\ faults \in Nat /\ pc \in [Calls -> Labels]
  <2>1. IsFiniteSet(E) /\ Cardinality(E) <= faults
    BY Zenon DEF FaultsCover
  <2>2. faults \in Nat
    BY LedgerAssumption DEF IInv, TypeOK
  <2>3. Cardinality(E) \in Nat
    BY <2>1, FS_CardinalityType, Zenon
  <2> QED
    BY <2>1, <2>2, <2>3, Zenon DEF IInv, TypeOK
<1>2. ASSUME \A c \in Calls : pc'[c] = "error" <=> pc[c] = "error",
             faults' = faults \/ faults' = faults + 1
      PROVE  FaultsCover'
  <2>1. F = E
    BY <1>2, Zenon
  <2>2. Cardinality(E) <= faults'
    BY <1>1, <1>2
  <2> QED
    BY <1>1, <2>1, <2>2, Zenon DEF FaultsCover
<1>3. ASSUME NEW c \in Calls, faults' = faults + 1,
             pc' = [pc EXCEPT ![c] = "error"]
      PROVE  FaultsCover'
  <2>1. F = E \cup {c}
    BY <1>1, <1>3, Zenon
  <2> HIDE DEF E, F
  <2>2. /\ IsFiniteSet(F)
        /\ Cardinality(F) = IF c \in E THEN Cardinality(E) ELSE Cardinality(E) + 1
    BY <1>1, <2>1, FS_AddElement, Zenon
  <2>3. Cardinality(F) <= faults'
    BY <1>1, <1>3, <2>2
  <2> QED
    BY <2>2, <2>3, Zenon DEF FaultsCover, F
<1> HIDE DEF E, F
<1>4. ASSUME NEW c \in Calls, NEW label, label # "error", pc[c] # "error",
             pc' = [pc EXCEPT ![c] = label],
             faults' = faults \/ faults' = faults + 1
      PROVE  FaultsCover'
  <2>1. \A d \in Calls : pc'[d] = "error" <=> pc[d] = "error"
    BY <1>1, <1>4, Zenon
  <2> QED
    BY <1>2, <1>4, <2>1, Zenon
<1>5. CASE UNCHANGED vars
  BY <1>2, <1>5, Zenon DEF vars
<1>6. ASSUME NEW c \in Calls, Call(c) \/ BeginTx(c) \/ Lock(c) \/ ReadTip(c) \/ Retry(c)
      PROVE  FaultsCover'
  <2>1. /\ faults' = faults /\ pc[c] # "error"
        /\ \E label \in {"begin", "lock", "read", "insert"} :
             pc' = [pc EXCEPT ![c] = label]
    BY <1>6, Zenon DEF Call, BeginTx, Lock, ReadTip, Retry, Goto
  <2> QED
    BY <1>4, <2>1, Zenon
<1>7. ASSUME NEW c \in Calls, Insert(c)
      PROVE  FaultsCover'
  <2>1. ~ \E r \in table : r.seq = tip[c].seq + 1
    <3>1. pc[c] = "insert" /\ TipIsHead /\ Numbered
      BY <1>7, Zenon DEF Insert, IInv
    <3>2. tip[c].seq = Cardinality(table) /\ Cardinality(table) \in Nat
      BY <3>1, FS_CardinalityType, Zenon DEF TipIsHead, Numbered
    <3>3. \A r \in table : r.seq \in 1 .. Cardinality(table)
      BY <3>1, Zenon DEF Numbered
    <3> QED
      BY <3>2, <3>3
  <2>2. faults' = faults /\ pc[c] # "error" /\ pc' = [pc EXCEPT ![c] = "commit"]
    BY <1>7, <2>1, Zenon DEF Insert, Goto
  <2> QED
    BY <1>4, <2>2, Zenon
<1>8. ASSUME NEW c \in Calls, Commit(c)
      PROVE  FaultsCover'
  <2>1. /\ pc[c] # "error"
        /\ \/ pc' = [pc EXCEPT ![c] = "ok"] /\ faults' = faults
           \/ pc' = [pc EXCEPT ![c] = "error"] /\ faults' = faults + 1
    BY <1>8, Zenon DEF Commit, Goto, Fault
  <2> QED
    BY <1>3, <1>4, <2>1, Zenon
<1>9. ASSUME NEW c \in Calls, Abort(c)
      PROVE  FaultsCover'
  <2>1. pc' = [pc EXCEPT ![c] = "error"] /\ faults' = faults + 1
    BY <1>9, Zenon DEF Abort, Goto, Fault
  <2> QED
    BY <1>3, <2>1, Zenon
<1>10. ASSUME NEW c \in Calls, SerializationFailure(c)
       PROVE  FaultsCover'
  <2>1. /\ pc[c] # "error" /\ faults' = faults + 1
        /\ pc' = [pc EXCEPT ![c] = "backoff"] \/ pc' = [pc EXCEPT ![c] = "error"]
    BY <1>10, Zenon DEF SerializationFailure, Goto, Fault, InTx
  <2> QED
    BY <1>3, <1>4, <2>1, Zenon
<1> QED
  BY <1>5, <1>6, <1>7, <1>8, <1>9, <1>10, Zenon DEF Next, Step

\* appendWithRetry: without a fault no call of Append fails, whatever runs beside
\* it; in particular none meets a duplicate key.
THEOREM AppendsFailByFaults == Spec => []OnlyFaultsFail
<1>1. Init => FaultsCover
  <2>1. ASSUME Init
        PROVE  FaultsCover
    <3>1. {c \in Calls : pc[c] = "error"} = {} /\ faults = 0
      BY <2>1, Zenon DEF Init
    <3>2. 0 <= 0
      OBVIOUS
    <3> QED
      BY <3>1, <3>2, FS_EmptySet, Zenon DEF FaultsCover
  <2> QED
    BY <2>1, Zenon
<1>2. IInv /\ FaultsCover /\ [Next]_vars => FaultsCover'
  BY FaultsStep, Zenon
<1>3. FaultsCover => OnlyFaultsFail
  BY Zenon DEF FaultsCover, OnlyFaultsFail
<1> QED
  BY <1>1, <1>2, <1>3, Invariance, PTL DEF Spec

\* The i-th entry of the abstract log is the row numbered i.
LEMMA EntryAt ==
  ASSUME IInv, NEW r \in table
  PROVE  (CHOOSE s \in table : s.seq = r.seq) = r
BY Zenon DEF IInv, ChainIntact

\* A function on 1 .. n + 1 that extends one on 1 .. n is an Append.
LEMMA AppendAt ==
  ASSUME NEW S, NEW n \in Nat, NEW x \in S,
         NEW f \in [1 .. n -> S], NEW g \in [1 .. n + 1 -> S],
         g[n + 1] = x, \A i \in 1 .. n : g[i] = f[i]
  PROVE  g = Append(f, x)
<1>1. f \in Seq(S) /\ Len(f) = n
  OBVIOUS
<1>2. g \in Seq(S) /\ Len(g) = n + 1
  OBVIOUS
<1>3. Append(f, x) \in Seq(S) /\ Len(Append(f, x)) = n + 1
  BY <1>1
<1>4. \A i \in 1 .. n + 1 : g[i] = Append(f, x)[i]
  BY <1>1
<1> QED
  BY <1>2, <1>3, <1>4, SeqEqual, Zenon

\* A commit appends its call at the end of the abstract log.
LEMMA CommitAppends ==
  ASSUME IInv, IInv', NEW c \in Calls, Commit(c)
  PROVE  LET log == [i \in 1 .. Cardinality(table) |->
                       (CHOOSE r \in table : r.seq = i).data]
         IN  log' = Append(log, c)
<1> DEFINE log == [i \in 1 .. Cardinality(table) |->
                     (CHOOSE r \in table : r.seq = i).data]
           new == [i \in 1 .. Cardinality(table') |->
                     (CHOOSE r \in table' : r.seq = i).data]
<1>1. pc[c] = "commit" /\ table' = table \cup {row[c]}
  BY Zenon DEF Commit
<1>2. /\ row[c].seq = Cardinality(table) + 1
      /\ Cardinality(table) \in Nat
      /\ Cardinality(table') = Cardinality(table) + 1
      /\ row[c].data = c
  BY <1>1, CommitCounts, Zenon DEF IInv, RowIsNext
<1>3. ASSUME NEW i \in 1 .. Cardinality(table)
      PROVE  log[i] \in Calls /\ new[i] = log[i]
  <2>1. PICK r \in table : r.seq = i
    BY Zenon DEF IInv, Numbered
  <2>2. (CHOOSE s \in table : s.seq = i) = r
    BY <2>1, EntryAt, Zenon
  <2>3. (CHOOSE s \in table' : s.seq = i) = r
    BY <2>1, <1>1, Zenon DEF IInv, ChainIntact
  <2>4. i \in 1 .. Cardinality(table')
    BY <1>2
  <2>5. r.data \in Calls
    BY Zenon DEF IInv, TypeOK
  <2>6. log[i] = r.data
    BY <2>2, Zenon
  <2>7. new[i] = r.data
    BY <2>3, <2>4, Zenon
  <2> QED
    BY <2>5, <2>6, <2>7, Zenon
<1>4. new[Cardinality(table) + 1] = c
  <2>1. (CHOOSE s \in table' : s.seq = Cardinality(table) + 1) = row[c]
    BY <1>1, <1>2 DEF IInv, ChainIntact
  <2> QED
    BY <1>2, <2>1
<1>5. DOMAIN log = 1 .. Cardinality(table) /\ DOMAIN new = 1 .. Cardinality(table')
  BY Zenon
<1> HIDE DEF log, new
<1>6. log \in [1 .. Cardinality(table) -> Calls]
  BY <1>3, <1>5, Zenon DEF log
<1>7. \A i \in 1 .. Cardinality(table) + 1 : new[i] \in Calls
  BY <1>2, <1>3, <1>4
<1>8. new \in [1 .. Cardinality(table) + 1 -> Calls]
  BY <1>2, <1>7, Zenon DEF new
<1>9. new = Append(log, c)
  BY <1>2, <1>3, <1>4, <1>6, <1>8, AppendAt
<1> QED
  BY <1>9, Zenon DEF log, new

\* Every step of appendOnce is a step of AuditLog or leaves it alone: only a
\* commit extends the log, in the step in which its call returns.
LEMMA PromiseStep ==
  ASSUME IInv, IInv', [Next]_vars
  PROVE  [Promise!Next]_(Promise!vars)
<1> DEFINE log == [i \in 1 .. Cardinality(table) |->
                     (CHOOSE r \in table : r.seq = i).data]
           View(l) == CASE l = "idle" -> "idle"
                        [] l \in {"ok", "error"} -> l
                        [] OTHER -> "running"
           call == [c \in Calls |->
                      CASE pc[c] = "idle" -> "idle"
                        [] Returned(c)    -> pc[c]
                        [] OTHER          -> "running"]
<1>a. pc \in [Calls -> Labels] /\ pc' \in [Calls -> Labels]
  BY Zenon DEF IInv, TypeOK
<1>b. /\ call = [d \in Calls |-> View(pc[d])]
      /\ call' = [d \in Calls |-> View(pc'[d])]
  BY Zenon DEF Returned
<1> HIDE DEF call, log
<1>1. CASE UNCHANGED vars
  BY <1>1 DEF vars, Promise!vars, Returned
<1>2. ASSUME NEW c \in Calls, Commit(c) PROVE Promise!Next
  <2>1. log' = Append(log, c)
    BY <1>2, CommitAppends, Zenon DEF log
  <2>2. pc[c] = "commit" /\ pc' \in {[pc EXCEPT ![c] = "ok"], [pc EXCEPT ![c] = "error"]}
    BY <1>2, Zenon DEF Commit, Goto
  <2>3. /\ call[c] = "running"
        /\ \/ call' = [call EXCEPT ![c] = "ok"]
           \/ call' = [call EXCEPT ![c] = "error"]
    BY <1>a, <1>b, <2>2, Zenon
  <2>4. Promise!Succeed(c) \/ Promise!Fail(c)
    BY <2>1, <2>3, Zenon DEF Promise!Succeed, Promise!Fail, log, call
  <2> QED
    BY <2>4, Zenon DEF Promise!Next
<1>3. ASSUME NEW c \in Calls,
             Call(c) \/ BeginTx(c) \/ Lock(c) \/ ReadTip(c) \/ Insert(c)
               \/ Retry(c) \/ Abort(c) \/ SerializationFailure(c)
      PROVE  [Promise!Next]_(Promise!vars)
  <2>1. /\ table' = table
        /\ \E l \in Labels \ {"idle", "ok"} : pc' = [pc EXCEPT ![c] = l]
        /\ \/ pc[c] = "idle" /\ pc'[c] = "begin"
           \/ pc[c] \in Labels \ {"idle", "ok", "error"}
    BY <1>a, <1>3, Zenon DEF Call, BeginTx, Lock, ReadTip, Insert, Retry, Abort, InTx,
       SerializationFailure, Goto, Labels
  <2>a. PICK l \in Labels \ {"idle", "ok"} : pc' = [pc EXCEPT ![c] = l]
    BY <2>1, Zenon
  <2>b. /\ call' = [call EXCEPT ![c] = View(l)]
        /\ call[c] = View(pc[c])
        /\ pc'[c] = l
    BY <1>a, <1>b, <2>a, Zenon
  <2>c. \/ call[c] = "idle" /\ View(l) = "running"
        \/ call[c] = "running" /\ View(l) \in {"running", "error"}
    BY <2>a, <2>b, <2>1, Zenon DEF Labels
  <2>2. log' = log
    BY <2>1 DEF log
  <2>3. \/ call' = call
        \/ call[c] = "idle" /\ call' = [call EXCEPT ![c] = "running"]
        \/ call[c] = "running" /\ call' = [call EXCEPT ![c] = "error"]
    BY <1>b, <2>b, <2>c, Zenon
  <2>4. CASE call' = call
    BY <2>2, <2>4, Zenon DEF Promise!vars, log, call
  <2>5. CASE call[c] = "idle" /\ call' = [call EXCEPT ![c] = "running"]
    BY <2>2, <2>5, Zenon DEF Promise!Next, Promise!Start, log, call
  <2>6. CASE call[c] = "running" /\ call' = [call EXCEPT ![c] = "error"]
    BY <2>2, <2>6, Zenon DEF Promise!Next, Promise!Fail, log, call
  <2> QED
    BY <2>3, <2>4, <2>5, <2>6, Zenon
<1> QED
  BY <1>1, <1>2, <1>3, Zenon DEF Next, Step

\* Store.Append implements AuditLog: an append-only log that records every
\* successful call exactly once.
THEOREM AppendKeepsPromise == Spec => KeepsPromise
<1>1. Init => Promise!Init
  BY FS_EmptySet DEF Init, Promise!Init
<1>2. IInv /\ IInv' /\ [Next]_vars => [Promise!Next]_(Promise!vars)
  BY PromiseStep, Zenon
<1> QED
  BY <1>1, <1>2, Invariance, PTL DEF Spec, KeepsPromise, Promise!Spec

-----------------------------------------------------------------------------
(* The readers beside the appends *)

\* The least-number principle, by which statements about every number of rows
\* are proved: a counterexample would have a least one.
LEMMA LeastNumber ==
  ASSUME NEW T \in SUBSET Nat, T # {}
  PROVE  \E x \in T : \A y \in T : x <= y
<1> DEFINE R == OpToRel(<, Nat)
<1>1. IsWellFoundedOn(R, Nat)
  BY NatLessThanWellFounded, Zenon
<1>2. \A x, y \in Nat : <<y, x>> \in R <=> y < x
  BY Zenon DEF OpToRel
<1> HIDE DEF R
<1>3. PICK x \in T : \A y \in T : ~ (<<y, x>> \in R)
  BY <1>1, WFMin, Zenon
<1>4. ASSUME NEW y \in T
      PROVE  x <= y
  <2>1. x \in Nat /\ y \in Nat
    OBVIOUS
  <2>2. ~ (y < x)
    BY <1>2, <1>3, <2>1, Zenon
  <2> QED
    BY <2>1, <2>2
<1> QED
  BY <1>4, Zenon

\* The rows carry the numbers a + 1 .. b, each once.
Carry(S, a, b) ==
    /\ \A r \in S : r.seq \in a + 1 .. b
    /\ \A r, s \in S : r.seq = s.seq => r = s
    /\ \A i \in a + 1 .. b : \E r \in S : r.seq = i

\* o lists rows of S in the order of their numbers a + 1 .. b.
Lists(o, S, a, b) ==
    /\ o \in Seq(S) /\ Len(o) = b - a
    /\ \A i \in 1 .. b - a : o[i] \in S /\ o[i].seq = a + i

\* There are as many such rows as numbers.
LEMMA CountRows ==
  ASSUME NEW S, NEW a \in Nat, NEW b \in Nat, a <= b, Carry(S, a, b)
  PROVE  IsFiniteSet(S) /\ Cardinality(S) = b - a
<1> USE DEF Carry
<1> DEFINE g == [i \in a + 1 .. b |-> CHOOSE r \in S : r.seq = i]
<1>1. \A i \in a + 1 .. b : g[i] \in S /\ g[i].seq = i
  BY Zenon
<1>2. \A r \in S : g[r.seq] = r
  BY <1>1, Zenon
<1>3. g \in [a + 1 .. b -> S]
  BY <1>1, Zenon
<1> HIDE DEF g
<1>4. g \in Bijection(a + 1 .. b, S)
  <2>1. g \in Injection(a + 1 .. b, S)
    BY <1>1, <1>3, Zenon DEF Injection, IsInjective
  <2>2. g \in Surjection(a + 1 .. b, S)
    BY <1>2, <1>3, Zenon DEF Surjection
  <2> QED
    BY <2>1, <2>2, Zenon DEF Bijection
<1>5. ExistsBijection(a + 1 .. b, S)
  BY <1>4, Zenon DEF ExistsBijection
<1>6. a + 1 \in Int /\ b \in Int
  OBVIOUS
<1>7. /\ IsFiniteSet(a + 1 .. b)
      /\ Cardinality(a + 1 .. b) = IF a + 1 > b THEN 0 ELSE b - (a + 1) + 1
  BY <1>6, FS_Interval, Zenon
<1>8. IsFiniteSet(S) /\ Cardinality(S) = Cardinality(a + 1 .. b)
  BY <1>5, <1>7, FS_Bijection, Zenon
<1> QED
  BY <1>7, <1>8

\* Such rows come back from ORDER BY seq_num in the order of their numbers.
LEMMA OrderedRows ==
  ASSUME NEW S, NEW a \in Nat, NEW b \in Nat, a <= b, Carry(S, a, b)
  PROVE  Lists(OrderBySeq(S), S, a, b)
<1>0. /\ \A r \in S : r.seq \in a + 1 .. b
      /\ \A r, s \in S : r.seq = s.seq => r = s
      /\ \A i \in a + 1 .. b : \E r \in S : r.seq = i
  BY Zenon DEF Carry
<1> DEFINE Below(r) == {s \in S : s.seq <= r.seq}
           o == OrderBySeq(S)
<1>1. Cardinality(S) = b - a
  BY CountRows, Zenon
<1>2. ASSUME NEW r \in S
      PROVE  Cardinality(Below(r)) = r.seq - a
  <2>1. r.seq \in Nat /\ a <= r.seq
    BY <1>0
  <2>2. /\ \A s \in Below(r) : s.seq \in a + 1 .. r.seq
        /\ \A s, t \in Below(r) : s.seq = t.seq => s = t
    BY <1>0
  <2>3. ASSUME NEW i \in a + 1 .. r.seq
        PROVE  \E s \in Below(r) : s.seq = i
    <3>1. i \in a + 1 .. b /\ i <= r.seq
      BY <1>0
    <3> QED
      BY <1>0, <3>1, Zenon
  <2> HIDE DEF Below
  <2> QED
    BY <2>1, <2>2, <2>3, CountRows, ZenonT(30) DEF Carry
<1>3. ASSUME NEW i \in 1 .. b - a
      PROVE  o[i] \in S /\ o[i].seq = a + i
  <2>1. o[i] = CHOOSE r \in S : Cardinality(Below(r)) = i
    BY <1>1, Zenon DEF OrderBySeq
  <2>2. a + i \in a + 1 .. b
    OBVIOUS
  <2>3. PICK r \in S : r.seq = a + i
    BY <1>0, <2>2, Zenon
  <2>4. Cardinality(Below(r)) = i
    BY <1>2, <2>3
  <2>5. o[i] \in S /\ Cardinality(Below(o[i])) = i
    BY <2>1, <2>4, Zenon
  <2> HIDE DEF Below, o
  <2>6. o[i].seq - a = i /\ o[i].seq \in a + 1 .. b
    BY <1>0, <1>2, <2>5, Zenon
  <2> QED
    BY <2>5, <2>6
<1>5. o \in [1 .. b - a -> S]
  BY <1>1, <1>3, Zenon DEF OrderBySeq
<1> HIDE DEF o
<1>6. o \in Seq(S) /\ Len(o) = b - a
  BY <1>5
<1> QED
  BY <1>3, <1>6, Zenon DEF o, Lists

\* What the invariant of Append says about the rows a query can return.
LEMMA TableFacts ==
  ASSUME IInv
  PROVE  /\ Cardinality(table) \in Nat
         /\ \A r \in table : r.seq \in Nat /\ r.seq \in 1 .. Cardinality(table)
         /\ \A r, s \in table : r.seq = s.seq => r = s
         /\ \A i \in 1 .. Cardinality(table) : \E r \in table : r.seq = i
<1>1. Cardinality(table) \in Nat
  BY FS_CardinalityType, Zenon DEF IInv, Numbered
<1> QED
  BY <1>1, Zenon DEF IInv, Numbered, TypeOK, ChainIntact

\* A stream that resumes after row k returns the rows k + 1, k + 2, ...
LEMMA RowsAfter ==
  ASSUME IInv, NEW k \in Nat, k <= Cardinality(table)
  PROVE  LET o == Stream(table, k) IN
         /\ o \in Seq(table) /\ Len(o) = Cardinality(table) - k
         /\ \A i \in 1 .. Len(o) : o[i] \in table /\ o[i].seq = k + i
<1> DEFINE S == {r \in table : k > 0 => r.seq > k}
           n == Cardinality(table)
<1>1. n \in Nat
  BY TableFacts, Zenon
<1>2. \A r \in S : r.seq \in k + 1 .. n
  BY TableFacts
<1>3. \A r, s \in S : r.seq = s.seq => r = s
  BY TableFacts, Zenon
<1>4. ASSUME NEW i \in k + 1 .. n
      PROVE  \E r \in S : r.seq = i
  <2>1. i \in 1 .. n /\ i > k
    BY <1>1
  <2> QED
    BY <2>1, TableFacts, Zenon
<1>5. S \subseteq table /\ OrderBySeq(S) = Stream(table, k)
  BY Zenon DEF Stream
<1> HIDE DEF S, n
<1>6. k <= n
  BY Zenon DEF n
<1>7. Carry(S, k, n)
  BY <1>2, <1>3, <1>4, Zenon DEF Carry
<1>8. Lists(OrderBySeq(S), S, k, n)
  BY <1>1, <1>6, <1>7, OrderedRows, Zenon
<1>9. OrderBySeq(S) \in Seq(table)
  BY <1>5, <1>8 DEF Lists
<1> QED
  BY <1>5, <1>8, <1>9, Zenon DEF n, Lists

\* A page below the cursor n + 1, or from the head n, holds the rows n, n - 1, ...
LEMMA PageRows ==
  ASSUME IInv, NEW n \in Nat, n <= Cardinality(table), NEW before \in Nat,
         IF before = 0 THEN n = Cardinality(table) ELSE before = n + 1
  PROVE  LET page == Page(table, before, PageSize) IN
         /\ page \in Seq(table)
         /\ Len(page) = IF n < PageSize THEN n ELSE PageSize
         /\ Descends(page, n)
<1> DEFINE S == {r \in table : before <= 0 \/ r.seq < before}
           older == OrderBySeq(S)
           m == IF n < PageSize THEN n ELSE PageSize
           page == [i \in 1 .. m |-> older[n + 1 - i]]
<1>1. /\ \A r \in S : r.seq \in 0 + 1 .. n
      /\ \A r, s \in S : r.seq = s.seq => r = s
  BY TableFacts
<1>2. ASSUME NEW i \in 0 + 1 .. n
      PROVE  \E r \in S : r.seq = i
  <2>1. i \in 1 .. Cardinality(table) /\ (before <= 0 \/ i < before)
    BY TableFacts
  <2> QED
    BY <2>1, TableFacts, Zenon
<1>3. S \subseteq table /\ 0 \in Nat /\ 0 <= n
  OBVIOUS
<1>4. Page(table, before, PageSize) =
        [i \in 1 .. IF Len(older) < PageSize THEN Len(older) ELSE PageSize
           |-> older[Len(older) + 1 - i]]
  BY Zenon DEF Page
<1> HIDE DEF S
<1>a. Carry(S, 0, n)
  BY <1>1, <1>2, Zenon DEF Carry
<1>5. /\ older \in Seq(S) /\ Len(older) = n - 0
      /\ \A i \in 1 .. n - 0 : older[i] \in S /\ older[i].seq = 0 + i
  BY <1>a, <1>3, OrderedRows, Zenon DEF Lists
<1> HIDE DEF older
<1>6. Len(older) = n
  BY <1>5
<1>7. Page(table, before, PageSize) = page
  BY <1>4, <1>6, Zenon
<1>8. m \in Nat /\ m <= n
  BY ReadersAssumption
<1>9. ASSUME NEW i \in 1 .. m
      PROVE  older[n + 1 - i] \in table /\ older[n + 1 - i].seq = n + 1 - i
  <2>1. n + 1 - i \in 1 .. n - 0 /\ 0 + (n + 1 - i) = n + 1 - i
    BY <1>8
  <2> QED
    BY <1>3, <1>5, <2>1, Zenon
<1>10. page \in [1 .. m -> table]
  BY <1>9, Zenon
<1>11. \A i \in 1 .. m : page[i].seq = n + 1 - i
  BY <1>9, Zenon
<1> HIDE DEF page, m
<1>12. page \in Seq(table) /\ Len(page) = m
  BY <1>8, <1>10
<1> QED
  BY <1>7, <1>11, <1>12, Zenon DEF m, Descends

\* The table only grows.
LEMMA TableGrows ==
  ASSUME IInv, [Next]_vars
  PROVE  table \subseteq table' /\ Cardinality(table) <= Cardinality(table')
<1>1. Cardinality(table) \in Nat
  BY TableFacts, Zenon
<1>2. CASE table' = table
  BY <1>1, <1>2
<1>3. ASSUME NEW c \in Calls, Commit(c)
      PROVE  table \subseteq table' /\ Cardinality(table) <= Cardinality(table')
  <2>1. pc[c] = "commit" /\ table' = table \cup {row[c]}
    BY <1>3, Zenon DEF Commit
  <2>2. Cardinality(table') = Cardinality(table) + 1
    BY <2>1, CommitCounts, Zenon
  <2> QED
    BY <1>1, <2>1, <2>2
<1> QED
  BY <1>2, <1>3, Zenon
  DEF Next, Step, vars, Call, BeginTx, Lock, ReadTip, Insert, Retry, Abort,
      SerializationFailure

\* acquireFullScan and the deferred Store keep the gate of a replica in step
\* with the one scan it serves.
LEMMA GateStep ==
  ASSUME ReadersInv, ReadersNext
  PROVE  GateInv'
<1>0. /\ scan \in [Clients -> {NoScan} \cup Scans]
      /\ fullScan \in [Replicas -> BOOLEAN]
  BY Zenon DEF ReadersInv, GateInv, ExportInv
<1>a. /\ scan = [x \in Clients |-> scan[x]] /\ fullScan \in [Replicas -> BOOLEAN]
      /\ \A x \in Clients : scan[x].kind # "none" => scan[x].replica \in Replicas
  BY <1>0 DEF NoScan, Scans
<1>b. /\ \A p \in Replicas : fullScan[p] <=> \E x \in Clients : Runs(x, p)
      /\ \A p \in Replicas : \A x, y \in Clients :
           Runs(x, p) /\ Runs(y, p) => x = y
  BY Zenon DEF ReadersInv, GateInv
<1> DEFINE Serves(y, q) == scan'[y].kind # "none" /\ scan'[y].replica = q
<1>c. ASSUME fullScan' \in [Replicas -> BOOLEAN],
             \A q \in Replicas : fullScan'[q] <=> \E y \in Clients : Serves(y, q),
             \A q \in Replicas : \A y, z \in Clients :
               Serves(y, q) /\ Serves(z, q) => y = z
      PROVE  GateInv'
  BY <1>c, Zenon DEF GateInv, Runs
<1>1. ASSUME NEW x \in Clients, NEW p \in Replicas,
             NEW kind \in {"export", "verify"}, StartScan(x, p, kind)
      PROVE  GateInv'
  <2>1. /\ scan[x] = NoScan /\ ~fullScan[p]
        /\ fullScan' = [fullScan EXCEPT ![p] = TRUE]
        /\ scan'[x].kind = kind /\ scan'[x].replica = p
        /\ \A y \in Clients \ {x} : scan'[y] = scan[y]
    BY <1>a, <1>1, Zenon DEF StartScan
  <2>2. /\ Serves(x, p) /\ \A q \in Replicas : ~Runs(x, q)
        /\ \A q \in Replicas \ {p} : ~Serves(x, q)
    BY <1>1, <2>1 DEF Runs, NoScan
  <2>3. \A y \in Clients \ {x} : \A q \in Replicas : Serves(y, q) <=> Runs(y, q)
    BY <2>1, Zenon DEF Runs
  <2> HIDE DEF Serves
  <2>4. /\ fullScan' \in [Replicas -> BOOLEAN] /\ fullScan'[p]
        /\ \A q \in Replicas \ {p} : fullScan'[q] = fullScan[q]
    BY <1>a, <2>1, Zenon
  <2>5. ASSUME NEW q \in Replicas
        PROVE  fullScan'[q] <=> \E y \in Clients : Serves(y, q)
    <3>1. CASE q = p
      BY <2>2, <2>4, <3>1, Zenon
    <3>2. CASE q # p
      <4>1. \A y \in Clients : Serves(y, q) <=> Runs(y, q)
        BY <2>2, <2>3, <3>2, Zenon
      <4>2. fullScan'[q] = fullScan[q]
        BY <2>4, <3>2, Zenon
      <4> QED
        BY <1>b, <4>1, <4>2, Zenon
    <3> QED
      BY <3>1, <3>2, Zenon
  <2>6. \A q \in Replicas : \A y, z \in Clients :
          Serves(y, q) /\ Serves(z, q) => y = z
    BY <1>b, <2>1, <2>2, <2>3, ZenonT(30)
  <2> QED
    BY <1>c, <2>4, <2>5, <2>6, Zenon
<1>2. ASSUME NEW x \in Clients, ExportRow(x)
      PROVE  GateInv'
  <2>1. /\ UNCHANGED fullScan /\ scan[x].kind = "export"
        /\ scan' = [scan EXCEPT ![x].rows = Tail(@)]
    BY <1>2, Zenon DEF ExportRow
  <2>2. /\ \A y \in Clients \ {x} : scan'[y] = scan[y]
        /\ scan'[x] = [scan[x] EXCEPT !.rows = Tail(@)]
    BY <1>a, <2>1, Zenon
  <2>3. \A y \in Clients : \A q \in Replicas : Serves(y, q) <=> Runs(y, q)
    BY <2>1, <2>2 DEF Runs
  <2> HIDE DEF Serves
  <2> QED
    BY <1>a, <1>b, <1>c, <2>1, <2>3, Zenon
<1>3. ASSUME NEW x \in Clients, EndScan(x)
      PROVE  GateInv'
  <2> DEFINE p == scan[x].replica
  <2>1. /\ p \in Replicas /\ Runs(x, p)
        /\ fullScan' = [fullScan EXCEPT ![p] = FALSE]
        /\ scan'[x] = NoScan
        /\ \A y \in Clients \ {x} : scan'[y] = scan[y]
    BY <1>a, <1>3, Zenon DEF EndScan, Runs
  <2> HIDE DEF p
  <2>2. \A q \in Replicas : ~Serves(x, q)
    BY <2>1 DEF NoScan
  <2>3. \A y \in Clients \ {x} : \A q \in Replicas : Serves(y, q) <=> Runs(y, q)
    BY <2>1, Zenon DEF Runs
  <2> HIDE DEF Serves
  <2>4. /\ fullScan' \in [Replicas -> BOOLEAN] /\ ~fullScan'[p]
        /\ \A q \in Replicas \ {p} : fullScan'[q] = fullScan[q] /\ ~Runs(x, q)
    BY <1>a, <2>1, Zenon DEF Runs, p
  <2>5. ASSUME NEW q \in Replicas
        PROVE  fullScan'[q] <=> \E y \in Clients : Serves(y, q)
    <3>1. CASE q = p
      <4>1. \A y \in Clients : ~Serves(y, p)
        BY <1>b, <2>1, <2>2, <2>3, Zenon
      <4> QED
        BY <2>4, <3>1, <4>1, Zenon
    <3>2. CASE q # p
      <4>1. \A y \in Clients : Serves(y, q) <=> Runs(y, q)
        BY <2>2, <2>3, <2>4, <3>2, Zenon
      <4>2. fullScan'[q] = fullScan[q]
        BY <2>4, <3>2, Zenon
      <4> QED
        BY <1>b, <4>1, <4>2, Zenon
    <3> QED
      BY <3>1, <3>2, Zenon
  <2>6. \A q \in Replicas : \A y, z \in Clients :
          Serves(y, q) /\ Serves(z, q) => y = z
    BY <1>b, <2>2, <2>3, Zenon
  <2> QED
    BY <1>c, <2>4, <2>5, <2>6, Zenon
<1>4. CASE UNCHANGED <<fullScan, scan>>
  BY <1>a, <1>b, <1>c, <1>4, ZenonT(30) DEF Runs
<1> QED
  BY <1>1, <1>2, <1>3, <1>4, Zenon DEF ReadersNext, ReaderStep, FetchPage, readerVars

\* An exported row moves from the rest of the export to what the client has.
LEMMA RowMoves ==
  ASSUME NEW S, NEW s \in Seq(S), NEW t \in Seq(S), t # <<>>,
         Follows(s, 0), Follows(t, Len(s))
  PROVE  /\ Append(s, Head(t)) \in Seq(S) /\ Tail(t) \in Seq(S)
         /\ Follows(Append(s, Head(t)), 0)
         /\ Follows(Tail(t), Len(Append(s, Head(t))))
<1>1. /\ Len(t) \in Nat /\ Len(t) > 0 /\ Head(t) = t[1] /\ t[1] \in S
      /\ Tail(t) \in Seq(S) /\ Len(Tail(t)) = Len(t) - 1
      /\ \A i \in 1 .. Len(Tail(t)) : Tail(t)[i] = t[i + 1]
  OBVIOUS
<1>2. /\ Append(s, t[1]) \in Seq(S) /\ Len(Append(s, t[1])) = Len(s) + 1
      /\ \A i \in 1 .. Len(s) : Append(s, t[1])[i] = s[i]
      /\ Append(s, t[1])[Len(s) + 1] = t[1] /\ Len(s) \in Nat
  BY <1>1
<1>3. t[1].seq = Len(s) + 1
  BY <1>1 DEF Follows
<1>4. ASSUME NEW i \in 1 .. Len(s) + 1
      PROVE  Append(s, t[1])[i].seq = 0 + i
  <2>1. (i \in 1 .. Len(s) \/ i = Len(s) + 1) /\ 0 + i = i
    BY <1>2
  <2> QED
    BY <1>2, <1>3, <2>1, Zenon DEF Follows
<1>5. ASSUME NEW i \in 1 .. Len(Tail(t))
      PROVE  Tail(t)[i].seq = (Len(s) + 1) + i
  <2>1. i + 1 \in 1 .. Len(t) /\ Len(s) + (i + 1) = (Len(s) + 1) + i
    BY <1>1, <1>2
  <2> QED
    BY <1>1, <2>1, Zenon DEF Follows
<1> QED
  BY <1>1, <1>2, <1>4, <1>5, Zenon DEF Follows

\* What a client has exported ends with the row whose number is its length.
LEMMA ExportedSoFar ==
  ASSUME ReadersInv, NEW x \in Clients
  PROVE  /\ seen[x] \in Seq(table) /\ Len(seen[x]) \in Nat
         /\ Len(seen[x]) <= Cardinality(table)
         /\ LastSeq(seen[x]) = Len(seen[x])
         /\ \A i \in 1 .. Len(seen[x]) : seen[x][i] \in table /\ seen[x][i].seq = i
<1> DEFINE s == seen[x]
<1>0. s \in Seq(table) /\ Follows(s, 0)
  BY Zenon DEF ReadersInv, ExportInv
<1>1. s \in Seq(table) /\ \A i \in 1 .. Len(s) : s[i].seq = i
  BY <1>0 DEF Follows
<1>2. /\ Cardinality(table) \in Nat
      /\ \A r \in table : r.seq \in 1 .. Cardinality(table)
  BY TableFacts, Zenon DEF ReadersInv
<1>3. /\ Len(s) \in Nat /\ \A i \in 1 .. Len(s) : s[i] \in table
      /\ s = <<>> <=> Len(s) = 0
  BY <1>1
<1> HIDE DEF s
<1>4. CASE s = <<>>
  BY <1>1, <1>2, <1>3, <1>4 DEF s, LastSeq
<1>5. CASE s # <<>>
  <2>1. Len(s) \in 1 .. Len(s)
    BY <1>3, <1>5
  <2>2. s[Len(s)] \in table /\ s[Len(s)].seq = Len(s)
    BY <1>1, <1>3, <2>1, Zenon
  <2>3. Len(s) <= Cardinality(table)
    BY <1>2, <1>3, <2>2
  <2> QED
    BY <1>1, <1>3, <1>5, <2>2, <2>3, Zenon DEF s, LastSeq
<1> QED
  BY <1>4, <1>5, Zenon

\* Exports stay in step with the chain: a scan starts after the last row its
\* client has, a row moves at a time, and appends only add rows behind.
LEMMA ExportStep ==
  ASSUME ReadersInv, IInv', ReadersNext \/ UNCHANGED allVars
  PROVE  ExportInv'
<1> DEFINE At(sc, sn, T) ==
             /\ sc \in {NoScan} \cup [kind : {"export", "verify"},
                                    replica : Replicas, rows : Seq(T)]
             /\ Follows(sn, 0)
             /\ sc.kind = "export" => Follows(sc.rows, Len(sn))
<1>a. /\ scan = [x \in Clients |-> scan[x]] /\ seen \in [Clients -> Seq(table)]
      /\ \A x \in Clients : At(scan[x], seen[x], table)
  BY Zenon DEF ReadersInv, ExportInv, Scans
<1>b. ASSUME scan' = [x \in Clients |-> scan'[x]],
             seen' \in [Clients -> Seq(table')],
             \A x \in Clients : At(scan'[x], seen'[x], table')
      PROVE  ExportInv'
  BY <1>b, Zenon DEF ExportInv, Scans
<1>1. CASE [Next]_vars /\ UNCHANGED readerVars
  <2>1. table \subseteq table'
    BY <1>1, TableGrows, Zenon DEF ReadersInv
  <2>2. Seq(table) \subseteq Seq(table')
    BY <2>1
  <2>3. seen' = seen /\ scan' = scan
    BY <1>1, Zenon DEF readerVars
  <2>4. \A x \in Clients : At(scan'[x], seen'[x], table')
    BY <1>a, <2>2, <2>3
  <2> HIDE DEF At
  <2> QED
    BY <1>a, <1>b, <2>2, <2>3, <2>4, Zenon
<1>2. ASSUME NEW x \in Clients, NEW p \in Replicas,
             NEW kind \in {"export", "verify"}, StartScan(x, p, kind), UNCHANGED vars
      PROVE  ExportInv'
  <2> DEFINE k == IF kind = "export" THEN Len(seen[x]) ELSE 0
             o == Stream(table, k)
  <2>1. k \in Nat /\ k <= Cardinality(table)
    BY ExportedSoFar, TableFacts DEF ReadersInv
  <2> HIDE DEF k
  <2>2. o \in Seq(table) /\ Follows(o, k)
    BY <2>1, RowsAfter, Zenon DEF ReadersInv, Follows
  <2>3. /\ seen' = seen /\ table' = table
        /\ scan' = [scan EXCEPT ![x] = [kind |-> kind, replica |-> p, rows |-> o]]
    BY <1>2, ExportedSoFar, Zenon DEF StartScan, vars, k
  <2> HIDE DEF o
  <2>4. /\ \A y \in Clients \ {x} : scan'[y] = scan[y]
        /\ scan'[x] = [kind |-> kind, replica |-> p, rows |-> o]
        /\ scan' = [y \in Clients |-> scan'[y]]
    BY <1>a, <2>3, Zenon
  <2>5. kind = "export" => k = Len(seen[x])
    BY Zenon DEF k
  <2>6. At(scan'[x], seen'[x], table')
    BY <1>a, <1>2, <2>2, <2>3, <2>4, <2>5
  <2>7. \A y \in Clients : At(scan'[y], seen'[y], table')
    BY <1>a, <2>3, <2>4, <2>6, Zenon
  <2> HIDE DEF At
  <2> QED
    BY <1>a, <1>b, <2>3, <2>4, <2>7, Zenon
<1>3. ASSUME NEW x \in Clients, ExportRow(x), UNCHANGED vars
      PROVE  ExportInv'
  <2> DEFINE s == seen[x]
             t == scan[x].rows
  <2>1. /\ scan[x].kind = "export" /\ t # <<>> /\ table' = table
        /\ seen' = [seen EXCEPT ![x] = Append(s, Head(t))]
        /\ scan' = [scan EXCEPT ![x] = [scan[x] EXCEPT !.rows = Tail(t)]]
    BY <1>a, <1>3, Zenon DEF ExportRow, vars
  <2>2. /\ s \in Seq(table) /\ t \in Seq(table)
        /\ scan[x] = [kind |-> "export", replica |-> scan[x].replica, rows |-> t]
        /\ scan[x].replica \in Replicas
        /\ Follows(s, 0) /\ Follows(t, Len(s))
    BY <1>a, <2>1 DEF NoScan
  <2> HIDE DEF s, t
  <2>3. /\ Append(s, Head(t)) \in Seq(table) /\ Tail(t) \in Seq(table)
        /\ Follows(Append(s, Head(t)), 0)
        /\ Follows(Tail(t), Len(Append(s, Head(t))))
    BY <2>1, <2>2, RowMoves, Zenon
  <2>4. /\ seen'[x] = Append(s, Head(t))
        /\ scan'[x] = [kind |-> "export", replica |-> scan[x].replica,
                       rows |-> Tail(t)]
        /\ \A y \in Clients \ {x} : seen'[y] = seen[y] /\ scan'[y] = scan[y]
        /\ scan' = [y \in Clients |-> scan'[y]]
        /\ seen' \in [Clients -> Seq(table)]
    BY <1>a, <2>1, <2>2, <2>3, Zenon
  <2>5. \A y \in Clients \ {x} : At(scan'[y], seen'[y], table')
    BY <1>a, <2>1, <2>4, Zenon
  <2>6. At(scan'[x], seen'[x], table')
    BY <2>1, <2>2, <2>3, <2>4, Zenon
  <2> HIDE DEF At
  <2> QED
    BY <1>b, <2>1, <2>4, <2>5, <2>6, Zenon
<1>4. ASSUME NEW x \in Clients, EndScan(x), UNCHANGED vars
      PROVE  ExportInv'
  <2>1. /\ seen' = seen /\ table' = table
        /\ \A y \in Clients \ {x} : scan'[y] = scan[y]
        /\ scan'[x] = NoScan
        /\ scan' = [y \in Clients |-> scan'[y]]
    BY <1>a, <1>4, Zenon DEF EndScan, vars
  <2>2. At(NoScan, seen[x], table)
    BY <1>a DEF NoScan
  <2> HIDE DEF At
  <2> QED
    BY <1>a, <1>b, <2>1, <2>2, Zenon
<1>5. CASE FetchPage /\ UNCHANGED vars
  BY <1>a, <1>b, <1>5, Zenon DEF FetchPage, vars
<1> HIDE DEF At
<1> QED
  BY <1>1, <1>2, <1>3, <1>4, <1>5, Zenon DEF ReadersNext, ReaderStep, allVars

\* A page added below the rows of a listing continues it downwards.
LEMMA PageJoins ==
  ASSUME NEW S, NEW s \in Seq(S), NEW t \in Seq(S), NEW n \in Nat,
         Descends(s, n + Len(s)), Descends(t, n)
  PROVE  /\ s \o t \in Seq(S) /\ Len(s \o t) = Len(s) + Len(t)
         /\ Descends(s \o t, n + Len(s))
<1>1. /\ s \o t \in Seq(S) /\ Len(s \o t) = Len(s) + Len(t)
      /\ \A i \in 1 .. Len(s) + Len(t) :
           (s \o t)[i] = IF i <= Len(s) THEN s[i] ELSE t[i - Len(s)]
      /\ Len(s) \in Nat /\ Len(t) \in Nat
  BY ConcatProperties
<1>2. ASSUME NEW i \in 1 .. Len(s) + Len(t)
      PROVE  (s \o t)[i].seq = (n + Len(s)) + 1 - i
  <2>1. CASE i <= Len(s)
    <3>1. i \in 1 .. Len(s)
      BY <1>1, <2>1
    <3> QED
      BY <1>1, <2>1, <3>1, Zenon DEF Descends
  <2>2. CASE ~ (i <= Len(s))
    <3>1. /\ i - Len(s) \in 1 .. Len(t)
          /\ n + 1 - (i - Len(s)) = (n + Len(s)) + 1 - i
      BY <1>1, <2>2
    <3> QED
      BY <1>1, <2>2, <3>1, Zenon DEF Descends
  <2> QED
    BY <2>1, <2>2, Zenon
<1> QED
  BY <1>1, <1>2, Zenon DEF Descends

\* The listing grows by the page below its cursor, and the cursor moves with
\* it; it is finished when a page is not full.
LEMMA PagesStep ==
  ASSUME ReadersInv, IInv', ReadersNext \/ UNCHANGED allVars
  PROVE  PagesInv'
<1>0. /\ pages \in [rows : Seq(table), before : Nat,
                    head : 0 .. Cardinality(table), done : BOOLEAN]
      /\ Descends(pages.rows, pages.head)
      /\ pages.done => Len(pages.rows) = pages.head
      /\ ~pages.done /\ pages.before = 0 => pages.rows = <<>>
      /\ pages.before > 0 => pages.before + Len(pages.rows) = pages.head + 1
  BY Zenon DEF ReadersInv, PagesInv
<1>a. Cardinality(table) \in Nat
  BY TableFacts, Zenon DEF ReadersInv
<1>1. CASE [Next]_vars /\ UNCHANGED readerVars
  <2>1. table \subseteq table' /\ Cardinality(table) <= Cardinality(table')
    BY <1>1, TableGrows, Zenon DEF ReadersInv
  <2>2. Seq(table) \subseteq Seq(table')
    BY <2>1
  <2>3. pages' = pages
    BY <1>1, Zenon DEF readerVars
  <2>4. Cardinality(table') \in Nat
    BY FS_CardinalityType, Zenon DEF IInv, Numbered
  <2>5. 0 .. Cardinality(table) \subseteq 0 .. Cardinality(table')
    BY <1>a, <2>1, <2>4
  <2>6. pages' \in [rows : Seq(table'), before : Nat,
                    head : 0 .. Cardinality(table'), done : BOOLEAN]
    BY <1>0, <2>2, <2>3, <2>5
  <2> QED
    BY <1>0, <2>3, <2>6, Zenon DEF PagesInv, Descends
<1>2. CASE FetchPage /\ UNCHANGED vars
  <2> DEFINE rows == pages.rows
             before == pages.before
             n == IF before = 0 THEN Cardinality(table) ELSE before - 1
             page == Page(table, before, PageSize)
             top == IF before = 0 THEN GetLatestLedgerEntry(table).seq
                    ELSE pages.head
             next == NextBefore(page)
  <2>1. /\ ~pages.done /\ table' = table
        /\ pages' = [rows |-> rows \o page, before |-> next, head |-> top,
                     done |-> next = 0]
    BY <1>2, Zenon DEF FetchPage, vars
  <2>2. /\ rows \in Seq(table) /\ Len(rows) \in Nat /\ before \in Nat
        /\ pages.head \in 0 .. Cardinality(table)
    BY <1>0
  <2>3. before = 0 => top = Cardinality(table) /\ Len(rows) = 0
    BY <1>0, <2>1, LatestEntry DEF ReadersInv, IInv
  <2>4. before # 0 => top = pages.head /\ before + Len(rows) = pages.head + 1
    BY <1>0, <2>2
  <2> HIDE DEF rows, before, top
  <2>5. /\ n \in Nat /\ n <= Cardinality(table) /\ n + Len(rows) = top
        /\ IF before = 0 THEN n = Cardinality(table) ELSE before = n + 1
    BY <1>a, <2>2, <2>3, <2>4
  <2> HIDE DEF n
  <2>6. /\ page \in Seq(table)
        /\ Len(page) = IF n < PageSize THEN n ELSE PageSize
        /\ Descends(page, n)
    BY <2>2, <2>5, PageRows, Zenon DEF ReadersInv
  <2> HIDE DEF page
  <2>7. Descends(rows, top)
    <3>1. CASE before = 0
      BY <2>3, <3>1 DEF Descends
    <3>2. CASE before # 0
      BY <1>0, <2>4, <3>2, Zenon DEF rows
    <3> QED
      BY <3>1, <3>2, Zenon
  <2>8. /\ rows \o page \in Seq(table)
        /\ Len(rows \o page) = Len(rows) + Len(page)
        /\ Descends(rows \o page, top)
    BY <2>2, <2>5, <2>6, <2>7, PageJoins, Zenon
  <2>9. ASSUME Len(page) = PageSize
        PROVE  next \in Nat /\ next # 0 /\ next + (Len(rows) + Len(page)) = top + 1
    <3>1. Len(page) \in 1 .. Len(page) /\ Len(page) <= n /\ Len(page) \in Nat
      BY <2>5, <2>6, <2>9, ReadersAssumption
    <3>2. next = page[Len(page)].seq /\ page[Len(page)].seq = n + 1 - Len(page)
      BY <2>6, <2>9, <3>1, Zenon DEF NextBefore, Descends
    <3> QED
      BY <2>2, <2>5, <3>1, <3>2
  <2>10. ASSUME Len(page) # PageSize
         PROVE  next = 0 /\ Len(rows) + Len(page) = top
    <3>1. next = 0
      BY <2>10, Zenon DEF NextBefore
    <3>2. Len(page) = n
      BY <2>6, <2>10, Zenon
    <3>3. Len(rows) + Len(page) = top
      BY <2>2, <2>5, <3>2
    <3> QED
      BY <3>1, <3>3, Zenon
  <2> HIDE DEF next
  <2>11. top \in 0 .. Cardinality(table)
    BY <1>a, <2>2, <2>3, <2>4
  <2>12. next \in Nat /\ (next # 0 => next > 0)
    BY <2>9, <2>10
  <2>13. /\ pages' \in [rows : Seq(table), before : Nat,
                         head : 0 .. Cardinality(table), done : BOOLEAN]
         /\ pages'.rows = rows \o page /\ pages'.head = top
         /\ pages'.before = next /\ pages'.done = (next = 0)
    BY <2>1, <2>8, <2>11, <2>12
  <2>14. pages'.done => Len(pages'.rows) = pages'.head
    BY <2>8, <2>9, <2>10, <2>13
  <2>15. /\ ~pages'.done /\ pages'.before = 0 => pages'.rows = <<>>
         /\ pages'.before > 0 => pages'.before + Len(pages'.rows) = pages'.head + 1
    BY <2>8, <2>9, <2>10, <2>12, <2>13
  <2> QED
    BY <2>1, <2>8, <2>13, <2>14, <2>15, Zenon DEF PagesInv, Descends
<1>3. CASE UNCHANGED <<table, pages>>
  BY <1>0, <1>3, Zenon DEF PagesInv, Descends
<1> QED
  BY <1>1, <1>2, <1>3, Zenon
  DEF ReadersNext, ReaderStep, StartScan, ExportRow, EndScan, allVars, vars

\* Before anything was appended or read the invariant holds.
LEMMA ReadersInitInv ==
  ASSUME ReadersInit
  PROVE  ReadersInv
<1>1. IInv /\ table = {}
  BY InitInv, Zenon DEF ReadersInit, Init
<1>2. GateInv
  BY Zenon DEF ReadersInit, GateInv, Runs, NoScan
<1>3. <<>> \in Seq(table) /\ Len(<<>>) = 0
  OBVIOUS
<1>4. Follows(<<>>, 0) /\ Descends(<<>>, 0)
  BY <1>3 DEF Follows, Descends
<1>5. ExportInv
  BY <1>3, <1>4, Zenon DEF ReadersInit, ExportInv, NoScan
<1>6. Cardinality(table) = 0
  BY <1>1, FS_EmptySet, Zenon
<1>7. PagesInv
  BY <1>3, <1>4, <1>6 DEF ReadersInit, PagesInv, NoPages
<1> QED
  BY <1>1, <1>2, <1>5, <1>7, Zenon DEF ReadersInv

\* The invariant of the readers beside concurrent appends.
THEOREM ReadersInvariance == ReadersSpec => []ReadersInv
<1>1. ReadersInit => ReadersInv
  BY ReadersInitInv, Zenon
<1>2. ASSUME ReadersInv, [ReadersNext]_allVars
      PROVE  ReadersInv'
  <2>1. [Next]_vars /\ (ReadersNext \/ UNCHANGED allVars)
    BY <1>2, Zenon DEF ReadersNext, allVars
  <2>2. IInv'
    BY <1>2, <2>1, TypeStep, LockStep, ChainStep, TipStep, Zenon DEF ReadersInv, IInv
  <2>3. GateInv'
    <3>1. CASE ReadersNext
      BY <1>2, <3>1, GateStep, Zenon
    <3>2. CASE UNCHANGED allVars
      BY <1>2, <3>2, Zenon DEF allVars, readerVars, ReadersInv, GateInv, Runs
    <3> QED
      BY <2>1, <3>1, <3>2, Zenon
  <2>4. ExportInv' /\ PagesInv'
    BY <1>2, <2>1, <2>2, ExportStep, PagesStep, Zenon
  <2> QED
    BY <2>2, <2>3, <2>4, Zenon DEF ReadersInv
<1> QED
  BY <1>1, <1>2, PTL DEF ReadersSpec

\* handleExport with after_seq: whatever interrupts and resumes an export, and
\* whatever is appended meanwhile, its client holds a prefix of the chain.
THEOREM ExportsMissNothing == ReadersSpec => []ExportMissesNothing
<1>1. ASSUME ReadersInv
      PROVE  ExportMissesNothing
  <2> DEFINE chain == Stream(table, 0)
             n == Cardinality(table)
  <2>1. n \in Nat /\ \A r, s \in table : r.seq = s.seq => r = s
    BY <1>1, TableFacts, Zenon DEF ReadersInv
  <2>2. chain \in Seq(table) /\ Len(chain) = n - 0
        /\ \A i \in 1 .. Len(chain) : chain[i] \in table /\ chain[i].seq = 0 + i
    <3>1. 0 \in Nat /\ 0 <= n
      BY <2>1
    <3> QED
      BY <1>1, <3>1, RowsAfter, Zenon DEF ReadersInv
  <2> HIDE DEF chain
  <2>3. Len(chain) = n /\ \A i \in 1 .. n : chain[i] \in table /\ chain[i].seq = i
    BY <2>1, <2>2
  <2>4. ASSUME NEW x \in Clients
        PROVE  /\ Len(seen[x]) <= n
               /\ \A i \in DOMAIN seen[x] : seen[x][i] = chain[i]
    <3>1. /\ seen[x] \in Seq(table) /\ Len(seen[x]) \in Nat
          /\ Len(seen[x]) <= n
          /\ \A i \in 1 .. Len(seen[x]) : seen[x][i] \in table /\ seen[x][i].seq = i
      BY <1>1, ExportedSoFar, Zenon
    <3>2. DOMAIN seen[x] = 1 .. Len(seen[x])
      BY <3>1
    <3>3. 1 .. Len(seen[x]) \subseteq 1 .. n
      BY <2>1, <3>1
    <3>4. ASSUME NEW i \in DOMAIN seen[x]
          PROVE  seen[x][i] = chain[i]
      <4>1. i \in 1 .. Len(seen[x]) /\ i \in 1 .. n
        BY <3>2, <3>3, Zenon
      <4>2. /\ seen[x][i] \in table /\ seen[x][i].seq = i
            /\ chain[i] \in table /\ chain[i].seq = i
        BY <2>3, <3>1, <4>1, Zenon
      <4> QED
        BY <2>1, <4>2, Zenon
    <3> QED
      BY <3>1, <3>4, Zenon
  <2> QED
    BY <2>3, <2>4, Zenon DEF ExportMissesNothing, chain
<1> QED
  BY <1>1, ReadersInvariance, PTL

\* handleQuery: following X-Next-Before from the head lists every entry up to
\* that head once, newest first, whatever is appended meanwhile.
THEOREM PagesComplete == ReadersSpec => []PagingIsComplete
<1>1. ASSUME ReadersInv
      PROVE  PagingIsComplete
  <2>1. DOMAIN pages.rows = 1 .. Len(pages.rows)
    BY <1>1 DEF ReadersInv, PagesInv
  <2> QED
    BY <1>1, <2>1, Zenon DEF ReadersInv, PagesInv, Descends, PagingIsComplete
<1> QED
  BY <1>1, ReadersInvariance, PTL

\* acquireFullScan: at most one full scan runs on a replica, and its gate is
\* closed exactly as long.
THEOREM GateTheorem == ReadersSpec => []GateMatchesScans
<1>1. ASSUME ReadersInv, NEW p \in Replicas
      PROVE  Cardinality({x \in Clients : scan[x].kind # "none" /\ scan[x].replica = p})
               = IF fullScan[p] THEN 1 ELSE 0
  <2> DEFINE running == {x \in Clients : scan[x].kind # "none" /\ scan[x].replica = p}
  <2>1. /\ fullScan[p] <=> \E x \in Clients : x \in running
        /\ \A x, y \in running : x = y
    BY <1>1, Zenon DEF ReadersInv, GateInv, Runs
  <2>2. CASE fullScan[p]
    <3>1. PICK x : running = {x}
      BY <2>1, <2>2, Zenon
    <3> QED
      BY <2>2, <3>1, FS_Singleton, Zenon
  <2>3. CASE ~fullScan[p]
    <3>1. running = {}
      BY <2>1, <2>3, Zenon
    <3> QED
      BY <2>3, <3>1, FS_EmptySet, Zenon
  <2> QED
    BY <2>2, <2>3, Zenon
<1>2. ReadersInv => GateMatchesScans
  BY <1>1, Zenon DEF GateMatchesScans
<1> QED
  BY <1>2, ReadersInvariance, PTL

-----------------------------------------------------------------------------
(* VerifyChain on an intact chain *)

\* The callback is called once per row: the reports of VerifyChain exist and
\* each follows from the one before.
LEMMA ReportsFollow ==
  ASSUME NEW rows, NEW anchor, Len(rows) \in Nat
  PROVE  LET f == Reports(rows, anchor) IN
         /\ f[0] = FreshReport
         /\ \A i \in 1 .. Len(rows) : f[i] = VerifyEntry(f[i - 1], rows[i], anchor)
<1> DEFINE n == Len(rows)
           Good(k, f) ==
             f = [i \in 0 .. k |-> IF i = 0 THEN FreshReport
                                   ELSE VerifyEntry(f[i - 1], rows[i], anchor)]
           T == {k \in 0 .. n : ~ \E f : Good(k, f)}
<1> HIDE DEF n
<1>0. n \in Nat
  BY Zenon DEF n
<1>1. ASSUME T # {} PROVE FALSE
  <2>1. PICK k \in T : \A l \in T : k <= l
    <3>1. T \in SUBSET Nat
      BY <1>0
    <3> HIDE DEF T
    <3> QED
      BY <1>1, <3>1, LeastNumber, Zenon
  <2>2. k \in 0 .. n /\ ~ \E f : Good(k, f)
    BY <2>1, Zenon
  <2>3. CASE k = 0
    <3> DEFINE f == [i \in 0 .. 0 |-> FreshReport]
    <3>1. \A i \in 0 .. 0 : i = 0
      OBVIOUS
    <3>2. Good(0, f)
      BY <3>1, Zenon
    <3> QED
      BY <2>2, <2>3, <3>2, Zenon
  <2>4. CASE k # 0
    <3>1. k \in Nat /\ k - 1 \in 0 .. n /\ ~ (k <= k - 1) /\ k - 1 \in 0 .. k - 1
      BY <1>0, <2>2, <2>4
    <3>2. k - 1 \notin T
      BY <2>1, <3>1, Zenon
    <3>3. PICK f : Good(k - 1, f)
      BY <3>1, <3>2, Zenon
    <3> DEFINE g == [i \in 0 .. k |-> IF i = k THEN VerifyEntry(f[k - 1], rows[k], anchor)
                                      ELSE f[i]]
    <3>4. ASSUME NEW i \in 0 .. k
          PROVE  g[i] = IF i = 0 THEN FreshReport
                        ELSE VerifyEntry(g[i - 1], rows[i], anchor)
      <4>1. CASE i = k
        <5>1. g[k - 1] = f[k - 1]
          <6>1. k - 1 \in 0 .. k /\ k - 1 # k
            BY <3>1
          <6> QED
            BY <6>1, Zenon
        <5> QED
          BY <2>4, <4>1, <5>1, Zenon
      <4>2. CASE i # k
        <5>1. i \in 0 .. k - 1 /\ (i # 0 => i - 1 \in 0 .. k /\ i - 1 # k)
          BY <3>1, <4>2
        <5>2. f[i] = IF i = 0 THEN FreshReport
                     ELSE VerifyEntry(f[i - 1], rows[i], anchor)
          BY <3>3, <5>1, Zenon
        <5>3. g[i] = f[i] /\ (i # 0 => g[i - 1] = f[i - 1])
          BY <4>2, <5>1, Zenon
        <5> QED
          BY <5>2, <5>3, Zenon
      <4> QED
        BY <4>1, <4>2, Zenon
    <3>5. Good(k, g)
      BY <3>4, Zenon
    <3> QED
      BY <2>2, <3>5, Zenon
  <2> QED
    BY <2>3, <2>4, Zenon
<1>2. \E f : Good(n, f)
  <2>1. n \in 0 .. n
    BY <1>0
  <2> QED
    BY <1>1, <2>1, Zenon
<1>3. Good(n, Reports(rows, anchor))
  BY <1>2, Zenon DEF Reports, n
<1>4. 0 \in 0 .. n /\ \A i \in 1 .. n : i \in 0 .. n /\ i # 0
  BY <1>0
<1> QED
  BY <1>3, <1>4, Zenon DEF n

\* The fields of a VerifyReport.
IsReport(rep) ==
    /\ rep.valid \in BOOLEAN /\ rep.entries \in Nat
    /\ rep = [valid |-> rep.valid, entries |-> rep.entries,
              headSeq |-> rep.headSeq, headHash |-> rep.headHash,
              firstInvalidSeq |-> rep.firstInvalidSeq, reason |-> rep.reason,
              anchorSeen |-> rep.anchorSeen]

\* Row i of a stream is linked, hashed and, where it is anchored, unchanged.
Passes(rows, anchor, i) ==
    /\ rows[i].prev = IF i = 1 THEN <<>> ELSE rows[i - 1].hash
    /\ rows[i].hash = calculateHash(rows[i])
    /\ ~ (anchor # NoAnchor /\ rows[i].seq = anchor.seq /\ rows[i].hash # anchor.hash)

\* What the report says after k rows: all of them passed, or which did first not.
Tells(rep, rows, anchor, k) ==
    /\ IsReport(rep)
    /\ rep.valid <=> \A i \in 1 .. k : Passes(rows, anchor, i)
    /\ rep.valid =>
         /\ rep.entries = k
         /\ rep.headHash = IF k = 0 THEN <<>> ELSE rows[k].hash
         /\ rep.anchorSeen <=> \E i \in 1 .. k : rows[i].seq = anchor.seq
    /\ ~rep.valid =>
         /\ rep.entries \in 1 .. k /\ ~Passes(rows, anchor, rep.entries)
         /\ \A i \in 1 .. rep.entries - 1 : Passes(rows, anchor, i)
         /\ rep.firstInvalidSeq = rows[rep.entries].seq

\* Entry e passes after the rows of rep.
PassesAfter(rep, e, anchor) ==
    /\ e.prev = rep.headHash /\ e.hash = calculateHash(e)
    /\ ~ (anchor # NoAnchor /\ e.seq = anchor.seq /\ e.hash # anchor.hash)

\* new is what entry e makes of the valid report rep.
Extends(new, rep, e, anchor) ==
    /\ IsReport(new) /\ new.entries = rep.entries + 1
    /\ PassesAfter(rep, e, anchor) =>
         /\ new.valid /\ new.headHash = e.hash
         /\ new.anchorSeen <=> (rep.anchorSeen \/ e.seq = anchor.seq)
    /\ ~PassesAfter(rep, e, anchor) => ~new.valid /\ new.firstInvalidSeq = e.seq

\* One call of the callback: a row that passes is counted and becomes the head,
\* one that does not ends the stream.
LEMMA EntryVerified ==
  ASSUME NEW rep, NEW e, NEW anchor, IsReport(rep), rep.valid
  PROVE  Extends(VerifyEntry(rep, e, anchor), rep, e, anchor)
<1> DEFINE new  == VerifyEntry(rep, e, anchor)
           pass == PassesAfter(rep, e, anchor)
           Fail(why) == [rep EXCEPT !.valid = FALSE, !.entries = @ + 1,
                                    !.firstInvalidSeq = e.seq, !.reason = why]
<1>0. PICK n, va, hs, hh, fi, re, an :
        /\ n \in Nat
        /\ rep = [valid |-> va, entries |-> n, headSeq |-> hs, headHash |-> hh,
                  firstInvalidSeq |-> fi, reason |-> re, anchorSeen |-> an]
  BY Zenon DEF IsReport
<1>1. ASSUME NEW why
      PROVE  /\ IsReport(Fail(why)) /\ Fail(why).entries = rep.entries + 1
             /\ ~Fail(why).valid /\ Fail(why).firstInvalidSeq = e.seq
  <2>0. ASSUME NEW v, NEW f,
               f = [rep EXCEPT !.valid = v, !.entries = @ + 1,
                               !.firstInvalidSeq = e.seq, !.reason = why]
        PROVE  f = [valid |-> v, entries |-> n + 1, headSeq |-> hs,
                    headHash |-> hh, firstInvalidSeq |-> e.seq,
                    reason |-> why, anchorSeen |-> an]
    BY <1>0, <2>0, Zenon
  <2>1. Fail(why) = [valid |-> FALSE, entries |-> n + 1, headSeq |-> hs,
                     headHash |-> hh, firstInvalidSeq |-> e.seq,
                     reason |-> why, anchorSeen |-> an]
    BY <2>0, Zenon
  <2> HIDE DEF Fail
  <2> QED
    BY <1>0, <2>1 DEF IsReport
<1>2. CASE ~pass
  <2>1. new \in {Fail("link"), Fail("hash"), Fail("anchor")}
    BY <1>2, Zenon DEF VerifyEntry, PassesAfter
  <2> HIDE DEF new, Fail, pass
  <2> QED
    BY <1>1, <1>2, <2>1, Zenon DEF new, pass, Extends
<1>3. CASE pass
  <2>1. new = [rep EXCEPT !.entries = @ + 1, !.headSeq = e.seq,
                          !.headHash = e.hash,
                          !.anchorSeen = @ \/ e.seq = anchor.seq]
    BY <1>3, Zenon DEF VerifyEntry, PassesAfter
  <2> HIDE DEF new
  <2>2. new = [valid |-> TRUE, entries |-> n + 1, headSeq |-> e.seq,
               headHash |-> e.hash, firstInvalidSeq |-> fi, reason |-> re,
               anchorSeen |-> an \/ e.seq = anchor.seq]
    BY <1>0, <2>1, Zenon
  <2>3. /\ IsReport(new) /\ new.entries = rep.entries + 1
        /\ new.valid /\ new.headHash = e.hash
    BY <1>0, <2>2 DEF IsReport
  <2>4. new.anchorSeen <=> (rep.anchorSeen \/ e.seq = anchor.seq)
    BY <1>0, <2>2, Zenon
  <2> QED
    BY <1>3, <2>3, <2>4, Zenon DEF new, Extends
<1> QED
  BY <1>2, <1>3, Zenon

\* The report after k rows tells of the first k, if the one before told of the
\* rows before.
LEMMA TellsOneMore ==
  ASSUME NEW rep, NEW rows, NEW anchor, NEW k \in Nat \ {0},
         Tells(rep, rows, anchor, k - 1)
  PROVE  Tells(VerifyEntry(rep, rows[k], anchor), rows, anchor, k)
<1> DEFINE new == VerifyEntry(rep, rows[k], anchor)
           P(i) == Passes(rows, anchor, i)
<1>1. /\ IsReport(rep)
      /\ rep.valid <=> \A i \in 1 .. k - 1 : P(i)
      /\ rep.valid =>
           /\ rep.entries = k - 1
           /\ rep.headHash = IF k - 1 = 0 THEN <<>> ELSE rows[k - 1].hash
           /\ rep.anchorSeen <=> \E i \in 1 .. k - 1 : rows[i].seq = anchor.seq
      /\ ~rep.valid =>
           /\ rep.entries \in 1 .. k - 1 /\ ~P(rep.entries)
           /\ \A i \in 1 .. rep.entries - 1 : P(i)
           /\ rep.firstInvalidSeq = rows[rep.entries].seq
  BY Zenon DEF Tells
<1>2. /\ \A i : i \in 1 .. k <=> (i \in 1 .. k - 1 \/ i = k)
      /\ (k - 1) + 1 = k /\ k # 0 /\ k \in 1 .. k
      /\ (k - 1 = 0 <=> k = 1)
  OBVIOUS
<1>3. CASE ~rep.valid
  <2>1. new = rep
    BY <1>3, Zenon DEF VerifyEntry
  <2>2. ~ \A i \in 1 .. k : P(i)
    BY <1>1, <1>2, <1>3, Zenon
  <2> HIDE DEF new, P
  <2>3. Tells(new, rows, anchor, k)
    BY <1>1, <1>2, <1>3, <2>1, <2>2, Zenon DEF Tells, P
  <2> QED
    BY <2>3, Zenon DEF new
<1>4. CASE rep.valid
  <2>1. /\ IsReport(new) /\ new.entries = rep.entries + 1
        /\ P(k) => /\ new.valid /\ new.headHash = rows[k].hash
                   /\ new.anchorSeen
                        <=> (rep.anchorSeen \/ rows[k].seq = anchor.seq)
        /\ ~P(k) => ~new.valid /\ new.firstInvalidSeq = rows[k].seq
    <3>1. P(k) <=> PassesAfter(rep, rows[k], anchor)
      BY <1>1, <1>2, <1>4, Zenon DEF Passes, PassesAfter
    <3>2. Extends(new, rep, rows[k], anchor)
      BY <1>1, <1>4, EntryVerified, Zenon
    <3> QED
      BY <3>1, <3>2, Zenon DEF Extends
  <2>2. new.entries = k
    BY <1>1, <1>2, <1>4, <2>1, Zenon
  <2> HIDE DEF new, P
  <2>3. new.valid <=> \A i \in 1 .. k : P(i)
    BY <1>1, <1>2, <1>4, <2>1, Zenon
  <2>4. new.valid => /\ new.headHash = rows[k].hash
                     /\ new.anchorSeen
                          <=> \E i \in 1 .. k : rows[i].seq = anchor.seq
    BY <1>1, <1>2, <1>4, <2>1, <2>3, Zenon
  <2>5. ~new.valid => /\ ~P(k) /\ \A i \in 1 .. k - 1 : P(i)
                      /\ new.firstInvalidSeq = rows[k].seq
    BY <1>1, <1>2, <1>4, <2>1, Zenon
  <2>6. Tells(new, rows, anchor, k)
    BY <1>2, <2>1, <2>2, <2>3, <2>4, <2>5, Zenon DEF Tells, P
  <2> QED
    BY <2>6, Zenon DEF new
<1> QED
  BY <1>3, <1>4, Zenon

\* VerifyChain's report, after any number of rows, tells of exactly these.
LEMMA ReportsTell ==
  ASSUME NEW rows, NEW anchor, Len(rows) \in Nat, NEW k \in 0 .. Len(rows)
  PROVE  Tells(Reports(rows, anchor)[k], rows, anchor, k)
<1> DEFINE n == Len(rows)
           Q(j) == Tells(Reports(rows, anchor)[j], rows, anchor, j)
           Wrong == {j \in 0 .. n : ~Q(j)}
<1>1. Q(0)
  <2>1. Reports(rows, anchor)[0] = FreshReport
    BY ReportsFollow, Zenon
  <2>2. /\ IsReport(FreshReport) /\ FreshReport.valid /\ FreshReport.entries = 0
        /\ FreshReport.headHash = <<>> /\ ~FreshReport.anchorSeen
    BY DEF IsReport, FreshReport
  <2>3. \A i : i \notin 1 .. 0
    OBVIOUS
  <2> HIDE DEF n
  <2> QED
    BY <2>1, <2>2, <2>3, Zenon DEF Tells
<1>2. ASSUME Wrong # {}
      PROVE  FALSE
  <2>1. Wrong \in SUBSET Nat
    OBVIOUS
  <2>2. PICK x \in Wrong : \A y \in Wrong : x <= y
    BY <1>2, <2>1, LeastNumber, Zenon
  <2>3. x \in 0 .. n /\ ~Q(x)
    BY Zenon
  <2> HIDE DEF Q
  <2>4. x # 0
    BY <1>1, <2>3, Zenon
  <2>5. /\ x \in 1 .. n /\ x \in Nat \ {0} /\ x - 1 \in 0 .. n /\ ~ (x <= x - 1)
    BY <2>3, <2>4
  <2>6. Q(x - 1)
    BY <2>2, <2>5, Zenon
  <2>7. Reports(rows, anchor)[x] = VerifyEntry(Reports(rows, anchor)[x - 1], rows[x], anchor)
    BY <2>5, ReportsFollow, Zenon
  <2>8. Q(x)
    BY <2>5, <2>6, <2>7, TellsOneMore, Zenon DEF Q
  <2> QED
    BY <2>3, <2>8, Zenon
<1> QED
  BY <1>2, Zenon

\* rep is VerifyChain's verdict on rows: valid means that every row passes and
\* the anchored one is among them.
Judges(rep, rows, anchor) ==
    /\ rep.valid <=>
         /\ \A i \in 1 .. Len(rows) : Passes(rows, anchor, i)
         /\ anchor # NoAnchor =>
              \E i \in 1 .. Len(rows) : rows[i].seq = anchor.seq
    /\ anchor = NoAnchor => Tells(rep, rows, anchor, Len(rows))

\* VerifyChain judges the rows that Stream returns.
LEMMA ChainReport ==
  ASSUME NEW t, NEW anchor, Len(Stream(t, 0)) \in Nat
  PROVE  Judges(VerifyChain(t, anchor), Stream(t, 0), anchor)
<1> DEFINE rows == Stream(t, 0)
           n == Len(rows)
           r == Reports(rows, anchor)[n]
           missed == [r EXCEPT !.valid = FALSE, !.firstInvalidSeq = anchor.seq,
                               !.reason = "missing"]
<1>1. VerifyChain(t, anchor) =
        IF r.valid /\ anchor # NoAnchor /\ ~r.anchorSeen THEN missed ELSE r
  BY Zenon DEF VerifyChain
<1>2. Tells(r, rows, anchor, n)
  <2>1. n \in 0 .. n
    OBVIOUS
  <2> QED
    BY <2>1, ReportsTell, Zenon
<1>3. ~missed.valid
  <2> HIDE DEF r
  <2> QED
    BY <1>2, Zenon DEF Tells, IsReport
<1> HIDE DEF rows, r, missed
<1>4. /\ r.valid <=> \A i \in 1 .. n : Passes(rows, anchor, i)
      /\ r.valid => (r.anchorSeen <=> \E i \in 1 .. n : rows[i].seq = anchor.seq)
  BY <1>2, Zenon DEF Tells
<1> QED
  BY <1>1, <1>2, <1>3, <1>4, Zenon DEF rows, Judges

\* An intact chain verifies, without an anchor and against any of its rows.
LEMMA IntactVerifies ==
  ASSUME IInv, NEW anchor,
         anchor # NoAnchor =>
           \E r \in table : anchor.seq = r.seq /\ anchor.hash = r.hash
  PROVE  VerifyChain(table, anchor).valid
<1> DEFINE rows == Stream(table, 0)
           n == Cardinality(table)
<1>0. /\ ChainIntact /\ \A r \in table : r.seq \in Nat
      /\ \A r, s \in table : r.seq = s.seq => r = s
  BY TableFacts, Zenon DEF IInv
<1>1. n \in Nat /\ 0 <= n
  <2>1. n \in Nat
    BY TableFacts, Zenon
  <2> QED
    BY <2>1
<1>2. /\ rows \in Seq(table) /\ Len(rows) = n - 0
      /\ \A i \in 1 .. Len(rows) : rows[i] \in table /\ rows[i].seq = 0 + i
  BY <1>1, RowsAfter, Zenon
<1>3. /\ Len(rows) = n /\ Len(rows) \in Nat
      /\ \A i \in 1 .. n : rows[i] \in table /\ rows[i].seq = i
  BY <1>1, <1>2
<1> HIDE DEF rows
<1>4. ASSUME NEW i \in 1 .. n
      PROVE  Passes(rows, anchor, i)
  <2>1. /\ rows[i] \in table /\ rows[i].seq = i
        /\ rows[i].hash = calculateHash(rows[i])
    BY <1>0, <1>3, Zenon DEF ChainIntact
  <2>2. rows[i].prev = IF i = 1 THEN <<>> ELSE rows[i - 1].hash
    <3>1. CASE i = 1
      BY <1>0, <2>1, <3>1, Zenon DEF ChainIntact
    <3>2. CASE i # 1
      <4>1. PICK p \in table : p.seq + 1 = i /\ rows[i].prev = p.hash
        <5>1. IF rows[i].seq = 1 THEN rows[i].prev = <<>>
              ELSE \E p \in table : p.seq + 1 = rows[i].seq /\ rows[i].prev = p.hash
          BY <1>0, <2>1, Zenon DEF ChainIntact
        <5> QED
          BY <2>1, <3>2, <5>1, Zenon
      <4>2. i - 1 \in 1 .. n /\ p.seq = i - 1
        <5>1. p.seq \in Nat
          BY <1>0, Zenon
        <5> QED
          BY <1>1, <3>2, <4>1, <5>1
      <4>3. rows[i - 1] = p
        <5>1. rows[i - 1] \in table /\ rows[i - 1].seq = p.seq
          BY <1>3, <4>2, Zenon
        <5> QED
          BY <1>0, <5>1, Zenon
      <4> QED
        BY <3>2, <4>1, <4>3, Zenon
    <3> QED
      BY <3>1, <3>2, Zenon
  <2>3. anchor # NoAnchor /\ rows[i].seq = anchor.seq => rows[i].hash = anchor.hash
    BY <1>0, <2>1, Zenon
  <2> QED
    BY <2>1, <2>2, <2>3, Zenon DEF Passes
<1>5. ASSUME anchor # NoAnchor
      PROVE  \E i \in 1 .. n : rows[i].seq = anchor.seq
  <2>1. PICK r \in table : anchor.seq = r.seq
    BY <1>5, Zenon
  <2>2. r.seq \in 1 .. n
    BY TableFacts, Zenon
  <2> QED
    BY <1>3, <2>1, <2>2, Zenon
<1> QED
  <2>1. Judges(VerifyChain(table, anchor), rows, anchor)
    BY <1>3, ChainReport, Zenon DEF rows
  <2> QED
    BY <1>3, <1>4, <1>5, <2>1, Zenon DEF Judges

\* VerifyChain: at every moment the table verifies, also against the head that was
\* recorded at any earlier moment.
THEOREM ChainVerifies == ReadersSpec => []AlwaysVerifies
<1>1. ASSUME ReadersInv
      PROVE  AlwaysVerifies
  <2>1. VerifyChain(table, NoAnchor).valid
    BY <1>1, IntactVerifies, Zenon DEF ReadersInv
  <2>2. ASSUME NEW r \in table
        PROVE  VerifyChain(table, [seq |-> r.seq, hash |-> r.hash]).valid
    <3> DEFINE a == [seq |-> r.seq, hash |-> r.hash]
    <3>1. a.seq = r.seq /\ a.hash = r.hash
      BY Zenon
    <3> HIDE DEF a
    <3>2. VerifyChain(table, a).valid
      BY <1>1, <3>1, IntactVerifies, Zenon DEF ReadersInv
    <3> QED
      BY <3>2, Zenon DEF a
  <2> QED
    BY <2>1, <2>2, Zenon DEF AlwaysVerifies
<1> QED
  BY <1>1, ReadersInvariance, PTL

-----------------------------------------------------------------------------
(* VerifyChain on a chain that was changed *)

\* A stream from the start lists the whole table.
LEMMA StreamLength ==
  ASSUME NEW t, IsFiniteSet(t)
  PROVE  Stream(t, 0) = OrderBySeq(t) /\ Len(Stream(t, 0)) \in Nat
<1>1. {r \in t : 0 > 0 => r.seq > 0} = t
  OBVIOUS
<1>2. Stream(t, 0) = OrderBySeq(t)
  BY <1>1, Zenon DEF Stream
<1>3. Cardinality(t) \in Nat
  BY FS_CardinalityType, Zenon
<1>4. Len(OrderBySeq(t)) = Cardinality(t)
  BY <1>3 DEF OrderBySeq
<1> QED
  BY <1>2, <1>3, <1>4, Zenon

\* A report without an anchor is exact for any finite table.
LEMMA ExactReport ==
  ASSUME IsFiniteSet(stored)
  PROVE  ReportIsExact
<1> DEFINE rows == Stream(stored, 0)
           rep  == VerifyChain(stored, NoAnchor)
           bad  == {i \in 1 .. Len(rows) : ~Sound(rows, i)}
           n    == Len(rows)
<1>1. n \in Nat
  BY StreamLength, Zenon
<1>2. Tells(rep, rows, NoAnchor, n)
  BY <1>1, ChainReport, Zenon DEF Judges
<1> HIDE DEF rep, rows, n
<1>3. \A i \in 1 .. n : Sound(rows, i) <=> Passes(rows, NoAnchor, i)
  BY Zenon DEF Sound, Passes
<1>4. \A i : i \in bad <=> (i \in 1 .. n /\ ~Passes(rows, NoAnchor, i))
  BY <1>3, Zenon DEF n
<1> HIDE DEF bad
<1>5. rep.valid <=> bad = {}
  BY <1>2, <1>4, Zenon DEF Tells
<1>6. rep.valid => rep.entries = n
  BY <1>2, Zenon DEF Tells
<1>7. ASSUME ~rep.valid
      PROVE  /\ rep.entries \in bad /\ \A i \in bad : rep.entries <= i
             /\ rep.firstInvalidSeq = rows[rep.entries].seq
  <2>1. /\ rep.entries \in 1 .. n /\ ~Passes(rows, NoAnchor, rep.entries)
        /\ \A i \in 1 .. rep.entries - 1 : Passes(rows, NoAnchor, i)
        /\ rep.firstInvalidSeq = rows[rep.entries].seq
    BY <1>2, <1>7, Zenon DEF Tells
  <2>2. ASSUME NEW i \in bad
        PROVE  rep.entries <= i
    <3>1. i \in 1 .. n /\ i \notin 1 .. rep.entries - 1
      BY <1>4, <2>1, Zenon
    <3> QED
      BY <1>1, <2>1, <3>1
  <2> QED
    BY <1>4, <2>1, <2>2, Zenon
<1> QED
  BY <1>5, <1>6, <1>7, Zenon
     DEF ReportIsExact, rows, rep, bad, n

\* SHA-256 is taken to be injective: rows with the same hash have the same
\* fields, with or without a policy version.
LEMMA HashInjective ==
  ASSUME NEW e, NEW f, calculateHash(e) = calculateHash(f)
  PROVE  /\ e.seq = f.seq /\ e.data = f.data /\ e.prev = f.prev
         /\ e.version = f.version
<1> DEFINE F(x) == <<x.seq, normalizeTimestamp(x.ts), x.data, x.prev>>
           H(x) == IF x.version = "" THEN F(x) ELSE Append(F(x), x.version)
<1>1. H(e) = H(f)
  BY Zenon DEF calculateHash
<1>2. ASSUME NEW x
      PROVE  /\ H(x)[1] = x.seq /\ H(x)[3] = x.data /\ H(x)[4] = x.prev
             /\ Len(H(x)) = IF x.version = "" THEN 4 ELSE 5
             /\ x.version # "" => H(x)[5] = x.version
  <2>1. /\ F(x)[1] = x.seq /\ F(x)[3] = x.data /\ F(x)[4] = x.prev
        /\ Len(F(x)) = 4
    OBVIOUS
  <2> DEFINE S == {x.seq, normalizeTimestamp(x.ts), x.data, x.prev, x.version}
  <2>2. F(x) \in Seq(S)
    OBVIOUS
  <2>3. x.version \in S
    BY Zenon
  <2> HIDE DEF F, S
  <2>4. /\ Len(Append(F(x), x.version)) = Len(F(x)) + 1
        /\ \A i \in 1 .. Len(F(x)) : Append(F(x), x.version)[i] = F(x)[i]
        /\ Append(F(x), x.version)[Len(F(x)) + 1] = x.version
    <3> DEFINE fx == F(x)
               v  == x.version
    <3> HIDE DEF fx, v
    <3>1. fx \in Seq(S) /\ v \in S
      BY <2>2, <2>3, Zenon DEF fx, v
    <3>2. /\ Len(Append(fx, v)) = Len(fx) + 1
          /\ \A i \in 1 .. Len(fx) : Append(fx, v)[i] = fx[i]
          /\ Append(fx, v)[Len(fx) + 1] = v
      BY <3>1, AppendProperties
    <3> QED
      BY <3>2, Zenon DEF fx, v
  <2>5. /\ Len(Append(F(x), x.version)) = 5
        /\ Append(F(x), x.version)[1] = F(x)[1]
        /\ Append(F(x), x.version)[3] = F(x)[3]
        /\ Append(F(x), x.version)[4] = F(x)[4]
        /\ Append(F(x), x.version)[5] = x.version
    BY <2>1, <2>4
  <2> QED
    BY <2>1, <2>5, Zenon
<1> HIDE DEF H
<1>3. e.seq = f.seq /\ e.data = f.data /\ e.prev = f.prev
  BY <1>1, <1>2, Zenon
<1>4. e.version = "" <=> f.version = ""
  <2>1. (IF e.version = "" THEN 4 ELSE 5) = (IF f.version = "" THEN 4 ELSE 5)
    BY <1>1, <1>2, Zenon
  <2>2. 4 # 5
    OBVIOUS
  <2> QED
    BY <2>1, <2>2, Zenon
<1> QED
  BY <1>1, <1>2, <1>3, <1>4, Zenon

\* A hash of an entry is not the empty one that stands before the first.
LEMMA HashNotEmpty ==
  ASSUME NEW e
  PROVE  calculateHash(e) # <<>>
<1> DEFINE F == <<e.seq, normalizeTimestamp(e.ts), e.data, e.prev>>
           S == {e.seq, normalizeTimestamp(e.ts), e.data, e.prev, e.version}
<1>1. F # <<>> /\ F \in Seq(S)
  OBVIOUS
<1>2. e.version \in S
  BY Zenon
<1>3. calculateHash(e) = IF e.version = "" THEN F ELSE Append(F, e.version)
  BY Zenon DEF calculateHash
<1> HIDE DEF F, S
<1>4. Append(F, e.version) # <<>>
  BY <1>1, <1>2, AppendProperties, ZenonT(30)
<1> QED
  BY <1>1, <1>3, <1>4, Zenon

\* Two rows whose stored hash is the right one are equal if the hashes are.
LEMMA SameRow ==
  ASSUME NEW r, NEW s, IsRow(r), IsRow(s),
         r.hash = calculateHash(r), s.hash = calculateHash(s), r.hash = s.hash
  PROVE  r = s
<1>1. /\ r.seq = s.seq /\ r.data = s.data /\ r.prev = s.prev
      /\ r.version = s.version
  BY HashInjective, Zenon
<1>3. /\ r = [seq |-> r.seq, ts |-> 0, data |-> r.data, version |-> r.version,
              prev |-> r.prev, hash |-> r.hash]
      /\ s = [seq |-> s.seq, ts |-> 0, data |-> s.data, version |-> s.version,
              prev |-> s.prev, hash |-> s.hash]
  BY Zenon DEF IsRow
<1> QED
  BY <1>1, <1>3, Zenon

\* Rows without a number twice.
Distinct(S) ==
    /\ IsFiniteSet(S) /\ \A r \in S : r.seq \in Nat
    /\ \A r, s \in S : r.seq = s.seq => r = s

\* o lists all of S by ascending number.
Sorted(o, S) ==
    /\ Len(o) \in Nat /\ \A i \in 1 .. Len(o) : o[i] \in S
    /\ \A r \in S : \E i \in 1 .. Len(o) : o[i] = r
    /\ \A i, j \in 1 .. Len(o) : i < j => o[i].seq < o[j].seq

\* ORDER BY seq_num returns every row once, by ascending number.
LEMMA SortedRows ==
  ASSUME NEW S, Distinct(S)
  PROVE  Sorted(OrderBySeq(S), S)
<1>0. /\ IsFiniteSet(S) /\ \A r \in S : r.seq \in Nat
      /\ \A r, s \in S : r.seq = s.seq => r = s
  BY Zenon DEF Distinct
<1> DEFINE n == Cardinality(S)
           B(r) == {s \in S : s.seq <= r.seq}
           o == OrderBySeq(S)
           g == [r \in S |-> Cardinality(B(r))]
<1>1. n \in Nat
  BY <1>0, FS_CardinalityType, Zenon
<1>2. ASSUME NEW r \in S
      PROVE  /\ IsFiniteSet(B(r)) /\ Cardinality(B(r)) \in 1 .. n
  <2>1. B(r) \in SUBSET S /\ r \in B(r)
    BY <1>0
  <2> HIDE DEF B
  <2>2. IsFiniteSet(B(r)) /\ Cardinality(B(r)) <= n
    BY <1>0, <2>1, FS_Subset, Zenon
  <2>3. Cardinality(B(r)) \in Nat /\ Cardinality(B(r)) # 0
    BY <2>1, <2>2, FS_CardinalityType, FS_EmptySet, Zenon
  <2> QED
    BY <1>1, <2>2, <2>3
<1>3. ASSUME NEW r \in S, NEW s \in S, r.seq < s.seq
      PROVE  Cardinality(B(r)) < Cardinality(B(s))
  <2>1. r.seq \in Nat /\ s.seq \in Nat
    BY <1>0, Zenon
  <2>2. B(r) \in SUBSET B(s) /\ s \in B(s) /\ s \notin B(r)
    BY <1>0, <1>3, <2>1
  <2>3. /\ IsFiniteSet(B(s)) /\ Cardinality(B(s)) \in 1 .. n
        /\ Cardinality(B(r)) \in 1 .. n
    BY <1>2, Zenon
  <2> HIDE DEF B, n
  <2>4. Cardinality(B(r)) <= Cardinality(B(s)) /\ Cardinality(B(s)) # Cardinality(B(r))
    BY <2>2, <2>3, FS_Subset, Zenon
  <2> QED
    BY <1>1, <2>3, <2>4
<1> HIDE DEF B, n
<1>4. ASSUME NEW r \in S, NEW s \in S
      PROVE  /\ Cardinality(B(r)) = Cardinality(B(s)) => r = s
             /\ Cardinality(B(r)) < Cardinality(B(s)) => r.seq < s.seq
  <2>1. /\ r.seq \in Nat /\ s.seq \in Nat /\ (r.seq = s.seq => r = s)
        /\ Cardinality(B(r)) \in 1 .. n /\ Cardinality(B(s)) \in 1 .. n
    BY <1>0, <1>2, Zenon
  <2>2. /\ r.seq < s.seq => Cardinality(B(r)) < Cardinality(B(s))
        /\ s.seq < r.seq => Cardinality(B(s)) < Cardinality(B(r))
    BY <1>3, Zenon
  <2>3. r.seq = s.seq => Cardinality(B(r)) = Cardinality(B(s))
    BY <2>1, Zenon
  <2> QED
    BY <1>1, <2>1, <2>2, <2>3
<1>5. g \in Injection(S, 1 .. n)
  BY <1>2, <1>4, Zenon DEF Injection, IsInjective
<1>6. g \in Surjection(S, 1 .. n)
  <2>1. 1 \in Int /\ n \in Int /\ (1 > n => n = 0) /\ (~ (1 > n) => (n - 1) + 1 = n)
    BY <1>1
  <2>2. IsFiniteSet(1 .. n) /\ Cardinality(1 .. n) = n
    BY <2>1, FS_Interval, Zenon
  <2> HIDE DEF g
  <2>3. Cardinality(S) = Cardinality(1 .. n)
    BY <2>2, Zenon DEF n
  <2> QED
    BY <1>5, <2>2, <2>3, FS_Injection, Zenon
<1>7. \A i \in 1 .. n : \E r \in S : Cardinality(B(r)) = i
  BY <1>6, Zenon DEF Surjection
<1>8. \A i \in 1 .. n : o[i] \in S /\ Cardinality(B(o[i])) = i
  <2>1. ASSUME NEW i \in 1 .. n
        PROVE  o[i] = CHOOSE r \in S : Cardinality(B(r)) = i
    BY Zenon DEF OrderBySeq, n, B
  <2> HIDE DEF o
  <2> QED
    BY <1>7, <2>1, Zenon
<1>9. Len(o) = n
  BY <1>1 DEF OrderBySeq, n
<1> HIDE DEF o, g
<1>10. \A r \in S : \E i \in 1 .. n : o[i] = r
  BY <1>2, <1>4, <1>8, Zenon
<1>11. ASSUME NEW i \in 1 .. n, NEW j \in 1 .. n, i < j
       PROVE  o[i].seq < o[j].seq
  BY <1>4, <1>8, <1>11, Zenon
<1> QED
  BY <1>1, <1>8, <1>9, <1>10, <1>11, Zenon DEF Sorted, o

\* The stream of a table.
LEMMA TableStream ==
  ASSUME NEW t, IsTable(t)
  PROVE  Sorted(Stream(t, 0), t)
<1>1. Distinct(t)
  BY Zenon DEF IsTable, IsRow, Distinct
<1>2. Stream(t, 0) = OrderBySeq(t)
  BY <1>1, StreamLength, Zenon DEF Distinct
<1> QED
  BY <1>1, <1>2, SortedRows, Zenon

\* The first k rows read are rows of a table and sound.
SoundUpto(rows, k) == \A i \in 1 .. k : IsRow(rows[i]) /\ Sound(rows, i)

\* The first k rows read are the first k entries of the chain C.
Agree(rows, k, C) == \A i \in 1 .. k : rows[i] \in C /\ rows[i].seq = i

\* From a row of the chain the links lead back through the chain to its first
\* row: row i of the stream is entry i for every i up to the anchored one.
LEMMA LinkedBack ==
  ASSUME NEW rows, NEW C, NEW a \in C, NEW k \in Nat \ {0},
         IsTable(C), IsChain(C),
         SoundUpto(rows, k), rows[k].hash = a.hash
  PROVE  k = a.seq /\ Agree(rows, k, C)
<1>0. /\ \A r \in C : /\ IsRow(r) /\ r.seq \in Nat \ {0} /\ r.hash = calculateHash(r)
                      /\ IF r.seq = 1 THEN r.prev = <<>>
                         ELSE \E p \in C : p.seq + 1 = r.seq /\ r.prev = p.hash
      /\ \A i \in 1 .. k :
           /\ IsRow(rows[i]) /\ rows[i].hash = calculateHash(rows[i])
           /\ rows[i].prev = IF i = 1 THEN <<>> ELSE rows[i - 1].hash
  BY Zenon DEF IsTable, IsChain, IsRow, Sound, SoundUpto
<1> DEFINE Q(j) == rows[k - j] \in C /\ rows[k - j].seq = a.seq - j
           Wrong == {j \in 0 .. k - 1 : ~Q(j)}
<1>1. Q(0)
  <2>1. k - 0 = k /\ k \in 1 .. k /\ a.seq - 0 = a.seq
    BY <1>0
  <2>2. rows[k] = a
    BY <1>0, <2>1, SameRow, Zenon
  <2> QED
    BY <2>1, <2>2, Zenon
<1>2. ASSUME NEW j \in 0 .. k - 1, j # 0, Q(j - 1)
      PROVE  Q(j)
  <2> DEFINE m == k - (j - 1)
             b == rows[m]
  <2>1. m \in 1 .. k /\ m # 1 /\ m - 1 = k - j /\ k - j \in 1 .. k
    BY <1>2
  <2>2. b \in C /\ b.seq = a.seq - (j - 1)
    BY <1>2, Zenon
  <2> HIDE DEF m
  <2>3. b.prev = rows[k - j].hash /\ rows[k - j].hash = calculateHash(rows[k - j])
    BY <1>0, <2>1, Zenon
  <2>4. b.prev # <<>>
    BY <2>3, HashNotEmpty, Zenon
  <2> HIDE DEF b
  <2>5. PICK p \in C : p.seq + 1 = b.seq /\ b.prev = p.hash
    BY <1>0, <2>2, <2>4, Zenon
  <2>6. rows[k - j] = p
    <3>1. IsRow(rows[k - j]) /\ IsRow(p) /\ p.hash = calculateHash(p)
      BY <1>0, <2>1, Zenon
    <3> QED
      BY <2>3, <2>5, <3>1, SameRow, Zenon
  <2>7. p.seq = a.seq - j
    <3>1. p.seq \in Nat /\ a.seq \in Nat
      BY <1>0, Zenon
    <3> QED
      BY <2>2, <2>5, <3>1
  <2> QED
    BY <2>6, <2>7, Zenon
<1>3. ASSUME Wrong # {}
      PROVE  FALSE
  <2>1. Wrong \in SUBSET Nat
    OBVIOUS
  <2>2. PICK x \in Wrong : \A y \in Wrong : x <= y
    BY <1>3, <2>1, LeastNumber, Zenon
  <2>3. x \in 0 .. k - 1 /\ ~Q(x)
    BY Zenon
  <2> HIDE DEF Q
  <2>4. x # 0
    BY <1>1, <2>3, Zenon
  <2>5. x - 1 \in 0 .. k - 1 /\ ~ (x <= x - 1)
    BY <2>3, <2>4
  <2>6. Q(x - 1)
    BY <2>2, <2>5, Zenon
  <2> QED
    BY <1>2, <2>3, <2>4, <2>6, Zenon
<1>4. \A j \in 0 .. k - 1 : Q(j)
  BY <1>3, Zenon
<1>5. k = a.seq
  <2>1. k - 1 \in 0 .. k - 1 /\ k - (k - 1) = 1 /\ 1 \in 1 .. k
    OBVIOUS
  <2>2. rows[1] \in C /\ rows[1].seq = a.seq - (k - 1)
    BY <1>4, <2>1, Zenon
  <2>3. rows[1].prev = <<>>
    BY <1>0, <2>1, Zenon
  <2>4. \A p \in C : p.hash # <<>>
    BY <1>0, HashNotEmpty, ZenonT(30)
  <2>5. rows[1].seq = 1
    BY <1>0, <2>2, <2>3, <2>4, ZenonT(30)
  <2>6. a.seq \in Nat
    BY <1>0, Zenon
  <2> QED
    BY <2>2, <2>5, <2>6
<1>6. ASSUME NEW i \in 1 .. k
      PROVE  rows[i] \in C /\ rows[i].seq = i
  <2>1. k - i \in 0 .. k - 1 /\ k - (k - i) = i
    OBVIOUS
  <2>2. rows[i] \in C /\ rows[i].seq = a.seq - (k - i)
    BY <1>4, <2>1, Zenon
  <2> QED
    BY <1>5, <2>1, <2>2, Zenon
<1> QED
  BY <1>5, <1>6, Zenon DEF Agree

\* A table that verifies against entry a holds the chain up to a, and no other
\* row below it.
LEMMA AnchorHolds ==
  ASSUME TamperInv, NEW a \in original, VerifyChain(stored, AnchorOf(a)).valid
  PROVE  Upto(stored, a.seq) = Upto(original, a.seq)
<1> DEFINE rows == Stream(stored, 0)
           anchor == AnchorOf(a)
           n == Len(rows)
<1>1. /\ n \in Nat /\ \A i \in 1 .. n : rows[i] \in stored
      /\ \A r \in stored : \E i \in 1 .. n : rows[i] = r
      /\ \A i, j \in 1 .. n : i < j => rows[i].seq < rows[j].seq
  BY TableStream, Zenon DEF TamperInv, Sorted
<1>2. /\ \A r \in stored : IsRow(r) /\ r.seq \in Nat
      /\ \A r \in original : IsRow(r) /\ r.seq \in Nat \ {0}
      /\ \A r, s \in original : r.seq = s.seq => r = s
  BY Zenon DEF TamperInv, IsTable, IsChain, IsRow
<1>3. anchor.seq = a.seq /\ anchor.hash = a.hash
  BY Zenon DEF AnchorOf
<1>4. anchor # NoAnchor
  <2>1. a.seq # 0
    BY <1>2, Zenon
  <2>2. NoAnchor.seq = 0
    BY Zenon DEF NoAnchor, NoTip
  <2> QED
    BY <1>3, <2>1, <2>2, Zenon
<1>5. /\ \A i \in 1 .. n : Passes(rows, anchor, i)
      /\ \E i \in 1 .. n : rows[i].seq = anchor.seq
  <2>1. VerifyChain(stored, anchor).valid /\ Len(Stream(stored, 0)) \in Nat
    BY <1>1, Zenon
  <2>2. Judges(VerifyChain(stored, anchor), rows, anchor)
    BY <2>1, ChainReport, Zenon
  <2> HIDE DEF anchor, rows
  <2> QED
    BY <1>4, <2>1, <2>2, Zenon DEF Judges
<1> HIDE DEF rows, anchor, n
<1>6. PICK k \in 1 .. n : rows[k].seq = a.seq
  BY <1>3, <1>5, Zenon
<1>7. rows[k].hash = a.hash
  BY <1>3, <1>4, <1>5, <1>6, Zenon DEF Passes
<1>8. k \in Nat \ {0} /\ \A i \in 1 .. k : i \in 1 .. n
  BY <1>1
<1>9. SoundUpto(rows, k)
  BY <1>1, <1>2, <1>5, <1>8, Zenon DEF Passes, Sound, SoundUpto
<1>10. k = a.seq /\ \A i \in 1 .. k : rows[i] \in original /\ rows[i].seq = i
  <2>1. IsTable(original) /\ IsChain(original)
    BY Zenon DEF TamperInv
  <2>2. k = a.seq /\ Agree(rows, k, original)
    BY <1>7, <1>8, <1>9, <2>1, LinkedBack, Zenon
  <2> QED
    BY <2>2, Zenon DEF Agree
<1>11. ASSUME NEW r \in stored, r.seq <= k
       PROVE  r \in original
  <2>1. PICK i \in 1 .. n : rows[i] = r
    BY <1>1, Zenon
  <2>2. ~ (k < i)
    <3>1. k < i => rows[k].seq < rows[i].seq
      BY <1>1, Zenon
    <3>2. rows[k].seq = k /\ rows[i].seq = r.seq /\ r.seq \in Nat
      BY <1>2, <1>6, <1>10, <2>1, Zenon
    <3> QED
      BY <1>8, <1>11, <3>1, <3>2
  <2>3. i \in 1 .. k
    BY <1>8, <2>2
  <2> QED
    BY <1>10, <2>1, <2>3, Zenon
<1>12. ASSUME NEW r \in original, r.seq <= k
       PROVE  r \in stored
  <2>1. r.seq \in 1 .. k
    <3>1. r.seq \in Nat \ {0}
      BY <1>2, Zenon
    <3> QED
      BY <1>8, <1>12, <3>1
  <2>2. rows[r.seq] \in original /\ rows[r.seq].seq = r.seq
    BY <1>10, <2>1, Zenon
  <2>3. rows[r.seq] = r
    BY <1>2, <2>2, Zenon
  <2> QED
    BY <1>1, <1>8, <2>1, <2>3, Zenon
<1> QED
  BY <1>10, <1>11, <1>12, Zenon DEF Upto

\* The rows of the untouched chain, each behind the one before.
LEMMA ChainFollows ==
  ASSUME NEW contents
  PROVE  LET f == ChainOf(contents) IN
         \A i \in 1 .. Length :
           f[i] = RowBehind(IF i = 1 THEN <<>> ELSE f[i - 1].hash, i, contents[i])
<1> DEFINE Row(f, i) == RowBehind(IF i = 1 THEN <<>> ELSE f[i - 1].hash, i, contents[i])
           Good(k, f) == f = [i \in 1 .. k |-> Row(f, i)]
           T == {k \in 0 .. Length : ~ \E f : Good(k, f)}
<1>0. Length \in Nat
  BY VerifyAssumption, Zenon
<1>1. ASSUME T # {} PROVE FALSE
  <2>1. PICK k \in T : \A l \in T : k <= l
    <3>1. T \in SUBSET Nat
      BY <1>0
    <3> HIDE DEF T
    <3> QED
      BY <1>1, <3>1, LeastNumber, Zenon
  <2>2. k \in 0 .. Length /\ ~ \E f : Good(k, f)
    BY <2>1, Zenon
  <2>3. CASE k = 0
    <3> DEFINE f == [i \in 1 .. 0 |-> 0]
    <3>1. \A i : i \notin 1 .. 0
      OBVIOUS
    <3>2. Good(0, f)
      BY <3>1, Zenon
    <3> QED
      BY <2>2, <2>3, <3>2, Zenon
  <2>4. CASE k # 0
    <3>1. k \in Nat /\ k - 1 \in 0 .. Length /\ ~ (k <= k - 1) /\ k # 0
      BY <1>0, <2>2, <2>4
    <3>2. k - 1 \notin T
      BY <2>1, <3>1, Zenon
    <3>3. PICK f : Good(k - 1, f)
      BY <3>1, <3>2, Zenon
    <3> DEFINE g == [i \in 1 .. k |-> IF i = k THEN Row(f, k) ELSE f[i]]
    <3>4. ASSUME NEW i \in 1 .. k
          PROVE  g[i] = Row(g, i)
      <4>1. i # 1 => i - 1 \in 1 .. k /\ i - 1 # k
        BY <3>1
      <4>2. i # 1 => g[i - 1] = f[i - 1]
        BY <4>1, Zenon
      <4>3. Row(g, i) = Row(f, i)
        <5>1. (IF i = 1 THEN <<>> ELSE g[i - 1].hash)
                = (IF i = 1 THEN <<>> ELSE f[i - 1].hash)
          <6> HIDE DEF g
          <6> QED
            BY <4>2, Zenon
        <5> HIDE DEF g
        <5> QED
          BY <5>1, Zenon
      <4>4. CASE i = k
        BY <4>3, <4>4, Zenon
      <4>5. CASE i # k
        <5>1. i \in 1 .. k - 1
          BY <3>1, <4>5
        <5>2. f[i] = Row(f, i)
          <6> HIDE DEF Row
          <6> QED
            BY <3>3, <5>1, Zenon
        <5> QED
          BY <4>3, <4>5, <5>2, Zenon
      <4> QED
        BY <4>4, <4>5, Zenon
    <3>5. Good(k, g)
      <4> HIDE DEF Row
      <4> QED
        BY <3>4, Zenon
    <3> QED
      BY <2>2, <3>5, Zenon
  <2> QED
    BY <2>3, <2>4, Zenon
<1>2. \E f : Good(Length, f)
  <2>1. Length \in 0 .. Length
    BY <1>0
  <2> QED
    BY <1>1, <2>1, ZenonT(30)
<1>3. Good(Length, ChainOf(contents))
  BY <1>2, Zenon DEF ChainOf
<1> DEFINE h == ChainOf(contents)
<1>4. \A i \in 1 .. Length : h[i] = Row(h, i)
  <2> HIDE DEF h, Row
  <2> QED
    BY <1>3, Zenon DEF h
<1> QED
  BY <1>4, Zenon

\* r is row i of a chain behind a row with hash prev.
Continues(r, prev, i) ==
    IsRow(r) /\ r.seq = i /\ r.prev = prev /\ r.hash = calculateHash(r)

\* appendOnce stores the hash that is recomputed from the row.
LEMMA RowContinues ==
  ASSUME NEW prev, NEW i \in Nat \ {0}, NEW content
  PROVE  Continues(RowBehind(prev, i, content), prev, i)
<1> DEFINE e == [seq |-> i, ts |-> 0, data |-> content.data,
                 version |-> content.version, prev |-> prev]
           h == calculateHash(e)
           r == RowBehind(prev, i, content)
<1>1. r = [seq |-> i, ts |-> 0, data |-> content.data,
           version |-> content.version, prev |-> prev, hash |-> h]
  BY Zenon DEF RowBehind
<1>2. /\ e.seq = i /\ e.ts = 0 /\ e.data = content.data
      /\ e.version = content.version /\ e.prev = prev
  BY Zenon
<1> HIDE DEF r, e, h
<1>3. /\ r.seq = i /\ r.ts = 0 /\ r.data = content.data
      /\ r.version = content.version /\ r.prev = prev /\ r.hash = h
  BY <1>1, Zenon
<1>4. IsRow(r)
  BY <1>1, <1>3, Zenon DEF IsRow
<1>5. calculateHash(r) = calculateHash(e)
  BY <1>2, <1>3, Zenon DEF calculateHash
<1> QED
  BY <1>3, <1>4, <1>5, Zenon DEF r, h, Continues

\* The chain as appendOnce wrote it is a table and a chain.
LEMMA TamperInitInv ==
  ASSUME TamperInit
  PROVE  TamperInv
<1>0. Length \in Nat /\ \A i \in 1 .. Length : i \in Nat \ {0}
  BY VerifyAssumption
<1>1. PICK contents : original = {ChainOf(contents)[i] : i \in 1 .. Length}
  BY Zenon DEF TamperInit
<1> DEFINE f == ChainOf(contents)
<1>2. ASSUME NEW i \in 1 .. Length
      PROVE  /\ IsRow(f[i]) /\ f[i].seq = i /\ f[i].hash = calculateHash(f[i])
             /\ f[i].prev = IF i = 1 THEN <<>> ELSE f[i - 1].hash
  <2>1. i \in Nat \ {0}
    BY <1>0, Zenon
  <2> DEFINE prev == IF i = 1 THEN <<>> ELSE f[i - 1].hash
             c == contents[i]
  <2>2. f[i] = RowBehind(prev, i, c)
    BY ChainFollows, Zenon
  <2> HIDE DEF prev, c, f
  <2>3. Continues(f[i], prev, i)
    BY <2>1, <2>2, RowContinues, Zenon
  <2> QED
    BY <2>3, Zenon DEF Continues, prev
<1> HIDE DEF f
<1>3. \A r : r \in original <=> \E i \in 1 .. Length : r = f[i]
  BY <1>1, Zenon DEF f
<1>4. IsFiniteSet(original)
  <2> DEFINE g == [i \in 1 .. Length |-> f[i]]
  <2>1. g \in Surjection(1 .. Length, original)
    BY <1>3, Zenon DEF Surjection
  <2> HIDE DEF g
  <2>2. 1 \in Int /\ Length \in Int
    BY <1>0
  <2>3. IsFiniteSet(1 .. Length)
    BY <2>2, FS_Interval, Zenon
  <2> QED
    BY <2>1, <2>3, FS_Surjection, Zenon
<1>5. IsTable(original)
  <2>1. ASSUME NEW r \in original
        PROVE  IsRow(r) /\ r = f[r.seq]
    <3>1. PICK i \in 1 .. Length : r = f[i]
      BY <1>3, Zenon
    <3>2. IsRow(f[i]) /\ f[i].seq = i
      BY <1>2, Zenon
    <3> QED
      BY <3>1, <3>2, Zenon
  <2> QED
    BY <1>4, <2>1, Zenon DEF IsTable
<1>6. IsChain(original)
  <2>1. ASSUME NEW i \in 1 .. Length
        PROVE  IF f[i].seq = 1 THEN f[i].prev = <<>>
               ELSE \E p \in original : p.seq + 1 = f[i].seq /\ f[i].prev = p.hash
    <3>1. CASE i = 1
      BY <1>2, <3>1, Zenon
    <3>2. CASE i # 1
      <4>1. i - 1 \in 1 .. Length /\ (i - 1) + 1 = i
        BY <1>0, <3>2
      <4>2. f[i - 1] \in original /\ f[i - 1].seq = i - 1
        BY <1>2, <1>3, <4>1, Zenon
      <4> QED
        BY <1>2, <3>2, <4>1, <4>2, ZenonT(30)
    <3> QED
      BY <3>1, <3>2, Zenon
  <2>2. ASSUME NEW r \in original
        PROVE  /\ r.seq # 0 /\ r.hash = calculateHash(r)
               /\ IF r.seq = 1 THEN r.prev = <<>>
                  ELSE \E p \in original : p.seq + 1 = r.seq /\ r.prev = p.hash
    <3>1. PICK i \in 1 .. Length : r = f[i]
      BY <1>3, Zenon
    <3>2. i # 0
      BY <1>0, Zenon
    <3> QED
      BY <1>2, <2>1, <3>1, <3>2, Zenon
  <2> QED
    BY <2>2, Zenon DEF IsChain
<1> QED
  BY <1>5, <1>6, Zenon DEF TamperInv, TamperInit

\* A changed row is a row.
LEMMA RowChanged ==
  ASSUME NEW r, IsRow(r), NEW n \in Nat, NEW d, NEW v
  PROVE  /\ IsRow([r EXCEPT !.data = d, !.version = v])
         /\ IsRow([r EXCEPT !.seq = n])
         /\ IsRow([r EXCEPT !.prev = d])
         /\ IsRow([r EXCEPT !.hash = d])
<1>1. PICK a, b, c, p, h :
        /\ a \in Nat
        /\ r = [seq |-> a, ts |-> 0, data |-> b, version |-> c, prev |-> p, hash |-> h]
  BY Zenon DEF IsRow
<1>2. ASSUME NEW q, NEW a1, NEW b1, NEW c1, NEW p1, NEW h1, a1 \in Nat,
             q = [seq |-> a1, ts |-> 0, data |-> b1, version |-> c1,
                  prev |-> p1, hash |-> h1]
      PROVE  IsRow(q)
  BY <1>2 DEF IsRow
<1>3. ASSUME NEW q, q = [r EXCEPT !.data = d, !.version = v]
      PROVE  q = [seq |-> a, ts |-> 0, data |-> d, version |-> v,
                  prev |-> p, hash |-> h]
  BY <1>1, <1>3, Zenon
<1>4. ASSUME NEW q, q = [r EXCEPT !.seq = n]
      PROVE  q = [seq |-> n, ts |-> 0, data |-> b, version |-> c,
                  prev |-> p, hash |-> h]
  BY <1>1, <1>4
<1>5. ASSUME NEW q, q = [r EXCEPT !.prev = d]
      PROVE  q = [seq |-> a, ts |-> 0, data |-> b, version |-> c,
                  prev |-> d, hash |-> h]
  BY <1>1, <1>5
<1>6. ASSUME NEW q, q = [r EXCEPT !.hash = d]
      PROVE  q = [seq |-> a, ts |-> 0, data |-> b, version |-> c,
                  prev |-> p, hash |-> d]
  BY <1>1, <1>6
<1>7. IsRow([r EXCEPT !.data = d, !.version = v])
  BY <1>1, <1>2, <1>3, Zenon
<1>8. IsRow([r EXCEPT !.seq = n])
  BY <1>2, <1>4, Zenon
<1>9. IsRow([r EXCEPT !.prev = d])
  BY <1>1, <1>2, <1>5, Zenon
<1>10. IsRow([r EXCEPT !.hash = d])
  BY <1>1, <1>2, <1>6, Zenon
<1> QED
  BY <1>7, <1>8, <1>9, <1>10, Zenon

\* The primary key keeps the table a table.
LEMMA UpdateKeepsTable ==
  ASSUME IsTable(stored), NEW r \in stored, NEW new, IsRow(new), Update(r, new)
  PROVE  IsTable(stored')
<1>1. IsFiniteSet(stored \ {r})
  BY FS_RemoveElement, Zenon DEF IsTable
<1>2. IsFiniteSet(stored')
  BY <1>1, FS_AddElement, Zenon DEF Update
<1>3. \A s : s \in stored' <=> (s \in stored /\ s # r) \/ s = new
  BY Zenon DEF Update
<1>4. \A s, t \in stored' : s.seq = t.seq => s = t
  <2>1. \A s \in stored : s # r => s.seq # new.seq
    BY Zenon DEF Update, IsTable
  <2> QED
    BY <1>3, <2>1, Zenon DEF IsTable
<1> QED
  BY <1>2, <1>3, <1>4, Zenon DEF IsTable

\* No change in maintenance mode makes the table less than a table.
LEMMA TamperStep ==
  ASSUME TamperInv, [TamperNext]_tamperVars
  PROVE  TamperInv'
<1>1. CASE TamperNext
  <2>1. PICK r \in stored :
          Edit(r) \/ Renumber(r) \/ Relink(r) \/ Rehash(r) \/ Delete(r)
    BY <1>1, Zenon DEF TamperNext
  <2>2. IsRow(r) /\ IsTable(stored) /\ 0 \in Nat
    BY DEF TamperInv, IsTable
  <2>3. IsTable(stored')
    <3>1. CASE Edit(r)
      <4>1. PICK d, v : Update(r, [r EXCEPT !.data = d, !.version = v])
        BY <3>1, Zenon DEF Edit
      <4> QED
        BY <2>2, <4>1, RowChanged, UpdateKeepsTable, Zenon
    <3>2. CASE Renumber(r)
      <4>1. PICK n \in 0 .. Length + 1 : Update(r, [r EXCEPT !.seq = n])
        BY <3>2, Zenon DEF Renumber
      <4>2. n \in Nat
        BY VerifyAssumption
      <4> QED
        BY <2>2, <4>1, <4>2, RowChanged, UpdateKeepsTable, Zenon
    <3>3. CASE Relink(r)
      <4>1. PICK p : Update(r, [r EXCEPT !.prev = p])
        BY <3>3, Zenon DEF Relink
      <4> QED
        BY <2>2, <4>1, RowChanged, UpdateKeepsTable, Zenon
    <3>4. CASE Rehash(r)
      <4>1. PICK h : Update(r, [r EXCEPT !.hash = h])
        BY <3>4, Zenon DEF Rehash
      <4> QED
        BY <2>2, <4>1, RowChanged, UpdateKeepsTable, Zenon
    <3>5. CASE Delete(r)
      <4>1. IsFiniteSet(stored')
        BY <2>2, <3>5, FS_RemoveElement, Zenon DEF Delete, IsTable
      <4> QED
        BY <2>2, <3>5, <4>1, Zenon DEF Delete, IsTable
    <3> QED
      BY <2>1, <3>1, <3>2, <3>3, <3>4, <3>5, Zenon
  <2>4. original' = original
    BY <1>1, Zenon DEF TamperNext
  <2> QED
    BY <2>3, <2>4, Zenon DEF TamperInv, IsChain, IsTable
<1>2. CASE UNCHANGED tamperVars
  BY <1>2, Zenon DEF TamperInv, IsChain, IsTable, tamperVars
<1> QED
  BY <1>1, <1>2, Zenon

\* Whatever is changed, the stored rows stay a table beside the chain appended.
THEOREM TamperInvariance == TamperSpec => []TamperInv
<1>1. TamperInit => TamperInv
  BY TamperInitInv
<1>2. TamperInv /\ [TamperNext]_tamperVars => TamperInv'
  BY TamperStep
<1> QED
  BY <1>1, <1>2, PTL DEF TamperSpec

\* VerifyChain with an anchor: whatever was changed in the table, if it still
\* verifies against the head recorded at entry n it holds entries 1 .. n as
\* appended, for a chain of any length and any number of changes.
THEOREM AnchorsProtect == TamperSpec => []AnchorProtectsPrefix
<1>1. TamperInv => AnchorProtectsPrefix
  BY AnchorHolds, Zenon DEF AnchorProtectsPrefix
<1> QED
  BY <1>1, TamperInvariance, PTL

\* VerifyChain without an anchor: its report is valid exactly if all rows are
\* sound, and otherwise names the first that is not.
THEOREM ReportsExact == TamperSpec => []ReportIsExact
<1>1. TamperInv => ReportIsExact
  BY ExactReport, Zenon DEF TamperInv, IsTable
<1> QED
  BY <1>1, TamperInvariance, PTL

=============================================================================
