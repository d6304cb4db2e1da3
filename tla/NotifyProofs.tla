---------------------------- MODULE NotifyProofs ----------------------------
(***************************************************************************)
(* What the notification outbox keeps for any number of held actions, any    *)
(* finite set of replicas and channels, and any configuration.  First what   *)
(* a worker holds at each point of its pass (Shape), then the budget of      *)
(* sends, and last what the lease gives as long as no worker outstays it.   *)
(* Nothing is assumed of the settings, of clocks or of the time steps take. *)
(***************************************************************************)
EXTENDS Notify, TLAPS

\* Labels of a worker with a row in hand.
InHand == {"read", "send", "sending", "mark", "fail"}

Types ==
    /\ status \in [Actions -> {"absent", "pending", "reviewed"}]
    /\ DOMAIN wait = Rows
    /\ attempts \in [Rows -> Nat]
    /\ sent \in [Rows -> Nat]
    /\ delivered \in [Rows -> BOOLEAN]
    /\ pc \in [Workers -> Labels]
    /\ batch \in [Workers -> SUBSET ClaimedRow]
    /\ DOMAIN cur = Workers
    /\ age \in [Workers -> Nat]

\* What worker w holds: nothing before its claim, a row in hand only while it
\* deals with it, and no row twice.
Holds(w) ==
    /\ pc[w] \in {"idle", "claim"} => batch[w] = {}
    /\ pc[w] \in InHand => cur[w] \in ClaimedRow
    /\ pc[w] \notin InHand => cur[w] = NoRow
    /\ \A r, q \in batch[w] : r.key = q.key => r = q
    /\ pc[w] \in InHand => \A r \in batch[w] : r.key # cur[w].key

Shape == Types /\ \A w \in Workers : Holds(w)

\* Worker w may still send row n for an attempt already counted.
MaySend(w, n) ==
    \/ \E r \in batch[w] : r.key = n
    \/ pc[w] \in {"read", "send"} /\ cur[w].key = n

Unsent(n) == {w \in Workers : MaySend(w, n)}

\* Attempts counted and not yet spent cover the workers that may still send.
BudgetInv ==
    \A n \in Rows : /\ sent[n] + Cardinality(Unsent(n)) <= attempts[n]
                    /\ attempts[n] <= MaxAttempts

-----------------------------------------------------------------------------
\* Worker w has row n in its batch or in hand.
Holding(w, n) ==
    \/ \E r \in batch[w] : r.key = n
    \/ pc[w] \in InHand /\ cur[w].key = n

\* A row that worker w holds, and that nobody has outstayed, is leased for the
\* rest of w's lease, is not closed, and is in no other worker's hands.
LeaseInv ==
    \A w \in Workers, n \in Rows : Holding(w, n) /\ n \notin late =>
        /\ age[w] < Lease
        /\ wait[n] + age[w] = Lease /\ wait[n] \in Nat
        /\ ~delivered[n]
        /\ \A v \in Workers \ {w} : ~Holding(v, n)

-----------------------------------------------------------------------------
(* What a worker holds *)

\* A step of one worker leaves what the others hold alone.
LEMMA OthersKept ==
  ASSUME Types, NEW w \in Workers, WorkerStep(w) \/ Crash(w),
         NEW v \in Workers \ {w}
  PROVE  /\ pc'[v] = pc[v] /\ batch'[v] = batch[v] /\ cur'[v] = cur[v]
         /\ age'[v] = age[v] /\ late' = late
<1>1. pc'[v] = pc[v]
  BY Zenon DEF Types, WorkerStep, Crash, Enqueue, ClaimDueNotifications, TakeRow,
         ReadAction, Send, Answered, markDelivered, fail, Done, Goto
<1>2. batch'[v] = batch[v]
  BY Zenon DEF Types, WorkerStep, Crash, Enqueue, ClaimDueNotifications, TakeRow,
         ReadAction, Send, Answered, markDelivered, fail
<1>3. cur'[v] = cur[v]
  BY Zenon DEF Types, WorkerStep, Crash, Enqueue, ClaimDueNotifications, TakeRow,
         ReadAction, Send, Answered, markDelivered, fail, Done
<1>4. age'[v] = age[v] /\ late' = late
  BY Zenon DEF Types, WorkerStep, Crash, Enqueue, ClaimDueNotifications, TakeRow,
         ReadAction, Send, Answered, markDelivered, fail, histVars, leaseVars
<1> QED
  BY <1>1, <1>2, <1>3, <1>4, Zenon

\* The rows that a claim hands to its worker.
Claimed(rows) == {[key |-> n, attempts |-> attempts[n] + 1] : n \in rows}

\* A claim hands out rows of the outbox, each of them once.
LEMMA ClaimedRows ==
  ASSUME Types, NEW rows \in SUBSET Rows
  PROVE  /\ Claimed(rows) \in SUBSET ClaimedRow
         /\ \A r, q \in Claimed(rows) : r.key = q.key => r = q
         /\ \A n \in Rows : (\E r \in Claimed(rows) : r.key = n) <=> n \in rows
<1>1. \A n \in rows : n \in Rows /\ attempts[n] + 1 \in Nat
  BY DEF Types
<1>2. Claimed(rows) \in SUBSET ClaimedRow
  BY <1>1 DEF Claimed, ClaimedRow
<1>3. \A r, q \in Claimed(rows) : r.key = q.key => r = q
  BY DEF Claimed
<1>4. \A n \in Rows : (\E r \in Claimed(rows) : r.key = n) <=> n \in rows
  <2>1. \A n \in rows : /\ [key |-> n, attempts |-> attempts[n] + 1] \in Claimed(rows)
                        /\ [key |-> n, attempts |-> attempts[n] + 1].key = n
    BY Zenon DEF Claimed
  <2>2. \A r \in Claimed(rows) : r.key \in rows
    BY DEF Claimed
  <2> QED
    BY <2>1, <2>2, Zenon
<1> QED
  BY <1>2, <1>3, <1>4, Zenon

\* No row is not a leased one.
LEMMA NoRowIsNone == NoRow \notin ClaimedRow
  BY DEF NoRow, ClaimedRow

\* Every row that is claimed is in the outbox.
LEMMA ClaimableRows ==
  ASSUME NEW rows \in Claimable
  PROVE  rows \in SUBSET Rows /\ rows \subseteq Due
  BY Zenon DEF Claimable, Due

\* The sets that the variables stay in, whatever a worker does.
LEMMA TypesByWorker ==
  ASSUME Shape, NEW w \in Workers, WorkerStep(w) \/ Crash(w)
  PROVE  Types'
<1>0. Types /\ Holds(w)
  BY Zenon DEF Shape
<1>1. CASE Enqueue(w)
  BY <1>0, <1>1, Zenon DEF Types, Enqueue, Goto, Labels, histVars, leaseVars
<1>2. CASE ClaimDueNotifications(w)
  <2>1. UNCHANGED <<status, delivered, cur, sent>> /\ age' \in [Workers -> Nat]
    BY <1>0, <1>2 DEF Types, ClaimDueNotifications
  <2>2. pc' \in [Workers -> Labels]
    BY <1>0, <1>2 DEF Types, ClaimDueNotifications, Goto, Labels
  <2>3. \/ UNCHANGED <<attempts, wait, batch>>
        \/ \E rows \in Claimable :
             /\ LeaseRows(rows)
             /\ \/ batch' = [batch EXCEPT ![w] = Claimed(rows)]
                \/ UNCHANGED batch
    BY <1>2, Zenon DEF ClaimDueNotifications, Claimed
  <2>4. CASE UNCHANGED <<attempts, wait, batch>>
    BY <1>0, <2>1, <2>2, <2>4, Zenon DEF Types
  <2>5. ASSUME NEW rows \in Claimable, LeaseRows(rows),
               \/ batch' = [batch EXCEPT ![w] = Claimed(rows)]
               \/ UNCHANGED batch
        PROVE  Types'
    <3>1. DOMAIN wait' = Rows /\ attempts' \in [Rows -> Nat]
      BY <1>0, <2>5 DEF Types, LeaseRows
    <3>2. batch' \in [Workers -> SUBSET ClaimedRow]
      BY <1>0, <2>5, ClaimableRows, ClaimedRows DEF Types
    <3> QED
      BY <1>0, <2>1, <2>2, <3>1, <3>2, Zenon DEF Types
  <2> QED
    BY <2>3, <2>4, <2>5, Zenon
<1>3. CASE TakeRow(w)
  BY <1>0, <1>3 DEF Types, TakeRow, Goto, Labels, histVars, leaseVars, outbox
<1>4. CASE ReadAction(w)
  BY <1>0, <1>4, Zenon DEF Types, ReadAction, Goto, Labels, histVars, leaseVars, outbox
<1>5. CASE Send(w)
  <2>1. cur[w].key \in Rows
    BY <1>0, <1>5, Zenon DEF Holds, InHand, Send, ClaimedRow
  <2> QED
    BY <1>0, <1>5, <2>1 DEF Types, Send, Goto, Labels, outbox, leaseVars
<1>6. CASE Answered(w)
  BY <1>0, <1>6, Zenon DEF Types, Answered, Goto, Labels, outbox, leaseVars
<1>7. CASE markDelivered(w)
  BY <1>0, <1>7, Zenon DEF Types, markDelivered, Done, Goto, Labels, histVars, leaseVars
<1>8. CASE fail(w)
  BY <1>0, <1>8, Zenon DEF Types, fail, Done, Goto, Labels, histVars, leaseVars
<1>9. CASE Crash(w)
  BY <1>0, <1>9, Zenon DEF Types, Crash, Goto, Labels, histVars, leaseVars, outbox
<1> QED
  BY <1>1, <1>2, <1>3, <1>4, <1>5, <1>6, <1>7, <1>8, <1>9, Zenon DEF WorkerStep

\* What the worker itself holds after its step.
LEMMA HoldsByWorker ==
  ASSUME Shape, NEW w \in Workers, WorkerStep(w) \/ Crash(w)
  PROVE  Holds(w)'
<1>0. Types /\ Holds(w) /\ pc[w] \in Labels /\ batch[w] \in SUBSET ClaimedRow
  BY Zenon DEF Shape, Types
<1>1. CASE Enqueue(w)
  BY <1>0, <1>1, Zenon DEF Types, Holds, InHand, Enqueue, Goto
<1>2. CASE ClaimDueNotifications(w)
  <2>1. cur'[w] = NoRow /\ batch[w] = {}
    BY <1>0, <1>2, Zenon DEF ClaimDueNotifications, Holds, InHand
  <2>2. \/ batch' = batch /\ pc'[w] = "idle"
        \/ \E rows \in Claimable : /\ batch' = [batch EXCEPT ![w] = Claimed(rows)]
                                   /\ pc'[w] = "next"
    BY <1>0, <1>2, Zenon DEF Types, ClaimDueNotifications, Claimed, Goto
  <2>3. CASE batch' = batch /\ pc'[w] = "idle"
    BY <2>1, <2>3, Zenon DEF Holds, InHand
  <2>4. ASSUME NEW rows \in Claimable, pc'[w] = "next",
               batch' = [batch EXCEPT ![w] = Claimed(rows)]
        PROVE  Holds(w)'
    <3>1. batch'[w] = Claimed(rows)
      BY <1>0, <2>4, Zenon DEF Types
    <3>2. \A r, q \in batch'[w] : r.key = q.key => r = q
      BY <1>0, <3>1, ClaimableRows, ClaimedRows
    <3> QED
      BY <2>1, <2>4, <3>2, Zenon DEF Holds, InHand
  <2> QED
    BY <2>2, <2>3, <2>4, Zenon
<1>3. CASE TakeRow(w)
  <2>1. CASE batch[w] = {} /\ pc'[w] = "idle" /\ UNCHANGED <<cur, batch>>
    BY <1>0, <1>3, <2>1, Zenon DEF Holds, InHand, TakeRow
  <2>2. ASSUME NEW row \in batch[w], pc'[w] = "read", cur'[w] = row,
               batch'[w] = batch[w] \ {row}
        PROVE  Holds(w)'
    BY <1>0, <2>2, Zenon DEF Holds, InHand
  <2> QED
    BY <1>0, <1>3, <2>1, <2>2, Zenon DEF Types, TakeRow, Goto
<1>4. CASE ReadAction(w)
  BY <1>0, <1>4, Zenon DEF Types, Holds, InHand, ReadAction, Goto
<1>5. CASE Send(w)
  BY <1>0, <1>5, Zenon DEF Types, Holds, InHand, Send, Goto
<1>6. CASE Answered(w)
  BY <1>0, <1>6, Zenon DEF Types, Holds, InHand, Answered, Goto
<1>7. CASE markDelivered(w)
  BY <1>0, <1>7, Zenon DEF Types, Holds, InHand, markDelivered, Done, Goto
<1>8. CASE fail(w)
  BY <1>0, <1>8, Zenon DEF Types, Holds, InHand, fail, Done, Goto
<1>9. CASE Crash(w)
  BY <1>0, <1>9, Zenon DEF Types, Holds, InHand, Crash, Goto
<1> QED
  BY <1>1, <1>2, <1>3, <1>4, <1>5, <1>6, <1>7, <1>8, <1>9, Zenon DEF WorkerStep

\* At each point of its pass a worker holds what the code gave it: nothing before
\* the claim, one row in hand while it is dealt with, and no row twice.
THEOREM ShapeInvariance == Spec => []Shape
<1>1. Init => Shape
  BY DEF Init, Shape, Types, Holds, InHand, Labels
<1>2. ASSUME Shape, [Next]_vars PROVE Shape'
  <2>1. ASSUME NEW a \in Actions, Hold(a) \/ Review(a) PROVE Shape'
    BY <1>2, <2>1, ZenonT(30) DEF Shape, Types, Holds, Hold, Review, outbox, workerVars, histVars, leaseVars
  <2>2. ASSUME NEW w \in Workers, WorkerStep(w) \/ Crash(w) PROVE Shape'
    <3>1. Types' /\ Holds(w)'
      BY <1>2, <2>2, TypesByWorker, HoldsByWorker, Zenon
    <3>2. ASSUME NEW v \in Workers \ {w} PROVE Holds(v)'
      <4>1. Holds(v) /\ Types
        BY <1>2, <3>2, Zenon DEF Shape
      <4>2. pc'[v] = pc[v] /\ batch'[v] = batch[v] /\ cur'[v] = cur[v]
        BY <2>2, <3>2, <4>1, OthersKept, Zenon
      <4> QED
        BY <4>1, <4>2, Zenon DEF Holds
    <3> QED
      BY <3>1, <3>2, Zenon DEF Shape
  <2>3. CASE Tick
    <3>1. age' \in [Workers -> Nat]
      BY <1>2, <2>3, NotifyAssumption DEF Shape, Types, Tick
    <3> QED
      BY <1>2, <2>3, <3>1, Zenon DEF Shape, Types, Holds, Tick
  <2>4. CASE UNCHANGED vars
    BY <1>2, <2>4, Zenon DEF Shape, Types, Holds, vars, outbox, workerVars, histVars, leaseVars
  <2> QED
    BY <1>2, <2>1, <2>2, <2>3, <2>4, Zenon DEF Next
<1> QED
  BY <1>1, <1>2, PTL DEF Spec

-----------------------------------------------------------------------------
(* The budget of sends *)

\* What a worker's step does to the account of row n: it spends an attempt that
\* it held, or counts one that was still free, or neither.
LEMMA AccountByWorker ==
  ASSUME Shape, NEW w \in Workers, WorkerStep(w) \/ Crash(w), NEW n \in Rows
  PROVE  \/ /\ sent'[n] = sent[n] /\ attempts'[n] = attempts[n]
            /\ MaySend(w, n)' => MaySend(w, n)
         \/ /\ sent'[n] = sent[n] /\ attempts'[n] = attempts[n] + 1
            /\ attempts[n] < MaxAttempts
         \/ /\ sent'[n] = sent[n] + 1 /\ attempts'[n] = attempts[n]
            /\ MaySend(w, n) /\ ~MaySend(w, n)'
<1>0. Types /\ Holds(w)
  BY Zenon DEF Shape
<1>1. CASE Enqueue(w)
  BY <1>0, <1>1, Zenon DEF Types, Holds, MaySend, Enqueue, Goto, histVars
<1>2. CASE ClaimDueNotifications(w)
  <2>1. sent'[n] = sent[n] /\ cur' = cur /\ batch[w] = {}
    BY <1>0, <1>2, Zenon DEF ClaimDueNotifications, histVars, Holds
  <2>2. \/ pc'[w] = "idle" /\ UNCHANGED <<attempts, batch>>
        \/ \E rows \in Claimable :
             /\ LeaseRows(rows)
             /\ \/ /\ batch' = [batch EXCEPT ![w] = Claimed(rows)]
                   /\ pc'[w] = "next"
                \/ UNCHANGED batch /\ pc'[w] = "idle"
    BY <1>0, <1>2, Zenon DEF Types, ClaimDueNotifications, Claimed, Goto
  <2>3. CASE pc'[w] = "idle" /\ UNCHANGED <<attempts, batch>>
    BY <2>1, <2>3, Zenon DEF MaySend
  <2>4. ASSUME NEW rows \in Claimable, LeaseRows(rows),
               \/ /\ batch' = [batch EXCEPT ![w] = Claimed(rows)]
                  /\ pc'[w] = "next"
               \/ UNCHANGED batch /\ pc'[w] = "idle"
        PROVE  \/ /\ attempts'[n] = attempts[n] /\ ~MaySend(w, n)'
               \/ attempts'[n] = attempts[n] + 1 /\ attempts[n] < MaxAttempts
    <3>1. CASE n \in rows
      BY <2>4, <3>1, ClaimableRows, Zenon DEF LeaseRows, Due
    <3>2. CASE n \notin rows
      <4>1. attempts'[n] = attempts[n]
        BY <2>4, <3>2, Zenon DEF LeaseRows
      <4>2. \A r \in batch'[w] : r.key # n
        BY <1>0, <2>1, <2>4, <3>2, ClaimableRows, ClaimedRows DEF Types
      <4> QED
        BY <2>4, <4>1, <4>2, Zenon DEF MaySend
    <3> QED
      BY <3>1, <3>2, Zenon
  <2> QED
    BY <2>1, <2>2, <2>3, <2>4, Zenon
<1>3. CASE TakeRow(w)
  BY <1>0, <1>3 DEF Types, Holds, MaySend, TakeRow, Goto, histVars, outbox
<1>4. CASE ReadAction(w)
  BY <1>0, <1>4, Zenon DEF Types, Holds, MaySend, ReadAction, Goto, histVars, outbox
<1>5. CASE Send(w)
  <2>1. /\ pc[w] = "send" /\ pc'[w] = "sending" /\ cur[w].key \in Rows
        /\ batch' = batch /\ attempts' = attempts
        /\ sent' = [sent EXCEPT ![cur[w].key] = @ + 1]
    BY <1>0, <1>5, Zenon DEF Types, Holds, InHand, ClaimedRow, Send, Goto, outbox
  <2>2. CASE n = cur[w].key
    BY <1>0, <2>1, <2>2, Zenon DEF Types, Holds, InHand, MaySend
  <2>3. CASE n # cur[w].key
    BY <1>0, <2>1, <2>3, Zenon DEF Types, MaySend
  <2> QED
    BY <2>2, <2>3, Zenon
<1>6. CASE Answered(w)
  BY <1>0, <1>6, Zenon DEF Types, MaySend, Answered, Goto, outbox
<1>7. CASE markDelivered(w)
  BY <1>0, <1>7, Zenon DEF Types, MaySend, markDelivered, Done, Goto, histVars
<1>8. CASE fail(w)
  BY <1>0, <1>8, Zenon DEF Types, MaySend, fail, Done, Goto, histVars
<1>9. CASE Crash(w)
  BY <1>0, <1>9, Zenon DEF Types, MaySend, Crash, Goto, histVars, outbox
<1> QED
  BY <1>1, <1>2, <1>3, <1>4, <1>5, <1>6, <1>7, <1>8, <1>9, Zenon DEF WorkerStep

\* What a worker's step does to row n: it leaves the row alone, has done with it,
\* or leases it.
LEMMA RowByWorker ==
  ASSUME Shape, NEW w \in Workers, WorkerStep(w) \/ Crash(w), NEW n \in Rows
  PROVE  \/ /\ wait'[n] = wait[n] /\ delivered'[n] = delivered[n]
            /\ Holding(w, n)' => Holding(w, n) /\ age'[w] = age[w]
         \/ Holding(w, n) /\ ~Holding(w, n)'
         \/ /\ n \in Due /\ wait'[n] = Lease /\ delivered'[n] = delivered[n]
            /\ Holding(w, n)' => age'[w] = 0
<1>0. Types /\ Holds(w)
  BY Zenon DEF Shape
<1>1. CASE Enqueue(w)
  BY <1>0, <1>1, Zenon DEF Types, Holds, Holding, InHand, Enqueue, Goto, histVars, leaseVars
<1>2. CASE ClaimDueNotifications(w)
  <2>1. /\ pc[w] = "claim" /\ batch[w] = {} /\ cur' = cur
        /\ delivered'[n] = delivered[n]
    BY <1>0, <1>2, Zenon DEF ClaimDueNotifications, Holds
  <2>2. \/ pc'[w] = "idle" /\ UNCHANGED <<wait, batch>>
        \/ \E rows \in Claimable :
             /\ LeaseRows(rows)
             /\ \/ /\ batch' = [batch EXCEPT ![w] = Claimed(rows)]
                   /\ pc'[w] = "next" /\ age'[w] = 0
                \/ UNCHANGED batch /\ pc'[w] = "idle"
    BY <1>0, <1>2, Zenon DEF Types, ClaimDueNotifications, Claimed, Goto
  <2>3. CASE pc'[w] = "idle" /\ UNCHANGED <<wait, batch>>
    BY <2>1, <2>3, Zenon DEF Holding, InHand
  <2>4. ASSUME NEW rows \in Claimable, LeaseRows(rows),
               \/ /\ batch' = [batch EXCEPT ![w] = Claimed(rows)]
                  /\ pc'[w] = "next" /\ age'[w] = 0
               \/ UNCHANGED batch /\ pc'[w] = "idle"
        PROVE  \/ wait'[n] = wait[n] /\ ~Holding(w, n)'
               \/ /\ n \in Due /\ wait'[n] = Lease
                  /\ Holding(w, n)' => age'[w] = 0
    <3>1. CASE n \in rows
      <4>1. n \in Due /\ wait'[n] = Lease
        BY <2>4, <3>1, ClaimableRows, Zenon DEF LeaseRows
      <4>2. Holding(w, n)' => age'[w] = 0
        BY <2>1, <2>4, Zenon DEF Holding, InHand
      <4> QED
        BY <4>1, <4>2, Zenon
    <3>2. CASE n \notin rows
      <4>1. wait'[n] = wait[n]
        BY <2>4, <3>2, Zenon DEF LeaseRows
      <4>2. \A r \in batch'[w] : r.key # n
        BY <1>0, <2>1, <2>4, <3>2, ClaimableRows, ClaimedRows DEF Types
      <4> QED
        BY <2>4, <4>1, <4>2, Zenon DEF Holding, InHand
    <3> QED
      BY <3>1, <3>2, Zenon
  <2> QED
    BY <2>1, <2>2, <2>3, <2>4, ZenonT(30)
<1>3. CASE TakeRow(w)
  BY <1>0, <1>3 DEF Types, Holds, Holding, InHand, TakeRow, Goto, outbox, histVars, leaseVars
<1>4. CASE ReadAction(w)
  BY <1>0, <1>4, Zenon DEF Types, Holding, InHand, ReadAction, Goto, outbox, histVars, leaseVars
<1>5. CASE Send(w)
  BY <1>0, <1>5, Zenon DEF Types, Holding, InHand, Send, Goto, outbox, histVars, leaseVars
<1>6. CASE Answered(w)
  BY <1>0, <1>6, Zenon DEF Types, Holding, InHand, Answered, Goto, outbox, histVars, leaseVars
<1>7. CASE markDelivered(w) \/ fail(w)
  <2>1. /\ pc[w] \in {"mark", "fail"} /\ pc'[w] = "next" /\ batch' = batch
        /\ cur[w].key \in Rows /\ age' = age
    BY <1>0, <1>7, Zenon DEF Types, Holds, InHand, ClaimedRow, markDelivered, fail, Done, Goto,
                             histVars, leaseVars
  <2>2. CASE n = cur[w].key
    BY <1>0, <2>1, <2>2, Zenon DEF Holds, Holding, InHand
  <2>3. CASE n # cur[w].key
    <3>1. wait'[n] = wait[n] /\ delivered'[n] = delivered[n]
      BY <1>0, <1>7, <2>1, <2>3, Zenon DEF Types, markDelivered, fail
    <3> QED
      BY <2>1, <2>3, <3>1, Zenon DEF Holding, InHand
  <2> QED
    BY <2>2, <2>3, Zenon
<1>8. CASE Crash(w)
  BY <1>0, <1>8, Zenon DEF Types, Holding, InHand, Crash, Goto, outbox, histVars, leaseVars
<1> QED
  BY <1>1, <1>2, <1>3, <1>4, <1>5, <1>6, <1>7, <1>8, Zenon DEF WorkerStep

\* Facts about cardinality are needed from here on.
INSTANCE FiniteSetTheorems

\* The cardinality of sets of workers that differ in one worker at most.
LEMMA OneWorker ==
  ASSUME NEW S \in SUBSET Workers, NEW T \in SUBSET Workers, NEW w \in Workers
  PROVE  /\ Cardinality(S) \in Nat /\ Cardinality(T) \in Nat
         /\ S \subseteq T => Cardinality(S) <= Cardinality(T)
         /\ S \subseteq T \cup {w} => Cardinality(S) <= Cardinality(T) + 1
         /\ S \subseteq T \ {w} /\ w \in T => Cardinality(S) + 1 <= Cardinality(T)
<1>1. IsFiniteSet(S) /\ IsFiniteSet(T)
  BY NotifyAssumption, FS_Subset, Zenon
<1>2. Cardinality(S) \in Nat /\ Cardinality(T) \in Nat
  BY <1>1, FS_CardinalityType, Zenon
<1>3. S \subseteq T => Cardinality(S) <= Cardinality(T)
  BY <1>1, FS_Subset, Zenon
<1>4. ASSUME S \subseteq T \cup {w} PROVE Cardinality(S) <= Cardinality(T) + 1
  <2>1. /\ IsFiniteSet(T \cup {w})
        /\ Cardinality(T \cup {w}) \in {Cardinality(T), Cardinality(T) + 1}
    BY <1>1, FS_AddElement, Zenon
  <2>2. Cardinality(S) <= Cardinality(T \cup {w})
    BY <1>4, <2>1, FS_Subset, Zenon
  <2> QED
    BY <1>2, <2>1, <2>2
<1>5. ASSUME S \subseteq T \ {w}, w \in T PROVE Cardinality(S) + 1 <= Cardinality(T)
  <2>1. IsFiniteSet(T \ {w}) /\ Cardinality(T \ {w}) = Cardinality(T) - 1
    BY <1>1, <1>5, FS_RemoveElement, Zenon
  <2>2. Cardinality(S) <= Cardinality(T \ {w})
    BY <1>5, <2>1, FS_Subset, Zenon
  <2> QED
    BY <1>2, <2>1, <2>2
<1> QED
  BY <1>2, <1>3, <1>4, <1>5, Zenon

\* The budget of row n after a worker's step.
LEMMA BudgetByWorker ==
  ASSUME Shape, Shape', NEW w \in Workers, WorkerStep(w) \/ Crash(w),
         NEW n \in Rows,
         sent[n] + Cardinality(Unsent(n)) <= attempts[n],
         attempts[n] <= MaxAttempts
  PROVE  /\ sent'[n] + Cardinality(Unsent(n)') <= attempts'[n]
         /\ attempts'[n] <= MaxAttempts
<1>1. \A v \in Workers \ {w} : MaySend(v, n)' <=> MaySend(v, n)
  BY OthersKept, Zenon DEF Shape, MaySend
<1>2. /\ Unsent(n) \in SUBSET Workers /\ Unsent(n)' \in SUBSET Workers
      /\ Unsent(n)' \subseteq Unsent(n) \cup {w}
  BY <1>1, Zenon DEF Unsent
<1>3. /\ sent[n] \in Nat /\ sent'[n] \in Nat /\ MaxAttempts \in Nat
      /\ attempts[n] \in Nat /\ attempts'[n] \in Nat
  BY NotifyAssumption, Zenon DEF Shape, Types
<1>4. /\ Cardinality(Unsent(n)) \in Nat /\ Cardinality(Unsent(n)') \in Nat
      /\ Cardinality(Unsent(n)') <= Cardinality(Unsent(n)) + 1
  BY <1>2, OneWorker, Zenon
<1>5. CASE /\ sent'[n] = sent[n] /\ attempts'[n] = attempts[n]
           /\ MaySend(w, n)' => MaySend(w, n)
  <2>1. Unsent(n)' \subseteq Unsent(n)
    BY <1>1, <1>5, Zenon DEF Unsent
  <2>2. Cardinality(Unsent(n)') <= Cardinality(Unsent(n))
    BY <1>2, <2>1, OneWorker, Zenon
  <2> QED
    BY <1>3, <1>4, <1>5, <2>2
<1>6. CASE /\ sent'[n] = sent[n] /\ attempts'[n] = attempts[n] + 1
           /\ attempts[n] < MaxAttempts
  BY <1>3, <1>4, <1>6
<1>7. CASE /\ sent'[n] = sent[n] + 1 /\ attempts'[n] = attempts[n]
           /\ MaySend(w, n) /\ ~MaySend(w, n)'
  <2>1. Unsent(n)' \subseteq Unsent(n) \ {w} /\ w \in Unsent(n)
    BY <1>1, <1>7, Zenon DEF Unsent
  <2>2. Cardinality(Unsent(n)') + 1 <= Cardinality(Unsent(n))
    BY <1>2, <2>1, OneWorker, Zenon
  <2> QED
    BY <1>3, <1>4, <1>7, <2>2
<1> QED
  BY <1>5, <1>6, <1>7, AccountByWorker, Zenon

\* ClaimDueNotifications counts an attempt in the statement that hands the row
\* out, so a row is sent at most maxAttempts times: by however many replicas,
\* whatever leases expire and whatever statements fail or processes die.
THEOREM BudgetTheorem == Spec => []SendBudget
<1>1. Init => BudgetInv
  <2> SUFFICES ASSUME Init, NEW n \in Rows
               PROVE  /\ sent[n] + Cardinality(Unsent(n)) <= attempts[n]
                      /\ attempts[n] <= MaxAttempts
    BY Zenon DEF BudgetInv
  <2>1. Unsent(n) = {}
    BY Zenon DEF Init, Unsent, MaySend
  <2>2. Cardinality(Unsent(n)) = 0
    BY <2>1, FS_EmptySet, Zenon
  <2> QED
    BY <2>2, NotifyAssumption DEF Init
<1>2. ASSUME BudgetInv, Shape, Shape', [Next]_vars PROVE BudgetInv'
  <2>1. ASSUME NEW w \in Workers, WorkerStep(w) \/ Crash(w) PROVE BudgetInv'
    BY <1>2, <2>1, BudgetByWorker, Zenon DEF BudgetInv
  <2>2. ASSUME UNCHANGED <<pc, batch, cur, sent, attempts>> PROVE BudgetInv'
    <3>1. \A n \in Rows : Unsent(n)' = Unsent(n)
      BY <2>2, Zenon DEF Unsent, MaySend
    <3> QED
      BY <1>2, <2>2, <3>1, Zenon DEF BudgetInv
  <2> QED
    BY <1>2, <2>1, <2>2, Zenon DEF Next, Hold, Review, Tick, vars, outbox, workerVars, histVars
<1>3. ASSUME BudgetInv, Shape PROVE SendBudget
  <2> SUFFICES ASSUME NEW n \in Rows
               PROVE  sent[n] <= attempts[n] /\ attempts[n] <= MaxAttempts
    BY Zenon DEF SendBudget
  <2>1. Unsent(n) \in SUBSET Workers /\ sent[n] \in Nat /\ attempts[n] \in Nat
    BY <1>3, Zenon DEF Unsent, Shape, Types
  <2>2. Cardinality(Unsent(n)) \in Nat
    BY <2>1, NotifyAssumption, FS_Subset, FS_CardinalityType, Zenon
  <2> QED
    BY <1>3, <2>1, <2>2 DEF BudgetInv
<1> QED
  BY <1>1, <1>2, <1>3, ShapeInvariance, PTL DEF Spec

-----------------------------------------------------------------------------
(* The lease *)

\* A worker's step keeps the lease of every row that some worker holds.
LEMMA LeaseByWorker ==
  ASSUME Shape, Shape', LeaseInv, NEW w \in Workers, WorkerStep(w) \/ Crash(w)
  PROVE  LeaseInv'
<1>1. \A v \in Workers \ {w} :
        /\ age'[v] = age[v]
        /\ \A n \in Rows : Holding(v, n)' <=> Holding(v, n)
  BY OthersKept, Zenon DEF Shape, Holding
<1>2. late' = late
  BY Zenon DEF WorkerStep, Crash, Enqueue, ClaimDueNotifications, TakeRow, ReadAction,
         Send, Answered, markDelivered, fail, histVars, leaseVars
<1>3. \A v \in Workers, n \in Rows : n \in Due /\ n \notin late => ~Holding(v, n)
  <2> SUFFICES ASSUME NEW v \in Workers, NEW n \in Rows, n \in Due, n \notin late,
                      Holding(v, n)
               PROVE  FALSE
    BY Zenon
  <2>1. wait[n] = 0 /\ age[v] < Lease /\ wait[n] + age[v] = Lease
    BY Zenon DEF LeaseInv, Due
  <2>2. age[v] \in Nat /\ Lease \in Nat
    BY NotifyAssumption, Zenon DEF Shape, Types
  <2> QED
    BY <2>1, <2>2
<1>4. ASSUME NEW v \in Workers, NEW n \in Rows, Holding(v, n)', n \notin late
      PROVE  /\ age'[v] < Lease
             /\ wait'[n] + age'[v] = Lease /\ wait'[n] \in Nat
             /\ ~delivered'[n]
             /\ \A u \in Workers \ {v} : ~Holding(u, n)'
  <2>1. CASE v = w
    <3>1. CASE /\ wait'[n] = wait[n] /\ delivered'[n] = delivered[n]
               /\ Holding(w, n) /\ age'[w] = age[w]
      <4>1. /\ age[w] < Lease /\ wait[n] + age[w] = Lease /\ wait[n] \in Nat
            /\ ~delivered[n]
            /\ \A u \in Workers \ {w} : ~Holding(u, n)
        BY <1>4, <3>1, Zenon DEF LeaseInv
      <4> QED
        BY <1>1, <2>1, <3>1, <4>1, Zenon
    <3>2. CASE /\ n \in Due /\ age'[w] = 0
               /\ wait'[n] = Lease /\ delivered'[n] = delivered[n]
      <4>1. 0 < Lease /\ Lease + 0 = Lease /\ Lease \in Nat
        BY NotifyAssumption
      <4>2. ~delivered[n] /\ \A u \in Workers \ {w} : ~Holding(u, n)
        BY <1>3, <1>4, <3>2, Zenon DEF Due
      <4> QED
        BY <1>1, <2>1, <3>2, <4>1, <4>2, Zenon
    <3> QED
      BY <1>4, <2>1, <3>1, <3>2, RowByWorker, Zenon
  <2>2. CASE v # w
    <3>1. /\ Holding(v, n) /\ ~delivered[n]
          /\ age[v] < Lease /\ wait[n] + age[v] = Lease /\ wait[n] \in Nat
          /\ \A u \in Workers \ {v} : ~Holding(u, n)
      BY <1>1, <1>4, <2>2, Zenon DEF LeaseInv
    <3>2. n \notin Due /\ ~Holding(w, n)
      BY <1>3, <1>4, <2>2, <3>1, Zenon
    <3>3. wait'[n] = wait[n] /\ delivered'[n] = delivered[n] /\ ~Holding(w, n)'
      BY <3>2, RowByWorker, Zenon
    <3> QED
      BY <1>1, <2>2, <3>1, <3>3, Zenon
  <2> QED
    BY <2>1, <2>2, Zenon
<1> QED
  BY <1>2, <1>4, Zenon DEF LeaseInv

\* What a worker has leased, by key.
LEMMA LeasedIsHeld ==
  ASSUME Shape, NEW w \in Workers
  PROVE  /\ \A row \in Leased(w) : row.key \in Rows /\ Holding(w, row.key)
         /\ \A n \in Rows : Holding(w, n) => \E row \in Leased(w) : row.key = n
<1>1. ASSUME NEW row \in Leased(w) PROVE row.key \in Rows /\ Holding(w, row.key)
  <2>1. CASE row \in batch[w]
    BY <2>1, SMTT(30) DEF Shape, Types, ClaimedRow, Holding
  <2>2. CASE row = cur[w] /\ cur[w] # NoRow
    <3>1. pc[w] \in InHand /\ cur[w] \in ClaimedRow
      BY <2>2, Zenon DEF Shape, Holds
    <3> QED
      BY <2>2, <3>1, Zenon DEF ClaimedRow, Holding
  <2> QED
    BY <1>1, <2>1, <2>2, Zenon DEF Leased
<1>2. ASSUME NEW n \in Rows, Holding(w, n) PROVE \E row \in Leased(w) : row.key = n
  <2>1. CASE \E r \in batch[w] : r.key = n
    BY <2>1, Zenon DEF Leased
  <2>2. CASE pc[w] \in InHand /\ cur[w].key = n
    <3>1. cur[w] # NoRow
      BY <2>2, NoRowIsNone, Zenon DEF Shape, Holds
    <3> QED
      BY <2>2, <3>1, Zenon DEF Leased
  <2> QED
    BY <1>2, <2>1, <2>2, Zenon DEF Holding
<1> QED
  BY <1>1, <1>2, Zenon

\* A tick takes from the lease what it adds to the time a row has been held, and
\* records who has reached the end of the lease.
LEMMA LeaseByTick ==
  ASSUME Shape, LeaseInv, Tick
  PROVE  LeaseInv'
<1>1. /\ UNCHANGED <<pc, batch, cur, delivered>>
      /\ \A v \in Workers, n \in Rows : Holding(v, n)' <=> Holding(v, n)
  BY Zenon DEF Tick, Holding
<1>2. ASSUME NEW v \in Workers, NEW n \in Rows, Holding(v, n), n \notin late'
      PROVE  /\ age'[v] < Lease
             /\ wait'[n] + age'[v] = Lease /\ wait'[n] \in Nat
             /\ n \notin late
  <2>1. \E row \in Leased(v) : row.key = n
    BY <1>2, LeasedIsHeld, Zenon
  <2>2. n \notin late /\ ~Outstayed(v)
    BY <1>2, <2>1, Zenon DEF Tick
  <2>3. /\ age'[v] = age[v] + 1
        /\ wait'[n] = IF wait[n] > 0 THEN wait[n] - 1 ELSE 0
    BY <2>1, <2>2, Zenon DEF Tick
  <2>4. age[v] \in Nat /\ Lease \in Nat
    BY NotifyAssumption, Zenon DEF Shape, Types
  <2>5. wait[n] \in Nat /\ wait[n] + age[v] = Lease /\ age[v] < Lease
    BY <1>2, <2>2, Zenon DEF LeaseInv
  <2> QED
    BY <2>2, <2>3, <2>4, <2>5 DEF Outstayed
<1>3. \A v \in Workers, n \in Rows : Holding(v, n) /\ n \notin late =>
        ~delivered[n] /\ \A u \in Workers \ {v} : ~Holding(u, n)
  BY Zenon DEF LeaseInv
<1> QED
  BY <1>1, <1>2, <1>3, Zenon DEF LeaseInv

\* As long as nobody has held a row for longer than the lease, the lease of the
\* row runs exactly for what is left of its holder's time.
LEMMA LeaseInvariance == Spec => []LeaseInv
<1>1. ASSUME Init PROVE LeaseInv
  BY <1>1, Zenon DEF Init, LeaseInv, Holding, InHand
<1>2. ASSUME LeaseInv, Shape, Shape', [Next]_vars PROVE LeaseInv'
  <2>1. ASSUME NEW w \in Workers, WorkerStep(w) \/ Crash(w) PROVE LeaseInv'
    BY <1>2, <2>1, LeaseByWorker, Zenon
  <2>2. CASE Tick
    BY <1>2, <2>2, LeaseByTick, Zenon
  <2>3. ASSUME UNCHANGED <<outbox, workerVars, leaseVars>> PROVE LeaseInv'
    BY <1>2, <2>3, Zenon DEF LeaseInv, Holding, outbox, workerVars, leaseVars
  <2> QED
    BY <1>2, <2>1, <2>2, <2>3, Zenon DEF Next, Hold, Review, vars, histVars
<1> QED
  BY <1>1, <1>2, ShapeInvariance, PTL DEF Spec

\* The lease of ClaimDueNotifications keeps replicas apart, for any settings,
\* pauses and clocks: two replicas hold the same row only once some worker has
\* held it for longer than the lease, and until then the lease of whoever holds
\* it is running.
THEOREM LeaseTheorem == Spec => []LeaseIsExclusive
<1>1. ASSUME LeaseInv, Shape PROVE LeaseIsExclusive
  <2>1. \A w \in Workers : \A row \in Leased(w) :
          row.key \in Rows /\ Holding(w, row.key)
    BY <1>1, LeasedIsHeld, Zenon
  <2>2. \A w \in Workers, n \in Rows : Holding(w, n) /\ n \notin late =>
          wait[n] > 0 /\ \A v \in Workers \ {w} : ~Holding(v, n)
    <3> SUFFICES ASSUME NEW w \in Workers, NEW n \in Rows, Holding(w, n), n \notin late
                 PROVE  wait[n] > 0 /\ \A v \in Workers \ {w} : ~Holding(v, n)
      BY Zenon
    <3>1. /\ wait[n] \in Nat /\ wait[n] + age[w] = Lease /\ age[w] < Lease
          /\ \A v \in Workers \ {w} : ~Holding(v, n)
      BY <1>1, Zenon DEF LeaseInv
    <3>2. age[w] \in Nat /\ Lease \in Nat
      BY <1>1, NotifyAssumption, Zenon DEF Shape, Types
    <3>3. wait[n] > 0
      BY <3>1, <3>2
    <3> QED
      BY <3>1, <3>3, Zenon
  <2> QED
    BY <2>1, <2>2, Zenon DEF LeaseIsExclusive
<1> QED
  BY <1>1, LeaseInvariance, ShapeInvariance, PTL

\* A row that markDelivered has closed is never sent again unless some worker has
\* outstayed its lease: nobody holds it then, and ClaimDueNotifications passes it
\* over.
THEOREM ClosedTheorem == Spec => NotSentAgain
<1> DEFINE Sent == \A n \in Rows : delivered[n] /\ n \notin late => sent'[n] = sent[n]
<1>1. ASSUME LeaseInv, Shape, [Next]_vars PROVE [Sent]_vars
  <2>1. ASSUME NEW w \in Workers, Send(w) PROVE Sent
    <3>1. /\ cur[w].key \in Rows /\ Holding(w, cur[w].key)
          /\ sent' = [sent EXCEPT ![cur[w].key] = @ + 1]
      BY <1>1, <2>1, Zenon DEF Shape, Holds, Holding, InHand, ClaimedRow, Send
    <3>2. cur[w].key \in late \/ ~delivered[cur[w].key]
      BY <1>1, <3>1, Zenon DEF LeaseInv
    <3> QED
      BY <1>1, <3>1, <3>2, Zenon DEF Shape, Types
  <2>2. ASSUME NEW w \in Workers, WorkerStep(w) \/ Crash(w)
        PROVE  Send(w) \/ UNCHANGED sent
    BY <2>2, Zenon DEF WorkerStep, Crash, Enqueue, ClaimDueNotifications, TakeRow,
                ReadAction, Answered, markDelivered, fail, histVars
  <2>3. ASSUME NEW a \in Actions, Hold(a) \/ Review(a) PROVE UNCHANGED sent
    BY <2>3, Zenon DEF Hold, Review, histVars
  <2>4. Tick => UNCHANGED sent
    BY Zenon DEF Tick
  <2>5. UNCHANGED sent => Sent
    BY Zenon
  <2> QED
    BY <1>1, <2>1, <2>2, <2>3, <2>4, <2>5, Zenon DEF Next
<1> QED
  BY <1>1, LeaseInvariance, ShapeInvariance, PTL DEF Spec, NotSentAgain

=============================================================================
