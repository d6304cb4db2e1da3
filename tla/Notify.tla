------------------------------- MODULE Notify -------------------------------
(***************************************************************************)
(* The notification outbox of backend/internal/notify: every replica's      *)
(* worker queues the held actions for every channel, leases what is due and  *)
(* sends it.  Time passes in ticks: wait[n] is what is left until            *)
(* next_attempt_at of row n on the clock of the database.  Time passes       *)
(* during every step of a worker, during a send up to the client's timeout. *)
(***************************************************************************)
EXTENDS Integers, FiniteSets

CONSTANTS
    Actions,        \* held actions
    Channels,       \* channel names
    Workers,        \* replicas
    Configured,     \* Configured[w]: channels in the configuration of w
    MaxAttempts,    \* maxAttempts
    BatchSize,      \* batchSize
    Lease,          \* ticks of the two-minute lease
    SendTimeout,    \* ticks of the HTTP client's timeout
    BackoffBase, BackoffCap,
    MaxSkew,        \* how far a replica's clock may be from the database's
    MaxFaults       \* bound: failed statements, crashes, and ticks during
                    \* a step other than a send

ASSUME NotifyAssumption ==
    /\ IsFiniteSet(Workers)
    /\ Configured \in [Workers -> SUBSET Channels]
    /\ {MaxAttempts, BatchSize, Lease, SendTimeout, BackoffBase, BackoffCap}
         \subseteq Nat \ {0}
    /\ {MaxSkew, MaxFaults} \subseteq Nat

VARIABLES
    status,     \* status of the held actions: "absent", "pending", "reviewed"
    \* the outbox: created[n] = 0 for a row that does not exist, else the rank
    \* of the INSERT that created it
    created, attempts, wait, delivered,
    \* workers: leased rows to be sent, the row in hand, ticks spent sending,
    \* and whether the ticker has fired since the pass began
    pc, batch, cur, timer, ticker,
    \* history: calls of Send, 2xx answers, ticks since a worker leased what it
    \* holds, and the rows that some worker has held for longer than the lease
    sent, accepted, age, late,
    faults

outbox     == <<created, attempts, wait, delivered>>
workerVars == <<pc, batch, cur, timer, ticker>>
leaseVars  == <<age, late>>
histVars   == <<sent, accepted, leaseVars>>
vars == <<status, outbox, workerVars, histVars, faults>>

Rows == Actions \X Channels

ClaimedRow == [key : Rows, attempts : Nat]

NoRow == [key |-> <<>>]

Labels == {"idle", "claim", "next", "read", "send", "sending", "mark", "fail"}

Init ==
    /\ status = [a \in Actions |-> "absent"]
    /\ created = [n \in Rows |-> 0]
    /\ attempts = [n \in Rows |-> 0]
    /\ wait = [n \in Rows |-> 0]
    /\ delivered = [n \in Rows |-> FALSE]
    /\ pc = [w \in Workers |-> "idle"]
    /\ batch = [w \in Workers |-> {}]
    /\ cur = [w \in Workers |-> NoRow]
    /\ timer = [w \in Workers |-> 0]
    /\ ticker = [w \in Workers |-> TRUE]
    /\ sent = [n \in Rows |-> 0]
    /\ accepted = [n \in Rows |-> 0]
    /\ age = [w \in Workers |-> 0]
    /\ late = {}
    /\ faults = 0

Fault == faults < MaxFaults /\ faults' = faults + 1

NoFault == UNCHANGED faults

Goto(w, label) ==
    /\ pc' = [pc EXCEPT ![w] = label]
    /\ timer' = [timer EXCEPT ![w] = 0]

-----------------------------------------------------------------------------
(* The quarantine beside the outbox: module Quarantine has the details. *)

Hold(a) ==
    /\ status[a] = "absent"
    /\ status' = [status EXCEPT ![a] = "pending"]
    /\ UNCHANGED <<outbox, workerVars, histVars, faults>>

Review(a) ==
    /\ status[a] = "pending"
    /\ status' = [status EXCEPT ![a] = "reviewed"]
    /\ UNCHANGED <<outbox, workerVars, histVars, faults>>

-----------------------------------------------------------------------------
(* Worker.ProcessOnce *)

\* INSERT ... WHERE status = 'pending' ON CONFLICT DO NOTHING
Enqueued(w) ==
    {n \in Rows : /\ status[n[1]] = "pending"
                  /\ n[2] \in Configured[w]
                  /\ created[n] = 0}

\* Rows inserted by one statement share their created_at.
NextRank == 1 + Cardinality({created[n] : n \in Rows} \ {0})

EnqueueHeldNotifications(w) ==
    created' = [n \in Rows |->
                  IF n \in Enqueued(w) THEN NextRank ELSE created[n]]

\* A pass begins; the insert may commit although it reports an error.
Enqueue(w) ==
    /\ pc[w] = "idle"
    /\ ticker[w]
    /\ Configured[w] # {}
    /\ ticker' = [ticker EXCEPT ![w] = FALSE]
    /\ \/ EnqueueHeldNotifications(w) /\ Goto(w, "claim") /\ NoFault
       \/ /\ EnqueueHeldNotifications(w) \/ UNCHANGED created
          /\ UNCHANGED <<pc, timer>>
          /\ Fault
    /\ UNCHANGED <<status, attempts, wait, delivered, batch, cur, histVars>>

\* Mutants: delivered rows are claimed again, a failed row is never tried again.
DueAgain ==
    {n \in Rows : created[n] # 0 /\ attempts[n] < MaxAttempts /\ wait[n] = 0}

DueOnce ==
    {n \in Rows : /\ created[n] # 0 /\ ~delivered[n]
                  /\ attempts[n] = 0 /\ wait[n] = 0}

Due == {n \in Rows : /\ created[n] # 0
                     /\ ~delivered[n]
                     /\ attempts[n] < MaxAttempts
                     /\ wait[n] = 0}

\* ORDER BY created_at LIMIT $2: any of the oldest due rows.
Claimable ==
    {rows \in SUBSET Due :
        /\ Cardinality(rows) = IF Cardinality(Due) < BatchSize
                               THEN Cardinality(Due) ELSE BatchSize
        /\ \A n \in rows, m \in Due \ rows : created[n] <= created[m]}

\* Mutants: the claim is not counted, or takes no lease.
LeaseUncounted(rows) ==
    /\ UNCHANGED attempts
    /\ wait' = [n \in Rows |-> IF n \in rows THEN Lease ELSE wait[n]]

LeaseNothing(rows) ==
    /\ attempts' = [n \in Rows |->
                      IF n \in rows THEN attempts[n] + 1 ELSE attempts[n]]
    /\ UNCHANGED wait

LeaseRows(rows) ==
    /\ attempts' = [n \in Rows |->
                      IF n \in rows THEN attempts[n] + 1 ELSE attempts[n]]
    /\ wait' = [n \in Rows |-> IF n \in rows THEN Lease ELSE wait[n]]

\* The lease may be taken although the statement reports an error.
ClaimDueNotifications(w) ==
    /\ pc[w] = "claim"
    /\ \/ \E rows \in Claimable :
            /\ LeaseRows(rows)
            /\ \/ /\ batch' = [batch EXCEPT ![w] =
                        {[key |-> n, attempts |-> attempts[n] + 1] : n \in rows}]
                  /\ age' = [age EXCEPT ![w] = 0]
                  /\ Goto(w, "next")
                  /\ NoFault
               \/ UNCHANGED <<batch, age>> /\ Goto(w, "idle") /\ Fault
       \/ UNCHANGED <<attempts, wait, batch, age>> /\ Goto(w, "idle") /\ Fault
    /\ UNCHANGED <<status, created, delivered, cur, ticker, sent, accepted, late>>

TakeRow(w) ==
    /\ pc[w] = "next"
    /\ \/ \E row \in batch[w] :
            /\ cur' = [cur EXCEPT ![w] = row]
            /\ batch' = [batch EXCEPT ![w] = @ \ {row}]
            /\ Goto(w, "read")
       \/ /\ batch[w] = {}
          /\ Goto(w, "idle")
          /\ UNCHANGED <<cur, batch>>
    /\ UNCHANGED <<status, outbox, ticker, histVars, faults>>

-----------------------------------------------------------------------------
(* Worker.deliver: one leased row *)

\* A row of a channel that is not configured, and one whose action is no longer
\* pending, are closed unsent.
ReadAction(w) ==
    LET n == cur[w].key IN
    /\ pc[w] = "read"
    /\ \/ n[2] \notin Configured[w] /\ Goto(w, "mark") /\ NoFault
       \/ /\ n[2] \in Configured[w]
          /\ \/ status[n[1]] # "pending" /\ Goto(w, "mark") /\ NoFault
             \/ status[n[1]] = "pending" /\ Goto(w, "send") /\ NoFault
             \/ Goto(w, "fail") /\ Fault
    /\ UNCHANGED <<status, outbox, batch, cur, ticker, histVars>>

\* Channel.Send: the request leaves, and is answered or times out.
Send(w) ==
    /\ pc[w] = "send"
    /\ Goto(w, "sending")
    /\ sent' = [sent EXCEPT ![cur[w].key] = @ + 1]
    /\ UNCHANGED <<status, outbox, batch, cur, ticker, accepted, leaseVars, faults>>

Answered(w) ==
    /\ pc[w] = "sending"
    /\ \/ /\ Goto(w, "mark")
          /\ accepted' = [accepted EXCEPT ![cur[w].key] = @ + 1]
       \/ Goto(w, "fail") /\ UNCHANGED accepted
    /\ UNCHANGED <<status, outbox, batch, cur, ticker, sent, leaseVars, faults>>

Done(w) == Goto(w, "next") /\ cur' = [cur EXCEPT ![w] = NoRow]

markDelivered(w) ==
    /\ pc[w] = "mark"
    /\ Done(w)
    /\ \/ delivered' = [delivered EXCEPT ![cur[w].key] = TRUE] /\ NoFault
       \/ UNCHANGED delivered /\ Fault
    /\ UNCHANGED <<status, created, attempts, wait, batch, ticker, histVars>>

\* 15s << max(attempts - 1, 0), at most an hour
backoff(n) ==
    LET d == BackoffBase * 2 ^ (IF n > 0 THEN n - 1 ELSE 0)
    IN  IF d < BackoffCap THEN d ELSE BackoffCap

\* next_attempt_at comes from the clock of the replica, and the row is written
\* whoever has leased it by now.
fail(w) ==
    LET row == cur[w] IN
    /\ pc[w] = "fail"
    /\ Done(w)
    /\ \/ /\ \E skew \in -MaxSkew .. MaxSkew :
               LET left == backoff(row.attempts) + skew IN
               wait' = [wait EXCEPT ![row.key] = IF left > 0 THEN left ELSE 0]
          /\ NoFault
       \/ UNCHANGED wait /\ Fault
    /\ UNCHANGED <<status, created, attempts, delivered, batch, ticker, histVars>>

\* The process ends and another takes its place, whose first pass begins at once.
Crash(w) ==
    /\ pc[w] # "idle"
    /\ Fault
    /\ Goto(w, "idle")
    /\ batch' = [batch EXCEPT ![w] = {}]
    /\ cur' = [cur EXCEPT ![w] = NoRow]
    /\ ticker' = [ticker EXCEPT ![w] = TRUE]
    /\ UNCHANGED <<status, outbox, histVars>>

\* The rows worker w has leased and not yet dealt with.
Leased(w) == batch[w] \cup (IF cur[w] = NoRow THEN {} ELSE {cur[w]})

\* What w has leased has been with it for the whole lease at the next tick.
Outstayed(w) == age[w] + 1 >= Lease

\* Time passes, whatever the workers are doing.  A tick is not shorter than the
\* interval of the polling ticker, which holds at most one firing.
Tick ==
    /\ \A w \in Workers : pc[w] = "sending" => timer[w] < SendTimeout
    /\ IF \A w \in Workers : pc[w] \in {"idle", "sending"} THEN NoFault ELSE Fault
    /\ wait' = [n \in Rows |-> IF wait[n] > 0 THEN wait[n] - 1 ELSE 0]
    /\ timer' = [w \in Workers |->
                   IF pc[w] = "sending" THEN timer[w] + 1 ELSE timer[w]]
    /\ ticker' = [w \in Workers |-> TRUE]
    /\ age' = [w \in Workers |->
                 IF Leased(w) = {} THEN 0
                 ELSE IF Outstayed(w) THEN Lease ELSE age[w] + 1]
    /\ late' = late \cup {n \in Rows : \E w \in Workers :
                            Outstayed(w) /\ \E row \in Leased(w) : row.key = n}
    /\ UNCHANGED <<status, created, attempts, delivered, pc, batch, cur, sent,
                   accepted>>

-----------------------------------------------------------------------------
WorkerStep(w) ==
    \/ Enqueue(w)
    \/ ClaimDueNotifications(w)
    \/ TakeRow(w)
    \/ ReadAction(w)
    \/ Send(w)
    \/ Answered(w)
    \/ markDelivered(w)
    \/ fail(w)

Next ==
    \/ \E a \in Actions : Hold(a) \/ Review(a)
    \/ \E w \in Workers : WorkerStep(w) \/ Crash(w)
    \/ Tick

Spec == Init /\ [][Next]_vars

\* Workers run, and time never stops for good (without a fault, a Tick waits for
\* the workers).  Nobody has to hold or review anything.
FairSpec ==
    /\ Spec
    /\ \A w \in Workers : WF_vars(WorkerStep(w))
    /\ SF_vars(Tick)

-----------------------------------------------------------------------------
(* Properties *)

\* A row is sent at most maxAttempts times, whatever leases expire and whatever
\* statements fail or processes die in between.
SendBudget == \A n \in Rows : sent[n] <= attempts[n] /\ attempts[n] <= MaxAttempts

\* Whatever the settings, the pauses and the clocks: as long as no worker has held
\* a row for longer than the lease it took, the lease of whoever holds the row is
\* still running, and nobody else holds it.  So two replicas never deal with one
\* row unless one of them outstays its lease, which 25 sends of 10 s may do.
LeaseIsExclusive ==
    \A w \in Workers : \A row \in Leased(w) :
        row.key \notin late =>
            /\ wait[row.key] > 0
            /\ \A v \in Workers \ {w} : \A other \in Leased(v) :
                 other.key # row.key

\* A row that has been closed is never sent again, by any replica, unless a worker
\* has held it for longer than its lease.
NotSentAgain ==
    [][\A n \in Rows : delivered[n] /\ n \notin late => sent'[n] = sent[n]]_vars

\* The channel has it, its attempts are used up, or a replica that does not have
\* the channel closed the row.
Settled(n) ==
    \/ accepted[n] > 0
    \/ attempts[n] = MaxAttempts
    \/ delivered[n] /\ \E w \in Workers : n[2] \notin Configured[w]

\* Every held action is announced on every channel that all replicas have, unless
\* it is reviewed first or its attempts are used up: it does not stay pending and
\* unsettled for good. A failed send closes nothing.
Announced ==
    \A n \in Rows : []<>(status[n[1]] = "pending" => Settled(n))

-----------------------------------------------------------------------------
(* What the documentation says of the outbox, and the code does not keep *)

\* docs/API.md:562, "replicas never send the same notification concurrently".
NeverConcurrent ==
    \A v, w \in Workers :
        /\ v # w
        /\ pc[v] = "sending" /\ pc[w] = "sending"
        => cur[v].key # cur[w].key

=============================================================================
