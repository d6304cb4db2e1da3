------------------------------- MODULE Server -------------------------------
(***************************************************************************)
(* The process of backend/cmd/server/main.go, in several replicas: start     *)
(* (configuration, Postgres, migrations, policy), serving requests through   *)
(* the middleware chains, and the drain on SIGTERM.                         *)
(*                                                                         *)
(* A step of main is what happens between two waits.  Time counts for the    *)
(* rate limiter only; the timers of the drain may run out at any moment.     *)
(***************************************************************************)
EXTENDS Access, Migrations, FiniteSets

CONSTANTS
    Requests,           \* numbered in the order of their arrival
    Configs,            \* configurations the replicas may be given
    Bearers,            \* tokens that requests present
    SessionIdentities,  \* identities of SSO sessions that requests present
    SlackEmails,        \* addresses of people who click in Slack
    Burst,              \* cfg.RateLimitBurst
    Token, RPS,         \* units of a token, and units that flow in per tick: their
                        \* quotient is cfg.RateLimitRPS, which may be a fraction
    MaxAttempts,        \* of connectPostgres
    MaxStarts,          \* bound: starts of all replicas
    MaxTime,            \* bound: the last instant
    MaxFaults           \* bound: failures, and crashes

ASSUME ServerAssumption ==
    /\ {Burst, Token, MaxAttempts} \subseteq Nat \ {0}
    /\ {RPS, MaxStarts, MaxTime, MaxFaults} \subseteq Nat
    /\ IsFiniteSet(Requests)
    /\ Nobody \notin Replicas /\ Dead \notin Replicas

VARIABLES
    cfg,        \* the configuration, the same for all replicas
    pc,         \* main of each replica
    attempts, signalled, starts,
    bucket,     \* the limiter's buckets
    req,
    now, faults

mainVars == <<pc, attempts, signalled, starts>>

vars == <<cfg, mainVars, migrationVars, bucket, req, now, faults>>

\* on: the process it was sent to, while that runs; spent: it took a token of that
\* process, at instant `at'.
NoRequest == [state |-> "idle", on |-> Nobody, route |-> "none", id |-> NoID,
              spent |-> FALSE, at |-> 0, status |-> 0]

Fault == faults < MaxFaults /\ faults' = faults + 1

NoFault == UNCHANGED faults

Agents(c) == {identities(c)[t].id : t \in DOMAIN identities(c)}

\* What a bucket holds at most, in units.
Capacity == Burst * Token

FullBuckets == [i \in Agents(cfg) |-> [tokens |-> Capacity, last |-> 0]]

Init ==
    /\ cfg \in Configs
    /\ pc = [r \in Replicas |-> "off"]
    /\ attempts = [r \in Replicas |-> 0]
    /\ signalled = [r \in Replicas |-> FALSE]
    /\ starts = 0
    /\ MigrationsInit
    /\ bucket = [r \in Replicas |-> FullBuckets]
    /\ req = [q \in Requests |-> NoRequest]
    /\ now = 0
    /\ faults = 0

-----------------------------------------------------------------------------
(* Start *)

Goto(r, label) == pc' = [pc EXCEPT ![r] = label]

Serving(q, r) == req[q].state = "running" /\ req[q].on = r

\* The process is gone, and with it the requests it was serving.
Exit(r) ==
    /\ Goto(r, "off")
    /\ attempts' = [attempts EXCEPT ![r] = 0]
    /\ signalled' = [signalled EXCEPT ![r] = FALSE]
    /\ bucket' = [bucket EXCEPT ![r] = FullBuckets]
    /\ req' = [q \in Requests |->
                 IF req[q].on # r THEN req[q]
                 ELSE IF req[q].state = "running" THEN [NoRequest EXCEPT !.state = "cut"]
                 ELSE [req[q] EXCEPT !.on = Nobody, !.spent = FALSE, !.at = 0]]
    /\ UNCHANGED <<cfg, starts, now>>

\* config.Load and Validate
Start(r) ==
    /\ pc[r] = "off"
    /\ starts < MaxStarts
    /\ starts' = starts + 1
    /\ IF Validate(cfg) THEN Goto(r, "connect") ELSE UNCHANGED pc
    /\ UNCHANGED <<cfg, attempts, signalled, migrationVars, bucket, req,
                   now, faults>>

\* SIGTERM or SIGINT: ctx of main is cancelled.
Signal(r) ==
    /\ pc[r] # "off"
    /\ ~signalled[r]
    /\ signalled' = [signalled EXCEPT ![r] = TRUE]
    /\ UNCHANGED <<cfg, pc, attempts, starts, migrationVars, bucket, req,
                   now, faults>>

\* One attempt: a ping fails when Postgres is away or the context is cancelled.
connectPostgres(r) ==
    /\ pc[r] = "connect"
    /\ UNCHANGED migrationVars
    /\ \/ /\ ~signalled[r]
          /\ Goto(r, "migrate")
          /\ NoFault
          /\ UNCHANGED <<cfg, attempts, signalled, starts, bucket, req, now>>
       \/ /\ ~signalled[r] /\ attempts[r] + 1 < MaxAttempts
          /\ attempts' = [attempts EXCEPT ![r] = @ + 1]
          /\ NoFault
          /\ UNCHANGED <<cfg, pc, signalled, starts, bucket, req, now>>
       \/ signalled[r] /\ Exit(r) /\ NoFault
       \/ attempts[r] + 1 = MaxAttempts /\ Exit(r) /\ NoFault

\* The statements of db.Migrate run under ctx.
Migrate(r) ==
    /\ ~signalled[r]
    /\ \/ pc[r] = "migrate" /\ Lock(r) /\ Goto(r, "migrating")
       \/ pc[r] = "migrating" /\ Apply(r) /\ UNCHANGED pc
       \/ pc[r] = "migrating" /\ Commit(r) /\ Goto(r, "policy")
    /\ UNCHANGED <<cfg, attempts, signalled, starts, bucket, req, now, faults>>

\* A statement fails or is cancelled; a commit may fail after it took effect.
MigrateFails(r) ==
    /\ pc[r] \in {"migrate", "migrating"}
    /\ Exit(r)
    /\ \/ Rollback(r) /\ signalled[r] /\ NoFault
       \/ Rollback(r) /\ ~signalled[r] /\ Fault
       \/ pc[r] = "migrating" /\ Commit(r) /\ Fault

\* opaengine.New and what follows up to the listener and the workers.
Serve(r) ==
    /\ pc[r] = "policy"
    /\ UNCHANGED migrationVars
    /\ \/ /\ Goto(r, "serving")
          /\ NoFault
          /\ UNCHANGED <<cfg, attempts, signalled, starts, bucket, req, now>>
       \/ Exit(r) /\ Fault

-----------------------------------------------------------------------------
(* Drain *)

\* ready.Store(false) and workerCancel
Drain(r) ==
    /\ pc[r] = "serving"
    /\ signalled[r]
    /\ Goto(r, "draining")
    /\ UNCHANGED <<cfg, attempts, signalled, starts, migrationVars, bucket,
                   req, now, faults>>

\* The replay worker has returned or five seconds have passed, ShutdownDrainDelay
\* is over, and so is metricsSrv.Shutdown, which may use up the ten seconds it shares
\* with the next step; the listener closes.
CloseListener(r) ==
    /\ pc[r] = "draining"
    /\ Goto(r, "shutdown")
    /\ UNCHANGED <<cfg, attempts, signalled, starts, migrationVars, bucket, req, now,
                   faults>>

\* Mutant: shutdown has no deadline.
ShutdownForever(r) ==
    /\ pc[r] = "shutdown"
    /\ ~ \E q \in Requests : Serving(q, r)
    /\ Exit(r)
    /\ UNCHANGED <<migrationVars, faults>>

\* srv.Shutdown returns when nothing is being served or the time is over; then main
\* returns, and cuts off whoever is still being served.
Shutdown(r) ==
    /\ pc[r] = "shutdown"
    /\ Exit(r)
    /\ UNCHANGED <<migrationVars, faults>>

\* The listener fails, which is Fatal; or the process is killed.
Dies(r) ==
    /\ pc[r] # "off"
    /\ Fault
    /\ Exit(r)
    /\ Orphan(r)

-----------------------------------------------------------------------------
(* Requests: the chains of buildHTTPHandler *)

Listening(r) == pc[r] \in {"serving", "draining"}

ready(r) == pc[r] = "serving"

\* Mutant: a new limiter is not kept.
getFresh(r, i) == [tokens |-> Capacity, last |-> now]

\* rateLimiter.get: the limiter of an identity, full when it is first asked for.
get(r, i) == bucket[r][i]

\* rate.Limiter: what is in a bucket now.
tokens(b) ==
    LET n == b.tokens + RPS * (now - b.last) IN IF n < Capacity THEN n ELSE Capacity

Allow(r, i) == tokens(get(r, i)) >= Token

Take(r, i) ==
    LET b == [tokens |-> tokens(get(r, i)) - Token, last |-> now]
    IN bucket' = [bucket EXCEPT ![r] = [@ EXCEPT ![i] = b]]

\* Request q runs if the result is 200, and is answered with the result otherwise.
Passes(q, r, route, result) ==
    req' = [req EXCEPT ![q] =
        IF result.status = 200
        THEN [NoRequest EXCEPT !.state = "running", !.on = r,
                               !.route = route, !.id = result.id, !.status = 200]
        ELSE [NoRequest EXCEPT !.state = "refused"]]

\* An authenticated request on the agent route, limited or counted.
Counted(q, r, who, spent, status) ==
    req' = [req EXCEPT ![q] =
        [state |-> IF status = 200 THEN "running" ELSE "answered", on |-> r,
         route |-> "agent", id |-> who.id, spent |-> spent, at |-> now,
         status |-> status]]

\* Authentication, then the limiter, then the role.
agentChain(q, r) ==
    \E t \in Bearers :
        LET who == Middleware(cfg, [bearer |-> t]) IN
        \/ /\ ready(r) /\ who.status = 200 /\ Allow(r, who.id)
           /\ Take(r, who.id)
           /\ Counted(q, r, who, TRUE, RequireRole({"agent"}, who).status)
        \/ /\ ready(r) /\ who.status = 200 /\ ~Allow(r, who.id)
           /\ Counted(q, r, who, FALSE, 429)
           /\ UNCHANGED bucket
        \/ /\ ~ready(r) \/ who.status # 200
           /\ Passes(q, r, "agent", IF ready(r) THEN who ELSE Reject(503))
           /\ UNCHANGED bucket

humanChain(q, r) ==
    /\ \E t \in Bearers, s \in SessionIdentities \cup {NoSession}, g \in BOOLEAN :
         LET who == HumanMiddleware(cfg, [bearer |-> t, session |-> s, guarded |-> g])
         IN Passes(q, r, IF t = "none" THEN "session" ELSE "human",
                   IF ready(r) THEN RequireRole({"reviewer", "admin"}, who)
                   ELSE Reject(503))
    /\ UNCHANGED bucket

\* slackapp.New: who may decide in Slack.
reviewers == {ToLower(TrimSpace(i)) : i \in cfg.slack}

\* The Slack app decides for its listed reviewers (module SlackApp) and turns the
\* others away, in the thread.
slackChain(q, r) ==
    /\ cfg.slack # {}
    /\ \E m \in SlackEmails :
         LET email == ToLower(m) IN
         Passes(q, r, "slack",
                IF ~ready(r) THEN Reject(503)
                ELSE IF email \in reviewers
                     THEN [status |-> 200, id |-> email, role |-> "none"]
                     ELSE Reject(403))
    /\ UNCHANGED bucket

\* Sign-in and health checks are served until the listener closes.
publicChain(q, r) ==
    /\ Passes(q, r, "public", [status |-> 200, id |-> NoID, role |-> "none"])
    /\ UNCHANGED bucket

Arrive(q, r) ==
    /\ req[q].state = "idle"
    /\ \A p \in Requests : p < q => req[p].state # "idle"
    /\ Listening(r)
    /\ agentChain(q, r) \/ humanChain(q, r) \/ slackChain(q, r) \/ publicChain(q, r)
    /\ UNCHANGED <<cfg, mainVars, migrationVars, now, faults>>

Finish(q) ==
    /\ req[q].state = "running"
    /\ req' = [req EXCEPT ![q] = [@ EXCEPT !.state = "answered"]]
    /\ UNCHANGED <<cfg, mainVars, migrationVars, bucket, now, faults>>

Tick ==
    /\ now < MaxTime
    /\ now' = now + 1
    /\ UNCHANGED <<cfg, mainVars, migrationVars, bucket, req, faults>>

PostgresEnds ==
    /\ SessionEnds
    /\ UNCHANGED <<cfg, mainVars, bucket, req, now, faults>>

Main(r) ==
    \/ connectPostgres(r) \/ Migrate(r) \/ MigrateFails(r) \/ Serve(r)
    \/ Drain(r) \/ CloseListener(r) \/ Shutdown(r)

Next ==
    \/ \E r \in Replicas : Start(r) \/ Signal(r) \/ Main(r) \/ Dies(r)
    \/ \E q \in Requests, r \in Replicas : Arrive(q, r)
    \/ \E q \in Requests : Finish(q)
    \/ Tick \/ PostgresEnds

Spec == Init /\ [][Next]_vars

\* main runs on and its timers run out; Postgres ends the sessions of processes
\* that are gone.  Requests and the replay worker may take for ever.
FairSpec ==
    /\ Spec
    /\ \A r \in Replicas : WF_vars(Main(r))
    /\ WF_vars(PostgresEnds)

-----------------------------------------------------------------------------
(* Properties *)

Up(r) == pc[r] \in {"serving", "draining", "shutdown"}

\* Replicas of different versions may start, fail and crash together: migrations
\* are applied once, in the order of their numbers and a binary's all or none,
\* and nobody serves before its own are committed.
RolloutIsSafe ==
    /\ \A i, j \in DOMAIN applied :
         i < j => migrationNumber(applied[i]) < migrationNumber(applied[j])
    /\ \E S \in SUBSET Replicas : Names(applied) = UNION {Embedded[r] : r \in S}
    /\ \A r \in Replicas : Up(r) => Embedded[r] \subseteq Names(applied)

\* Nobody is for ever starting or stopping, whatever the other replicas, the requests
\* and the replay worker do and however Postgres fails, as long as it answers or ends
\* a statement: a start ends, and so does a process that was told to stop.
StartsAndStops ==
    \A r \in Replicas :
        []<>(pc[r] = "off" \/ (pc[r] = "serving" /\ ~signalled[r]))

\* Tokens that the process of r gave identity i in an interval.
Spent(r, i, from, to) ==
    Cardinality({q \in Requests : /\ req[q].spent
                                   /\ req[q].on = r
                                   /\ req[q].id = i /\ req[q].at \in from .. to})

\* What an identity gets in the end, in units: in no interval more than the burst
\* and the rate grant, whatever it asks for and whatever is refused, and it is
\* answered 429 only when one more token would exceed the grant of some interval
\* that ends then.
RateIsExact ==
    \A q \in Requests : LET p == req[q]
                            used(from) == Token * Spent(p.on, p.id, from, p.at)
                            granted(from) == Capacity + RPS * (p.at - from) IN
        /\ p.spent => \A from \in 0 .. p.at : used(from) <= granted(from)
        /\ p.status = 429 /\ p.on # Nobody =>
             \E from \in 0 .. p.at : used(from) + Token > granted(from)

\* An address that the configuration lists with space around it.
Padded(i) == \E m \in cfg.slack : TrimSpace(m) # m /\ ToLower(TrimSpace(m)) = i

\* No key of an agent and key of a reviewer or admin have the same identity, letter
\* for letter, and nobody decides in Slack under the address, in whatever case, of
\* an agent: except one that is listed with space around it, which the check on the
\* configuration compares with the space and the Slack app without.  Identities of
\* sessions are not compared with those of agents.
DutiesAreSeparate ==
    \A p, q \in Requests :
        req[p].route = "agent" /\ req[p].status = 200 /\ req[q].status = 200 =>
            /\ req[q].route = "human" => req[p].id # req[q].id
            /\ req[q].route = "slack" =>
                 ToLower(req[p].id) # req[q].id \/ Padded(req[q].id)

=============================================================================
