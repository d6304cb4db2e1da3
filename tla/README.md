# Elodea: TLA+ models and proofs

Elodea sits between AI agents and an MCP server. Every tool call is evaluated
against Rego policy; it is forwarded, denied, or held until a person approves it,
and each decision is appended to a hash-chained ledger before anything happens.
Several replicas share one Postgres database. The models here are translated from
the Go code under `backend/`; TLC checks them on small instances and TLAPS proves
the safety properties of the passing runs for every value of their constants.

## The system and its parts

| part | code | module | status |
| --- | --- | --- | --- |
| proxy ingress, MCP codec | `internal/proxy`, `internal/mcp` | `Ingress` | modelled, proved |
| policy engine | `internal/opaengine`, `policystore/handler.go` | `PolicyEngine` | modelled, proved |
| quarantine and replay worker | `internal/quarantine`, `db/quarantine.sql.go` | `Quarantine`, `HeldAction` | modelled, proved |
| audit ledger | `internal/ledger`, `db/ledger.sql.go`, migration 005 | `LedgerChain`, `Ledger`, `AuditLog`, `LedgerScan`, `LedgerReaders`, `LedgerVerify` | modelled, proved |
| notification outbox | `internal/notify`, `db/notify.sql.go` | `Notify` | modelled, proved |
| single sign-on sessions | `internal/sso`, `db/auth.sql.go` | `Sessions` | modelled, proved |
| Slack app | `internal/slackapp`, `quarantine/handler.go` | `SlackApp` | modelled, proved |
| server start, chains, rate limit, drain | `cmd/server` | `Server` | modelled, proved |
| schema migrations | `internal/db/migrate.go` | `Migrations`, in `Server` | modelled, proved |
| bearer tokens and roles | `internal/auth` | `Access`, in `Server` | modelled, proved |
| configuration | `internal/config` | `Access`, in `Server` | what is about identities |
| dashboard, policy listing, metrics | | | no state of their own |

How they interact: a request is parsed (`Ingress`), decided under the active
bundle (`PolicyEngine`), ledgered (`Ledger`), and then forwarded, denied or stored
(`Quarantine`). `Notify` reads pending rows of the quarantine and announces them;
reviewers sign in through `Sessions`, or click in Slack (`SlackApp`), and decide; the
replay worker of some replica re-checks policy, ledgers `replay_started`, calls the upstream and ledgers the
outcome. Each module models the others by what it relies on: `Quarantine` and
`Ingress` use `Append` as `AuditLog` promises it (one row or none, and an error
leaves either possible), `Notify` sees held actions appear and be reviewed,
`SlackApp` instantiates `HeldAction` for all that the console and the workers do to
a row, and `Ingress` takes any decision that `PolicyEngine` can make. `Server`
composes `Access` and `Migrations` with the life of the process; when it returns, or
dies, the workers of the other modules crash.

## Modules

**Quarantine.** State: the columns `status`, `attempts` and `resolvedBy` of each row;
the advisory lock; for each worker a program counter, the claimed batch and the row
in hand *as it was read*; for each reviewer the request between its UPDATE and its
ledger entry; and history counters of calls, write-ahead entries and 2xx answers.
An action is what a process does between two round trips. `TryLock`, `Recover`,
`Claim` and `Drain` are `ProcessOnce`; `StartReplay`, `ParkExhausted`,
`ParkBlocked`, `WriteAhead`, `Post`, `Answered2xx`, `AnsweredError`, `Succeed`,
`Release`, `Defer` and `RecordOutcome` are `processClaimed` and what it calls;
`Approve`, `Deny` and `RecordDecision` are the handlers, `Create` the ingress.
Every statement may fail before or after it takes effect, and a worker may crash
anywhere. `HeldAction` is what a reviewer is promised of one action: its state
machine and a bounded number of calls for each approval.

**LedgerChain, Ledger.** `LedgerChain` has the pure part: `normalizeTimestamp`,
the rounding of Postgres and `calculateHash` (a hash is modelled by what it is
computed from). `LedgerScan` has what reads the table back: `Stream`, `Page` and
`VerifyChain`. `Ledger` is `Append` as a
process of statements, `BeginTx`, `Lock`, `ReadTip`, `Insert`, `Commit`, with
`Abort` (error paths), `SerializationFailure` and `Retry`. `AuditLog` is its
abstract specification. `LedgerReaders` adds exports, verifications and paging
beside the appends. `LedgerVerify` builds a chain, changes it as maintenance mode
allows (`Edit`, `Renumber`, `Relink`, `Rehash`, `Delete`), and compares the report of
`VerifyChain` with a reference definition. `VerifyChain` is a recursive function over
the rows of the stream (`Reports`), one call of its callback (`VerifyEntry`) a row.

**Notify.** The outbox of every replica's worker in discrete time: `Enqueue`,
`ClaimDueNotifications` (a lease and a counted attempt), `TakeRow`, `ReadAction`,
`Send`, `Answered`, `markDelivered`, `fail` with `backoff`, crashes, and `Tick`.
Time may also pass while a worker is between two statements; such a pause counts as
a fault. Leases run on the clock of Postgres, backoffs on that of a replica, which
differs by up to `MaxSkew`. `age` and `late` are history: how long a worker has held
its rows, and which rows were held for longer than their lease. Replicas may be
configured for different channels.

**PolicyEngine.** A bundle is a sequence of file contents that is read file by file,
once for the fingerprint and once for the load, while it is edited. Reloaders run
`bundleVersion`, `Load`, `Reject` or `Publish`; the watcher runs
`WatchForChanges` and `Compare` first. A request takes query and version together
(`Snapshot`) and is decided later (`Decide`), failing closed (`evaluate`).

**Ingress.** A body and its headers are abstracted to what `validateIngress` and
`validateMirroredHeaders` tell apart. `Reject`, `Evaluate`, `Record`, `Forward`,
`Respond`, `WriteDeny`, `Create` and `StoreFailed` are the steps of `ServeHTTP`;
`Execute` is the upstream, which may act even when nobody waits any more.

**Sessions.** A login attempt, the callbacks that present its state, the sessions
they create, and requests that present a cookie. `now` is the clock of Postgres;
expiries and the idle cut-off are computed from the clock of whichever replica
serves the request, which differs by up to `MaxSkew`. A request reads it once,
before its first statement (`Start`), so that the cut-off may be stale when the row is
read (`GetActiveSession`) and later when it is touched (`Touch`, whose error is
ignored and whose reply may be lost).

**SlackApp.** A click is a signed request that Slack may deliver late or twice.
`ServeHTTP` verifies it and looks into the cache; `UsersInfo`, `CacheEmail` and
`LookupFails` are the lookup of `email`; `Decide` and `RecordDecision` are
`quarantine.Handler`'s `Approve` and `Deny`, whose statements may fail before or
after they take effect; `Respond` is the update of the message, in a goroutine of
its own. `Elsewhere` is any step of `HeldAction`. `lastHeld` is history: when Slack
last held a listed address for a user. Rows are never deleted, so the answer "no
longer exists" is left out.

**Access, Migrations, Server.** `Access` has `Validate` and `validateSlack`, the
table `identities` and the middleware of `internal/auth` as operators. `Migrations`
has the order of the files and the steps of `Migrate` under the transaction's lock;
a binary's files are a constant of its replica. `Server` is `main`, one action
between two waits: `Start`, `connectPostgres`, `Migrate`, `Serve`, then `Drain`,
`CloseListener` and `Shutdown` after `Signal`; every fatal error ends in `Exit`.
`Arrive` takes a request through one of the chains of `buildHTTPHandler`. The chain
for agents authenticates, then limits, then checks the role, so that a reviewer's key
has a bucket too (the comment at `main.go:215` has role and limit the other way
round). A bucket counts in units of `1/Token` of a token and gains `RPS` units a tick,
so that `RPS/Token` tokens a tick is any rational rate, as `rate_limit_rps` may be a
fraction; the rounding of `float64` in `x/time/rate` is left out. An identity is a name,
whether it is spelt in capitals, and whether there is space around it: `validateSlack`
lower-cases and does not trim, `slackapp.New` does both.

## Runs

Each run asks one question of the system.

| run | checks | distinct states |
| --- | --- | --- |
| `quarantine` | claims are exclusive and current; calls stay within the budget of an approval and behind a write-ahead entry; the ledger tells the truth; a live claim is moved by its claimant only; implements `HeldAction`; an approved action is settled | 857,182 |
| `ledger` | one unbroken chain that always verifies; a call is recorded once, fails only by faults, and returns; implements `AuditLog`; resumed exports miss nothing, paging is complete, the gate admits one full scan of a replica and is given back | 412,872 |
| `ledger_verify` | the report of `VerifyChain` is exact; an anchor protects the prefix up to it | 525,702 |
| `notify` | a row is in one replica's hands, and once closed is not sent again, unless its lease was outstayed; sends are bounded; every held action is announced, reviewed, or tried as often as allowed | 915,858 |
| `policy_engine` | an undisturbed reload enforces the directory it found or keeps what was in force; the version is exact without edits; a decision comes from one bundle under its version and fails closed; the watcher catches up | 195,448 |
| `ingress` | effects have their ledger entry; one decision each; answers are true; what is executed, now or after approval, is what policy saw | 71,922 |
| `sessions` | an attempt is used once; revoked and idle sessions are out; removal from the groups takes effect within the session's lifetime; an active person stays signed in | 6,067,476 |
| `slack` | what a person is told about their click is so; only a listed address that Slack held recently decides, soon after the click; buttons follow the decision | 2,606,289 |
| `server` | migrations are applied once and in order by replicas of two versions, and nobody serves before its own; starts and drains end; the limiter grants exactly burst and rate; no agent's identity decides, but for an address listed with space around it | 871,511 |
| `quarantine_lock_lost` | *violated*: recovery never resets a live claim | |
| `notify_lease` | *violated*: replicas never send the same notification at once | |
| `policy_version` | *violated*: the version is that of the bundle that decided | |

Every property of a passing run has a mutant in `PROJECT.json`: a plausible bug in
one definition that makes TLC report the property.

### Findings

- **The lock's session is not watched** (`quarantine_lock_lost`). `WithReplayLock`
  holds the advisory lock in a transaction and does not notice when its connection
  ends. A second replica then recovers rows that the first is still replaying.
  `docs/API.md:107` says crash recovery cannot reset another live worker's claim.
- **A batch may outlast its lease** (`notify_lease`). Up to 25 sends of up to 10 s
  run one after the other under leases of two minutes that began together.
  `docs/API.md:562` says replicas never send the same notification concurrently.
- **Fingerprint before load** (`policy_version`). An edit between the two publishes
  the new bundle under the old version. `types.go:65` calls it the fingerprint of
  the exact bundle that decided. The watcher corrects it at its next tick
  (`WatcherConverges`), unless the directory is changed back meanwhile.

Some comments disagree with the code without a run of their own:

- `notify.go:194` says that the attempts span "about 2.5 hours"; the backoffs of 15 s,
  doubled, add up to about 32 minutes.
- `proxy.go:505` records "that the item was never stored so the audit trail has no
  phantom entry". When `Create` commits and its reply is lost, the ledger says
  'quarantine_store_failed' of a row that is stored and may be approved.
  `EffectsAreRecorded` allows that pair.
- `config.go:557` says that an identity that acts as an agent must never also review.
  Keys are compared letter for letter, so names that differ in case pass; a Slack
  address listed with space around it passes `validateSlack` and is trimmed by
  `slackapp.New`; identities of SSO sessions are not compared. `DutiesAreSeparate`
  states what does hold, and its second part excludes just the padded addresses.
- `docs/API.md:663` says that reviewer and admin traffic is not rate-limited. On the
  agents' route it is, because the limit comes before the role.

`SlackTellsTruth` states how far an answer in Slack may be trusted: "Nothing was
changed" (`slackapp.go:291`) is untrue when, and only when, the UPDATE took effect and
its reply was lost. `DecidesForReviewers` measures how fresh an address is when the app
knows it, not when the UPDATE it then makes takes effect.

## Bounds, and why they are enough

Faults (failed statements, lost replies, crashes) are counted by `faults` and
bounded by `MaxFaults`, edits by `MaxEdits`, changes of groups by `MaxChanges`,
time by `MaxTime`.

- `quarantine`: two rows, two replicas, one reviewer, one retry, a batch of two, one
  fault: a batch with a row that is never started, recovery after a crash, a review
  racing both. The theorems lift all of these bounds for safety.
- `ledger`: three calls, a clock reading that Postgres would round up, two attempts
  each, so that a retry follows a rollback, two faults, beside two clients that
  export or verify at one replica, so that a full scan meets another, and a pager
  with pages of two, so that a page boundary moves. Rows with and without a policy
  version are in `ledger_verify`. The theorems lift all of these bounds for safety.
- `ledger_verify`: chains of three rows and six single-column changes or deletions,
  with numbers from 0 to one past the chain; the theorems lift the length and the
  number of changes.
- `notify`: one action on two channels, one of them unknown to a replica, a batch
  of two sends of one tick, two attempts, clocks that differ by one, and a lease of two
  ticks, so that a batch may end in time or outstay its lease; one fault, which may be
  a pause. `notify_lease` has a batch that outstays its lease by its sends alone, in
  step with the settings of the code.
- `policy_engine`: two files, so that a read can be torn; one edit in any state of
  two reloads and a request; contents that decide, are of the old package name, or
  do not compile; a missing directory.
- `ingress`: requests do not share state in the handler, so one request of every
  kind is enough: all methods, names, arguments and mirrored headers in every
  combination, and every other field wrong on its own.
- `sessions`: one attempt with two callbacks, one request after another, clocks that
  differ by one, and time enough for a session to expire and be deleted.
- `slack`: one action and one person with a listed address or another one, two
  requests (two clicks, or one delivered twice), a change of the account, two faults,
  and time for a cached address to expire while a lookup is under way. People differ
  in their address only, which a change of the account covers.
- `server`: a replica with the old migrations and one with a tenth that sorts first
  as a string, two starts, one fault (a failed statement, an ambiguous commit or a
  crash), two requests on every chain, a bucket of one token and half a token a tick
  for two ticks, so that a request meets half a token, and seven configurations, five
  of which `Validate` has to refuse, each for a reason of its own; one that it accepts
  lists a padded address.

## Fairness

Safety needs none. Liveness assumes only what the code's scheduling gives:

- `quarantine`: each worker's steps (a ticker starts passes, the HTTP client
  has a timeout, statements return) and the end of a dead process's session.
  Reviewers owe nothing. Actions that are approved fit into a batch: claims take the
  oldest first, and a reviewer who approved older failures for ever could otherwise
  keep a younger one waiting.
- `ledger`: each call's steps, including the timer of the backoff.
- `notify`: weak fairness of the workers, strong fairness of `Tick`, which, once the
  faults are used up, waits while a worker has something to do at this instant.
- `policy_engine`: the watcher and reloads under way.
- `server`: each `main` (the timers of the drain end, Postgres answers the ping or the
  attempts run out, and it answers or ends a statement: `db.Migrate` runs without a
  deadline at `main.go:382`, so that a statement which hangs for ever would keep a
  start from ending) and the end of a dead process's session. Requests owe
  nothing: a handler may run for ever, and so may the replay worker.

Faults are finite in number, so "eventually" means: once they have stopped.
`AppendReturns` and `Announced` have the form `[]<>`: a call is again and again idle or
returned, a pending action's notification again and again settled. What has returned
stays so, hence this is the same as "leads to".

## Proofs

Each component has its theorems in a module of its own, `QuarantineProofs`,
`LedgerProofs`, `IngressProofs`, `PolicyEngineProofs`, `SessionsProofs`,
`NotifyProofs`, `SlackAppProofs` and `ServerProofs`. They hold for any number of
rows, replicas, people, requests, retries and faults, and for any durations, within
the assumption of the component's module and what is named below. None of the safety properties is inductive; the stronger
invariants below were model-checked on the instance of the component's run before
they were proved, with one step for each action.

**Quarantine**, assuming `LockMayDrop = FALSE` (a worker keeps its lock session
while it runs; `quarantine_lock_lost` shows that the assumption is needed).
`IInv` adds: only the holder of the lock
is inside a pass (`PassIsExclusive`), claimed rows still match the table
(`ClaimsMatchTable`), attempts pay for calls (`AttemptsPayForCalls`: a call that is
not yet counted is the one of the row in 'replaying', which recovery or release will
count), the write-ahead entry is one ahead of the call (`AuditIsAhead`), and what a
process is about to ledger is true and final (`OutcomesAreTrue`, `DenialsAreTrue`).
One lemma for each conjunct shows that every action preserves it. From it follow
`TypeCorrect`, `BudgetHolds`, `CallsAreAudited`, `LedgerIsTruthful`,
`ClaimsStayCurrent`, `ClaimsAreLeftAlone` (an action property) and
`QueueKeepsPromise` (the refinement of `HeldAction`).

**Ledger.** `IInv` adds: exactly the holder of the lock is between reading and
committing (`LockIsHeld`), rows are numbered 1 to their number (`Numbered`), the
tip that was read is still the head (`TipIsHead`), and the row to be committed
continues the chain (`RowIsNext`). From it follow `ChainStaysIntact`,
`EntriesRecordedOnce` and `AppendKeepsPromise` (the refinement of `AuditLog`, with the
log read off the table in the order of `seq_num`). `FaultsCover` adds that failed
calls are covered by faults, because the INSERT of the lock's holder never meets its
own number: hence `AppendsFailByFaults`. The hash enters only as a
function of the row, and the clock as readings that Postgres rounds as Go truncates
(`StoredTime`).

**LedgerReaders**, in `LedgerProofs`, for any clients, replicas and page size.
`OrderedRows` computes what a query returns of a table that is numbered without a
gap; `ReadersInv` adds to `IInv` that a gate is closed by the one scan on its replica
(`GateInv`), that the rows a client has are numbered from 1 and the rest of its export
goes on with the next number (`ExportInv`), and that pages run from the head of the
first down to the cursor (`PagesInv`). Rows are never changed and commit in the order
of their numbers, so what was read stays a prefix. From it follow
`ExportsMissNothing`, `PagesComplete` and `GateTheorem`. `PageSize` is positive
(`ReadersAssumption`: `handleQuery` refuses a limit below 1); an empty page that counts
as full would have no last row to take the cursor from.

**VerifyChain**, in `LedgerProofs`. `ReportsTell` says what the report is after any
number of rows (`Tells`): valid with the head and the count, or which row failed
first. It is an induction over the rows, carried out with the least-number principle
(`LeastNumber`, from the well-foundedness of the naturals in the library): a least
number of rows with a wrong report would have a right one before it. The same
principle shows that the recursive functions `Reports` and `ChainOf` are defined
(`ReportsFollow`, `ChainFollows`). On an intact chain it gives `ChainVerifies`; on a
table that was changed, `ReportsExact`, for which the table only has to be finite.
`AnchorsProtect` needs `TamperInv`: the stored rows are a finite table with distinct
numbers, and the original is a chain. Then the stream is the table in ascending order
(`SortedRows`: the rank of a row is injective, hence onto), the anchored row has the
hash of the entry it stands for and is that entry (`HashInjective`, with and without a
policy version, `SameRow`), and its links lead back through the entries, one row per
entry, down to the first, whose predecessor is the empty hash (`LinkedBack`, an
induction again). No other row has a lower number, because the stream is ascending.

**Ingress.** For every request, `IInv` says which of three forms its ledger has
(nothing, the decision, or the decision and the report that it could not be stored),
that whatever left the handler was accepted, decided so and recorded before
(`EffectsFollowEntries`), what has been done at each label (`LabelsTellProgress`)
and what each answer was given for (`AnswersTellOutcome`). From it follow
`EffectsTheorem`, `AnswersTheorem` and `PolicySawTheorem`.

**PolicyEngine.** Two invariants that do not need one another. A request has, or may
still take, a bundle that was active while it ran (`Snapshotted`), hence
`SnapshotTheorem`. And a reload that no edit disturbed has read what is on disk, file
by file, and its fingerprint is that of the disk (`Undisturbed`), hence
`ExactTheorem` and `FaithfulTheorem` (an action property: such a reload ends with the
directory in force, or changes nothing when the bundle is not acceptable), for bundles
of any number of files and beside any other reloads.

**Sessions.** At most one callback has used the attempt (`AttemptInv`, hence
`SingleUseTheorem`). A request that began after the sign-out has a row that is not
live (`SignOutInv`, hence `RevokedTheorem`). A row expires within `SessionTTL` and the
skew of an instant at which its role was held (`RoleInv`, hence `OffboardedTheorem`).
`last_seen` lags behind the use of the session by no more than the touch interval and
the skew (`RowInv`, `UseInv`), where a use counts from the beginning of its request,
whose clock was read then (`ClockInv`); hence `IdleTheorem`: the session ends when it is
idle, and no step but a fault ends it before, an invariant and an action property.

**Notify.** `BudgetTheorem` needs no assumption on time: attempts that were counted
cover the sends and the workers that may still send (`BudgetInv`). `LeaseTheorem` and
`ClosedTheorem` need none either; what they say is conditional for each row: unless a
worker has held it for longer than its lease, the lease has exactly the rest of that
time to run, the row is open, and nobody else holds it (`LeaseInv`), so nobody else
claims or closes it. With the settings in the code (25 rows, 10 s, two minutes) a
worker may outstay its lease, and `notify_lease` shows what follows.

**SlackApp.** `Progress` and `Effect` say what a request may claim at its point and
what is then so of its action; they are stable because the queue and the ledger only
move forward (`Forward`), which is proved from `HeldAction` for the steps of the
console and the workers. `MessageInv` relates the message to the row. `HistoryInv`
and `Timely` bound the age of a cached address and of one that is being looked up:
the cache's lifetime begins when the answer arrives, so the lookup's timeout adds to
it. From these follow `TruthTheorem`, `ReviewersTheorem` and `ButtonsTheorem` (an
invariant and an action property). The assumption that the cache's lifetime is
positive (ten minutes in the code) is needed: for zero, the bound is missed by one.

**Server.** Three parts. For the requests, one lemma (`Kinds`) says what any step may
do to them: nothing, the arrival or the end of one, or the end of their process.
`RequestInv` adds that a process past its start has a configuration that `Validate`
accepts and that whoever passed a chain has the key or the address that the chain asks
for; from it follows `DutiesTheorem`. For the rollout, the replica
that migrates holds the lock and nobody else has anything in a transaction
(`LockInv`), and the table has the migrations of whole binaries (`WholeInv`): hence
`WholeTheorem`, for any binaries. That the order of the numbers is kept
(`RolloutTheorem`) also needs `VersionsExtend`: numbers are unique in a binary, and
what one binary has and another lacks is numbered after all that the other has.
`Migrate` does not check this; the instance of `server` satisfies it. For the
limiter, `Account` is the invariant of a bucket: what was taken and what is left, in
units, are within the budget of every interval that ends with the last token taken, and
are exactly the budget of one of them; `Exhausted` keeps the reason of a 429 although
tokens are taken later. `RateTheorem` follows for any rate, fractions of a
token included, and any burst. Cardinality
enters by three facts (`Counting`), proved from the library's theorems on finite sets.

The assumptions on the constants are named in the modules (`QuarantineAssumption`,
`LedgerAssumption`, `NotifyAssumption`, ...); they say that bounds and durations are
numbers, that the sets of replicas and channels of the outbox and of the server's
requests are finite, and how the model values differ.

**Only model-checked:** liveness, because fairness is out of the prover's reach:
`ApprovedIsSettled`, that calls of `Append` return (in `AppendReturns`; that they fail
only by faults is proved), `Announced`, `WatcherConverges` and `StartsAndStops`.
`migrationNumber` enters the proofs of `Server` only as a function of the name.

## Not modelled

Rego evaluation, JSON syntax, SHA-256 and HMAC, TLS, cookies' attributes, OIDC token
verification (an exchange succeeds or fails), CORS headers, metrics and their
listener, telemetry events, logging and the wording of answers. Read-only endpoints
(dashboard, policy listing, health) change nothing. Of the configuration, parsing
and the checks on single settings. A response of the upstream that breaks off while
it is streamed is an answer. Updates of a Slack message overwrite each other in any
order; only the buttons are spoken of.

## Plan

1. A composition of `Ingress`, `HeldAction` and `AuditLog`: a call that reaches the
   upstream was allowed, or held, approved and re-checked, and the ledger says which.
2. Filters of `Page` (agent, decision, tool): a filtered listing is the listing
   without the rows that do not match.
