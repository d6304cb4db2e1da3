------------------------------ MODULE SlackApp ------------------------------
(***************************************************************************)
(* Decisions taken in Slack, of backend/internal/slackapp: a click on the   *)
(* message of a held action is verified, the email of its user looked up     *)
(* (and cached), the decision made through quarantine.Handler, and the       *)
(* message updated afterwards, in no particular order.                      *)
(*                                                                         *)
(* The console and the replay workers move the same actions meanwhile, in    *)
(* any way module HeldAction allows, which Quarantine is proved to keep to.  *)
(* Time is discrete; an email stands for its lower-cased form.              *)
(***************************************************************************)
EXTENDS Integers, FiniteSets

CONSTANTS
    Entries, MaxReplayAttempts,     \* of module HeldAction
    Users,              \* people in the Slack workspace
    Emails,             \* addresses their profiles may hold
    Reviewers,          \* App.reviewers, a subset of Emails
    Requests,           \* interactivity requests, in the order of handling
    None,               \* no address: deleted, a bot, or none on the profile
    emailCacheTTL,
    maxSignatureAge,
    callTimeout,        \* Timeout of the HTTP client
    MaxTime,            \* bound: the last instant
    MaxChanges,         \* bound: changes of accounts
    MaxFaults           \* bound: failed statements and calls, crashes

\* What a person who clicks may be told.
Outcomes == {"approved", "denied", "already decided", "audit unavailable",
             "unconfirmed", "not listed", "failed"}

ASSUME SlackAppAssumption ==
    /\ Reviewers \subseteq Emails
    /\ None \notin Emails \cup Outcomes
    /\ {emailCacheTTL, maxSignatureAge, callTimeout} \subseteq Nat
    /\ emailCacheTTL > 0
    /\ {MaxReplayAttempts, MaxTime, MaxChanges, MaxFaults} \subseteq Nat

VARIABLES
    now,
    status, calls,  \* of each held action, as in HeldAction
    resolvedBy,     \* column resolved_by
    ledger,         \* decisions recorded for decisions taken in Slack
    account,        \* the address Slack holds for each user
    lastHeld,       \* history: the last instant at which they had each listed address
    message,        \* the message of each action: "none", "buttons" or a text
    cache,          \* App.emails
    req,            \* each delivers a click, soon, late or never
    changes, faults

vars == <<now, status, calls, resolvedBy, ledger, account, lastHeld, message,
          cache, req, changes, faults>>

rows   == <<status, calls, resolvedBy, ledger>>
slack  == <<account, lastHeld, message, changes>>

Queue == INSTANCE HeldAction WITH state <- status

Never == -100

Uncached == [email |-> None, expires |-> Never]

\* since: when it began to look up the address, then when it knew it; changed: its UPDATE took effect; lost: the reply was lost.
NoRequest == [at |-> "idle", click |-> None, email |-> None, since |-> 0,
              changed |-> FALSE, lost |-> FALSE, outcome |-> None]

Done(q) == [NoRequest EXCEPT !.at = "done", !.click = q.click]

Fault == faults < MaxFaults /\ faults' = faults + 1

NoFault == UNCHANGED faults

Init ==
    /\ now = 0
    /\ status = [e \in Entries |-> "absent"]
    /\ calls = [e \in Entries |-> 0]
    /\ resolvedBy = [e \in Entries |-> None]
    /\ ledger = {}
    /\ account \in [Users -> Emails]
    /\ lastHeld = [u \in Users |-> [m \in Reviewers |->
                     IF account[u] = m THEN 0 ELSE Never]]
    /\ message = [e \in Entries |-> "none"]
    /\ cache = [u \in Users |-> Uncached]
    /\ req = [r \in Requests |-> NoRequest]
    /\ changes = 0
    /\ faults = 0

-----------------------------------------------------------------------------
(* The queue, Slack and time *)

\* What the proxy, the console and the replay workers do to an action.
Elsewhere(e) ==
    /\ \E s \in Queue!States, n \in 0 .. MaxReplayAttempts + 1 :
         /\ <<s, n>> # <<status[e], calls[e]>>
         /\ status' = [status EXCEPT ![e] = s]
         /\ calls' = [calls EXCEPT ![e] = n]
         /\ resolvedBy' = IF s \in {"approved", "denied"} /\ status[e] # "replaying"
                          THEN [resolvedBy EXCEPT ![e] = "console"] ELSE resolvedBy
    /\ Queue!EntryStep(e)
    /\ UNCHANGED <<now, ledger, slack, cache, req, faults>>

\* App.Send, called by the outbox for an action that was held.
Send(e) ==
    /\ status[e] # "absent"
    /\ message[e] = "none"
    /\ message' = [message EXCEPT ![e] = "buttons"]
    /\ UNCHANGED <<now, rows, account, lastHeld, changes, cache, req, faults>>

Sent(r, click) ==
    /\ req[r].at = "idle"
    /\ \A p \in Requests : p < r => req[p].at # "idle"
    /\ req' = [req EXCEPT ![r] = [@ EXCEPT !.at = "sent", !.click = click]]
    /\ UNCHANGED <<now, rows, slack, cache, faults>>

\* A person clicks on Approve or Deny.
Click(r, u, e) ==
    /\ message[e] = "buttons"
    /\ \E d \in {"approved", "denied"} :
         Sent(r, [user |-> u, entry |-> e, verb |-> d, at |-> now])

\* Slack delivers a click once more.
Redeliver(r, p) == req[p].at # "idle" /\ Sent(r, req[p].click)

Held(a, t) ==
    [u \in Users |-> [m \in Reviewers |-> IF a[u] = m THEN t ELSE lastHeld[u][m]]]

\* An account is deactivated, or its address changes.
ChangeAccount(u) ==
    /\ changes < MaxChanges
    /\ changes' = changes + 1
    /\ \E m \in Emails \cup {None} :
         /\ m # account[u]
         /\ account' = [account EXCEPT ![u] = m]
         /\ lastHeld' = Held(account', now)
    /\ UNCHANGED <<now, rows, message, cache, req, faults>>

LookingUp(r) == req[r].at \in {"lookup", "found"}

\* The HTTP client gives up on a lookup after callTimeout.
Tick ==
    /\ now < MaxTime
    /\ \A r \in Requests : LookingUp(r) => now - req[r].since < callTimeout
    /\ now' = now + 1
    /\ lastHeld' = Held(account, now + 1)
    /\ UNCHANGED <<rows, account, message, changes, cache, req, faults>>

-----------------------------------------------------------------------------
(* App.ServeHTTP: verify, and email *)

\* The signature covers the time of the click, which is never later than now.
verify(click) == now - click.at <= maxSignatureAge

\* decide: only listed reviewers get further.
Identified(r, q, m) ==
    req' = [req EXCEPT ![r] =
        [q EXCEPT !.email = m,
                  !.since = IF m \in Reviewers THEN now ELSE 0,
                  !.at = IF m \in Reviewers THEN "decide" ELSE "answer",
                  !.outcome = IF m \in Reviewers THEN None ELSE "not listed"]]

\* A request that verify refuses is answered 401 and changes nothing.
ServeHTTP(r) ==
    LET q == req[r]  hit == cache[q.click.user] IN
    /\ q.at = "sent"
    /\ verify(q.click)
    /\ \/ now < hit.expires /\ Identified(r, q, hit.email)
       \/ /\ now >= hit.expires
          /\ req' = [req EXCEPT ![r] = [q EXCEPT !.at = "lookup", !.since = now]]
    /\ UNCHANGED <<now, rows, slack, cache, faults>>

\* Slack answers users.info.
UsersInfo(r) ==
    /\ req[r].at = "lookup"
    /\ req' = [req EXCEPT ![r] =
                  [@ EXCEPT !.at = "found", !.email = account[req[r].click.user]]]
    /\ UNCHANGED <<now, rows, slack, cache, faults>>

Answered(q, o) == [q EXCEPT !.at = "answer", !.since = 0, !.outcome = o]

\* Mutant: a lookup that fails falls back to the address seen last.
LookupFailsOpen(r) ==
    /\ LookingUp(r)
    /\ cache[req[r].click.user] # Uncached
    /\ Identified(r, req[r], cache[req[r].click.user].email)
    /\ Fault
    /\ UNCHANGED <<now, rows, slack, cache>>

LookupFails(r) ==
    /\ LookingUp(r)
    /\ req' = [req EXCEPT ![r] = Answered([@ EXCEPT !.email = None], "unconfirmed")]
    /\ Fault
    /\ UNCHANGED <<now, rows, slack, cache>>

\* The answer of users.info arrives; only an address is cached.
CacheEmail(r) ==
    LET q == req[r] IN
    /\ q.at = "found"
    /\ \/ /\ q.email # None
          /\ cache' = [cache EXCEPT ![q.click.user] =
                         [email |-> q.email, expires |-> now + emailCacheTTL]]
          /\ Identified(r, q, q.email)
       \/ /\ q.email = None
          /\ req' = [req EXCEPT ![r] = Answered(q, "unconfirmed")]
          /\ UNCHANGED cache
    /\ UNCHANGED <<now, rows, slack, faults>>

-----------------------------------------------------------------------------
(* quarantine.Handler Approve and Deny, and respond *)

Open(e) == status[e] \in {"pending", "replay_failed"}

\* The row as the UPDATE of ApproveQuarantineEntry or DenyQuarantineEntry leaves it.
Resolve(q) ==
    LET e == q.click.entry IN
    /\ status' = [status EXCEPT ![e] = q.click.verb]
    /\ calls' = IF q.click.verb = "approved" THEN [calls EXCEPT ![e] = 0] ELSE calls
    /\ resolvedBy' = [resolvedBy EXCEPT ![e] = q.email]

\* Mutant: the number of rows affected is not looked at.
DecideUnchecked(r) ==
    LET q == req[r] IN
    /\ q.at = "decide"
    /\ IF Open(q.click.entry) THEN Resolve(q) ELSE UNCHANGED <<status, calls, resolvedBy>>
    /\ req' = [req EXCEPT ![r].at = "record", ![r].changed = Open(q.click.entry)]
    /\ UNCHANGED <<now, ledger, slack, cache, faults>>

\* Get and the UPDATE.  Either may fail, the UPDATE also after it took effect.
Decide(r) ==
    LET q == req[r] IN
    /\ q.at = "decide"
    /\ \/ /\ Open(q.click.entry)
          /\ Resolve(q)
          /\ \/ /\ req' = [req EXCEPT ![r] = [q EXCEPT !.at = "record", !.since = 0,
                                                       !.changed = TRUE]]
                /\ NoFault
             \/ /\ req' = [req EXCEPT ![r] = Answered([q EXCEPT !.changed = TRUE,
                                                       !.lost = TRUE], "failed")]
                /\ Fault
       \/ /\ ~Open(q.click.entry)
          /\ req' = [req EXCEPT ![r] = Answered(q, "already decided")]
          /\ NoFault
          /\ UNCHANGED <<status, calls, resolvedBy>>
       \/ /\ req' = [req EXCEPT ![r] = Answered(q, "failed")]
          /\ Fault
          /\ UNCHANGED <<status, calls, resolvedBy>>
    /\ UNCHANGED <<now, ledger, slack, cache>>

\* Handler.appendLedger.  The append may fail, also after it took effect.
RecordDecision(r) ==
    LET q == req[r]
        recorded == ledger \cup {[entry |-> q.click.entry, verb |-> q.click.verb,
                                  by |-> q.email]} IN
    /\ q.at = "record"
    /\ \/ /\ ledger' = recorded
          /\ req' = [req EXCEPT ![r] = Answered(q, q.click.verb)]
          /\ NoFault
       \/ /\ ledger' \in {ledger, recorded}
          /\ req' = [req EXCEPT ![r] = Answered(q, "audit unavailable")]
          /\ Fault
    /\ UNCHANGED <<now, status, calls, resolvedBy, slack, cache>>

\* outcome.resolved
resolved(o) == o \in {"approved", "denied", "already decided", "audit unavailable"}

\* Mutant: every answer replaces the message by the one that was clicked on.
respondReplacing(q) ==
    [message EXCEPT ![q.click.entry] =
        IF resolved(q.outcome) THEN q.outcome ELSE "buttons"]

\* resolvedBlocks and respond: the outcome takes the place of the buttons, or is
\* shown to the person who clicked, and to nobody else.
respond(q) ==
    IF resolved(q.outcome) THEN [message EXCEPT ![q.click.entry] = q.outcome]
    ELSE message

\* The update runs in a goroutine of its own, once; it may fail.
Respond(r) ==
    /\ req[r].at = "answer"
    /\ \/ message' = respond(req[r]) /\ NoFault
       \/ UNCHANGED message /\ Fault
    /\ req' = [req EXCEPT ![r] = Done(@)]
    /\ UNCHANGED <<now, rows, account, lastHeld, changes, cache>>

\* The process ends: its cache, and the requests and updates under way, are gone.
Crash ==
    /\ Fault
    /\ cache' = [u \in Users |-> Uncached]
    /\ req' = [r \in Requests |->
                 IF req[r].at = "idle" THEN NoRequest ELSE Done(req[r])]
    /\ UNCHANGED <<now, rows, slack>>

Next ==
    \/ \E e \in Entries : Elsewhere(e) \/ Send(e)
    \/ \E r \in Requests, u \in Users, e \in Entries : Click(r, u, e)
    \/ \E r, p \in Requests : Redeliver(r, p)
    \/ \E u \in Users : ChangeAccount(u)
    \/ \E r \in Requests : ServeHTTP(r) \/ UsersInfo(r) \/ LookupFails(r) \/ CacheEmail(r)
                            \/ Decide(r) \/ RecordDecision(r) \/ Respond(r)
    \/ Crash \/ Tick

Spec == Init /\ [][Next]_vars

-----------------------------------------------------------------------------
(* Properties *)

\* What a person in Slack is told about their click is so.  A success was theirs,
\* is in the ledger under their address, and a denied action stays denied;
\* "already decided" was decided; a refusal changed nothing.  "Nothing was
\* changed" after a failure is untrue only when the UPDATE's reply was lost.
SlackTellsTruth ==
    \A r \in Requests : LET q == req[r] e == q.click.entry IN
        /\ q.outcome \in {"approved", "denied"} =>
             /\ q.changed
             /\ [entry |-> e, verb |-> q.outcome, by |-> q.email] \in ledger
        /\ q.outcome = "denied" => status[e] = "denied" /\ resolvedBy[e] = q.email
        /\ q.outcome = "audit unavailable" => q.changed
        /\ q.outcome = "already decided" =>
             ~q.changed /\ status[e] \notin {"absent", "pending"}
        /\ q.outcome \in {"unconfirmed", "not listed"} => ~q.changed
        /\ q.outcome = "failed" => (q.changed <=> q.lost)

\* A click decides only under a listed address that Slack held for its user less
\* than a cache lifetime and a lookup before the app knew it, and only when the app
\* knew it soon after the click, whatever the cache, failed lookups and repeated
\* deliveries. How long the decision itself then takes is not bounded here.
DecidesForReviewers ==
    \A r \in Requests : LET q == req[r] IN
        q.at = "decide" =>
            /\ q.email \in Reviewers
            /\ q.since - lastHeld[q.click.user][q.email] < emailCacheTTL + callTimeout
            /\ q.since - q.click.at <= maxSignatureAge + callTimeout

\* The buttons leave a message only when its action was decided, and an update
\* that arrives late never brings them back.
ButtonsFollowDecision ==
    /\ [](\A e \in Entries :
            message[e] \notin {"none", "buttons"} => status[e] # "pending")
    /\ [][\A e \in Entries :
            message[e] \notin {"none", "buttons"} => message'[e] # "buttons"]_vars

=============================================================================
