------------------------------ MODULE Sessions ------------------------------
(***************************************************************************)
(* Single sign-on of backend/internal/sso: a login attempt is used up by a   *)
(* callback, which turns the groups of a person into a session; requests     *)
(* present the session's cookie until it expires, is idle or is revoked.      *)
(*                                                                         *)
(* Time is discrete.  `now' is NOW(), the clock of Postgres; the clocks of     *)
(* the replicas, which set expiries and the idle cut-off, differ from it.     *)
(***************************************************************************)
EXTENDS Integers, FiniteSets

CONSTANTS
    Callbacks,      \* calls of /auth/callback with the state of one attempt
    Requests,       \* requests under way, which present a session cookie
    AttemptTTL,     \* loginAttemptTTL
    SessionTTL,     \* cfg.SessionTTL
    IdleTTL,        \* cfg.SessionIdleTTL
    TouchInterval,  \* touchInterval
    Retention,      \* how long DeleteExpiredSessions keeps rows
    MaxSkew,        \* how far a replica's clock may be from that of Postgres
    MaxTime,        \* bound: the last instant
    MaxChanges,     \* bound: changes of the person's groups
    MaxFaults       \* bound: failed statements and exchanges

ASSUME SessionsAssumption ==
    /\ {AttemptTTL, SessionTTL, IdleTTL, TouchInterval, Retention} \subseteq Nat
    /\ {MaxSkew, MaxTime, MaxChanges, MaxFaults} \subseteq Nat

VARIABLES
    now,
    groups,     \* of the person, in the identity provider
    changes,
    lastHeld,   \* the last instant at which they had each role
    discovered, \* Discover has succeeded
    attempt,    \* expiry of the login attempt
    pc, role,   \* callbacks
    session,    \* table sessions, one row for each callback
    cookies,    \* sessions whose cookie reached the browser
    signedOut,  \* sessions whose logout was answered 204
    req,        \* requests
    used,       \* first and last use of each session, as far as recorded
    faults

vars == <<now, groups, changes, lastHeld, discovered, attempt, pc, role, session,
          cookies, signedOut, req, used, faults>>

idp       == <<groups, changes, lastHeld>>
callbacks == <<attempt, pc, role>>
browser   == <<cookies, signedOut>>

Roles == {"reviewer", "admin"}

Gone == -100

NoSession == [status |-> "none", role |-> "none", expires |-> 0, seen |-> 0]

NoRequest == [at |-> "idle", of |-> "none", late |-> FALSE, began |-> 0, clock |-> 0,
              read |-> 0, due |-> FALSE, role |-> "none"]

\* What time.Now may return in a replica.
Clock == {now + s : s \in -MaxSkew .. MaxSkew}

\* roleFrom: admin wins over reviewer.
roleFrom(gs) ==
    IF "admins" \in gs THEN "admin"
    ELSE IF "reviewers" \in gs THEN "reviewer" ELSE "none"

Fault == faults < MaxFaults /\ faults' = faults + 1

NoFault == UNCHANGED faults

Held(gs, t) ==
    [r \in Roles |-> IF roleFrom(gs) = r THEN t ELSE lastHeld[r]]

Init ==
    /\ now = 0
    /\ groups \in {{"reviewers"}, {"admins", "reviewers"}}
    /\ lastHeld = [r \in Roles |-> IF roleFrom(groups) = r THEN 0 ELSE Gone]
    /\ changes = 0
    /\ discovered = FALSE
    /\ attempt = Gone
    /\ pc = [c \in Callbacks |-> "new"]
    /\ role = [c \in Callbacks |-> "none"]
    /\ session = [c \in Callbacks |-> NoSession]
    /\ cookies = {}
    /\ signedOut = {}
    /\ req = [r \in Requests |-> NoRequest]
    /\ used = [c \in Callbacks |-> [first |-> 0, last |-> 0]]
    /\ faults = 0

-----------------------------------------------------------------------------
(* The provider and sign-in *)

\* The person is put into groups and removed from them.
ChangeGroups ==
    /\ changes < MaxChanges
    /\ changes' = changes + 1
    /\ \E gs \in SUBSET {"reviewers", "admins"} :
         /\ gs # groups
         /\ groups' = gs
         /\ lastHeld' = Held(gs, now)
    /\ UNCHANGED <<now, discovered, callbacks, session, browser, req, used,
                   faults>>

Discover ==
    /\ ~discovered
    /\ discovered' = TRUE
    /\ UNCHANGED <<now, idp, callbacks, session, browser, req, used, faults>>

login ==
    /\ discovered
    /\ attempt = Gone
    /\ \A c \in Callbacks : pc[c] = "new"
    /\ \E clock \in Clock : attempt' = clock + AttemptTTL
    /\ UNCHANGED <<now, idp, discovered, pc, role, session, browser, req,
                   used, faults>>

Goto(c, label) == pc' = [pc EXCEPT ![c] = label]

\* Mutant: the attempt is read and not deleted.
ConsumeKept(c) ==
    /\ pc[c] = "new"
    /\ \/ attempt > now /\ Goto(c, "consumed") /\ NoFault
       \/ attempt <= now /\ Goto(c, "refused") /\ NoFault
       \/ Goto(c, "refused") /\ Fault
    /\ UNCHANGED <<now, idp, discovered, attempt, role, session, browser,
                   req, used>>

\* A callback whose state is unknown, expired or used is refused, and so is one
\* whose statement fails, also when the row was deleted.
ConsumeLoginAttempt(c) ==
    /\ pc[c] = "new"
    /\ \/ attempt > now /\ attempt' = Gone /\ Goto(c, "consumed") /\ NoFault
       \/ attempt <= now /\ UNCHANGED attempt /\ Goto(c, "refused") /\ NoFault
       \/ attempt' \in {attempt, Gone} /\ Goto(c, "refused") /\ Fault
    /\ UNCHANGED <<now, idp, discovered, role, session, browser, req, used>>

\* The code is exchanged and the ID token verified; its claims are those of this
\* instant.  The provider may refuse, the exchange or the verification fail.
Exchange(c) ==
    /\ pc[c] = "consumed"
    /\ \/ /\ discovered /\ roleFrom(groups) \in Roles
          /\ role' = [role EXCEPT ![c] = roleFrom(groups)]
          /\ Goto(c, "exchanged") /\ NoFault
       \/ /\ ~discovered \/ roleFrom(groups) \notin Roles
          /\ Goto(c, "refused") /\ NoFault /\ UNCHANGED role
       \/ Goto(c, "refused") /\ Fault /\ UNCHANGED role
    /\ UNCHANGED <<now, idp, discovered, attempt, session, browser, req, used>>

NewSession(c) ==
    \E clock \in Clock :
        session' = [session EXCEPT ![c] =
            [status |-> "live", role |-> role[c],
             expires |-> clock + SessionTTL, seen |-> now]]

\* The insert may take effect and report an error; then nobody has its cookie.
CreateSession(c) ==
    /\ pc[c] = "exchanged"
    /\ \/ /\ NewSession(c)
          /\ used' = [used EXCEPT ![c] = [first |-> now, last |-> now]]
          /\ cookies' = cookies \cup {c}
          /\ Goto(c, "signed in") /\ NoFault
       \/ /\ NewSession(c) \/ UNCHANGED session
          /\ Goto(c, "refused") /\ Fault
          /\ UNCHANGED <<cookies, used>>
    /\ role' = [role EXCEPT ![c] = "none"]
    /\ UNCHANGED <<now, idp, discovered, attempt, signedOut, req>>

-----------------------------------------------------------------------------
(* Sign-out *)

Revoked(c) ==
    session' = IF session[c].status = "live"
               THEN [session EXCEPT ![c].status = "revoked"] ELSE session

\* Mutant: the browser is signed out although the statement failed.
logoutIgnored(c) ==
    /\ c \in cookies
    /\ \/ Revoked(c) /\ NoFault
       \/ UNCHANGED session /\ Fault
    /\ signedOut' = signedOut \cup {c}
    /\ UNCHANGED <<now, idp, discovered, callbacks, cookies, req, used>>

logout(c) ==
    /\ c \in cookies
    /\ \/ Revoked(c) /\ signedOut' = signedOut \cup {c} /\ NoFault
       \/ (Revoked(c) \/ UNCHANGED session) /\ UNCHANGED signedOut /\ Fault
    /\ UNCHANGED <<now, idp, discovered, callbacks, cookies, req, used>>

-----------------------------------------------------------------------------
(* AuthenticateSession *)

\* The replica looks at its clock once, before its statements.
Start(r, c) ==
    /\ req[r].at = "idle"
    /\ c \in cookies
    /\ \E clock \in Clock :
         req' = [req EXCEPT ![r] =
             [NoRequest EXCEPT !.at = "start", !.of = c, !.late = c \in signedOut,
                               !.began = now, !.clock = clock]]
    /\ UNCHANGED <<now, idp, discovered, callbacks, session, browser, used,
                   faults>>

active(row, clock) ==
    /\ row.status = "live"
    /\ row.expires > now
    /\ row.seen > clock - IdleTTL

\* Mutant: activity is recorded only once the session would have been idle.
dueLate(row, clock) == clock - row.seen > IdleTTL

Due(row, clock) == clock - row.seen > TouchInterval

Refuse(r) == req' = [req EXCEPT ![r] = NoRequest]

GetActiveSession(r) ==
    LET row == session[req[r].of]
        clock == req[r].clock IN
    /\ req[r].at = "start"
    /\ \/ /\ active(row, clock) /\ row.role \in Roles
          /\ req' = [req EXCEPT ![r].at = "touch", ![r].read = now, ![r].clock = 0,
                                ![r].due = Due(row, clock), ![r].role = row.role]
          /\ NoFault
       \/ /\ ~active(row, clock) \/ row.role \notin Roles
          /\ Refuse(r)
          /\ NoFault
       \/ Refuse(r) /\ Fault
    /\ UNCHANGED <<now, idp, discovered, callbacks, session, browser, used>>

\* Mutant: a refresh also moves the absolute expiry.
touchSlides(row) ==
    IF row.status = "live" THEN [row EXCEPT !.seen = now, !.expires = now + SessionTTL]
    ELSE row

TouchSession(row) ==
    IF row.status = "live" THEN [row EXCEPT !.seen = now] ELSE row

Finish(r, t) ==
    /\ req' = [req EXCEPT ![r] = NoRequest]
    /\ used' = IF t > used[req[r].of].last
               THEN [used EXCEPT ![req[r].of].last = t] ELSE used

\* The request is served even when its activity could not be recorded, or was and the
\* reply was lost.
Touch(r) ==
    LET c == req[r].of IN
    /\ req[r].at = "touch"
    /\ \/ /\ req[r].due
          /\ session' = [session EXCEPT ![c] = TouchSession(@)]
          /\ Finish(r, now) /\ (NoFault \/ Fault)
       \/ ~req[r].due /\ UNCHANGED session /\ Finish(r, req[r].began) /\ NoFault
       \/ req[r].due /\ UNCHANGED session /\ Finish(r, 0) /\ Fault
    /\ UNCHANGED <<now, idp, discovered, callbacks, browser>>

-----------------------------------------------------------------------------
(* Run's cleanup, and time *)

DeleteExpired ==
    /\ discovered
    /\ attempt' = IF attempt <= now THEN Gone ELSE attempt
    /\ session' = [c \in Callbacks |->
                     IF session[c].expires <= now - Retention THEN NoSession
                     ELSE session[c]]
    /\ UNCHANGED <<now, idp, discovered, pc, role, browser, req, used, faults>>

\* A tick is longer than what a callback does after the exchange.
Tick ==
    /\ now < MaxTime
    /\ \A c \in Callbacks : pc[c] # "exchanged"
    /\ now' = now + 1
    /\ lastHeld' = Held(groups, now + 1)
    /\ UNCHANGED <<groups, changes, discovered, callbacks, session, browser, req, used,
                   faults>>

Next ==
    \/ ChangeGroups \/ Discover \/ login
    \/ \E c \in Callbacks : ConsumeLoginAttempt(c) \/ Exchange(c) \/ CreateSession(c)
                             \/ logout(c)
    \/ \E r \in Requests : GetActiveSession(r) \/ Touch(r)
    \/ \E r \in Requests, c \in Callbacks : Start(r, c)
    \/ DeleteExpired \/ Tick

Spec == Init /\ [][Next]_vars

-----------------------------------------------------------------------------
(* Properties *)

\* A login attempt yields one session at most, also when its callback is repeated
\* or fails half way.
SingleUse ==
    Cardinality({c \in Callbacks : \/ pc[c] \notin {"new", "refused"}
                                    \/ session[c].status # "none"}) <= 1

Accepted(r) == req[r].at = "touch"

\* Once a sign-out has been answered 204, no request that begins later is let in,
\* although others may be refreshing the session meanwhile.
RevokedStaysOut == \A r \in Requests : Accepted(r) => ~req[r].late

\* A person whose role was taken away in the identity provider is let in with it
\* for SessionTTL at most, give or take the clocks.
OffboardedInTime ==
    \A r \in Requests : Accepted(r) =>
        req[r].read - lastHeld[req[r].role] < SessionTTL + MaxSkew

IdleIsOut ==
    \A r \in Requests : Accepted(r) =>
        req[r].began - used[req[r].of].last < IdleTTL + MaxSkew

\* What a person may count on, given how seldom activity is recorded and how the
\* clocks may differ.
Owed(r) == LET c == req[r].of IN
    /\ session[c].status # "revoked"
    /\ now - used[c].first < SessionTTL - MaxSkew
    /\ req[r].began - used[c].last < IdleTTL - TouchInterval - 2 * MaxSkew

\* A session that nobody used for IdleTTL is over, give or take the clocks; a person
\* who keeps using the console is not signed out before SessionTTL, neither by the
\* rare refreshes nor by the cleanup.
SignedOutWhenIdle ==
    /\ []IdleIsOut
    /\ [][\A r \in Requests :
            req[r].at = "start" /\ req'[r].at = "idle" /\ faults' = faults
              => ~Owed(r)]_vars

=============================================================================
