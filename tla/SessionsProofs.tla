--------------------------- MODULE SessionsProofs ---------------------------
(***************************************************************************)
(* Proofs about Sessions, for any number of callbacks and requests, any       *)
(* durations and any difference between the clocks.  The inductive invariant  *)
(* has one part for each promise: the attempt is gone once a callback used     *)
(* it; rows of sessions that were signed out are not live; a row expires        *)
(* within SessionTTL of an instant at which its role was held; and the row's     *)
(* last_seen lags behind its last use by a bounded time.                       *)
(***************************************************************************)
EXTENDS Sessions, TLAPS

MaybeRole == Roles \cup {"none"}

Session == [status : {"none", "live", "revoked"}, role : MaybeRole,
            expires : Int, seen : Int]

Request == [at : {"idle", "start", "touch"}, of : Callbacks \cup {"none"},
            late : BOOLEAN, began : Int, clock : Int, read : Int, due : BOOLEAN,
            role : MaybeRole]

Labels == {"new", "refused", "consumed", "exchanged", "signed in"}

TypeOK ==
    /\ now \in Nat
    /\ lastHeld \in [Roles -> Int]
    /\ attempt \in Int
    /\ pc \in [Callbacks -> Labels]
    /\ role \in [Callbacks -> MaybeRole]
    /\ session \in [Callbacks -> Session]
    /\ cookies \subseteq Callbacks
    /\ signedOut \subseteq Callbacks
    /\ req \in [Requests -> Request]
    /\ used \in [Callbacks -> [first : Int, last : Int]]

\* A callback that has used the attempt, or what is left of it.
Active(c) == pc[c] \notin {"new", "refused"} \/ session[c].status # "none"

AttemptInv ==
    /\ \A c \in Callbacks : Active(c) => attempt = Gone /\ pc[c] # "new"
    /\ \A c, d \in Callbacks : Active(c) /\ Active(d) => c = d

\* Requests that began after the sign-out have a row that is not live.
SignOutInv ==
    /\ \A c \in cookies : pc[c] = "signed in"
    /\ signedOut \subseteq cookies
    /\ \A c \in signedOut : session[c].status # "live"
    /\ \A r \in Requests :
         /\ req[r].at # "idle" => req[r].of \in cookies
         /\ req[r].at # "idle" /\ req[r].late => req[r].of \in signedOut
         /\ req[r].at = "touch" => ~req[r].late

\* A row expires within SessionTTL of an instant at which its role was held.
RoleInv ==
    /\ \A x \in Roles : /\ lastHeld[x] <= now
                        /\ roleFrom(groups) = x => lastHeld[x] = now
    /\ \A c \in Callbacks :
         /\ pc[c] = "exchanged" => role[c] \in Roles /\ lastHeld[role[c]] = now
         /\ session[c].status # "none" =>
              /\ session[c].role \in Roles
              /\ session[c].expires <= lastHeld[session[c].role] + MaxSkew + SessionTTL
    /\ \A r \in Requests : req[r].at = "touch" =>
         /\ req[r].role \in Roles
         /\ req[r].read < lastHeld[req[r].role] + MaxSkew + SessionTTL

\* How last_seen and the expiry of a row follow the use of its session.
RowInv(c) ==
    /\ session[c].status = "live" =>
         /\ session[c].seen <= used[c].last
         /\ used[c].last <= session[c].seen + TouchInterval + MaxSkew
    /\ IF session[c].status = "none"
       THEN used[c].first + SessionTTL - MaxSkew <= now
       ELSE used[c].first + SessionTTL - MaxSkew <= session[c].expires

\* A request that was let in found its session in use, and the row fresh if it
\* does not refresh it.
UseInv ==
    /\ \A c \in Callbacks : 0 <= used[c].last /\ used[c].last <= now
    /\ \A c \in cookies : RowInv(c)
    /\ \A r \in Requests : LET c == req[r].of IN req[r].at = "touch" =>
         /\ req[r].began <= now
         /\ req[r].began - used[c].last < IdleTTL + MaxSkew
         /\ ~req[r].due /\ session[c].status = "live" =>
              req[r].began <= session[c].seen + TouchInterval + MaxSkew

\* What a request saw on the clock of its replica when it began.
Looked(x, t) ==
    /\ x.at # "idle" => x.began <= t
    /\ x.at = "start" => x.began - MaxSkew <= x.clock /\ x.clock <= x.began + MaxSkew

ClockInv == \A r \in Requests : Looked(req[r], now)

IInv ==
    /\ TypeOK /\ faults \in Nat
    /\ AttemptInv /\ SignOutInv /\ RoleInv /\ UseInv /\ ClockInv

-----------------------------------------------------------------------------
(* Steps *)

Callback(c) == ConsumeLoginAttempt(c) \/ Exchange(c) \/ CreateSession(c) \/ logout(c)

\* The constants are what they stand for.
LEMMA Durations ==
  /\ AttemptTTL \in Nat /\ SessionTTL \in Nat /\ IdleTTL \in Nat
  /\ TouchInterval \in Nat /\ Retention \in Nat /\ MaxSkew \in Nat
  BY SessionsAssumption, Zenon

\* time.Now in a replica is within MaxSkew of NOW().
LEMMA ClockBounds ==
  ASSUME now \in Nat, NEW clock \in Clock
  PROVE  clock \in Int /\ now - MaxSkew <= clock /\ clock <= now + MaxSkew
  BY Durations DEF Clock

\* The row that CreateSession inserts.
LEMMA NewSessionRow ==
  ASSUME TypeOK, NEW c \in Callbacks, role[c] \in Roles, NewSession(c)
  PROVE  /\ session' \in [Callbacks -> Session]
         /\ \A d \in Callbacks \ {c} : session'[d] = session[d]
         /\ session'[c].status = "live" /\ session'[c].role = role[c]
         /\ session'[c].seen = now
         /\ now - MaxSkew + SessionTTL <= session'[c].expires
         /\ session'[c].expires <= now + MaxSkew + SessionTTL
<1>1. PICK clock \in Clock :
        session' = [session EXCEPT ![c] =
            [status |-> "live", role |-> role[c],
             expires |-> clock + SessionTTL, seen |-> now]]
  BY Zenon DEF NewSession
<1>2. /\ now \in Nat /\ session \in [Callbacks -> Session]
      /\ role[c] \in MaybeRole
  BY Zenon DEF TypeOK
<1>3. clock \in Int /\ now - MaxSkew <= clock /\ clock <= now + MaxSkew
  BY <1>2, ClockBounds, Zenon
<1>4. session'[c] = [status |-> "live", role |-> role[c],
                     expires |-> clock + SessionTTL, seen |-> now]
  BY <1>1, <1>2, Zenon
<1>5. session'[c] \in Session
  BY <1>2, <1>3, <1>4, Durations DEF Session
<1> QED
  BY <1>1, <1>2, <1>3, <1>4, <1>5, Durations

\* A sign-out changes the status of a live row, and nothing else.
LEMMA RevokedRow ==
  ASSUME TypeOK, NEW c \in Callbacks, Revoked(c)
  PROVE  /\ session' \in [Callbacks -> Session]
         /\ session'[c].status # "live"
         /\ \A d \in Callbacks :
              /\ session'[d].role = session[d].role
              /\ session'[d].expires = session[d].expires
              /\ session'[d].seen = session[d].seen
              /\ \/ session'[d].status = session[d].status
                 \/ session[d].status = "live" /\ session'[d].status = "revoked"
<1>1. session \in [Callbacks -> Session] /\ session[c] \in Session
  BY Zenon DEF TypeOK
<1>2. CASE session[c].status = "live"
  <2>1. session' = [session EXCEPT ![c] = [session[c] EXCEPT !.status = "revoked"]]
    BY <1>2, Zenon DEF Revoked
  <2>2. session'[c] = [session[c] EXCEPT !.status = "revoked"]
    BY <1>1, <2>1, Zenon
  <2>3. /\ session'[c] \in Session
        /\ session'[c].status = "revoked"
        /\ session'[c].role = session[c].role
        /\ session'[c].expires = session[c].expires
        /\ session'[c].seen = session[c].seen
    BY <1>1, <2>2, Zenon DEF Session
  <2> QED
    BY <1>1, <1>2, <2>1, <2>3, Zenon
<1>3. CASE session[c].status # "live"
  <2>1. session' = session
    BY <1>3, Zenon DEF Revoked
  <2> QED
    BY <1>1, <1>3, <2>1, Zenon
<1> QED
  BY <1>2, <1>3, Zenon

\* A refresh moves last_seen of a live row to NOW(), and nothing else.
LEMMA TouchedRow ==
  ASSUME TypeOK, NEW c \in Callbacks,
         session' = [session EXCEPT ![c] = TouchSession(@)]
  PROVE  /\ session' \in [Callbacks -> Session]
         /\ session[c].status = "live" => session'[c].seen = now
         /\ \A d \in Callbacks :
              /\ session'[d].status = session[d].status
              /\ session'[d].role = session[d].role
              /\ session'[d].expires = session[d].expires
              /\ session'[d].seen = session[d].seen \/ d = c
<1>1. /\ session \in [Callbacks -> Session] /\ session[c] \in Session
      /\ now \in Nat
  BY Zenon DEF TypeOK
<1>2. CASE session[c].status = "live"
  BY <1>1, <1>2 DEF TouchSession, Session
<1>3. CASE session[c].status # "live"
  BY <1>1, <1>3, Zenon DEF TouchSession
<1> QED
  BY <1>2, <1>3, Zenon

\* The cleanup deletes rows that expired, and changes no other row.
LEMMA DeletedRows ==
  ASSUME TypeOK, DeleteExpired
  PROVE  /\ session' \in [Callbacks -> Session]
         /\ \A c \in Callbacks :
              \/ session'[c] = session[c]
              \/ /\ session[c].expires <= now
                 /\ session'[c].status = "none"
<1>1. /\ session \in [Callbacks -> Session] /\ now \in Nat
      /\ NoSession \in Session /\ NoSession.status = "none"
  BY DEF TypeOK, NoSession, Session, MaybeRole
<1>2. \A c \in Callbacks :
        session'[c] = IF session[c].expires <= now - Retention
                      THEN NoSession ELSE session[c]
  BY Zenon DEF DeleteExpired
<1>3. \A c \in Callbacks : session[c].expires \in Int
  BY <1>1, Zenon DEF Session
<1>4. session' \in [Callbacks -> Session]
  BY <1>1, <1>2, Zenon DEF DeleteExpired
<1> QED
  BY <1>1, <1>2, <1>3, <1>4, Durations

\* A request that is refused or served is over.
LEMMA RequestOver ==
  ASSUME TypeOK, NEW r \in Requests, req' = [req EXCEPT ![r] = NoRequest]
  PROVE  /\ req' \in [Requests -> Request]
         /\ req'[r].at = "idle"
         /\ \A q \in Requests \ {r} : req'[q] = req[q]
<1>1. NoRequest \in Request /\ NoRequest.at = "idle"
  BY DEF NoRequest, Request, MaybeRole
<1> QED
  BY <1>1, Zenon DEF TypeOK

\* A request begins with the cookie of a session.
LEMMA RequestStarts ==
  ASSUME TypeOK, NEW r \in Requests, NEW c \in Callbacks, Start(r, c)
  PROVE  /\ req' \in [Requests -> Request]
         /\ req'[r].at = "start" /\ req'[r].of = c
         /\ req'[r].late <=> c \in signedOut
         /\ req'[r].began = now /\ req'[r].clock \in Clock
         /\ \A q \in Requests \ {r} : req'[q] = req[q]
<1> DEFINE b == c \in signedOut
<1>1. b \in BOOLEAN
  OBVIOUS
<1> HIDE DEF b
<1> DEFINE begun(clock) == [NoRequest EXCEPT !.at = "start", !.of = c, !.late = b,
                                             !.began = now, !.clock = clock]
<1>2. PICK clock \in Clock : req' = [req EXCEPT ![r] = begun(clock)]
  BY Zenon DEF Start, b
<1>3. NoRequest \in Request /\ req \in [Requests -> Request]
  BY DEF NoRequest, Request, MaybeRole, TypeOK
<1>4. now \in Int /\ clock \in Int
  BY ClockBounds DEF TypeOK
<1> DEFINE new == begun(clock)
<1>5. /\ new \in Request /\ new.at = "start" /\ new.of = c /\ (new.late <=> b)
      /\ new.began = now /\ new.clock = clock
  BY <1>1, <1>3, <1>4, Zenon DEF Request
<1> HIDE DEF new
<1>6. req' = [req EXCEPT ![r] = new]
  BY <1>2, Zenon DEF new
<1> QED
  BY <1>2, <1>3, <1>5, <1>6, Zenon DEF b

\* GetActiveSession lets a request in with an active row, or it is over.
LEMMA RequestChecked ==
  ASSUME TypeOK, NEW r \in Requests, GetActiveSession(r)
  PROVE  /\ req' \in [Requests -> Request]
         /\ req[r].at = "start"
         /\ \A q \in Requests \ {r} : req'[q] = req[q]
         /\ \/ req'[r].at = "idle"
            \/ /\ req'[r].at = "touch" /\ req'[r].of = req[r].of
               /\ req'[r].late = req[r].late /\ req'[r].read = now
               /\ req'[r].began = req[r].began
               /\ LET row == session[req[r].of]
                      clock == req[r].clock IN
                    /\ active(row, clock) /\ row.role \in Roles
                    /\ req'[r].role = row.role
                    /\ req'[r].due <=> Due(row, clock)
<1> DEFINE row == session[req[r].of]
           clock == req[r].clock
<1>1. /\ req[r].at = "start"
      /\ \/ /\ active(row, clock) /\ row.role \in Roles
            /\ req' = [req EXCEPT ![r].at = "touch", ![r].read = now, ![r].clock = 0,
                                  ![r].due = Due(row, clock), ![r].role = row.role]
         \/ Refuse(r)
  BY Zenon DEF GetActiveSession
<1>2. CASE Refuse(r)
  BY <1>1, <1>2, RequestOver, Zenon DEF Refuse
<1>3. CASE /\ active(row, clock) /\ row.role \in Roles
           /\ req' = [req EXCEPT ![r].at = "touch", ![r].read = now, ![r].clock = 0,
                                 ![r].due = Due(row, clock), ![r].role = row.role]
  <2>1. /\ req \in [Requests -> Request] /\ req[r] \in Request /\ now \in Int
        /\ row.role \in MaybeRole /\ 0 \in Int
    BY <1>3 DEF TypeOK, MaybeRole
  <2> DEFINE b == Due(row, clock)
             held == row.role
  <2>2. b \in BOOLEAN
    BY DEF Due
  <2>3. held \in MaybeRole
    BY <2>1, Zenon
  <2> HIDE DEF b, held
  <2> DEFINE new == [req[r] EXCEPT !.at = "touch", !.read = now, !.clock = 0,
                                   !.due = b, !.role = held]
  <2>4. req' = [req EXCEPT ![r] = new]
    BY <1>3, Zenon DEF b, held
  <2>5. /\ new \in Request /\ new.at = "touch" /\ new.of = req[r].of
        /\ new.late = req[r].late /\ new.read = now /\ (new.due <=> b)
        /\ new.role = held /\ new.began = req[r].began
    BY <2>1, <2>2, <2>3, Zenon DEF Request
  <2> HIDE DEF new
  <2>6. /\ req'[r] = new /\ req' \in [Requests -> Request]
        /\ \A q \in Requests \ {r} : req'[q] = req[q]
    BY <2>1, <2>4, <2>5, Zenon
  <2>7. /\ req'[r].role = row.role /\ (req'[r].due <=> Due(row, clock))
        /\ active(row, clock) /\ row.role \in Roles
    BY <1>3, <2>5, <2>6, Zenon DEF b, held
  <2>8. /\ req'[r].at = "touch" /\ req'[r].of = req[r].of
        /\ req'[r].late = req[r].late /\ req'[r].read = now
        /\ req'[r].began = req[r].began
    BY <2>5, <2>6, Zenon
  <2> QED
    BY <1>1, <2>6, <2>7, <2>8, Zenon
<1> QED
  BY <1>1, <1>2, <1>3, Zenon

-----------------------------------------------------------------------------
(* Use *)

\* The instants that rows, requests and uses hold.
LEMMA Instants ==
  ASSUME TypeOK
  PROVE  /\ now \in Int
         /\ \A c \in Callbacks :
              /\ session[c].expires \in Int /\ session[c].seen \in Int
              /\ used[c].first \in Int /\ used[c].last \in Int
         /\ \A r \in Requests :
              req[r].read \in Int /\ req[r].began \in Int /\ req[r].clock \in Int
  BY DEF TypeOK, Session, Request

\* What a request that was let in knows of its session.
LetIn(r) ==
    LET c == req[r].of IN
    /\ req[r].began <= now
    /\ req[r].began - used[c].last < IdleTTL + MaxSkew
    /\ ~req[r].due /\ session[c].status = "live" =>
         req[r].began <= session[c].seen + TouchInterval + MaxSkew

\* Requests stay let in while the use and the freshness of their session grow.
LEMMA LetInKept ==
  ASSUME TypeOK, TypeOK', SignOutInv, UseInv, now <= now',
         NEW r \in Requests, req'[r] = req[r], req[r].at = "touch",
         used[req[r].of].last <= used'[req[r].of].last,
         session'[req[r].of].status = "live" =>
            /\ session[req[r].of].status = "live"
            /\ session[req[r].of].seen <= session'[req[r].of].seen
  PROVE  LetIn(r)'
<1> DEFINE c == req[r].of
<1>1. c \in Callbacks
  BY Zenon DEF SignOutInv, TypeOK
<1>2. LetIn(r)
  BY Zenon DEF UseInv, LetIn
<1>3. /\ now \in Int /\ now' \in Int /\ req[r].began \in Int
      /\ used[c].last \in Int /\ used'[c].last \in Int
      /\ session[c].seen \in Int /\ session'[c].seen \in Int
  BY <1>1 DEF TypeOK, Session, Request
<1> QED
  BY <1>2, <1>3, Durations DEF LetIn

\* A row that loses only its life, or nothing, keeps its bounds.
LEMMA RowKept ==
  ASSUME TypeOK, TypeOK', NEW c \in Callbacks, RowInv(c), now <= now',
         used'[c] = used[c],
         session'[c].seen = session[c].seen,
         session'[c].expires = session[c].expires,
         session'[c].status = "live" => session[c].status = "live",
         session'[c].status = "none" <=> session[c].status = "none"
  PROVE  RowInv(c)'
<1>1. now \in Int /\ now' \in Int /\ used[c].first \in Int
  BY DEF TypeOK
<1> QED
  BY <1>1, Durations DEF RowInv

\* A step that uses no session, and brings no request to the UPDATE of TouchSession.
LEMMA UseUnchanged ==
  ASSUME TypeOK, TypeOK', SignOutInv, UseInv, now <= now',
         UNCHANGED <<session, used, cookies>>,
         \A r \in Requests : req'[r].at = "touch" => req'[r] = req[r]
  PROVE  UseInv'
<1>1. \A c \in Callbacks : 0 <= used'[c].last /\ used'[c].last <= now'
  BY Instants DEF UseInv, TypeOK
<1>2. \A c \in cookies' : RowInv(c)'
  BY RowKept, Zenon DEF UseInv, TypeOK
<1>3. \A r \in Requests : req'[r].at = "touch" => LetIn(r)'
  <2> SUFFICES ASSUME NEW r \in Requests, req'[r].at = "touch" PROVE LetIn(r)'
    BY Zenon
  <2>1. req[r].of \in Callbacks /\ req'[r] = req[r]
    BY Zenon DEF SignOutInv, TypeOK
  <2>2. /\ used[req[r].of].last <= used'[req[r].of].last
        /\ session[req[r].of].seen <= session'[req[r].of].seen
    BY <2>1, Instants
  <2> QED
    BY <2>1, <2>2, LetInKept, Zenon
<1> QED
  BY <1>1, <1>2, <1>3, Zenon DEF UseInv, LetIn

\* The request that GetActiveSession lets in.
LEMMA LetInByCheck ==
  ASSUME IInv, NEW r \in Requests, GetActiveSession(r), req'[r].at = "touch",
         UNCHANGED <<now, session, used>>
  PROVE  LetIn(r)'
<1>0. TypeOK /\ SignOutInv /\ UseInv
  BY Zenon DEF IInv
<1> DEFINE c == req[r].of
           clock == req[r].clock
           t == req[r].began
<1>1. /\ req[r].at = "start"
      /\ active(session[c], clock) /\ (req'[r].due <=> Due(session[c], clock))
  BY <1>0, RequestChecked, Zenon
<1>2. req'[r].of = c /\ req'[r].began = t /\ c \in cookies /\ c \in Callbacks
  BY <1>0, RequestChecked, Zenon DEF SignOutInv, TypeOK
<1>3. RowInv(c)
  BY <1>0, <1>2, Zenon DEF UseInv
<1>4. /\ now \in Int /\ session[c].seen \in Int /\ used[c].last \in Int
      /\ clock \in Int /\ t \in Int
  BY <1>0, <1>2, Instants, Zenon
<1>5. t <= now /\ t - MaxSkew <= clock
  <2>1. Looked(req[r], now)
    BY Zenon DEF IInv, ClockInv
  <2> QED
    BY <1>1, <2>1 DEF Looked
<1>6. /\ session[c].status = "live" /\ session[c].seen > clock - IdleTTL
      /\ session[c].seen <= used[c].last
  BY <1>1, <1>3, Zenon DEF active, RowInv
<1>7. ~req'[r].due => clock - session[c].seen <= TouchInterval
  BY <1>1, <1>4, Durations DEF Due
<1> HIDE DEF c, clock, t
<1>8. t - used[c].last < IdleTTL + MaxSkew
  BY <1>4, <1>5, <1>6, Durations
<1>9. ~req'[r].due => t <= session[c].seen + TouchInterval + MaxSkew
  BY <1>4, <1>5, <1>7, Durations
<1> QED
  BY <1>2, <1>5, <1>8, <1>9, Zenon DEF LetIn

\* A session begins in use, and its row expires SessionTTL later by the clock of
\* the replica that inserted it.
LEMMA UseByCreate ==
  ASSUME IInv, TypeOK', NEW c \in Callbacks, CreateSession(c)
  PROVE  UseInv'
<1>0. TypeOK /\ SignOutInv /\ UseInv /\ RoleInv
  BY Zenon DEF IInv
<1>1. /\ UNCHANGED <<now, req>> /\ pc[c] = "exchanged"
      /\ NewSession(c) \/ UNCHANGED session
      /\ \A d \in Callbacks \ {c} : session'[d] = session[d] /\ used'[d] = used[d]
      /\ cookies' \in {cookies, cookies \cup {c}}
      /\ c \in cookies' /\ c \notin cookies =>
           NewSession(c) /\ used'[c] = [first |-> now, last |-> now]
      /\ used'[c] \in {used[c], [first |-> now, last |-> now]}
  BY <1>0, Zenon DEF TypeOK, CreateSession, NewSession
<1>2. c \notin cookies /\ role[c] \in Roles
  BY <1>0, <1>1, Zenon DEF SignOutInv, RoleInv
<1>3. now \in Nat
  BY <1>0, Zenon DEF TypeOK
<1>4. \A d \in Callbacks : 0 <= used'[d].last /\ used'[d].last <= now'
  BY <1>0, <1>1, <1>3 DEF UseInv
<1>5. ASSUME NEW d \in cookies' PROVE RowInv(d)'
  <2>1. CASE d = c
    <3>1. /\ session'[c].status = "live" /\ session'[c].seen = now
          /\ now - MaxSkew + SessionTTL <= session'[c].expires
          /\ session'[c].expires \in Int
      BY <1>0, <1>1, <1>2, <1>5, <2>1, NewSessionRow, Instants, Zenon DEF TypeOK, Session
    <3>2. used'[c].first = now /\ used'[c].last = now
      BY <1>1, <1>2, <1>5, <2>1
    <3> QED
      BY <1>3, <2>1, <3>1, <3>2, Durations DEF RowInv
  <2>2. CASE d # c
    <3>1. d \in cookies /\ d \in Callbacks
      BY <1>0, <1>1, <1>5, <2>2, Zenon DEF TypeOK
    <3> QED
      BY <1>0, <1>1, <1>3, <2>2, <3>1, RowKept DEF UseInv
  <2> QED
    BY <2>1, <2>2, Zenon
<1>6. ASSUME NEW r \in Requests, req'[r].at = "touch" PROVE LetIn(r)'
  <2>1. req[r].at = "touch" /\ req[r].of \in Callbacks /\ req[r].of # c
    BY <1>0, <1>1, <1>2, <1>6, Zenon DEF SignOutInv, TypeOK
  <2>2. /\ session'[req[r].of] = session[req[r].of]
        /\ used'[req[r].of] = used[req[r].of] /\ req'[r] = req[r] /\ now <= now'
    BY <1>1, <1>3, <2>1
  <2>3. used[req[r].of].last \in Int /\ session[req[r].of].seen \in Int
    BY <1>0, <2>1, Instants, Zenon
  <2>4. /\ used[req[r].of].last <= used'[req[r].of].last
        /\ session[req[r].of].seen <= session'[req[r].of].seen
    BY <2>2, <2>3
  <2> QED
    BY <1>0, <2>1, <2>2, <2>4, LetInKept, Zenon
<1> QED
  BY <1>4, <1>5, <1>6, Zenon DEF UseInv, LetIn

\* The use of c is recorded up to t, which is at most now.
LEMMA FinishUses ==
  ASSUME IInv, NEW r \in Requests, req[r].at = "touch", NEW t \in Int, t <= now,
         Finish(r, t)
  PROVE  LET c == req[r].of IN
         /\ c \in cookies /\ c \in Callbacks
         /\ \A d \in Callbacks \ {c} : used'[d] = used[d]
         /\ used'[c].first = used[c].first
         /\ used'[c].last \in {used[c].last, t}
         /\ used[c].last <= used'[c].last
         /\ t <= used'[c].last
<1> DEFINE c == req[r].of
<1>1. c \in cookies /\ c \in Callbacks
  BY Zenon DEF IInv, SignOutInv, TypeOK
<1>2. /\ used \in [Callbacks -> [first : Int, last : Int]]
      /\ used[c] \in [first : Int, last : Int] /\ used[c].last \in Int
  BY <1>1, Zenon DEF IInv, TypeOK
<1>3. CASE t > used[c].last
  <2>1. used' = [used EXCEPT ![c] = [used[c] EXCEPT !.last = t]]
    BY <1>3, Zenon DEF Finish
  <2>2. used'[c] = [used[c] EXCEPT !.last = t]
    BY <1>1, <1>2, <2>1, Zenon
  <2>3. used'[c].first = used[c].first /\ used'[c].last = t
    BY <1>2, <2>2, Zenon
  <2> QED
    BY <1>1, <1>2, <1>3, <2>1, <2>3
<1>4. CASE ~(t > used[c].last)
  <2>1. used' = used
    BY <1>4, Zenon DEF Finish
  <2> QED
    BY <1>1, <1>2, <1>4, <2>1
<1> QED
  BY <1>3, <1>4, Zenon

\* Serving a request records its use: in the row if it was due, and otherwise the
\* row is fresh enough.
LEMMA UseByTouch ==
  ASSUME IInv, TypeOK', NEW r \in Requests, Touch(r)
  PROVE  UseInv'
<1>0. TypeOK /\ SignOutInv /\ UseInv
  BY Zenon DEF IInv
<1> DEFINE c == req[r].of
<1>1. /\ req[r].at = "touch" /\ UNCHANGED <<now, cookies>>
      /\ req' = [req EXCEPT ![r] = NoRequest]
  BY Zenon DEF Touch, Finish, browser
<1>2. c \in cookies /\ c \in Callbacks /\ RowInv(c) /\ LetIn(r)
  BY <1>0, <1>1, Zenon DEF SignOutInv, TypeOK, UseInv, LetIn
<1>3. /\ now \in Int /\ 0 <= now /\ req[r].began \in Int /\ req[r].began <= now
      /\ \A d \in Callbacks : /\ used[d].last \in Int /\ session[d].seen \in Int
                              /\ 0 <= used[d].last /\ used[d].last <= now
  BY <1>0, <1>2, Instants DEF TypeOK, UseInv, LetIn
<1>4. \/ session' = [session EXCEPT ![c] = TouchSession(@)]
      \/ UNCHANGED session
  BY Zenon DEF Touch
<1>5. \A d \in Callbacks :
        /\ session'[d].status = session[d].status
        /\ session'[d].expires = session[d].expires
        /\ session[d].seen <= session'[d].seen \/ session[d].status # "live"
        /\ d # c => session'[d].seen = session[d].seen
  <2>1. CASE session' = [session EXCEPT ![c] = TouchSession(@)]
    <3>1. session[c].status = "live" => session[c].seen <= now
      BY <1>2, <1>3 DEF RowInv
    <3>2. /\ session[c].status = "live" => session'[c].seen = now
          /\ \A d \in Callbacks :
               /\ session'[d].status = session[d].status
               /\ session'[d].expires = session[d].expires
               /\ session'[d].seen = session[d].seen \/ d = c
      BY <1>0, <1>2, <2>1, TouchedRow, Zenon
    <3> QED
      BY <1>3, <3>1, <3>2
  <2>2. CASE UNCHANGED session
    BY <1>3, <2>2
  <2> QED
    BY <1>4, <2>1, <2>2, Zenon
<1>6. /\ \A d \in Callbacks \ {c} : used'[d] = used[d]
      /\ used'[c].first = used[c].first
      /\ used[c].last <= used'[c].last /\ used'[c].last <= now
      /\ session[c].status = "live" =>
           /\ session'[c].seen <= used'[c].last
           /\ used'[c].last <= session'[c].seen + TouchInterval + MaxSkew
  <2>1. CASE session' = [session EXCEPT ![c] = TouchSession(@)] /\ Finish(r, now)
    <3>1. session[c].status = "live" => session'[c].seen = now
      BY <1>0, <1>2, <2>1, TouchedRow, Zenon
    <3>2. /\ \A d \in Callbacks \ {c} : used'[d] = used[d]
          /\ used'[c].first = used[c].first
          /\ used[c].last <= used'[c].last /\ now <= used'[c].last
          /\ used'[c].last \in {used[c].last, now}
      BY <1>1, <1>3, <2>1, FinishUses, SMTT(30)
    <3>3. used'[c].last = now
      BY <1>2, <1>3, <3>2
    <3> QED
      BY <1>2, <1>3, <3>1, <3>2, <3>3, Durations
  <2>2. CASE ~req[r].due /\ UNCHANGED session /\ Finish(r, req[r].began)
    <3>1. /\ \A d \in Callbacks \ {c} : used'[d] = used[d]
          /\ used'[c].first = used[c].first
          /\ used[c].last <= used'[c].last
          /\ used'[c].last \in {used[c].last, req[r].began}
      BY <1>1, <1>3, <2>2, FinishUses, Zenon
    <3> QED
      BY <1>2, <1>3, <2>2, <3>1, Durations DEF RowInv, LetIn
  <2>3. CASE UNCHANGED session /\ Finish(r, 0)
    <3>0. 0 \in Int /\ 0 <= now /\ Finish(r, 0) /\ req[r].at = "touch"
      BY <1>1, <1>3, <2>3
    <3>1. /\ \A d \in Callbacks \ {c} : used'[d] = used[d]
          /\ used'[c].first = used[c].first
          /\ used[c].last <= used'[c].last
          /\ used'[c].last \in {used[c].last, 0}
      BY <3>0, FinishUses, Zenon
    <3>2. used'[c].last = used[c].last
      <4>1. used[c].last \in Int /\ 0 <= used[c].last
        BY <1>2, <1>3, Zenon
      <4> QED
        BY <3>1, <4>1
    <3> QED
      BY <1>2, <1>3, <2>3, <3>1, <3>2, Zenon DEF RowInv
  <2> QED
    BY <2>1, <2>2, <2>3, Zenon DEF Touch
<1>7. \A d \in Callbacks : 0 <= used'[d].last /\ used'[d].last <= now'
  <2>1. used'[c].last \in Int
    BY <1>2, Zenon DEF TypeOK
  <2> QED
    BY <1>1, <1>2, <1>3, <1>6, <2>1
<1>8. ASSUME NEW d \in cookies' PROVE RowInv(d)'
  <2>1. d \in cookies /\ d \in Callbacks /\ RowInv(d)
    BY <1>0, <1>1, <1>8, Zenon DEF TypeOK, UseInv
  <2>2. CASE d = c
    BY <1>1, <1>2, <1>5, <1>6, <2>2, Zenon DEF RowInv
  <2>3. CASE d # c
    BY <1>1, <1>5, <1>6, <2>1, <2>3, Zenon DEF RowInv
  <2> QED
    BY <2>2, <2>3, Zenon
<1>9. ASSUME NEW q \in Requests, req'[q].at = "touch" PROVE LetIn(q)'
  <2>1. req'[q] = req[q]
    BY <1>0, <1>1, <1>9, RequestOver, Zenon
  <2>2. req[q].of \in Callbacks
    BY <1>0, <1>9, <2>1, Zenon DEF SignOutInv, TypeOK
  <2>3. /\ used[req[q].of].last <= used'[req[q].of].last
        /\ session'[req[q].of].status = "live" =>
            /\ session[req[q].of].status = "live"
            /\ session[req[q].of].seen <= session'[req[q].of].seen
    BY <1>3, <1>5, <1>6, <2>2
  <2>4. now <= now'
    BY <1>1, <1>3
  <2> QED
    BY <1>0, <1>9, <2>1, <2>3, <2>4, LetInKept, Zenon
<1> QED
  BY <1>7, <1>8, <1>9, Zenon DEF UseInv, LetIn

\* The rest of the steps.
LEMMA UseStep ==
  ASSUME IInv, TypeOK', Next
  PROVE  UseInv'
<1>0. TypeOK /\ SignOutInv /\ UseInv /\ now \in Nat
  BY Zenon DEF IInv, TypeOK
<1>1. CASE ChangeGroups \/ Discover \/ login \/ Tick
  <2>1. /\ now <= now' /\ UNCHANGED <<session, used, cookies, req>>
    BY <1>0, <1>1 DEF ChangeGroups, Discover, login, Tick, browser
  <2> QED
    BY <1>0, <2>1, UseUnchanged, Zenon
<1>2. ASSUME NEW c \in Callbacks, ConsumeLoginAttempt(c) \/ Exchange(c)
      PROVE  UseInv'
  <2>1. now <= now' /\ UNCHANGED <<session, used, cookies, req>>
    BY <1>0, <1>2 DEF ConsumeLoginAttempt, Exchange, browser
  <2> QED
    BY <1>0, <2>1, UseUnchanged, Zenon
<1>3. ASSUME NEW r \in Requests, NEW c \in Callbacks, Start(r, c) PROVE UseInv'
  <2>1. now <= now' /\ UNCHANGED <<session, used, cookies>>
    BY <1>0, <1>3 DEF Start, browser
  <2>2. \A q \in Requests : req'[q].at = "touch" => req'[q] = req[q]
    BY <1>0, <1>3, RequestStarts, Zenon
  <2> QED
    BY <1>0, <2>1, <2>2, UseUnchanged, Zenon
<1>4. ASSUME NEW r \in Requests, GetActiveSession(r) PROVE UseInv'
  <2>1. UNCHANGED <<now, session, used, cookies>> /\ now <= now'
    BY <1>0, <1>4 DEF GetActiveSession, browser
  <2>2. \A q \in Requests \ {r} : req'[q] = req[q]
    BY <1>0, <1>4, RequestChecked, Zenon
  <2>3. req'[r].at = "touch" => LetIn(r)'
    BY <1>4, <2>1, LetInByCheck, Zenon
  <2>4. \A q \in Requests \ {r} : req'[q].at = "touch" => LetIn(q)'
    BY <1>0, <2>1, <2>2, Zenon DEF UseInv, LetIn
  <2>5. \A q \in Requests : req'[q].at = "touch" => LetIn(q)'
    BY <2>3, <2>4, Zenon
  <2>6. \A c \in cookies' : RowInv(c)'
    BY <1>0, <2>1, Zenon DEF UseInv, RowInv
  <2>7. \A c \in Callbacks : 0 <= used'[c].last /\ used'[c].last <= now'
    BY <1>0, <2>1, Zenon DEF UseInv
  <2> QED
    BY <2>5, <2>6, <2>7, Zenon DEF UseInv, LetIn
<1>5. ASSUME UNCHANGED <<now, used, cookies, req>>, session' \in [Callbacks -> Session],
             \A d \in cookies : RowInv(d)',
             \A d \in Callbacks : session'[d].status = "live" =>
                session[d].status = "live" /\ session'[d].seen = session[d].seen
      PROVE  UseInv'
  <2>1. \A c \in Callbacks : 0 <= used'[c].last /\ used'[c].last <= now'
    BY <1>0, <1>5, Zenon DEF UseInv
  <2>2. ASSUME NEW r \in Requests, req'[r].at = "touch" PROVE LetIn(r)'
    <3>1. req[r].of \in Callbacks /\ LetIn(r)
      BY <1>0, <1>5, <2>2, Zenon DEF SignOutInv, TypeOK, UseInv, LetIn
    <3> QED
      BY <1>5, <3>1, Zenon DEF LetIn
  <2> QED
    BY <1>5, <2>1, <2>2, Zenon DEF UseInv, LetIn
<1>6. ASSUME NEW c \in Callbacks, logout(c) PROVE UseInv'
  <2>1. /\ UNCHANGED <<now, used, cookies, req>> /\ now <= now'
        /\ Revoked(c) \/ UNCHANGED session
    BY <1>0, <1>6 DEF logout
  <2>2. \A d \in Callbacks :
          /\ session'[d].expires = session[d].expires
          /\ session'[d].seen = session[d].seen
          /\ session'[d].status = "live" => session[d].status = "live"
          /\ session'[d].status = "none" <=> session[d].status = "none"
    BY <1>0, <2>1, RevokedRow, Zenon
  <2>3. \A d \in cookies : RowInv(d)'
    BY <1>0, <2>1, <2>2, RowKept, Zenon DEF UseInv, TypeOK
  <2> QED
    BY <1>5, <2>1, <2>2, <2>3, Zenon DEF TypeOK
<1>7. CASE DeleteExpired
  <2>1. UNCHANGED <<now, used, cookies, req>> /\ now <= now'
    BY <1>0, <1>7 DEF DeleteExpired, browser
  <2>2. \A d \in Callbacks :
          \/ session'[d] = session[d]
          \/ session[d].expires <= now /\ session'[d].status = "none"
    BY <1>0, <1>7, DeletedRows, Zenon
  <2>3. ASSUME NEW d \in cookies PROVE RowInv(d)'
    <3>1. /\ d \in Callbacks /\ RowInv(d) /\ now \in Int
          /\ session[d].expires \in Int /\ used[d].first \in Int
      BY <1>0, <2>3, Instants, Zenon DEF TypeOK, UseInv
    <3>2. CASE session'[d] = session[d]
      BY <2>1, <3>1, <3>2, Zenon DEF RowInv
    <3>3. CASE session[d].expires <= now /\ session'[d].status = "none"
      <4>1. used[d].first + SessionTTL - MaxSkew <= now
        BY <3>1, <3>3, Durations DEF RowInv
      <4> QED
        BY <2>1, <3>3, <4>1, Zenon DEF RowInv
    <3> QED
      BY <2>2, <3>1, <3>2, <3>3, Zenon
  <2> QED
    BY <1>5, <2>1, <2>2, <2>3, Zenon DEF TypeOK
<1> QED
  BY <1>1, <1>2, <1>3, <1>4, <1>6, <1>7, UseByCreate, UseByTouch, Zenon DEF Next

\* A request keeps what it saw on the clock.
LEMMA ClockStep ==
  ASSUME IInv, TypeOK', Next
  PROVE  ClockInv'
<1>0. TypeOK /\ ClockInv /\ now \in Nat /\ \A r \in Requests : req[r].began \in Int
  BY Instants, Zenon DEF IInv, TypeOK
<1>1. now <= now' /\ now' \in Nat
  <2>1. now' = now \/ now' = now + 1
    BY Zenon DEF Next, ChangeGroups, Discover, login, ConsumeLoginAttempt, Exchange,
       CreateSession, logout, GetActiveSession, Touch, Start, DeleteExpired, Tick
  <2> QED
    BY <1>0, <2>1
<1>2. ASSUME NEW q \in Requests, req'[q] = req[q]
      PROVE  Looked(req'[q], now')
  <2>1. Looked(req[q], now)
    BY <1>0, Zenon DEF ClockInv
  <2> QED
    BY <1>0, <1>1, <1>2, <2>1 DEF Looked
<1>3. ASSUME NEW q \in Requests, req'[q].at = "idle"
      PROVE  Looked(req'[q], now')
  BY <1>3 DEF Looked
<1>a. ASSUME NEW r \in Requests, Looked(req'[r], now'),
             \A q \in Requests \ {r} : req'[q] = req[q]
      PROVE  ClockInv'
  <2>1. ASSUME NEW q \in Requests PROVE Looked(req'[q], now')
    <3>1. CASE q = r
      BY <1>a, <3>1, Zenon
    <3>2. CASE q # r
      BY <1>2, <1>a, <3>2, Zenon
    <3> QED
      BY <3>1, <3>2, Zenon
  <2> QED
    BY <2>1, Zenon DEF ClockInv
<1>4. ASSUME NEW r \in Requests, NEW c \in Callbacks, Start(r, c) PROVE ClockInv'
  <2>1. UNCHANGED now
    BY <1>4, Zenon DEF Start
  <2>2. PICK clock \in Clock : req'[r].began = now /\ req'[r].clock = clock
    BY <1>0, <1>4, RequestStarts, Zenon
  <2>3. clock \in Int /\ now - MaxSkew <= clock /\ clock <= now + MaxSkew
    BY <1>0, ClockBounds, Zenon
  <2>4. Looked(req'[r], now')
    BY <1>0, <2>1, <2>2, <2>3 DEF Looked
  <2> QED
    <3>1. \A q \in Requests \ {r} : req'[q] = req[q]
      BY <1>0, <1>4, RequestStarts, Zenon
    <3> QED
      BY <1>a, <2>4, <3>1, Zenon
<1>5. ASSUME NEW r \in Requests, GetActiveSession(r) PROVE ClockInv'
  <2>1. UNCHANGED now
    BY <1>5, Zenon DEF GetActiveSession
  <2>q. \A q \in Requests \ {r} : req'[q] = req[q]
    BY <1>0, <1>5, RequestChecked, Zenon
  <2>2. CASE req'[r].at = "touch" /\ req'[r].began = req[r].began
    <3>1. req[r].began <= now
      BY <1>0, <1>5, RequestChecked DEF ClockInv, Looked
    <3>2. Looked(req'[r], now')
      BY <2>1, <2>2, <3>1 DEF Looked
    <3> QED
      BY <1>a, <2>q, <3>2, Zenon
  <2>3. CASE req'[r].at = "idle"
    <3>1. Looked(req'[r], now')
      BY <1>3, <2>3, Zenon
    <3> QED
      BY <1>a, <2>q, <3>1, Zenon
  <2> QED
    BY <1>0, <1>5, <2>2, <2>3, RequestChecked, Zenon
<1>6. ASSUME NEW r \in Requests, Touch(r) PROVE ClockInv'
  <2>1. req' = [req EXCEPT ![r] = NoRequest]
    BY <1>6, Zenon DEF Touch, Finish
  <2> QED
    BY <1>0, <1>2, <1>3, <2>1, RequestOver, Zenon DEF ClockInv
<1>7. ASSUME UNCHANGED req PROVE ClockInv'
  BY <1>2, <1>7, Zenon DEF ClockInv
<1>8. ASSUME NEW c \in Callbacks, Callback(c) PROVE UNCHANGED req
  BY <1>8, Zenon DEF Callback, ConsumeLoginAttempt, Exchange, CreateSession, logout
<1>9. ASSUME ChangeGroups \/ Discover \/ login \/ DeleteExpired \/ Tick
      PROVE  UNCHANGED req
  BY <1>9, Zenon DEF ChangeGroups, Discover, login, DeleteExpired, Tick
<1> QED
  BY <1>4, <1>5, <1>6, <1>7, <1>8, <1>9, Zenon DEF Next, Callback

\* A step keeps the variables in their domains.
LEMMA TypeStep ==
  ASSUME TypeOK, RoleInv, SignOutInv, Next
  PROVE  TypeOK'
<1>1. CASE ChangeGroups \/ Tick
  <2>1. \A gs, t : t \in Int => Held(gs, t) \in [Roles -> Int]
    BY Zenon DEF TypeOK, Held
  <2>2. CASE ChangeGroups
    BY <2>1, <2>2 DEF TypeOK, ChangeGroups, callbacks, browser
  <2>3. CASE Tick
    BY <2>1, <2>3 DEF TypeOK, Tick, callbacks, browser
  <2> QED
    BY <1>1, <2>2, <2>3, Zenon
<1>2. CASE Discover
  BY <1>2, Zenon DEF TypeOK, Discover, idp, callbacks, browser
<1>3. CASE login
  <2>1. attempt' \in Int
    BY <1>3, ClockBounds, Durations DEF TypeOK, login
  <2> QED
    BY <1>3, <2>1, Zenon DEF TypeOK, login, idp, browser
<1>4. ASSUME NEW c \in Callbacks, ConsumeLoginAttempt(c) PROVE TypeOK'
  <2>1. attempt' \in Int
    BY <1>4 DEF TypeOK, ConsumeLoginAttempt, Gone
  <2>2. pc' \in [Callbacks -> Labels]
    BY <1>4, Zenon DEF TypeOK, ConsumeLoginAttempt, Goto, Labels
  <2> QED
    BY <1>4, <2>1, <2>2, Zenon DEF TypeOK, ConsumeLoginAttempt, idp, browser
<1>5. ASSUME NEW c \in Callbacks, Exchange(c) PROVE TypeOK'
  BY <1>5, ZenonT(30) DEF TypeOK, Exchange, Goto, Labels, MaybeRole, idp, browser
<1>6. ASSUME NEW c \in Callbacks, CreateSession(c) PROVE TypeOK'
  <2>1. session' \in [Callbacks -> Session]
    <3>1. role[c] \in Roles /\ session \in [Callbacks -> Session]
      BY <1>6, Zenon DEF CreateSession, RoleInv, TypeOK
    <3> QED
      BY <1>6, <3>1, NewSessionRow, Zenon DEF CreateSession
  <2>2. role' \in [Callbacks -> MaybeRole] /\ pc' \in [Callbacks -> Labels]
    BY <1>6, Zenon DEF TypeOK, CreateSession, Goto, Labels, MaybeRole
  <2>3. /\ cookies' \subseteq Callbacks
        /\ used' \in [Callbacks -> [first : Int, last : Int]]
    <3>1. [first |-> now, last |-> now] \in [first : Int, last : Int]
      BY DEF TypeOK
    <3> QED
      BY <1>6, <3>1, ZenonT(30) DEF TypeOK, CreateSession
  <2> QED
    BY <1>6, <2>1, <2>2, <2>3, Zenon DEF TypeOK, CreateSession, idp
<1>7. ASSUME NEW c \in Callbacks, logout(c) PROVE TypeOK'
  <2>1. session' \in [Callbacks -> Session]
    BY <1>7, RevokedRow, Zenon DEF TypeOK, logout
  <2> QED
    BY <1>7, <2>1, Zenon DEF TypeOK, logout, idp, callbacks
<1>8. ASSUME NEW r \in Requests, NEW c \in Callbacks, Start(r, c) PROVE TypeOK'
  <2>1. req' \in [Requests -> Request]
    BY <1>8, RequestStarts, Zenon
  <2> QED
    BY <1>8, <2>1, Zenon DEF TypeOK, Start, idp, callbacks, browser
<1>9. ASSUME NEW r \in Requests, GetActiveSession(r) PROVE TypeOK'
  <2>1. req' \in [Requests -> Request]
    BY <1>9, RequestChecked, Zenon
  <2> QED
    BY <1>9, <2>1, Zenon DEF TypeOK, GetActiveSession, idp, callbacks, browser
<1>10. ASSUME NEW r \in Requests, Touch(r) PROVE TypeOK'
  <2> DEFINE c == req[r].of
  <2>1. c \in Callbacks /\ req[r].began \in Int
    BY <1>10, Zenon DEF TypeOK, Touch, SignOutInv, Request
  <2>2. session' \in [Callbacks -> Session]
    BY <1>10, <2>1, TouchedRow, Zenon DEF TypeOK, Touch
  <2>3. PICK t \in Int : Finish(r, t)
    BY <1>10, <2>1 DEF TypeOK, Touch
  <2>4. req' \in [Requests -> Request]
    BY <2>3, RequestOver, Zenon DEF Finish
  <2>5. used' \in [Callbacks -> [first : Int, last : Int]]
    BY <2>1, <2>3, Zenon DEF TypeOK, Finish
  <2> QED
    BY <1>10, <2>2, <2>4, <2>5, Zenon DEF TypeOK, Touch, idp, callbacks, browser
<1>11. CASE DeleteExpired
  BY <1>11, DeletedRows DEF TypeOK, DeleteExpired, Gone, idp, browser
<1> QED
  BY <1>1, <1>2, <1>3, <1>4, <1>5, <1>6, <1>7, <1>8, <1>9, <1>10, <1>11, Zenon
     DEF Next

\* Faults are counted.
LEMMA FaultsStep ==
  ASSUME faults \in Nat, Next
  PROVE  faults' \in Nat
<1>1. Fault \/ NoFault => faults' \in Nat
  BY DEF Fault, NoFault
<1> QED
  BY <1>1, Zenon DEF Next, ChangeGroups, Discover, login, ConsumeLoginAttempt, Exchange,
     CreateSession, logout, GetActiveSession, Touch, Start, DeleteExpired, Tick,
     NoFault

-----------------------------------------------------------------------------
(* The attempt *)

\* Callbacks that do not become active keep the claim about the attempt.
LEMMA AttemptKept ==
  ASSUME AttemptInv,
         \A c \in Callbacks : Active(c)' => Active(c) /\ pc'[c] # "new",
         attempt' \in {attempt, Gone}
  PROVE  AttemptInv'
  BY Zenon DEF AttemptInv

\* Only the callback that deletes the attempt becomes active.
LEMMA AttemptStep ==
  ASSUME IInv, Next
  PROVE  AttemptInv'
<1>0. TypeOK /\ AttemptInv
  BY Zenon DEF IInv
<1>1. CASE UNCHANGED <<pc, session, attempt>>
  BY <1>0, <1>1, AttemptKept, Zenon DEF Active, AttemptInv
<1>2. CASE login
  <2>1. \A c \in Callbacks : ~Active(c)
    BY <1>0, <1>2, Zenon DEF login, AttemptInv
  <2>2. UNCHANGED <<pc, session>>
    BY <1>2, Zenon DEF login
  <2> QED
    BY <2>1, <2>2, Zenon DEF Active, AttemptInv
<1>3. ASSUME NEW c \in Callbacks, ConsumeLoginAttempt(c) PROVE AttemptInv'
  <2>1. /\ UNCHANGED session /\ pc[c] = "new"
        /\ \A d \in Callbacks \ {c} : pc'[d] = pc[d]
    BY <1>0, <1>3, Zenon DEF TypeOK, ConsumeLoginAttempt, Goto
  <2>2. session[c].status = "none"
    BY <1>0, <2>1, Zenon DEF AttemptInv, Active
  <2>3. CASE attempt > now /\ attempt' = Gone /\ Goto(c, "consumed")
    <3>1. \A d \in Callbacks : ~Active(d)
      BY <1>0, <2>3 DEF TypeOK, AttemptInv, Gone
    <3>2. pc'[c] = "consumed"
      BY <1>0, <2>3, Zenon DEF TypeOK, Goto
    <3> QED
      BY <2>1, <2>3, <3>1, <3>2, Zenon DEF AttemptInv, Active
  <2>4. CASE attempt' \in {attempt, Gone} /\ Goto(c, "refused")
    <3>1. pc'[c] = "refused"
      BY <1>0, <2>4, Zenon DEF TypeOK, Goto
    <3>2. \A d \in Callbacks : Active(d)' => Active(d) /\ pc'[d] # "new"
      BY <1>0, <2>1, <2>2, <3>1, Zenon DEF Active, AttemptInv
    <3> QED
      BY <1>0, <2>4, <3>2, AttemptKept, Zenon
  <2> QED
    BY <1>3, <2>3, <2>4, Zenon DEF ConsumeLoginAttempt
<1>4. ASSUME NEW c \in Callbacks, Exchange(c) \/ CreateSession(c) PROVE AttemptInv'
  <2>1. Active(c) /\ UNCHANGED attempt
    BY <1>4, Zenon DEF Exchange, CreateSession, Active
  <2>2. pc'[c] # "new" /\ \A d \in Callbacks \ {c} : pc'[d] = pc[d]
    BY <1>0, <1>4, Zenon DEF TypeOK, Exchange, CreateSession, Goto
  <2>3. \A d \in Callbacks \ {c} : session'[d] = session[d]
    BY <1>0, <1>4, Zenon DEF TypeOK, Exchange, CreateSession, NewSession
  <2>4. \A d \in Callbacks : Active(d)' => Active(d) /\ pc'[d] # "new"
    BY <1>0, <2>1, <2>2, <2>3, Zenon DEF Active, AttemptInv
  <2> QED
    BY <1>0, <2>1, <2>4, AttemptKept, Zenon
<1>5. ASSUME NEW c \in Callbacks, logout(c) PROVE AttemptInv'
  <2>1. UNCHANGED <<pc, attempt>> /\ (Revoked(c) \/ UNCHANGED session)
    BY <1>5, Zenon DEF logout, callbacks
  <2>2. \A d \in Callbacks : session'[d].status # "none" => session[d].status # "none"
    BY <1>0, <2>1, RevokedRow, Zenon
  <2>3. \A d \in Callbacks : Active(d)' => Active(d) /\ pc'[d] # "new"
    BY <1>0, <2>1, <2>2, Zenon DEF Active, AttemptInv
  <2> QED
    BY <1>0, <2>1, <2>3, AttemptKept, Zenon
<1>6. ASSUME NEW r \in Requests, Touch(r) PROVE AttemptInv'
  <2>1. req[r].of \in Callbacks
    BY <1>6, Zenon DEF IInv, TypeOK, SignOutInv, Touch
  <2>2. /\ UNCHANGED <<pc, attempt>>
        /\ \/ session' = [session EXCEPT ![req[r].of] = TouchSession(@)]
           \/ UNCHANGED session
    BY <1>6, Zenon DEF Touch, callbacks
  <2>3. \A d \in Callbacks : session'[d].status = session[d].status
    BY <1>0, <2>1, <2>2, TouchedRow, Zenon
  <2>4. \A d \in Callbacks : Active(d)' => Active(d) /\ pc'[d] # "new"
    BY <1>0, <2>2, <2>3, Zenon DEF Active, AttemptInv
  <2> QED
    BY <1>0, <2>2, <2>4, AttemptKept, Zenon
<1>7. CASE DeleteExpired
  <2>1. UNCHANGED pc /\ attempt' \in {attempt, Gone}
    BY <1>7, Zenon DEF DeleteExpired
  <2>2. \A d \in Callbacks : session'[d].status # "none" => session[d].status # "none"
    BY <1>0, <1>7, DeletedRows, Zenon
  <2>3. \A d \in Callbacks : Active(d)' => Active(d) /\ pc'[d] # "new"
    BY <1>0, <2>1, <2>2, Zenon DEF Active, AttemptInv
  <2> QED
    BY <1>0, <2>1, <2>3, AttemptKept, Zenon
<1>8. CASE ChangeGroups \/ Discover \/ Tick
  BY <1>1, <1>8, Zenon DEF ChangeGroups, Discover, Tick, callbacks
<1>9. ASSUME NEW r \in Requests, GetActiveSession(r) PROVE AttemptInv'
  BY <1>1, <1>9, Zenon DEF GetActiveSession, callbacks
<1>10. ASSUME NEW r \in Requests, NEW c \in Callbacks, Start(r, c) PROVE AttemptInv'
  BY <1>1, <1>10, Zenon DEF Start, callbacks
<1> QED
  BY <1>2, <1>3, <1>4, <1>5, <1>6, <1>7, <1>8, <1>9, <1>10, Zenon DEF Next

-----------------------------------------------------------------------------
(* Sign-out *)

\* Steps that take no row back to life and leave the rest alone.
LEMMA SignOutKept ==
  ASSUME SignOutInv, UNCHANGED <<cookies, signedOut, req>>, TypeOK,
         \A c \in cookies : pc'[c] = pc[c],
         \A c \in signedOut : session'[c].status = "live" => session[c].status = "live"
  PROVE  SignOutInv'
  BY Zenon DEF SignOutInv

\* A row that was revoked is not live again, and a request that began after the
\* sign-out does not get past GetActiveSession.
LEMMA SignOutStep ==
  ASSUME IInv, Next
  PROVE  SignOutInv'
<1>0. TypeOK /\ SignOutInv /\ RoleInv
  BY Zenon DEF IInv
<1>1. CASE ChangeGroups \/ Discover \/ login \/ Tick
  BY <1>0, <1>1, SignOutKept, Zenon
     DEF ChangeGroups, Discover, login, Tick, callbacks, browser
<1>2. ASSUME NEW c \in Callbacks, ConsumeLoginAttempt(c) \/ Exchange(c)
      PROVE  SignOutInv'
  <2>1. pc[c] # "signed in" /\ UNCHANGED <<cookies, signedOut, req, session>>
    BY <1>2, Zenon DEF ConsumeLoginAttempt, Exchange, browser
  <2>2. \A d \in Callbacks \ {c} : pc'[d] = pc[d]
    BY <1>0, <1>2, Zenon DEF TypeOK, ConsumeLoginAttempt, Exchange, Goto
  <2> QED
    BY <1>0, <2>1, <2>2, SignOutKept, Zenon DEF SignOutInv, TypeOK
<1>3. ASSUME NEW c \in Callbacks, CreateSession(c) PROVE SignOutInv'
  <2>1. /\ pc[c] = "exchanged" /\ UNCHANGED <<signedOut, req>>
        /\ cookies' \in {cookies, cookies \cup {c}}
        /\ c \in cookies' => pc'[c] = "signed in" \/ c \in cookies
        /\ \A d \in Callbacks \ {c} : pc'[d] = pc[d] /\ session'[d] = session[d]
    BY <1>0, <1>3, Zenon DEF TypeOK, CreateSession, NewSession, Goto
  <2>2. c \notin cookies /\ c \notin signedOut
    BY <1>0, <2>1, Zenon DEF SignOutInv
  <2> QED
    BY <1>0, <2>1, <2>2, Zenon DEF SignOutInv, TypeOK
<1>4. ASSUME NEW c \in Callbacks, logout(c) PROVE SignOutInv'
  <2>1. UNCHANGED <<cookies, req, pc>> /\ c \in cookies
    BY <1>4, Zenon DEF logout, callbacks
  <2>2. CASE Revoked(c)
    <3>1. session'[c].status # "live"
      BY <1>0, <2>2, RevokedRow, Zenon
    <3>2. \A d \in Callbacks : session'[d].status = "live" => session[d].status = "live"
      BY <1>0, <2>2, RevokedRow, Zenon
    <3>3. signedOut' \in {signedOut, signedOut \cup {c}}
      BY <1>4, Zenon DEF logout
    <3> QED
      BY <1>0, <2>1, <3>1, <3>2, <3>3, Zenon DEF SignOutInv, TypeOK
  <2>3. CASE UNCHANGED <<session, signedOut>>
    BY <1>0, <2>1, <2>3, SignOutKept, Zenon
  <2> QED
    BY <1>4, <2>2, <2>3, Zenon DEF logout
<1>5. ASSUME NEW r \in Requests, NEW c \in Callbacks, Start(r, c) PROVE SignOutInv'
  <2>1. UNCHANGED <<cookies, signedOut, pc, session>> /\ c \in cookies
    BY <1>5, Zenon DEF Start, callbacks, browser
  <2>2. /\ req'[r].at = "start" /\ req'[r].of = c
        /\ req'[r].late <=> c \in signedOut
    BY <1>0, <1>5, RequestStarts, Zenon
  <2>3. \A q \in Requests \ {r} : req'[q] = req[q]
    BY <1>0, <1>5, RequestStarts, Zenon
  <2> QED
    BY <1>0, <2>1, <2>2, <2>3, Zenon DEF SignOutInv
<1>6. ASSUME NEW r \in Requests, GetActiveSession(r) PROVE SignOutInv'
  <2>1. UNCHANGED <<cookies, signedOut, pc, session>>
    BY <1>6, Zenon DEF GetActiveSession, callbacks, browser
  <2>2. CASE req'[r].at = "idle"
    BY <1>0, <1>6, <2>1, <2>2, RequestChecked, ZenonT(30) DEF SignOutInv
  <2>3. CASE /\ req'[r].of = req[r].of /\ req'[r].late = req[r].late
             /\ active(session[req[r].of], req[r].clock)
    <3>1. ~req[r].late /\ req[r].at = "start"
      BY <1>0, <1>6, <2>3, RequestChecked, Zenon DEF SignOutInv, active
    <3> QED
      BY <1>0, <1>6, <2>1, <2>3, <3>1, RequestChecked, ZenonT(30) DEF SignOutInv
  <2> QED
    BY <1>0, <1>6, <2>2, <2>3, RequestChecked, Zenon
<1>7. ASSUME NEW r \in Requests, Touch(r) PROVE SignOutInv'
  <2>1. req[r].of \in Callbacks
    BY <1>0, <1>7, Zenon DEF TypeOK, SignOutInv, Touch
  <2>2. /\ UNCHANGED <<cookies, signedOut, pc>>
        /\ req' = [req EXCEPT ![r] = NoRequest]
        /\ \/ session' = [session EXCEPT ![req[r].of] = TouchSession(@)]
           \/ UNCHANGED session
    BY <1>7, Zenon DEF Touch, Finish, callbacks, browser
  <2>3. \A d \in Callbacks : session'[d].status = session[d].status
    BY <1>0, <2>1, <2>2, TouchedRow, Zenon
  <2> QED
    BY <1>0, <2>2, <2>3, RequestOver, ZenonT(30) DEF SignOutInv, TypeOK
<1>8. CASE DeleteExpired
  <2>1. UNCHANGED <<cookies, signedOut, req, pc>>
    BY <1>8, Zenon DEF DeleteExpired, browser
  <2>2. \A d \in Callbacks : session'[d].status = "live" => session[d].status = "live"
    BY <1>0, <1>8, DeletedRows, Zenon
  <2> QED
    BY <1>0, <2>1, <2>2, SignOutKept, Zenon DEF TypeOK
<1> QED
  BY <1>1, <1>2, <1>3, <1>4, <1>5, <1>6, <1>7, <1>8, Zenon DEF Next

-----------------------------------------------------------------------------
(* Roles *)

\* lastHeld only moves forward: when time passes or groups change, to this instant.
LEMMA HeldMoves ==
  ASSUME TypeOK, RoleInv, NEW gs, NEW t \in {now, now + 1}, lastHeld' = Held(gs, t)
  PROVE  /\ \A x \in Roles : /\ lastHeld[x] <= lastHeld'[x]
                             /\ lastHeld'[x] <= t
                             /\ roleFrom(gs) = x => lastHeld'[x] = t
                             /\ lastHeld[x] = t => lastHeld'[x] = t
         /\ lastHeld' \in [Roles -> Int]
<1>1. /\ now \in Nat /\ lastHeld \in [Roles -> Int]
      /\ \A x \in Roles : lastHeld[x] \in Int /\ lastHeld[x] <= now
  BY Zenon DEF TypeOK, RoleInv
<1>2. \A x \in Roles : lastHeld'[x] = IF roleFrom(gs) = x THEN t ELSE lastHeld[x]
  BY Zenon DEF Held
<1> QED
  BY <1>1, <1>2 DEF Held

\* The bounds of rows and requests survive a later lastHeld.
LEMMA RoleBounds ==
  ASSUME TypeOK, RoleInv, UNCHANGED <<session, req>>,
         lastHeld' \in [Roles -> Int],
         \A x \in Roles : lastHeld[x] <= lastHeld'[x]
  PROVE  /\ \A c \in Callbacks : session'[c].status # "none" =>
              /\ session'[c].role \in Roles
              /\ session'[c].expires <= lastHeld'[session'[c].role] + MaxSkew + SessionTTL
         /\ \A r \in Requests : req'[r].at = "touch" =>
              /\ req'[r].role \in Roles
              /\ req'[r].read < lastHeld'[req'[r].role] + MaxSkew + SessionTTL
<1>1. \A c \in Callbacks : session[c].expires \in Int
  BY Zenon DEF TypeOK, Session
<1>2. \A r \in Requests : req[r].read \in Int
  BY Zenon DEF TypeOK, Request
<1>3. \A x \in Roles : lastHeld[x] \in Int /\ lastHeld'[x] \in Int
  BY Zenon DEF TypeOK
<1> QED
  BY <1>1, <1>2, <1>3, Durations DEF RoleInv

\* A session is created at an instant at which its role is held, and no later step
\* moves its expiry.
LEMMA RoleStep ==
  ASSUME IInv, Next
  PROVE  RoleInv'
<1>0. TypeOK /\ RoleInv /\ SignOutInv
  BY Zenon DEF IInv
<1>1. CASE ChangeGroups
  <2>1. /\ lastHeld' = Held(groups', now)
        /\ UNCHANGED <<now, pc, role, session, req>>
    BY <1>1, Zenon DEF ChangeGroups, callbacks
  <2>2. /\ \A x \in Roles : /\ lastHeld[x] <= lastHeld'[x] /\ lastHeld'[x] <= now
                            /\ roleFrom(groups') = x => lastHeld'[x] = now
                            /\ lastHeld[x] = now => lastHeld'[x] = now
        /\ lastHeld' \in [Roles -> Int]
    BY <1>0, <2>1, HeldMoves, Zenon
  <2>3. \A c \in Callbacks :
          pc'[c] = "exchanged" => role'[c] \in Roles /\ lastHeld'[role'[c]] = now'
    BY <1>0, <2>1, <2>2, Zenon DEF RoleInv
  <2>4. \A x \in Roles : /\ lastHeld'[x] <= now'
                         /\ roleFrom(groups') = x => lastHeld'[x] = now'
    BY <2>1, <2>2, Zenon
  <2> QED
    BY <1>0, <2>1, <2>2, <2>3, <2>4, RoleBounds, Zenon DEF RoleInv
<1>2. CASE Tick
  <2>1. /\ lastHeld' = Held(groups, now + 1) /\ now' = now + 1
        /\ UNCHANGED <<groups, pc, role, session, req>>
        /\ \A c \in Callbacks : pc[c] # "exchanged"
    BY <1>2, Zenon DEF Tick, callbacks
  <2>2. /\ \A x \in Roles : /\ lastHeld[x] <= lastHeld'[x] /\ lastHeld'[x] <= now'
                            /\ roleFrom(groups) = x => lastHeld'[x] = now'
        /\ lastHeld' \in [Roles -> Int]
    BY <1>0, <2>1, HeldMoves, Zenon
  <2> QED
    BY <1>0, <2>1, <2>2, RoleBounds, Zenon DEF RoleInv
<1>3. CASE Discover \/ login
  BY <1>0, <1>3, Zenon DEF RoleInv, Discover, login, idp, callbacks
<1>4. ASSUME NEW c \in Callbacks, ConsumeLoginAttempt(c) PROVE RoleInv'
  <2>1. /\ UNCHANGED <<now, groups, lastHeld, role, session, req>>
        /\ \A d \in Callbacks : pc'[d] = "exchanged" => pc[d] = "exchanged"
    BY <1>0, <1>4, Zenon DEF TypeOK, ConsumeLoginAttempt, Goto, idp
  <2> QED
    BY <1>0, <2>1, Zenon DEF RoleInv
<1>5. ASSUME NEW c \in Callbacks, Exchange(c) PROVE RoleInv'
  <2>1. UNCHANGED <<now, groups, lastHeld, session, req>>
    BY <1>5, Zenon DEF Exchange, idp
  <2>2. \A d \in Callbacks :
          pc'[d] = "exchanged" => role'[d] \in Roles /\ lastHeld[role'[d]] = now
    BY <1>0, <1>5, Zenon DEF TypeOK, RoleInv, Exchange, Goto
  <2> QED
    BY <1>0, <2>1, <2>2, Zenon DEF RoleInv
<1>6. ASSUME NEW c \in Callbacks, CreateSession(c) PROVE RoleInv'
  <2>1. /\ UNCHANGED <<now, groups, lastHeld, req>> /\ pc[c] = "exchanged"
        /\ NewSession(c) \/ UNCHANGED session
        /\ \A d \in Callbacks \ {c} : pc'[d] = pc[d] /\ role'[d] = role[d]
        /\ pc'[c] # "exchanged"
    BY <1>0, <1>6, Zenon DEF TypeOK, CreateSession, Goto, idp
  <2>2. role[c] \in Roles /\ lastHeld[role[c]] = now
    BY <1>0, <2>1, Zenon DEF RoleInv
  <2>3. \A d \in Callbacks : session'[d].status # "none" =>
          /\ session'[d].role \in Roles
          /\ session'[d].expires <= lastHeld[session'[d].role] + MaxSkew + SessionTTL
    <3>1. CASE NewSession(c)
      BY <1>0, <2>2, <3>1, NewSessionRow DEF RoleInv
    <3>2. CASE UNCHANGED session
      BY <1>0, <3>2, Zenon DEF RoleInv
    <3> QED
      BY <2>1, <3>1, <3>2, Zenon
  <2>4. \A d \in Callbacks :
          pc'[d] = "exchanged" => role'[d] \in Roles /\ lastHeld[role'[d]] = now
    BY <1>0, <2>1, Zenon DEF RoleInv
  <2> QED
    BY <1>0, <2>1, <2>3, <2>4, Zenon DEF RoleInv
<1>7. ASSUME NEW c \in Callbacks, logout(c) PROVE RoleInv'
  <2>1. /\ UNCHANGED <<now, groups, lastHeld, pc, role, req>>
        /\ Revoked(c) \/ UNCHANGED session
    BY <1>7, Zenon DEF logout, idp, callbacks
  <2>2. \A d \in Callbacks : session'[d].status # "none" =>
            /\ session[d].status # "none"
            /\ session'[d].role = session[d].role
            /\ session'[d].expires = session[d].expires
    BY <1>0, <2>1, RevokedRow, Zenon
  <2> QED
    BY <1>0, <2>1, <2>2, Zenon DEF RoleInv
<1>8. ASSUME NEW r \in Requests, NEW c \in Callbacks, Start(r, c) PROVE RoleInv'
  <2>1. UNCHANGED <<now, groups, lastHeld, pc, role, session>>
    BY <1>8, Zenon DEF Start, idp, callbacks
  <2>2. \A q \in Requests : req'[q].at = "touch" => req'[q] = req[q]
    BY <1>0, <1>8, RequestStarts, Zenon
  <2> QED
    BY <1>0, <2>1, <2>2, Zenon DEF RoleInv
<1>9. ASSUME NEW r \in Requests, GetActiveSession(r) PROVE RoleInv'
  <2>1. UNCHANGED <<now, groups, lastHeld, pc, role, session>>
    BY <1>9, Zenon DEF GetActiveSession, idp, callbacks
  <2>2. ASSUME req'[r].at = "touch"
        PROVE  /\ req'[r].role \in Roles
               /\ req'[r].read < lastHeld[req'[r].role] + MaxSkew + SessionTTL
    <3> DEFINE row == session[req[r].of]
    <3>1. /\ req[r].at = "start" /\ req'[r].read = now /\ req'[r].role = row.role
          /\ row.role \in Roles /\ row.status = "live" /\ row.expires > now
      BY <1>0, <1>9, <2>2, RequestChecked, Zenon DEF active
    <3>2. req[r].of \in Callbacks
      BY <1>0, <3>1, Zenon DEF SignOutInv, TypeOK
    <3>3. row.expires <= lastHeld[row.role] + MaxSkew + SessionTTL
      BY <1>0, <3>1, <3>2, Zenon DEF RoleInv
    <3>4. row.expires \in Int /\ lastHeld[row.role] \in Int /\ now \in Int
      BY <1>0, <3>1, <3>2, SMTT(30) DEF TypeOK, Session
    <3> HIDE DEF row
    <3> QED
      BY <3>1, <3>3, <3>4, Durations
  <2>3. \A q \in Requests \ {r} : req'[q] = req[q]
    BY <1>0, <1>9, RequestChecked, Zenon
  <2> QED
    BY <1>0, <2>1, <2>2, <2>3, Zenon DEF RoleInv
<1>10. ASSUME NEW r \in Requests, Touch(r) PROVE RoleInv'
  <2>1. req[r].of \in Callbacks
    BY <1>0, <1>10, Zenon DEF TypeOK, SignOutInv, Touch
  <2>2. /\ UNCHANGED <<now, groups, lastHeld, pc, role>>
        /\ req' = [req EXCEPT ![r] = NoRequest]
        /\ \/ session' = [session EXCEPT ![req[r].of] = TouchSession(@)]
           \/ UNCHANGED session
    BY <1>10, Zenon DEF Touch, Finish, idp, callbacks
  <2>3. \A d \in Callbacks : /\ session'[d].status = session[d].status
                             /\ session'[d].role = session[d].role
                             /\ session'[d].expires = session[d].expires
    BY <1>0, <2>1, <2>2, TouchedRow, Zenon
  <2>4. \A q \in Requests : req'[q].at = "touch" => req'[q] = req[q]
    BY <1>0, <2>2, RequestOver, Zenon
  <2> QED
    BY <1>0, <2>2, <2>3, <2>4, Zenon DEF RoleInv
<1>11. CASE DeleteExpired
  <2>1. UNCHANGED <<now, groups, lastHeld, pc, role, req>>
    BY <1>11, Zenon DEF DeleteExpired, idp
  <2>2. \A d \in Callbacks : session'[d].status # "none" => session'[d] = session[d]
    BY <1>0, <1>11, DeletedRows, Zenon
  <2> QED
    BY <1>0, <2>1, <2>2, Zenon DEF RoleInv
<1> QED
  BY <1>1, <1>2, <1>3, <1>4, <1>5, <1>6, <1>7, <1>8, <1>9, <1>10, <1>11, Zenon DEF Next

-----------------------------------------------------------------------------
(* The theorems *)

\* The invariant holds before anybody has signed in.
LEMMA InitIInv == ASSUME Init PROVE IInv
<1>1. TypeOK
  <2>1. NoSession \in Session /\ NoRequest \in Request
    BY DEF NoSession, Session, NoRequest, Request, MaybeRole
  <2> QED
    BY <2>1 DEF Init, TypeOK, Labels, MaybeRole, Gone
<1>2. AttemptInv /\ SignOutInv
  BY Zenon DEF Init, AttemptInv, Active, SignOutInv, NoSession, NoRequest
<1>3. RoleInv
  BY DEF Init, RoleInv, NoSession, NoRequest, Gone
<1>4. UseInv
  BY DEF Init, UseInv, RowInv, NoRequest
<1>5. ClockInv
  BY DEF Init, ClockInv, Looked, NoRequest
<1> QED
  BY <1>1, <1>2, <1>3, <1>4, <1>5, Zenon DEF IInv, Init

\* The invariant holds for any clocks, durations, failures and interleaving of
\* callbacks, requests, sign-outs and the cleanup.
THEOREM Invariance == Spec => []IInv
<1>1. ASSUME IInv, [Next]_vars PROVE IInv'
  <2>1. CASE Next
    <3>1. TypeOK'
      BY <1>1, <2>1, TypeStep, Zenon DEF IInv
    <3> QED
      BY <1>1, <2>1, <3>1, FaultsStep, AttemptStep, SignOutStep, RoleStep, UseStep,
         ClockStep, Zenon DEF IInv
  <2>2. CASE UNCHANGED vars
    <3>1. TypeOK' /\ (faults \in Nat)' /\ AttemptInv'
      BY <1>1, <2>2, Zenon DEF vars, IInv, TypeOK, AttemptInv, Active
    <3>2. SignOutInv' /\ RoleInv'
      BY <1>1, <2>2, ZenonT(30) DEF vars, IInv, SignOutInv, RoleInv
    <3>3. UseInv' /\ ClockInv'
      BY <1>1, <2>2, ZenonT(30) DEF vars, IInv, UseInv, RowInv, ClockInv, Looked
    <3> QED
      BY <3>1, <3>2, <3>3, Zenon DEF IInv
  <2> QED
    BY <1>1, <2>1, <2>2, Zenon
<1> QED
  BY <1>1, InitIInv, PTL DEF Spec

\* A request that begins after its session's sign-out was answered is not let in,
\* although others refresh the session at the same time.
THEOREM RevokedTheorem == Spec => []RevokedStaysOut
<1>1. IInv => RevokedStaysOut
  BY Zenon DEF IInv, SignOutInv, RevokedStaysOut, Accepted
<1> QED
  BY <1>1, Invariance, PTL

\* A role that was taken away in the identity provider is of use for SessionTTL at
\* most, give or take the clocks: no refresh moves the expiry.
THEOREM OffboardedTheorem == Spec => []OffboardedInTime
<1>1. ASSUME IInv PROVE OffboardedInTime
  <2>1. \A r \in Requests : req[r].read \in Int
    BY <1>1, Instants, Zenon DEF IInv
  <2>2. \A x \in Roles : lastHeld[x] \in Int
    BY <1>1, Zenon DEF IInv, TypeOK
  <2> QED
    BY <1>1, <2>1, <2>2, Durations DEF IInv, RoleInv, OffboardedInTime, Accepted
<1> QED
  BY <1>1, Invariance, PTL

\* A person who is owed a session has an active row, by whichever clock.
LEMMA OwedIsActive ==
  ASSUME IInv, NEW r \in Requests, req[r].at = "start", Owed(r)
  PROVE  LET row == session[req[r].of] IN
         active(row, req[r].clock) /\ row.role \in Roles
<1> DEFINE c == req[r].of
           clock == req[r].clock
           t == req[r].began
<1>1. c \in Callbacks /\ RowInv(c)
  BY Zenon DEF IInv, TypeOK, UseInv, SignOutInv
<1>2. /\ now \in Int /\ session[c].expires \in Int /\ session[c].seen \in Int
      /\ used[c].first \in Int /\ used[c].last \in Int
      /\ clock \in Int /\ t \in Int /\ clock <= t + MaxSkew
  <2>1. Looked(req[r], now)
    BY Zenon DEF IInv, ClockInv
  <2>2. clock <= t + MaxSkew
    BY <2>1, Zenon DEF Looked
  <2> QED
    BY <1>1, <2>2, Instants, Zenon DEF IInv
<1>3. session[c].status \in {"none", "live", "revoked"}
  BY <1>1, Zenon DEF IInv, TypeOK, Session
<1>4. session[c].status = "live" /\ session[c].expires > now
  BY <1>1, <1>2, <1>3, Durations DEF Owed, RowInv
<1>5. session[c].seen > clock - IdleTTL
  BY <1>1, <1>2, <1>4, Durations DEF Owed, RowInv
<1>6. session[c].role \in Roles
  BY <1>1, <1>4, Zenon DEF IInv, RoleInv
<1> QED
  BY <1>4, <1>5, <1>6, Zenon DEF active

\* A session that nobody used for IdleTTL is over, and a person who keeps using the
\* console is signed out by no step but a failure, a sign-out or SessionTTL, for any
\* touch interval and any difference between the clocks.
THEOREM IdleTheorem == Spec => SignedOutWhenIdle
<1>1. IInv => IdleIsOut
  BY Zenon DEF IInv, UseInv, IdleIsOut, Accepted
<1>2. ASSUME IInv, [Next]_vars
      PROVE  [\A r \in Requests :
                req[r].at = "start" /\ req'[r].at = "idle" /\ faults' = faults
                  => ~Owed(r)]_vars
  <2> SUFFICES ASSUME Next, NEW r \in Requests, req[r].at = "start",
                      req'[r].at = "idle", faults' = faults
               PROVE  ~Owed(r)
    BY <1>2, Zenon
  <2>1. GetActiveSession(r)
    <3>0. req' # req
      BY Zenon
    <3>1. ~(ChangeGroups \/ Discover \/ login \/ DeleteExpired \/ Tick)
      BY <3>0, Zenon DEF ChangeGroups, Discover, login, DeleteExpired, Tick
    <3>2. ASSUME NEW c \in Callbacks, Callback(c) PROVE FALSE
      BY <3>0, <3>2, Zenon DEF Callback, ConsumeLoginAttempt, Exchange, CreateSession,
                        logout
    <3>3. ASSUME NEW q \in Requests, NEW c \in Callbacks, Start(q, c) PROVE FALSE
      BY <1>2, <3>3, RequestStarts, Zenon DEF IInv
    <3>4. ASSUME NEW q \in Requests, Touch(q) PROVE FALSE
      <4>1. q # r /\ req' = [req EXCEPT ![q] = NoRequest]
        BY <3>4, Zenon DEF Touch, Finish
      <4> QED
        BY <1>2, <4>1, RequestOver, Zenon DEF IInv
    <3>5. ASSUME NEW q \in Requests, GetActiveSession(q) PROVE q = r
      BY <1>2, <3>5, RequestChecked, Zenon DEF IInv
    <3> QED
      BY <3>1, <3>2, <3>3, <3>4, <3>5, Zenon DEF Next, Callback
  <2>2. LET row == session[req[r].of] IN
        ~active(row, req[r].clock) \/ row.role \notin Roles
    <3>1. ~Fault
      BY <1>2 DEF IInv, Fault
    <3> DEFINE due == Due(session[req[r].of], req[r].clock)
               held == session[req[r].of].role
    <3>2. ASSUME req' = [req EXCEPT ![r].at = "touch", ![r].read = now, ![r].clock = 0,
                                    ![r].due = due, ![r].role = held]
          PROVE  FALSE
      <4>1. req' = [req EXCEPT ![r] = [req[r] EXCEPT !.at = "touch", !.read = now,
                                           !.clock = 0, !.due = due, !.role = held]]
        BY <3>2, Zenon
      <4>2. req'[r].at = "touch"
        BY <1>2, <4>1, Zenon DEF IInv, TypeOK, Request
      <4> QED
        BY <4>2, Zenon
    <3> QED
      BY <2>1, <3>1, <3>2, Zenon DEF GetActiveSession
  <2> QED
    BY <1>2, <2>2, OwedIsActive, Zenon
<1> QED
  BY <1>1, <1>2, Invariance, PTL DEF Spec, SignedOutWhenIdle

-----------------------------------------------------------------------------
(* Facts about cardinality are needed from here on. *)

INSTANCE FiniteSetTheorems

\* ConsumeLoginAttempt deletes the attempt and returns it in one statement, so of
\* any number of callbacks with the same state one at most gets a session.
THEOREM SingleUseTheorem == Spec => []SingleUse
<1>1. ASSUME IInv PROVE SingleUse
  <2> DEFINE A == {c \in Callbacks : Active(c)}
  <2>1. CASE A = {}
    <3>1. Cardinality(A) = 0
      BY <2>1, FS_EmptySet, Zenon
    <3> QED
      BY <3>1 DEF SingleUse, Active
  <2>2. ASSUME NEW c \in A PROVE SingleUse
    <3>1. A = {c}
      BY <1>1, <2>2, Zenon DEF IInv, AttemptInv
    <3>2. Cardinality(A) = 1
      BY <3>1, FS_Singleton, Zenon
    <3> QED
      BY <3>2 DEF SingleUse, Active
  <2> QED
    BY <2>1, <2>2, Zenon
<1> QED
  BY <1>1, Invariance, PTL

=============================================================================
