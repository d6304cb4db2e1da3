--------------------------- MODULE SlackAppProofs ---------------------------
(***************************************************************************)
(* What decisions taken in Slack keep for any number of people, requests,    *)
(* actions and faults: a person is told the truth, a click decides only      *)
(* under an address that was its user's recently, and the buttons follow      *)
(* the decision.                                                            *)
(***************************************************************************)
EXTENDS SlackApp, TLAPS

Clicks == [user : Users, entry : Entries, verb : {"approved", "denied"}, at : Int]

Address == Emails \cup {None}

Labels == {"idle", "sent", "lookup", "found", "decide", "record", "answer", "done"}

Request ==
    [at : Labels, click : Clicks \cup {None}, email : Address, since : Int,
     changed : BOOLEAN, lost : BOOLEAN, outcome : Outcomes \cup {None}]

TypeOK ==
    /\ now \in Nat
    /\ status \in [Entries -> Queue!States]
    /\ DOMAIN calls = Entries /\ DOMAIN resolvedBy = Entries
    /\ account \in [Users -> Address]
    /\ lastHeld \in [Users -> [Reviewers -> Int]]
    /\ message \in [Entries -> {"none", "buttons"} \cup Outcomes]
    /\ cache \in [Users -> [email : Address, expires : Int]]
    /\ req \in [Requests -> Request]

Decided(s) == s \notin {"absent", "pending"}

\* What a request may claim at the point it has reached.
Progress(q) ==
    /\ q.at # "idle" => q.click \in Clicks
    /\ q.at \notin {"record", "answer"} => ~q.changed
    /\ q.at # "answer" => q.outcome = None /\ ~q.lost
    /\ q.at = "answer" => q.outcome \in Outcomes
    /\ q.at = "record" => q.changed

\* What is so of the action of a request, in terms of the columns status and
\* resolved_by and of the ledger.
Effect(q, st, by, led) ==
    LET e == q.click.entry IN
    /\ q.at # "idle" => st[e] # "absent"
    /\ q.changed => Decided(st[e])
    /\ q.outcome = "already decided" => ~q.changed /\ Decided(st[e])
    /\ q.at = "record" /\ q.click.verb = "denied" =>
         st[e] = "denied" /\ by[e] = q.email
    /\ q.outcome \in {"approved", "denied"} =>
         /\ q.changed
         /\ [entry |-> e, verb |-> q.outcome, by |-> q.email] \in led
    /\ q.outcome = "denied" => st[e] = "denied" /\ by[e] = q.email
    /\ q.outcome = "audit unavailable" => q.changed
    /\ q.outcome \in {"unconfirmed", "not listed"} => ~q.changed
    /\ q.outcome = "failed" => (q.changed <=> q.lost)

TruthInv ==
    \A r \in Requests :
        Progress(req[r]) /\ Effect(req[r], status, resolvedBy, ledger)

MessageInv ==
    \A e \in Entries :
        /\ message[e] # "none" => status[e] # "absent"
        /\ message[e] \notin {"none", "buttons"} => Decided(status[e])

\* The history of addresses, and how old a cached address may be.
HistoryInv ==
    \A u \in Users, m \in Reviewers :
        /\ lastHeld[u][m] <= now
        /\ account[u] = m => lastHeld[u][m] = now
        /\ cache[u].email = m =>
             cache[u].expires <= lastHeld[u][m] + emailCacheTTL + callTimeout

\* How old the click and the address of a request may be at time t.
Timely(q, t, held) ==
    /\ q.at \in {"lookup", "found"} =>
         /\ q.since <= t /\ t - q.since <= callTimeout
         /\ q.since - q.click.at <= maxSignatureAge
    /\ q.at = "found" /\ q.email \in Reviewers =>
         q.since <= held[q.click.user][q.email]
    /\ q.at = "decide" =>
         /\ q.email \in Reviewers
         /\ q.since - held[q.click.user][q.email] < emailCacheTTL + callTimeout
         /\ q.since - q.click.at <= maxSignatureAge + callTimeout

TimeInv == HistoryInv /\ \A r \in Requests : Timely(req[r], now, lastHeld)

IInv == TypeOK /\ TruthInv /\ MessageInv /\ TimeInv

-----------------------------------------------------------------------------
(* The records that requests go through *)

Arrived(q, c) == [q EXCEPT !.at = "sent", !.click = c]

LookedUp(q, t) == [q EXCEPT !.at = "lookup", !.since = t]

Found(q, m) == [q EXCEPT !.at = "found", !.email = m]

Known(q, m, t) ==
    [q EXCEPT !.email = m,
              !.since = IF m \in Reviewers THEN t ELSE 0,
              !.at = IF m \in Reviewers THEN "decide" ELSE "answer",
              !.outcome = IF m \in Reviewers THEN None ELSE "not listed"]

Changed(q) == [q EXCEPT !.at = "record", !.since = 0, !.changed = TRUE]

Lost(q) == [q EXCEPT !.changed = TRUE, !.lost = TRUE]

Nameless(q) == [q EXCEPT !.email = None]

\* A request that has not arrived.
LEMMA NoRequestFields ==
    /\ NoRequest \in Request /\ NoRequest.at = "idle" /\ NoRequest.outcome = None
    /\ ~NoRequest.changed /\ ~NoRequest.lost
  BY DEF NoRequest, Request, Labels, Address

\* A click arrives.
LEMMA SentFields ==
  ASSUME NEW q \in Request, NEW c \in Clicks
  PROVE  LET x == Arrived(q, c) IN
         /\ x \in Request /\ x.at = "sent" /\ x.click = c /\ x.outcome = q.outcome
         /\ x.changed = q.changed /\ x.lost = q.lost
  BY Zenon DEF Arrived, Request, Labels

\* The address is looked up.
LEMMA LookupFields ==
  ASSUME NEW q \in Request, NEW t \in Int
  PROVE  LET x == LookedUp(q, t) IN
         /\ x \in Request /\ x.at = "lookup" /\ x.click = q.click /\ x.since = t
         /\ x.outcome = q.outcome /\ x.changed = q.changed /\ x.lost = q.lost
  BY Zenon DEF LookedUp, Request, Labels

\* Slack has told the address.
LEMMA FoundFields ==
  ASSUME NEW q \in Request, NEW m \in Address
  PROVE  LET x == Found(q, m) IN
         /\ x \in Request /\ x.at = "found" /\ x.click = q.click /\ x.email = m
         /\ x.since = q.since
         /\ x.outcome = q.outcome /\ x.changed = q.changed /\ x.lost = q.lost
  BY Zenon DEF Found, Request, Labels

\* A request that is answered with outcome o.
LEMMA AnsweredFields ==
  ASSUME NEW q \in Request, NEW o \in Outcomes
  PROVE  LET x == Answered(q, o) IN
         /\ x \in Request /\ x.at = "answer" /\ x.click = q.click /\ x.email = q.email
         /\ x.outcome = o /\ x.changed = q.changed /\ x.lost = q.lost
<1> DEFINE t == 0
           x == [q EXCEPT !.at = "answer", !.since = t, !.outcome = o]
<1>0. t \in Int
  OBVIOUS
<1>x. x = Answered(q, o)
  BY Zenon DEF Answered
<1> HIDE DEF t
<1>1. /\ x.at = "answer" /\ x.click = q.click /\ x.email = q.email
      /\ x.outcome = o /\ x.changed = q.changed /\ x.lost = q.lost
  BY Zenon DEF Request
<1>2. x \in Request
  BY <1>0, Zenon DEF Request, Labels
<1> HIDE DEF x
<1> QED
  BY <1>x, <1>1, <1>2, Zenon

\* A request whose UPDATE took effect, with its reply or without it.
LEMMA ChangedFields ==
  ASSUME NEW q \in Request
  PROVE  LET x == Changed(q)  y == Lost(q)  z == Nameless(q) IN
         /\ x \in Request /\ x.at = "record" /\ x.click = q.click /\ x.email = q.email
         /\ x.outcome = q.outcome /\ x.changed /\ x.lost = q.lost
         /\ y \in Request /\ y.click = q.click /\ y.email = q.email
         /\ y.changed /\ y.lost
         /\ z \in Request /\ z.click = q.click
         /\ z.changed = q.changed /\ z.lost = q.lost
<1> DEFINE t == 0
           x == [q EXCEPT !.at = "record", !.since = t, !.changed = TRUE]
           y == [q EXCEPT !.changed = TRUE, !.lost = TRUE]
           z == [q EXCEPT !.email = None]
<1>0. t \in Int
  OBVIOUS
<1> HIDE DEF t
<1>1. /\ x \in Request /\ x.at = "record" /\ x.click = q.click /\ x.email = q.email
      /\ x.outcome = q.outcome /\ x.changed /\ x.lost = q.lost
  BY <1>0, Zenon DEF Request, Labels
<1>2. /\ y \in Request /\ y.click = q.click /\ y.email = q.email
      /\ y.changed /\ y.lost
  BY Zenon DEF Request
<1>3. /\ z \in Request /\ z.click = q.click
      /\ z.changed = q.changed /\ z.lost = q.lost
  BY Zenon DEF Request, Address
<1> QED
  BY <1>1, <1>2, <1>3, Zenon DEF t, Changed, Lost, Nameless

\* A request that is over.
LEMMA DoneFields ==
  ASSUME NEW q \in Request
  PROVE  LET x == Done(q) IN
         /\ x \in Request /\ x.at = "done" /\ x.click = q.click /\ x.outcome = None
         /\ ~x.changed /\ ~x.lost
<1> DEFINE n == NoRequest
<1>1. n \in Request /\ n.outcome = None /\ ~n.changed /\ ~n.lost
  BY NoRequestFields, Zenon
<1>2. Done(q) = [n EXCEPT !.at = "done", !.click = q.click]
  BY Zenon DEF Done
<1> HIDE DEF n
<1> QED
  BY <1>1, <1>2, Zenon DEF Request, Labels

\* A request under the address of a reviewer.
LEMMA ReviewerFields ==
  ASSUME NEW q \in Request, NEW m \in Address, NEW t \in Int, m \in Reviewers
  PROVE  LET x == Known(q, m, t) IN
         /\ x \in Request /\ x.at = "decide" /\ x.click = q.click /\ x.email = m
         /\ x.since = t /\ x.outcome = None
         /\ x.changed = q.changed /\ x.lost = q.lost
<1>1. LET x == [q EXCEPT !.email = m, !.since = t, !.at = "decide", !.outcome = None]
      IN  /\ x \in Request /\ x.at = "decide" /\ x.click = q.click /\ x.email = m
          /\ x.since = t /\ x.outcome = None
          /\ x.changed = q.changed /\ x.lost = q.lost
  BY Zenon DEF Request, Labels
<1> QED
  BY <1>1, Zenon DEF Known

\* A request under an address that is not on the list of reviewers.
LEMMA StrangerFields ==
  ASSUME NEW q \in Request, NEW m \in Address, NEW t \in Int, m \notin Reviewers
  PROVE  LET x == Known(q, m, t) IN
         /\ x \in Request /\ x.at = "answer" /\ x.click = q.click /\ x.email = m
         /\ x.outcome = "not listed"
         /\ x.changed = q.changed /\ x.lost = q.lost
<1> DEFINE z == 0
<1>1. z \in Int
  OBVIOUS
<1> HIDE DEF z
<1>2. LET x == [q EXCEPT !.email = m, !.since = z, !.at = "answer",
                         !.outcome = "not listed"]
      IN  /\ x \in Request /\ x.at = "answer" /\ x.click = q.click /\ x.email = m
          /\ x.outcome = "not listed"
          /\ x.changed = q.changed /\ x.lost = q.lost
  BY <1>1, Zenon DEF Request, Labels, Outcomes
<1> QED
  BY <1>2, Zenon DEF z, Known

\* A step that concerns one request.
LEMMA OneRequest ==
  ASSUME req \in [Requests -> Request], NEW r \in Requests, NEW x \in Request,
         req' = [req EXCEPT ![r] = x]
  PROVE  /\ req' \in [Requests -> Request] /\ req'[r] = x
         /\ \A p \in Requests \ {r} : req'[p] = req[p]
  BY Zenon

-----------------------------------------------------------------------------
(* What a person is told *)

\* A decision is never undone, a denied action stays as it was denied, and the
\* ledger only grows.
Forward ==
    /\ \A e \in Entries :
         /\ status[e] # "absent" => status'[e] # "absent"
         /\ Decided(status[e]) => Decided(status'[e])
         /\ status[e] = "denied" =>
              status'[e] = "denied" /\ resolvedBy'[e] = resolvedBy[e]
    /\ ledger \subseteq ledger'

\* The state machine of the queue moves forward only.
LEMMA ElsewhereForward ==
  ASSUME TypeOK, NEW e \in Entries, Elsewhere(e)
  PROVE  /\ Forward /\ status' \in [Entries -> Queue!States]
         /\ DOMAIN calls' = Entries /\ DOMAIN resolvedBy' = Entries
<1>1. PICK s \in Queue!States, n \in 0 .. MaxReplayAttempts + 1 :
         /\ <<s, n>> # <<status[e], calls[e]>>
         /\ status' = [status EXCEPT ![e] = s]
         /\ calls' = [calls EXCEPT ![e] = n]
         /\ resolvedBy' = IF s \in {"approved", "denied"} /\ status[e] # "replaying"
                          THEN [resolvedBy EXCEPT ![e] = "console"] ELSE resolvedBy
  BY Zenon DEF Elsewhere
<1>2. /\ status' \in [Entries -> Queue!States]
      /\ DOMAIN calls' = Entries /\ DOMAIN resolvedBy' = Entries
      /\ status'[e] = s /\ \A d \in Entries \ {e} : status'[d] = status[d]
      /\ \A d \in Entries \ {e} : resolvedBy'[d] = resolvedBy[d]
  BY <1>1, Zenon DEF TypeOK
<1>3. Queue!EntryStep(e) /\ ledger' = ledger
  BY Zenon DEF Elsewhere
<1>4. /\ status[e] # "absent" => status'[e] # "absent"
      /\ Decided(status[e]) => Decided(status'[e])
  BY <1>3, Zenon DEF Queue!EntryStep, Queue!Transition, Queue!Approval, Queue!Call,
              Queue!Moves, Decided
<1>5. status[e] # "denied"
  <2> SUFFICES ASSUME status[e] = "denied" PROVE FALSE
    BY Zenon
  <2>1. status'[e] = status[e] /\ calls'[e] = calls[e]
    BY <1>3, Zenon DEF Queue!EntryStep, Queue!Transition, Queue!Approval, Queue!Call,
                Queue!Moves
  <2>2. s = status[e] /\ n = calls[e]
    BY <1>1, <1>2, <2>1, Zenon DEF TypeOK
  <2> QED
    BY <1>1, <2>2, Zenon
<1> QED
  BY <1>2, <1>3, <1>4, <1>5, Zenon DEF Forward

\* So does a decision taken in Slack.
LEMMA ResolveForward ==
  ASSUME TypeOK, NEW q \in Request, q.click \in Clicks, Open(q.click.entry),
         Resolve(q), ledger' = ledger
  PROVE  /\ Forward /\ status' \in [Entries -> Queue!States]
         /\ DOMAIN calls' = Entries /\ DOMAIN resolvedBy' = Entries
         /\ status'[q.click.entry] = q.click.verb
         /\ resolvedBy'[q.click.entry] = q.email
<1> DEFINE e == q.click.entry
<1>1. e \in Entries /\ q.click.verb \in {"approved", "denied"}
  BY Zenon DEF Clicks
<1>2. /\ status' \in [Entries -> Queue!States] /\ status'[e] = q.click.verb
      /\ \A d \in Entries \ {e} : status'[d] = status[d]
  BY <1>1, Zenon DEF TypeOK, Resolve, Queue!States
<1>3. /\ DOMAIN calls' = Entries /\ DOMAIN resolvedBy' = Entries
      /\ resolvedBy'[e] = q.email
      /\ \A d \in Entries \ {e} : resolvedBy'[d] = resolvedBy[d]
  BY <1>1, Zenon DEF TypeOK, Resolve
<1> QED
  BY <1>1, <1>2, <1>3, Zenon DEF Forward, Open, Decided

\* What is so of a request stays so when everything moves forward.
LEMMA EffectKept ==
  ASSUME NEW q \in Request, Progress(q), Forward,
         Effect(q, status, resolvedBy, ledger)
  PROVE  Effect(q, status', resolvedBy', ledger')
<1>1. CASE q.at = "idle"
  BY <1>1, SlackAppAssumption, Zenon DEF Progress, Effect, Outcomes
<1>2. CASE q.at # "idle"
  <2>1. q.click.entry \in Entries
    BY <1>2, Zenon DEF Progress, Clicks
  <2> QED
    BY <1>2, <2>1, Zenon DEF Effect, Forward
<1> QED
  BY <1>1, <1>2, Zenon

\* A request that has not been answered, and has not changed its action.
LEMMA NothingDone ==
  ASSUME NEW q \in Request, q.outcome = None, ~q.changed, q.at # "record",
         q.at = "idle" \/ status'[q.click.entry] # "absent"
  PROVE  Effect(q, status', resolvedBy', ledger')
  BY SlackAppAssumption, Zenon DEF Effect, Outcomes

\* A request that is told that nothing was changed.
LEMMA NothingChanged ==
  ASSUME NEW q \in Request, ~q.changed, ~q.lost, q.at = "answer",
         q.outcome \in {"unconfirmed", "not listed", "failed"},
         status'[q.click.entry] # "absent"
  PROVE  Effect(q, status', resolvedBy', ledger')
  BY Zenon DEF Effect

\* The claims of request r after its step, and of the others.
Claims(r) ==
    /\ req' \in [Requests -> Request]
    /\ \A p \in Requests \ {r} : req'[p] = req[p]
    /\ Progress(req'[r])
    /\ Effect(req'[r], status', resolvedBy', ledger')

\* The request that Identified leaves.
LEMMA ClaimsIdentified ==
  ASSUME IInv, NEW r \in Requests, NEW m \in Address, Identified(r, req[r], m),
         req[r].at \in {"sent", "lookup", "found"}, UNCHANGED rows
  PROVE  /\ Claims(r) /\ req'[r].click = req[r].click /\ req'[r].email = m
         /\ m \in Reviewers => req'[r].at = "decide" /\ req'[r].since = now
         /\ m \notin Reviewers => req'[r].at = "answer"
<1> DEFINE q == req[r]
           x == Known(q, m, now)
<1>1. /\ req \in [Requests -> Request] /\ q \in Request /\ now \in Int
      /\ Progress(q) /\ Effect(q, status, resolvedBy, ledger)
  BY DEF IInv, TypeOK, TruthInv
<1>2. /\ q.click \in Clicks /\ ~q.changed /\ ~q.lost
      /\ status'[q.click.entry] # "absent"
  BY <1>1, Zenon DEF Progress, Effect, rows
<1>3. req' = [req EXCEPT ![r] = x]
  BY Zenon DEF Identified, Known
<1>4. /\ x \in Request /\ x.click = q.click /\ x.email = m
      /\ x.changed = q.changed /\ x.lost = q.lost
      /\ m \in Reviewers => x.at = "decide" /\ x.since = now /\ x.outcome = None
      /\ m \notin Reviewers => x.at = "answer" /\ x.outcome = "not listed"
  <2>0. q \in Request /\ now \in Int
    BY <1>1, Zenon
  <2>1. CASE m \in Reviewers
    <3>1. /\ x \in Request /\ x.at = "decide" /\ x.click = q.click /\ x.email = m
          /\ x.since = now /\ x.outcome = None
          /\ x.changed = q.changed /\ x.lost = q.lost
      BY <2>0, <2>1, ReviewerFields
    <3> HIDE DEF x
    <3> QED
      BY <2>1, <3>1, Zenon
  <2>2. CASE m \notin Reviewers
    <3>1. /\ x \in Request /\ x.at = "answer" /\ x.click = q.click /\ x.email = m
          /\ x.outcome = "not listed"
          /\ x.changed = q.changed /\ x.lost = q.lost
      <4> HIDE DEF q
      <4> QED
        BY <2>0, <2>2, StrangerFields, ZenonT(30)
    <3> HIDE DEF x
    <3> QED
      BY <2>2, <3>1, Zenon
  <2> QED
    BY <2>1, <2>2, Zenon
<1> HIDE DEF x
<1>x. ~x.changed /\ ~x.lost /\ status'[x.click.entry] # "absent"
  BY <1>2, <1>4, Zenon
<1>5. /\ req' \in [Requests -> Request] /\ req'[r] = x
      /\ \A p \in Requests \ {r} : req'[p] = req[p]
  BY <1>1, <1>3, <1>4, OneRequest, Zenon
<1>6. Progress(x)
  BY <1>2, <1>4, Zenon DEF Progress, Outcomes
<1>7. Effect(x, status', resolvedBy', ledger')
  <2>1. CASE m \in Reviewers
    BY <1>x, <1>4, <2>1, NothingDone, Zenon
  <2>2. CASE m \notin Reviewers
    BY <1>x, <1>4, <2>2, NothingChanged, Zenon
  <2> QED
    BY <2>1, <2>2, Zenon
<1> QED
  BY <1>4, <1>5, <1>6, <1>7, Zenon DEF Claims

\* A request that waits for its address, and one that did not get it.
LEMMA ClaimsWaiting ==
  ASSUME IInv, NEW r \in Requests, NEW x \in Request, req' = [req EXCEPT ![r] = x],
         req[r].at \in {"sent", "lookup", "found"}, UNCHANGED rows,
         x.click = req[r].click, x.changed = req[r].changed, x.lost = req[r].lost,
         \/ x.at \in {"lookup", "found"} /\ x.outcome = req[r].outcome
         \/ x.at = "answer" /\ x.outcome = "unconfirmed"
  PROVE  Claims(r) /\ req'[r] = x
<1> DEFINE q == req[r]
<1>1. /\ req \in [Requests -> Request] /\ q \in Request
      /\ Progress(q) /\ Effect(q, status, resolvedBy, ledger)
  BY Zenon DEF IInv, TypeOK, TruthInv
<1>2. /\ q.click \in Clicks /\ ~q.changed /\ ~q.lost /\ q.outcome = None
      /\ status'[q.click.entry] # "absent"
  BY <1>1, Zenon DEF Progress, Effect, rows
<1>3. /\ req' \in [Requests -> Request] /\ req'[r] = x
      /\ \A p \in Requests \ {r} : req'[p] = req[p]
  BY <1>1, OneRequest, Zenon
<1>4. Progress(x)
  BY <1>2, Zenon DEF Progress, Outcomes
<1>5. Effect(x, status', resolvedBy', ledger')
  BY <1>2, NothingDone, NothingChanged, Zenon
<1> QED
  BY <1>3, <1>4, <1>5, Zenon DEF Claims

\* The claims of a request up to the point where its user is known.
LEMMA ClaimsByLookup ==
  ASSUME IInv, NEW r \in Requests,
         ServeHTTP(r) \/ UsersInfo(r) \/ LookupFails(r) \/ CacheEmail(r)
  PROVE  Claims(r)
<1> DEFINE q == req[r]
<1>0. /\ q \in Request /\ now \in Int /\ UNCHANGED rows
      /\ q.at \in {"sent", "lookup", "found"} /\ Progress(q)
  BY DEF IInv, TypeOK, TruthInv, ServeHTTP, UsersInfo, LookupFails, LookingUp, CacheEmail
<1>00. q.click \in Clicks /\ q.click.user \in Users
  BY <1>0, Zenon DEF Progress, Clicks
<1>1. CASE ServeHTTP(r)
  <2>1. cache[q.click.user].email \in Address
    BY <1>00, Zenon DEF IInv, TypeOK
  <2>2. CASE Identified(r, q, cache[q.click.user].email)
    BY <1>0, <2>1, <2>2, ClaimsIdentified, Zenon
  <2>3. CASE req' = [req EXCEPT ![r] = [q EXCEPT !.at = "lookup", !.since = now]]
    <3> DEFINE x == LookedUp(q, now)
    <3>1. /\ x \in Request /\ x.at = "lookup" /\ x.click = q.click
          /\ x.outcome = q.outcome /\ x.changed = q.changed /\ x.lost = q.lost
      BY <1>0, LookupFields, Zenon
    <3>2. req' = [req EXCEPT ![r] = x]
      BY <2>3, Zenon DEF LookedUp
    <3> HIDE DEF x
    <3> QED
      BY <1>0, <3>1, <3>2, ClaimsWaiting, Zenon
  <2> QED
    BY <1>1, <2>2, <2>3, Zenon DEF ServeHTTP
<1>2. CASE UsersInfo(r)
  <2>1. account[q.click.user] \in Address
    BY <1>00, Zenon DEF IInv, TypeOK
  <2> DEFINE x == Found(q, account[q.click.user])
  <2>2. req' = [req EXCEPT ![r] = x]
    BY <1>2, Zenon DEF UsersInfo, Found
  <2>3. /\ x \in Request /\ x.at = "found" /\ x.click = q.click
        /\ x.outcome = q.outcome /\ x.changed = q.changed /\ x.lost = q.lost
    BY <1>0, <2>1, FoundFields, Zenon
  <2> HIDE DEF x
  <2> QED
    BY <1>0, <2>2, <2>3, ClaimsWaiting, Zenon
<1>3. CASE LookupFails(r)
  <2> DEFINE z == Nameless(q)
             x == Answered(z, "unconfirmed")
  <2>1. req' = [req EXCEPT ![r] = x]
    BY <1>3, Zenon DEF LookupFails, Nameless
  <2>2. z \in Request /\ z.click = q.click /\ z.changed = q.changed /\ z.lost = q.lost
    BY <1>0, ChangedFields, Zenon
  <2> HIDE DEF z
  <2>3. /\ x \in Request /\ x.at = "answer" /\ x.click = z.click
        /\ x.outcome = "unconfirmed" /\ x.changed = z.changed /\ x.lost = z.lost
    BY <2>2, AnsweredFields, Zenon DEF Outcomes
  <2> HIDE DEF x
  <2> QED
    BY <1>0, <2>1, <2>2, <2>3, ClaimsWaiting, Zenon
<1>4. CASE CacheEmail(r)
  <2>1. CASE Identified(r, q, q.email)
    <3>1. q.email \in Address
      BY <1>0, Zenon DEF Request
    <3> QED
      BY <1>0, <2>1, <3>1, ClaimsIdentified, Zenon
  <2>2. CASE req' = [req EXCEPT ![r] = Answered(q, "unconfirmed")]
    <3> DEFINE x == Answered(q, "unconfirmed")
    <3>1. /\ x \in Request /\ x.at = "answer" /\ x.click = q.click
          /\ x.outcome = "unconfirmed" /\ x.changed = q.changed /\ x.lost = q.lost
      BY <1>0, AnsweredFields, ZenonT(30) DEF Outcomes
    <3> HIDE DEF x
    <3> QED
      BY <1>0, <2>2, <3>1, ClaimsWaiting, Zenon DEF x
  <2> QED
    BY <1>4, <2>1, <2>2, Zenon DEF CacheEmail
<1> QED
  BY <1>1, <1>2, <1>3, <1>4, Zenon

\* The claims of a request that decides.
LEMMA ClaimsByDecide ==
  ASSUME IInv, NEW r \in Requests, Decide(r)
  PROVE  /\ Claims(r) /\ Forward /\ status' \in [Entries -> Queue!States]
         /\ DOMAIN calls' = Entries /\ DOMAIN resolvedBy' = Entries
         /\ req'[r].at \in {"record", "answer"}
<1> DEFINE q == req[r]
           e == q.click.entry
<1>1. /\ TypeOK /\ req \in [Requests -> Request] /\ q \in Request /\ q.at = "decide"
      /\ Progress(q) /\ Effect(q, status, resolvedBy, ledger) /\ ledger' = ledger
  BY Zenon DEF IInv, TypeOK, TruthInv, Decide
<1>2. /\ q.click \in Clicks /\ e \in Entries /\ ~q.changed /\ ~q.lost
      /\ q.outcome = None /\ status[e] # "absent"
      /\ q.click.verb \in {"approved", "denied"}
  BY <1>1, Zenon DEF Progress, Effect, Clicks
<1>3. CASE Open(e) /\ Resolve(q) /\ req' = [req EXCEPT ![r] = Changed(q)]
  <2> DEFINE x == Changed(q)
  <2>1. /\ x \in Request /\ x.at = "record" /\ x.click = q.click /\ x.email = q.email
        /\ x.outcome = q.outcome /\ x.changed /\ x.lost = q.lost
    BY <1>1, ChangedFields, Zenon
  <2> HIDE DEF x
  <2>2. /\ req' \in [Requests -> Request] /\ req'[r] = x
        /\ \A p \in Requests \ {r} : req'[p] = req[p]
    BY <1>1, <1>3, <2>1, OneRequest, Zenon DEF x
  <2>3. /\ Forward /\ status' \in [Entries -> Queue!States]
        /\ DOMAIN calls' = Entries /\ DOMAIN resolvedBy' = Entries
        /\ status'[e] = q.click.verb /\ resolvedBy'[e] = q.email
    BY <1>1, <1>2, <1>3, ResolveForward, Zenon
  <2>4. Progress(x)
    BY <1>2, <2>1, Zenon DEF Progress
  <2>5. Effect(x, status', resolvedBy', ledger')
    BY <1>2, <2>1, <2>3, SlackAppAssumption, Zenon DEF Effect, Decided, Outcomes
  <2> QED
    BY <2>1, <2>2, <2>3, <2>4, <2>5, Zenon DEF Claims
<1>4. CASE Open(e) /\ Resolve(q) /\ req' = [req EXCEPT ![r] = Answered(Lost(q), "failed")]
  <2> DEFINE y == Lost(q)
             x == Answered(y, "failed")
  <2>1. y \in Request /\ y.click = q.click /\ y.changed /\ y.lost
    BY <1>1, ChangedFields, Zenon
  <2> HIDE DEF y
  <2>2. /\ x \in Request /\ x.at = "answer" /\ x.click = y.click
        /\ x.outcome = "failed" /\ x.changed = y.changed /\ x.lost = y.lost
    BY <2>1, AnsweredFields, Zenon DEF Outcomes
  <2> HIDE DEF x
  <2>3. /\ req' \in [Requests -> Request] /\ req'[r] = x
        /\ \A p \in Requests \ {r} : req'[p] = req[p]
    BY <1>1, <1>4, <2>2, OneRequest, Zenon DEF x, y
  <2>4. /\ Forward /\ status' \in [Entries -> Queue!States]
        /\ DOMAIN calls' = Entries /\ DOMAIN resolvedBy' = Entries
        /\ status'[e] = q.click.verb
    BY <1>1, <1>2, <1>4, ResolveForward, Zenon
  <2>5. x.changed /\ x.lost /\ x.click = q.click /\ x.outcome = "failed"
    BY <2>1, <2>2, Zenon
  <2>6. Progress(x)
    BY <1>2, <2>2, <2>5, Zenon DEF Progress, Outcomes
  <2>7. Effect(x, status', resolvedBy', ledger')
    BY <1>2, <2>2, <2>4, <2>5, Zenon DEF Effect, Decided
  <2> QED
    BY <2>2, <2>3, <2>4, <2>6, <2>7, Zenon DEF Claims
<1>5. ASSUME NEW o \in {"already decided", "failed"}, o = "already decided" => ~Open(e),
             req' = [req EXCEPT ![r] = Answered(q, o)],
             UNCHANGED <<status, calls, resolvedBy>>
      PROVE  Claims(r) /\ Forward /\ req'[r].at = "answer"
  <2> DEFINE x == Answered(q, o)
  <2>0. o \in Outcomes
    BY <1>5, Zenon DEF Outcomes
  <2>1. /\ x \in Request /\ x.at = "answer" /\ x.click = q.click
        /\ x.outcome = o /\ x.changed = q.changed /\ x.lost = q.lost
    BY <1>1, <2>0, AnsweredFields, Zenon
  <2> HIDE DEF x
  <2>2. /\ req' \in [Requests -> Request] /\ req'[r] = x
        /\ \A p \in Requests \ {r} : req'[p] = req[p]
    BY <1>1, <1>5, <2>1, OneRequest, Zenon DEF x
  <2>3. ~x.changed /\ ~x.lost
    BY <1>2, <2>1, Zenon
  <2>4. Progress(x)
    BY <1>2, <1>5, <2>1, <2>3, Zenon DEF Progress, Outcomes
  <2>5. Effect(x, status', resolvedBy', ledger')
    BY <1>2, <1>5, <2>1, <2>3, Zenon DEF Effect, Decided, Open
  <2>6. Forward
    BY <1>1, <1>5, Zenon DEF Forward
  <2> QED
    BY <2>1, <2>2, <2>4, <2>5, <2>6, Zenon DEF Claims
<1>6. \/ Open(e) /\ Resolve(q) /\ req' = [req EXCEPT ![r] = Changed(q)]
      \/ Open(e) /\ Resolve(q) /\ req' = [req EXCEPT ![r] = Answered(Lost(q), "failed")]
      \/ /\ ~Open(e) /\ req' = [req EXCEPT ![r] = Answered(q, "already decided")]
         /\ UNCHANGED <<status, calls, resolvedBy>>
      \/ /\ req' = [req EXCEPT ![r] = Answered(q, "failed")]
         /\ UNCHANGED <<status, calls, resolvedBy>>
  BY Zenon DEF Decide, Changed, Lost
<1>7. UNCHANGED <<status, calls, resolvedBy>> =>
        /\ status' \in [Entries -> Queue!States]
        /\ DOMAIN calls' = Entries /\ DOMAIN resolvedBy' = Entries
  BY <1>1, Zenon DEF TypeOK
<1> QED
  BY <1>3, <1>4, <1>5, <1>6, <1>7, Zenon

\* The claims of a request whose decision is recorded, or not.
LEMMA ClaimsByRecord ==
  ASSUME IInv, NEW r \in Requests, RecordDecision(r)
  PROVE  Claims(r) /\ Forward /\ req'[r].at = "answer"
<1> DEFINE q == req[r]
           e == q.click.entry
           d == [entry |-> e, verb |-> q.click.verb, by |-> q.email]
<1>1. /\ req \in [Requests -> Request] /\ q \in Request /\ q.at = "record"
      /\ Progress(q) /\ Effect(q, status, resolvedBy, ledger)
      /\ UNCHANGED <<status, calls, resolvedBy>>
  BY Zenon DEF IInv, TypeOK, TruthInv, RecordDecision
<1>2. /\ q.click \in Clicks /\ q.changed /\ ~q.lost
      /\ Decided(status[e]) /\ q.click.verb \in {"approved", "denied"}
      /\ q.click.verb = "denied" => status[e] = "denied" /\ resolvedBy[e] = q.email
  BY <1>1, Zenon DEF Progress, Effect, Clicks
<1>3. PICK o \in {q.click.verb, "audit unavailable"} :
        /\ req' = [req EXCEPT ![r] = Answered(q, o)]
        /\ ledger \subseteq ledger'
        /\ o = q.click.verb => d \in ledger'
  <2>1. CASE ledger' = ledger \cup {d} /\ req' = [req EXCEPT ![r] = Answered(q, q.click.verb)]
    BY <2>1, Zenon
  <2>2. CASE /\ ledger' \in {ledger, ledger \cup {d}}
             /\ req' = [req EXCEPT ![r] = Answered(q, "audit unavailable")]
    <3>1. "audit unavailable" # q.click.verb
      BY <1>2, Zenon
    <3> QED
      BY <2>2, <3>1, Zenon
  <2> QED
    BY <2>1, <2>2, Zenon DEF RecordDecision
<1> DEFINE x == Answered(q, o)
<1>4. o \in Outcomes /\ o \in {"approved", "denied", "audit unavailable"}
  BY <1>2, <1>3, Zenon DEF Outcomes
<1>5. /\ x \in Request /\ x.at = "answer" /\ x.click = q.click /\ x.email = q.email
      /\ x.outcome = o /\ x.changed = q.changed /\ x.lost = q.lost
  BY <1>1, <1>4, AnsweredFields, Zenon
<1>6. req' = [req EXCEPT ![r] = x]
  BY <1>3, Zenon
<1> HIDE DEF x
<1>7. /\ req' \in [Requests -> Request] /\ req'[r] = x
      /\ \A p \in Requests \ {r} : req'[p] = req[p]
  BY <1>1, <1>5, <1>6, OneRequest, Zenon
<1>8. x.changed /\ ~x.lost
  BY <1>2, <1>5, Zenon
<1>9. Progress(x)
  BY <1>2, <1>4, <1>5, <1>8, Zenon DEF Progress
<1>10. Effect(x, status', resolvedBy', ledger')
  <2>1. /\ status'[e] # "absent" /\ Decided(status'[e])
        /\ o \in {"approved", "denied"} =>
             /\ o = q.click.verb
             /\ [entry |-> e, verb |-> o, by |-> q.email] \in ledger'
        /\ o = "denied" => status'[e] = "denied" /\ resolvedBy'[e] = q.email
    BY <1>1, <1>2, <1>3, <1>4, Zenon DEF Decided
  <2> QED
    BY <1>4, <1>5, <1>8, <2>1, Zenon DEF Effect
<1>11. Forward
  BY <1>1, <1>3, Zenon DEF Forward
<1> QED
  BY <1>5, <1>7, <1>9, <1>10, <1>11, Zenon DEF Claims

\* The claims of a request that is over.
LEMMA ClaimsByEnd ==
  ASSUME IInv, NEW r \in Requests, Respond(r)
  PROVE  Claims(r) /\ req'[r].at = "done"
<1> DEFINE q == req[r]
           x == Done(q)
<1>1. /\ req \in [Requests -> Request] /\ q \in Request /\ q.at = "answer"
      /\ Progress(q) /\ Effect(q, status, resolvedBy, ledger)
      /\ UNCHANGED <<status, resolvedBy, ledger>>
      /\ req' = [req EXCEPT ![r] = x]
  BY Zenon DEF IInv, TypeOK, TruthInv, Respond, rows
<1>2. /\ x \in Request /\ x.at = "done" /\ x.click = q.click /\ x.outcome = None
      /\ ~x.changed /\ ~x.lost
  BY <1>1, DoneFields, Zenon
<1> HIDE DEF x
<1>3. /\ req' \in [Requests -> Request] /\ req'[r] = x
      /\ \A p \in Requests \ {r} : req'[p] = req[p]
  BY <1>1, <1>2, OneRequest, Zenon
<1>4. Progress(x)
  BY <1>1, <1>2, Zenon DEF Progress
<1>5. Effect(x, status', resolvedBy', ledger')
  <2>1. status'[x.click.entry] # "absent"
    BY <1>1, <1>2, Zenon DEF Effect
  <2> QED
    BY <1>2, <2>1, NothingDone, Zenon
<1> QED
  BY <1>2, <1>3, <1>4, <1>5, Zenon DEF Claims

\* The claims of a request that arrives: its click is on a message that was sent
\* for a held action.
LEMMA ClaimsBySent ==
  ASSUME IInv, NEW r \in Requests, NEW c \in Clicks, status[c.entry] # "absent",
         Sent(r, c)
  PROVE  Claims(r) /\ req'[r].at = "sent"
<1> DEFINE q == req[r]
           x == Arrived(q, c)
<1>1. /\ req \in [Requests -> Request] /\ q \in Request /\ q.at = "idle"
      /\ Progress(q) /\ UNCHANGED status
  BY Zenon DEF IInv, TypeOK, TruthInv, Sent, rows
<1>2. req' = [req EXCEPT ![r] = x]
  BY Zenon DEF Sent, Arrived
<1>3. ~q.changed /\ ~q.lost /\ q.outcome = None
  BY <1>1, Zenon DEF Progress
<1>4. /\ x \in Request /\ x.at = "sent" /\ x.click = c /\ x.outcome = q.outcome
      /\ x.changed = q.changed /\ x.lost = q.lost
  BY <1>1, SentFields, Zenon
<1> HIDE DEF x
<1>5. ~x.changed /\ ~x.lost /\ x.outcome = None /\ status'[x.click.entry] # "absent"
  BY <1>1, <1>3, <1>4, Zenon
<1>6. /\ req' \in [Requests -> Request] /\ req'[r] = x
      /\ \A p \in Requests \ {r} : req'[p] = req[p]
  BY <1>1, <1>2, <1>4, OneRequest, Zenon
<1>7. Progress(x)
  BY <1>4, <1>5, Zenon DEF Progress
<1>8. Effect(x, status', resolvedBy', ledger')
  BY <1>4, <1>5, NothingDone, Zenon
<1> QED
  BY <1>4, <1>6, <1>7, <1>8, Zenon DEF Claims

\* A click, and a click that is delivered again.
LEMMA ClaimsByClick ==
  ASSUME IInv, NEW r \in Requests,
         \/ \E u \in Users, e \in Entries : Click(r, u, e)
         \/ \E p \in Requests : Redeliver(r, p)
  PROVE  Claims(r) /\ req'[r].at = "sent"
<1>1. ASSUME NEW u \in Users, NEW e \in Entries, Click(r, u, e)
      PROVE  Claims(r) /\ req'[r].at = "sent"
  <2>1. PICK d \in {"approved", "denied"} :
           Sent(r, [user |-> u, entry |-> e, verb |-> d, at |-> now])
    BY <1>1, Zenon DEF Click
  <2> DEFINE c == [user |-> u, entry |-> e, verb |-> d, at |-> now]
  <2>2. c \in Clicks /\ c.entry = e
    BY DEF Clicks, IInv, TypeOK
  <2>3. status[e] # "absent"
    BY <1>1, Zenon DEF Click, IInv, MessageInv
  <2>4. Sent(r, c)
    BY <2>1, Zenon
  <2> HIDE DEF c
  <2> QED
    BY <2>2, <2>3, <2>4, ClaimsBySent, Zenon
<1>2. ASSUME NEW p \in Requests, Redeliver(r, p)
      PROVE  Claims(r) /\ req'[r].at = "sent"
  <2>1. req[p].click \in Clicks /\ status[req[p].click.entry] # "absent"
    BY <1>2, Zenon DEF Redeliver, IInv, TruthInv, Progress, Effect
  <2> QED
    BY <1>2, <2>1, ClaimsBySent, Zenon DEF Redeliver
<1> QED
  BY <1>1, <1>2, Zenon

\* A crash ends every request that has arrived.
LEMMA CrashClaims ==
  ASSUME IInv, Crash
  PROVE  /\ req' \in [Requests -> Request]
         /\ \A r \in Requests :
              /\ req'[r].at \in {"idle", "done"}
              /\ Progress(req'[r]) /\ Effect(req'[r], status', resolvedBy', ledger')
<1>1. /\ req' = [r \in Requests |->
                   IF req[r].at = "idle" THEN NoRequest ELSE Done(req[r])]
      /\ UNCHANGED status
  BY Zenon DEF Crash, rows
<1>2. ASSUME NEW r \in Requests
      PROVE  /\ req'[r] \in Request /\ req'[r].at \in {"idle", "done"}
             /\ Progress(req'[r]) /\ Effect(req'[r], status', resolvedBy', ledger')
  <2> DEFINE q == req[r]
  <2>0. q \in Request /\ Progress(q) /\ Effect(q, status, resolvedBy, ledger)
    BY Zenon DEF IInv, TypeOK, TruthInv
  <2>1. CASE q.at = "idle"
    <3> DEFINE n == NoRequest
    <3>1. req'[r] = n
      BY <1>1, <2>1, Zenon
    <3>2. n \in Request /\ n.at = "idle" /\ n.outcome = None /\ ~n.changed /\ ~n.lost
      BY NoRequestFields, Zenon
    <3> HIDE DEF n
    <3>3. Progress(n)
      BY <3>2, Zenon DEF Progress
    <3>4. Effect(n, status', resolvedBy', ledger')
      BY <3>2, NothingDone, Zenon
    <3> QED
      BY <3>1, <3>2, <3>3, <3>4, Zenon
  <2>2. CASE q.at # "idle"
    <3> DEFINE x == Done(q)
    <3>1. req'[r] = x
      BY <1>1, <2>2, Zenon
    <3>2. /\ x \in Request /\ x.at = "done" /\ x.click = q.click /\ x.outcome = None
          /\ ~x.changed /\ ~x.lost
      BY <2>0, DoneFields, Zenon
    <3> HIDE DEF x
    <3>3. Progress(x)
      BY <2>0, <2>2, <3>2, Zenon DEF Progress
    <3>4. status'[x.click.entry] # "absent"
      BY <1>1, <2>0, <2>2, <3>2, Zenon DEF Effect
    <3>5. Effect(x, status', resolvedBy', ledger')
      BY <3>2, <3>4, NothingDone, Zenon
    <3> QED
      BY <3>1, <3>2, <3>3, <3>5, Zenon
  <2> QED
    BY <2>1, <2>2, Zenon
<1>3. req' \in [Requests -> Request]
  BY <1>1, <1>2, Zenon
<1> QED
  BY <1>2, <1>3, Zenon

\* A step that leaves the queue and the ledger alone.
LEMMA Unmoved ==
  ASSUME UNCHANGED rows
  PROVE  Forward /\ UNCHANGED <<status, calls, resolvedBy, ledger>>
  BY Zenon DEF Forward, rows

\* A step of one request leaves what the others may claim.
LEMMA OneClaim ==
  ASSUME IInv, Forward, NEW r \in Requests, Claims(r)
  PROVE  TruthInv'
<1> SUFFICES ASSUME NEW p \in Requests
             PROVE  Progress(req'[p]) /\ Effect(req'[p], status', resolvedBy', ledger')
  BY Zenon DEF TruthInv
<1>1. CASE p = r
  BY <1>1, Zenon DEF Claims
<1>2. CASE p # r
  <2>1. /\ req'[p] = req[p] /\ req[p] \in Request /\ Progress(req[p])
        /\ Effect(req[p], status, resolvedBy, ledger)
    BY <1>2, Zenon DEF Claims, IInv, TypeOK, TruthInv
  <2>2. Effect(req[p], status', resolvedBy', ledger')
    BY <2>1, EffectKept, Zenon
  <2> QED
    BY <2>1, <2>2, Zenon
<1> QED
  BY <1>1, <1>2, Zenon

\* So does a step of no request.
LEMMA NoClaim ==
  ASSUME IInv, Forward, UNCHANGED req
  PROVE  TruthInv'
<1> SUFFICES ASSUME NEW p \in Requests
             PROVE  Progress(req'[p]) /\ Effect(req'[p], status', resolvedBy', ledger')
  BY Zenon DEF TruthInv
<1>1. /\ req'[p] = req[p] /\ req[p] \in Request /\ Progress(req[p])
      /\ Effect(req[p], status, resolvedBy, ledger)
  BY Zenon DEF IInv, TypeOK, TruthInv
<1>2. Effect(req[p], status', resolvedBy', ledger')
  BY <1>1, EffectKept, Zenon
<1> QED
  BY <1>1, <1>2, Zenon

\* What a step keeps of the rows, the ledger, the requests and the messages.
Kept ==
    /\ Forward
    /\ status' \in [Entries -> Queue!States]
    /\ DOMAIN calls' = Entries /\ DOMAIN resolvedBy' = Entries
    /\ req' \in [Requests -> Request]
    /\ TruthInv'

\* Every step keeps what a person may be told.
LEMMA TruthStep ==
  ASSUME IInv, [Next]_vars
  PROVE  Kept
<1>0. /\ TypeOK /\ status \in [Entries -> Queue!States]
      /\ DOMAIN calls = Entries /\ DOMAIN resolvedBy = Entries
      /\ req \in [Requests -> Request]
  BY Zenon DEF IInv, TypeOK
<1>1. ASSUME NEW e \in Entries, Elsewhere(e)
      PROVE  Kept
  <2>1. UNCHANGED req
    BY <1>1, Zenon DEF Elsewhere
  <2>2. /\ Forward /\ status' \in [Entries -> Queue!States]
        /\ DOMAIN calls' = Entries /\ DOMAIN resolvedBy' = Entries
    BY <1>0, <1>1, ElsewhereForward, Zenon
  <2>3. TruthInv'
    BY <2>1, <2>2, NoClaim, Zenon
  <2> QED
    BY <1>0, <2>1, <2>2, <2>3, Zenon DEF Kept
<1>2. ASSUME UNCHANGED rows, UNCHANGED req
      PROVE  Kept
  <2>1. Forward /\ UNCHANGED <<status, calls, resolvedBy>>
    BY <1>2, Unmoved, Zenon
  <2>2. TruthInv'
    BY <1>2, <2>1, NoClaim, Zenon
  <2> QED
    BY <1>0, <1>2, <2>1, <2>2, Zenon DEF Kept
<1>3. ASSUME UNCHANGED rows, NEW r \in Requests, Claims(r)
      PROVE  Kept
  <2>1. Forward /\ UNCHANGED <<status, calls, resolvedBy>>
    BY <1>3, Unmoved, Zenon
  <2>2. TruthInv'
    BY <1>3, <2>1, OneClaim, Zenon
  <2>3. req' \in [Requests -> Request]
    BY <1>3, Zenon DEF Claims
  <2> QED
    BY <1>0, <2>1, <2>2, <2>3, Zenon DEF Kept
<1>4. ASSUME NEW e \in Entries, Send(e)
      PROVE  Kept
  BY <1>2, <1>4, Zenon DEF Send
<1>5. ASSUME NEW r \in Requests,
             \/ \E u \in Users, e \in Entries : Click(r, u, e)
             \/ \E p \in Requests : Redeliver(r, p)
      PROVE  Kept
  <2>1. UNCHANGED rows
    BY <1>5, Zenon DEF Click, Redeliver, Sent
  <2>2. Claims(r)
    BY <1>5, ClaimsByClick, Zenon
  <2> QED
    BY <1>3, <2>1, <2>2, Zenon
<1>6. ASSUME NEW u \in Users, ChangeAccount(u)
      PROVE  Kept
  BY <1>2, <1>6, Zenon DEF ChangeAccount
<1>7. ASSUME NEW r \in Requests,
             ServeHTTP(r) \/ UsersInfo(r) \/ LookupFails(r) \/ CacheEmail(r)
      PROVE  Kept
  <2>1. UNCHANGED rows
    BY <1>7, Zenon DEF ServeHTTP, UsersInfo, LookupFails, CacheEmail
  <2>2. Claims(r)
    BY <1>7, ClaimsByLookup, Zenon
  <2> QED
    BY <1>3, <2>1, <2>2, Zenon
<1>8. ASSUME NEW r \in Requests, Decide(r)
      PROVE  Kept
  <2>1. /\ Claims(r) /\ Forward /\ status' \in [Entries -> Queue!States]
        /\ DOMAIN calls' = Entries /\ DOMAIN resolvedBy' = Entries
    BY <1>8, ClaimsByDecide, Zenon
  <2>2. TruthInv'
    BY <2>1, OneClaim, Zenon
  <2> QED
    BY <2>1, <2>2, Zenon DEF Kept, Claims
<1>9. ASSUME NEW r \in Requests, RecordDecision(r)
      PROVE  Kept
  <2>1. Claims(r) /\ Forward
    BY <1>9, ClaimsByRecord, Zenon
  <2>2. TruthInv'
    BY <2>1, OneClaim, Zenon
  <2>3. UNCHANGED <<status, calls, resolvedBy>>
    BY <1>9, Zenon DEF RecordDecision
  <2> QED
    BY <1>0, <2>1, <2>2, <2>3, Zenon DEF Kept, Claims
<1>10. ASSUME NEW r \in Requests, Respond(r)
       PROVE  Kept
  <2>1. UNCHANGED rows
    BY <1>10, Zenon DEF Respond
  <2>2. Claims(r)
    BY <1>10, ClaimsByEnd, Zenon
  <2> QED
    BY <1>3, <2>1, <2>2, Zenon
<1>11. CASE Crash
  <2>1. Forward /\ UNCHANGED <<status, calls, resolvedBy>>
    BY <1>11, Unmoved, Zenon DEF Crash
  <2>2. req' \in [Requests -> Request] /\ TruthInv'
    BY <1>11, CrashClaims, Zenon DEF TruthInv
  <2> QED
    BY <1>0, <2>1, <2>2, Zenon DEF Kept
<1>12. CASE Tick
  BY <1>2, <1>12, Zenon DEF Tick
<1>13. CASE UNCHANGED vars
  BY <1>2, <1>13, Zenon DEF vars, rows
<1> QED
  BY <1>1, <1>4, <1>5, <1>6, <1>7, <1>8, <1>9, <1>10, <1>11, <1>12, <1>13, Zenon DEF Next

-----------------------------------------------------------------------------
(* The messages *)

\* What a step keeps of the messages; late updates do not bring buttons back.
MessagesKept ==
    /\ message' \in [Entries -> {"none", "buttons"} \cup Outcomes]
    /\ MessageInv'
    /\ \A e \in Entries : message[e] \notin {"none", "buttons"} => message'[e] # "buttons"

\* A step that leaves the messages alone.
LEMMA SameMessages ==
  ASSUME IInv, Forward, UNCHANGED message
  PROVE  MessagesKept
  BY Zenon DEF IInv, TypeOK, Forward, MessageInv, MessagesKept

\* Every step keeps the messages.
LEMMA MessageStep ==
  ASSUME IInv, [Next]_vars
  PROVE  MessagesKept
<1>0. Forward
  BY TruthStep, Zenon DEF Kept
<1>t. /\ message \in [Entries -> {"none", "buttons"} \cup Outcomes] /\ MessageInv
  BY Zenon DEF IInv, TypeOK
<1>1. ASSUME NEW e \in Entries, Send(e)
      PROVE  MessagesKept
  <2>1. /\ status[e] # "absent" /\ message[e] = "none" /\ UNCHANGED status
        /\ message' = [message EXCEPT ![e] = "buttons"]
    BY <1>1, Zenon DEF Send, rows
  <2>2. /\ message' \in [Entries -> {"none", "buttons"} \cup Outcomes]
        /\ message'[e] = "buttons"
        /\ \A d \in Entries \ {e} : message'[d] = message[d]
    BY <1>t, <2>1, Zenon
  <2> QED
    BY <1>t, <2>1, <2>2, Zenon DEF MessageInv, MessagesKept
<1>2. ASSUME NEW r \in Requests, Respond(r)
      PROVE  MessagesKept
  <2> DEFINE q == req[r]
             e == q.click.entry
  <2>1. CASE UNCHANGED message
    BY <1>0, <2>1, SameMessages, Zenon
  <2>2. CASE resolved(q.outcome) /\ message' = [message EXCEPT ![e] = q.outcome]
    <3>1. /\ q.at = "answer" /\ Progress(q) /\ Effect(q, status, resolvedBy, ledger)
          /\ UNCHANGED status
      BY <1>2, Zenon DEF Respond, rows, IInv, TruthInv
    <3>2. e \in Entries /\ q.outcome \in Outcomes
      BY <3>1, Zenon DEF Progress, Clicks
    <3>3. q.outcome \notin {"none", "buttons"}
      BY <3>2, Zenon DEF Outcomes
    <3>4. Decided(status'[e])
      BY <2>2, <3>1, Zenon DEF resolved, Effect
    <3>5. /\ message' \in [Entries -> {"none", "buttons"} \cup Outcomes]
          /\ message'[e] = q.outcome
          /\ \A d \in Entries \ {e} : message'[d] = message[d]
      BY <1>t, <2>2, <3>2, Zenon
    <3> QED
      BY <1>t, <3>1, <3>3, <3>4, <3>5, Zenon DEF MessageInv, MessagesKept, Decided
  <2> QED
    BY <1>2, <2>1, <2>2, Zenon DEF Respond, respond
<1>3. CASE UNCHANGED message
  BY <1>0, <1>3, SameMessages, Zenon
<1>4. ASSUME NEW e \in Entries, Elsewhere(e)
      PROVE  UNCHANGED message
  BY <1>4, Zenon DEF Elsewhere, slack
<1>5. ASSUME NEW r \in Requests, NEW c, Sent(r, c)
      PROVE  UNCHANGED message
  BY <1>5, Zenon DEF Sent, slack
<1>6. ASSUME NEW r \in Requests, ServeHTTP(r) \/ UsersInfo(r) \/ LookupFails(r)
                                 \/ CacheEmail(r) \/ Decide(r) \/ RecordDecision(r)
      PROVE  UNCHANGED message
  BY <1>6, Zenon DEF ServeHTTP, UsersInfo, LookupFails, CacheEmail, Decide, RecordDecision, slack
<1>7. ASSUME Crash \/ Tick \/ (\E u \in Users : ChangeAccount(u)) \/ UNCHANGED vars
      PROVE  UNCHANGED message
  BY <1>7, Zenon DEF Crash, Tick, ChangeAccount, slack, vars
<1> QED
  BY <1>1, <1>2, <1>3, <1>4, <1>5, <1>6, <1>7, Zenon DEF Next, Click, Redeliver

-----------------------------------------------------------------------------
(* Time *)

\* What a step keeps of time, addresses and the cache.
OnTime ==
    /\ now' \in Nat
    /\ account' \in [Users -> Address]
    /\ lastHeld' \in [Users -> [Reviewers -> Int]]
    /\ cache' \in [Users -> [email : Address, expires : Int]]
    /\ TimeInv'

\* The variables that time is about.
clock == <<now, account, lastHeld, cache>>

\* A step of request r alone.
LEMMA OneTimely ==
  ASSUME IInv, UNCHANGED clock, NEW r \in Requests, Claims(r),
         Timely(req'[r], now, lastHeld)
  PROVE  OnTime
<1>1. now' = now /\ account' = account /\ lastHeld' = lastHeld /\ cache' = cache
  BY Zenon DEF clock
<1>2. HistoryInv'
  BY <1>1, Zenon DEF IInv, TimeInv, HistoryInv
<1>3. ASSUME NEW p \in Requests
      PROVE  Timely(req'[p], now', lastHeld')
  BY <1>1, Zenon DEF IInv, TimeInv, Claims
<1> QED
  BY <1>1, <1>2, <1>3, Zenon DEF OnTime, TimeInv, IInv, TypeOK

\* A step of no request.
LEMMA NoneTimely ==
  ASSUME IInv, UNCHANGED clock, UNCHANGED req
  PROVE  OnTime
<1>1. now' = now /\ account' = account /\ lastHeld' = lastHeld /\ cache' = cache
      /\ req' = req
  BY Zenon DEF clock
<1>2. HistoryInv' /\ \A p \in Requests : Timely(req'[p], now', lastHeld')
  BY <1>1, Zenon DEF IInv, TimeInv, HistoryInv
<1> QED
  BY <1>1, <1>2, Zenon DEF OnTime, TimeInv, IInv, TypeOK

\* Time passes, or an account changes: nobody is taken to have held an address
\* less recently than before.
LEMMA HeldStep ==
  ASSUME IInv, now' \in {now, now + 1}, account' \in [Users -> Address],
         lastHeld' = Held(account', now'), UNCHANGED cache, UNCHANGED req,
         now' = now \/ \A r \in Requests : LookingUp(r) => now - req[r].since < callTimeout
  PROVE  OnTime
<1>0. /\ now \in Nat /\ now' \in Nat /\ now <= now'
      /\ {emailCacheTTL, maxSignatureAge, callTimeout} \subseteq Nat
      /\ req \in [Requests -> Request]
      /\ lastHeld \in [Users -> [Reviewers -> Int]]
      /\ cache \in [Users -> [email : Address, expires : Int]]
  BY SlackAppAssumption DEF IInv, TypeOK
<1>1. /\ lastHeld' \in [Users -> [Reviewers -> Int]]
      /\ \A u \in Users, m \in Reviewers :
           lastHeld'[u][m] = IF account'[u] = m THEN now' ELSE lastHeld[u][m]
  BY <1>0 DEF Held
<1>2. ASSUME NEW u \in Users, NEW m \in Reviewers
      PROVE  /\ lastHeld[u][m] \in Int /\ lastHeld'[u][m] \in Int
             /\ lastHeld[u][m] <= lastHeld'[u][m] /\ lastHeld'[u][m] <= now'
             /\ account'[u] = m => lastHeld'[u][m] = now'
             /\ cache'[u].email = m =>
                  cache'[u].expires <= lastHeld'[u][m] + emailCacheTTL + callTimeout
  <2>1. /\ lastHeld[u][m] \in Int /\ lastHeld'[u][m] \in Int /\ cache[u].expires \in Int
    BY <1>0, <1>1
  <2>2. /\ lastHeld[u][m] <= now
        /\ cache[u].email = m =>
             cache[u].expires <= lastHeld[u][m] + emailCacheTTL + callTimeout
    BY Zenon DEF IInv, TimeInv, HistoryInv
  <2>3. lastHeld'[u][m] = IF account'[u] = m THEN now' ELSE lastHeld[u][m]
    BY <1>1, Zenon
  <2> QED
    BY <1>0, <2>1, <2>2, <2>3
<1>3. HistoryInv'
  BY <1>2, Zenon DEF HistoryInv
<1>4. ASSUME NEW r \in Requests
      PROVE  Timely(req'[r], now', lastHeld')
  <2> DEFINE q == req[r]
             u == q.click.user
  <2>1. /\ q \in Request /\ q.since \in Int /\ Progress(q) /\ Timely(q, now, lastHeld)
        /\ req'[r] = q
    BY <1>0, Zenon DEF IInv, TimeInv, TruthInv, Request
  <2>2. q.at \in {"lookup", "found"} =>
          /\ q.since <= now' /\ now' - q.since <= callTimeout
          /\ q.since - q.click.at <= maxSignatureAge
    BY <1>0, <2>1 DEF Timely, LookingUp
  <2>3. ASSUME q.at \in {"found", "decide"}, q.email \in Reviewers
        PROVE  /\ lastHeld[u][q.email] \in Int /\ lastHeld'[u][q.email] \in Int
               /\ lastHeld[u][q.email] <= lastHeld'[u][q.email]
    <3>1. u \in Users
      BY <2>1, <2>3, Zenon DEF Progress, Clicks
    <3> QED
      BY <1>2, <2>3, <3>1, Zenon
  <2>4. q.at = "found" /\ q.email \in Reviewers => q.since <= lastHeld'[u][q.email]
    BY <2>1, <2>3, SMTT(30) DEF Timely
  <2>5. q.at = "decide" =>
          /\ q.email \in Reviewers
          /\ q.since - lastHeld'[u][q.email] < emailCacheTTL + callTimeout
          /\ q.since - q.click.at <= maxSignatureAge + callTimeout
    BY <1>0, <2>1, <2>3 DEF Timely
  <2> QED
    BY <2>1, <2>2, <2>4, <2>5, Zenon DEF Timely
<1> QED
  BY <1>0, <1>1, <1>3, <1>4, Zenon DEF OnTime, TimeInv

\* A click that verify lets through is recent, and so is a cached address.
LEMMA ServeOnTime ==
  ASSUME IInv, NEW r \in Requests, ServeHTTP(r)
  PROVE  OnTime
<1> DEFINE q == req[r]
           u == q.click.user
<1>0. /\ now \in Int /\ q \in Request /\ Progress(q) /\ q.at = "sent"
      /\ {emailCacheTTL, maxSignatureAge, callTimeout} \subseteq Nat
      /\ now - q.click.at <= maxSignatureAge /\ UNCHANGED rows /\ UNCHANGED clock
  BY SlackAppAssumption
     DEF IInv, TypeOK, TruthInv, ServeHTTP, verify, slack, clock
<1>1. q.click \in Clicks /\ u \in Users /\ q.click.at \in Int
  BY <1>0, Zenon DEF Progress, Clicks
<1>2. Claims(r)
  BY ClaimsByLookup, Zenon
<1>3. CASE now < cache[u].expires /\ Identified(r, q, cache[u].email)
  <2> DEFINE m == cache[u].email
  <2>1. m \in Address /\ cache[u].expires \in Int
    BY <1>1, Zenon DEF IInv, TypeOK
  <2>2. /\ req'[r].click = q.click /\ req'[r].email = m
        /\ m \in Reviewers => req'[r].at = "decide" /\ req'[r].since = now
        /\ m \notin Reviewers => req'[r].at = "answer"
    BY <1>0, <1>3, <2>1, ClaimsIdentified, Zenon
  <2>3. m \in Reviewers =>
          now - lastHeld[u][m] < emailCacheTTL + callTimeout
    <3> HAVE m \in Reviewers
    <3>1. /\ lastHeld[u][m] \in Int
          /\ cache[u].expires <= lastHeld[u][m] + emailCacheTTL + callTimeout
      BY <1>1, Zenon DEF IInv, TypeOK, TimeInv, HistoryInv
    <3>2. now < cache[u].expires
      BY <1>3, Zenon
    <3>3. now \in Int /\ emailCacheTTL \in Int /\ callTimeout \in Int
      BY <1>0
    <3> HIDE DEF m, u
    <3> QED
      BY <2>1, <3>1, <3>2, <3>3
  <2>4. now - q.click.at <= maxSignatureAge + callTimeout
    BY <1>0, <1>1, SMTT(30)
  <2>5. Timely(req'[r], now, lastHeld)
    BY <2>2, <2>3, <2>4, Zenon DEF Timely
  <2> QED
    BY <1>0, <1>2, <2>5, OneTimely, Zenon
<1>4. CASE req' = [req EXCEPT ![r] = [q EXCEPT !.at = "lookup", !.since = now]]
  <2> DEFINE x == LookedUp(q, now)
  <2>1. /\ x \in Request /\ x.at = "lookup" /\ x.click = q.click /\ x.since = now
        /\ x.outcome = q.outcome /\ x.changed = q.changed /\ x.lost = q.lost
    BY <1>0, LookupFields, Zenon
  <2>2. req' = [req EXCEPT ![r] = x]
    BY <1>4, Zenon DEF LookedUp
  <2> HIDE DEF x
  <2>3. req'[r] = x
    BY <1>0, <2>1, <2>2, ClaimsWaiting, ZenonT(30)
  <2>4. Timely(x, now, lastHeld)
    BY <1>0, <2>1 DEF Timely
  <2> QED
    BY <1>0, <1>2, <2>3, <2>4, OneTimely, Zenon
<1> QED
  BY <1>3, <1>4, Zenon DEF ServeHTTP

\* Slack tells the address that the user has at that moment.
LEMMA InfoOnTime ==
  ASSUME IInv, NEW r \in Requests, UsersInfo(r)
  PROVE  OnTime
<1> DEFINE q == req[r]
           u == q.click.user
           m == account[u]
           x == Found(q, m)
<1>0. /\ now \in Int /\ q \in Request /\ Progress(q) /\ q.at = "lookup"
      /\ UNCHANGED rows /\ UNCHANGED clock /\ Timely(q, now, lastHeld)
  BY DEF IInv, TypeOK, TruthInv, TimeInv, UsersInfo, slack, clock
<1>1. u \in Users
  BY <1>0, Zenon DEF Progress, Clicks
<1>2. m \in Address
  BY <1>1, Zenon DEF IInv, TypeOK
<1>3. Claims(r)
  BY ClaimsByLookup, Zenon
<1>4. req' = [req EXCEPT ![r] = x]
  BY Zenon DEF UsersInfo, Found
<1>5. /\ x \in Request /\ x.at = "found" /\ x.click = q.click /\ x.email = m
      /\ x.since = q.since
      /\ x.outcome = q.outcome /\ x.changed = q.changed /\ x.lost = q.lost
  BY <1>0, <1>2, FoundFields, Zenon
<1> HIDE DEF x
<1>6. req'[r] = x
  BY <1>0, <1>4, <1>5, ClaimsWaiting, ZenonT(30)
<1>7. m \in Reviewers => lastHeld[u][m] = now
  BY <1>1, Zenon DEF IInv, TimeInv, HistoryInv
<1>8. Timely(x, now, lastHeld)
  BY <1>0, <1>5, <1>7, Zenon DEF Timely
<1> QED
  BY <1>0, <1>3, <1>6, <1>8, OneTimely, Zenon

\* The answer of users.info is cached from when it arrives, at most callTimeout
\* after it was asked for.
LEMMA CacheOnTime ==
  ASSUME IInv, NEW r \in Requests, CacheEmail(r)
  PROVE  OnTime
<1> DEFINE q == req[r]
           u == q.click.user
           m == q.email
<1>0. /\ now \in Nat /\ q \in Request /\ Progress(q) /\ q.at = "found"
      /\ UNCHANGED rows /\ UNCHANGED <<now, account, lastHeld>>
      /\ Timely(q, now, lastHeld)
      /\ {emailCacheTTL, maxSignatureAge, callTimeout} \subseteq Nat /\ emailCacheTTL > 0
  BY SlackAppAssumption, ZenonT(30)
     DEF IInv, TypeOK, TruthInv, TimeInv, CacheEmail, slack
<1>1. /\ q.click \in Clicks /\ u \in Users /\ q.click.at \in Int
      /\ m \in Address /\ q.since \in Int
  BY <1>0, Zenon DEF Progress, Clicks, Request
<1>2. Claims(r)
  BY ClaimsByLookup, Zenon
<1>3. CASE /\ cache' = [cache EXCEPT ![u] = [email |-> m, expires |-> now + emailCacheTTL]]
           /\ Identified(r, q, m)
  <2>1. /\ req'[r].click = q.click /\ req'[r].email = m
        /\ m \in Reviewers => req'[r].at = "decide" /\ req'[r].since = now
        /\ m \notin Reviewers => req'[r].at = "answer"
    BY <1>0, <1>1, <1>3, ClaimsIdentified, Zenon
  <2>2. ASSUME m \in Reviewers
        PROVE  /\ now - lastHeld[u][m] < emailCacheTTL + callTimeout
               /\ now + emailCacheTTL <= lastHeld[u][m] + emailCacheTTL + callTimeout
               /\ now - q.click.at <= maxSignatureAge + callTimeout
    <3>1. lastHeld[u][m] \in Int
      BY <1>1, <2>2, Zenon DEF IInv, TypeOK
    <3>2. /\ now - q.since <= callTimeout /\ q.since <= lastHeld[u][m]
          /\ q.since - q.click.at <= maxSignatureAge
      BY <1>0, <2>2, Zenon DEF Timely
    <3> QED
      BY <1>0, <1>1, <3>1, <3>2
  <2>3. Timely(req'[r], now, lastHeld)
    BY <2>1, <2>2, Zenon DEF Timely
  <2>4. ASSUME NEW p \in Requests
        PROVE  Timely(req'[p], now', lastHeld')
    BY <1>0, <1>2, <2>3, Zenon DEF IInv, TimeInv, Claims
  <2>5. /\ cache' \in [Users -> [email : Address, expires : Int]]
        /\ cache'[u].email = m /\ cache'[u].expires = now + emailCacheTTL
        /\ \A v \in Users \ {u} : cache'[v] = cache[v]
    BY <1>0, <1>1, <1>3 DEF IInv, TypeOK
  <2>6. HistoryInv'
    <3> SUFFICES ASSUME NEW v \in Users, NEW l \in Reviewers
                 PROVE  /\ lastHeld[v][l] <= now
                        /\ account[v] = l => lastHeld[v][l] = now
                        /\ cache'[v].email = l =>
                             cache'[v].expires <= lastHeld[v][l] + emailCacheTTL + callTimeout
      BY <1>0, Zenon DEF HistoryInv
    <3>1. CASE v = u
      BY <2>2, <2>5, <3>1 DEF IInv, TimeInv, HistoryInv
    <3>2. CASE v # u
      BY <2>5, <3>2, Zenon DEF IInv, TimeInv, HistoryInv
    <3> QED
      BY <3>1, <3>2, Zenon
  <2> QED
    BY <1>0, <2>4, <2>5, <2>6, Zenon DEF OnTime, TimeInv, IInv, TypeOK
<1>4. CASE UNCHANGED cache /\ req' = [req EXCEPT ![r] = Answered(q, "unconfirmed")]
  <2>1. req'[r].at = "answer"
    <3> DEFINE x == Answered(q, "unconfirmed")
    <3>1. "unconfirmed" \in Outcomes
      BY Zenon DEF Outcomes
    <3>2. x.at = "answer"
      BY <1>0, <3>1, AnsweredFields, Zenon
    <3> HIDE DEF x
    <3> QED
      BY <1>4, <3>2, Zenon DEF x, IInv, TypeOK
  <2>2. Timely(req'[r], now, lastHeld)
    BY <2>1, Zenon DEF Timely
  <2> QED
    BY <1>0, <1>2, <1>4, <2>2, OneTimely, Zenon DEF clock
<1> QED
  BY <1>3, <1>4, Zenon DEF CacheEmail

\* A step of a request that needs no address, before it is looked up or after it
\* was used.
LEMMA EasilyOnTime ==
  ASSUME IInv, UNCHANGED clock, NEW r \in Requests, Claims(r),
         req'[r].at \notin {"lookup", "found", "decide"}
  PROVE  OnTime
<1>1. Timely(req'[r], now, lastHeld)
  BY Zenon DEF Timely
<1> QED
  BY <1>1, OneTimely, Zenon

\* A crash forgets the addresses.
LEMMA CrashOnTime ==
  ASSUME IInv, Crash
  PROVE  OnTime
<1>1. /\ UNCHANGED <<now, account, lastHeld>>
      /\ cache' = [u \in Users |-> Uncached]
  BY Zenon DEF Crash, slack
<1>2. /\ Uncached \in [email : Address, expires : Int] /\ Uncached.email = None
  BY DEF Uncached, Address, Never
<1>3. None \notin Reviewers
  BY SlackAppAssumption, Zenon
<1>4. HistoryInv'
  BY <1>1, <1>2, <1>3, Zenon DEF IInv, TimeInv, HistoryInv
<1>5. \A r \in Requests : Timely(req'[r], now', lastHeld')
  BY CrashClaims, Zenon DEF Timely
<1>6. cache' \in [Users -> [email : Address, expires : Int]]
  BY <1>1, <1>2, Zenon
<1> QED
  BY <1>1, <1>4, <1>5, <1>6, Zenon DEF OnTime, TimeInv, IInv, TypeOK

\* Every step keeps addresses recent.
LEMMA TimeStep ==
  ASSUME IInv, [Next]_vars
  PROVE  OnTime
<1>0. now \in Nat /\ account \in [Users -> Address] /\ req \in [Requests -> Request]
  BY Zenon DEF IInv, TypeOK
<1>1. ASSUME NEW e \in Entries, Elsewhere(e) \/ Send(e)
      PROVE  OnTime
  BY <1>1, NoneTimely, Zenon DEF Elsewhere, Send, slack, clock
<1>2. ASSUME NEW r \in Requests,
             \/ \E u \in Users, e \in Entries : Click(r, u, e)
             \/ \E p \in Requests : Redeliver(r, p)
      PROVE  OnTime
  <2>1. UNCHANGED clock
    BY <1>2, Zenon DEF Click, Redeliver, Sent, slack, clock
  <2>2. Claims(r) /\ req'[r].at = "sent"
    BY <1>2, ClaimsByClick, Zenon
  <2> QED
    BY <2>1, <2>2, EasilyOnTime, Zenon
<1>3. ASSUME NEW u \in Users, ChangeAccount(u)
      PROVE  OnTime
  <2>1. PICK m \in Emails \cup {None} :
          /\ account' = [account EXCEPT ![u] = m]
          /\ lastHeld' = Held(account', now)
    BY <1>3, Zenon DEF ChangeAccount
  <2>2. now' = now /\ UNCHANGED cache /\ UNCHANGED req
    BY <1>3, Zenon DEF ChangeAccount
  <2>3. account' \in [Users -> Address]
    BY <1>0, <2>1, Zenon DEF Address
  <2>4. lastHeld' = Held(account', now')
    BY <2>1, <2>2, Zenon
  <2> QED
    BY <2>2, <2>3, <2>4, HeldStep, Zenon
<1>4. ASSUME NEW r \in Requests, ServeHTTP(r) \/ UsersInfo(r) \/ CacheEmail(r)
      PROVE  OnTime
  BY <1>4, ServeOnTime, InfoOnTime, CacheOnTime, Zenon
<1>5. ASSUME NEW r \in Requests, LookupFails(r)
      PROVE  OnTime
  <2> DEFINE z == Nameless(req[r])
             x == Answered(z, "unconfirmed")
  <2>1. UNCHANGED clock
    BY <1>5, Zenon DEF LookupFails, slack, clock
  <2>2. Claims(r)
    BY <1>5, ClaimsByLookup, Zenon
  <2>3. req' = [req EXCEPT ![r] = x]
    BY <1>5, Zenon DEF LookupFails, Nameless
  <2>4. z \in Request
    BY <1>0, ChangedFields, Zenon
  <2> HIDE DEF z
  <2>5. "unconfirmed" \in Outcomes
    BY Zenon DEF Outcomes
  <2>6. x.at = "answer"
    BY <2>4, <2>5, AnsweredFields, Zenon
  <2> HIDE DEF x
  <2>7. req'[r].at = "answer"
    BY <1>0, <2>3, <2>6, Zenon
  <2> QED
    BY <2>1, <2>2, <2>7, EasilyOnTime, Zenon
<1>6. ASSUME NEW r \in Requests, Decide(r) \/ RecordDecision(r) \/ Respond(r)
      PROVE  OnTime
  <2>1. UNCHANGED clock
    BY <1>6, Zenon DEF Decide, RecordDecision, Respond, slack, clock
  <2>2. Claims(r) /\ req'[r].at \in {"record", "answer", "done"}
    BY <1>6, ClaimsByDecide, ClaimsByRecord, ClaimsByEnd, Zenon
  <2> QED
    BY <2>1, <2>2, EasilyOnTime, Zenon
<1>7. CASE Crash
  BY <1>7, CrashOnTime, Zenon
<1>8. CASE Tick
  <2>1. /\ now' = now + 1 /\ account' = account /\ UNCHANGED cache /\ UNCHANGED req
        /\ lastHeld' = Held(account, now + 1)
        /\ \A r \in Requests : LookingUp(r) => now - req[r].since < callTimeout
    BY <1>8, Zenon DEF Tick
  <2>2. lastHeld' = Held(account', now') /\ account' \in [Users -> Address]
    BY <1>0, <2>1, Zenon
  <2> QED
    BY <2>1, <2>2, HeldStep, Zenon
<1>9. CASE UNCHANGED vars
  BY <1>9, NoneTimely, Zenon DEF vars, clock
<1> QED
  BY <1>1, <1>2, <1>3, <1>4, <1>5, <1>6, <1>7, <1>8, <1>9, Zenon DEF Next

-----------------------------------------------------------------------------
(* The theorems *)

\* The inductive invariant holds at the start.
LEMMA InitIInv ==
  ASSUME Init
  PROVE  IInv
<1> DEFINE n == NoRequest
<1>0. n \in Request /\ n.at = "idle" /\ n.outcome = None /\ ~n.changed /\ ~n.lost
  BY NoRequestFields, Zenon
<1>1. req = [r \in Requests |-> n]
  BY Zenon DEF Init
<1> HIDE DEF n
<1>u. Uncached \in [email : Address, expires : Int] /\ Uncached.email = None
  BY DEF Uncached, Address, Never
<1>e. None \notin Reviewers
  BY SlackAppAssumption, Zenon
<1>2. TypeOK
  <2>1. lastHeld \in [Users -> [Reviewers -> Int]]
    BY DEF Init, Never
  <2>2. status \in [Entries -> Queue!States]
    BY Zenon DEF Init, Queue!States
  <2>3. cache \in [Users -> [email : Address, expires : Int]]
    BY <1>u, Zenon DEF Init
  <2>4. now \in Nat /\ account \in [Users -> Address]
    BY Zenon DEF Init, Address
  <2>5. message \in [Entries -> {"none", "buttons"} \cup Outcomes]
    BY Zenon DEF Init
  <2>6. DOMAIN calls = Entries /\ DOMAIN resolvedBy = Entries
    BY Zenon DEF Init
  <2>7. req \in [Requests -> Request]
    BY <1>0, <1>1, Zenon
  <2> QED
    BY <2>1, <2>2, <2>3, <2>4, <2>5, <2>6, <2>7, Zenon DEF TypeOK
<1>3. Progress(n) /\ Effect(n, status, resolvedBy, ledger)
  BY <1>0, SlackAppAssumption, Zenon DEF Progress, Effect, Outcomes
<1>4. TruthInv
  BY <1>1, <1>3, Zenon DEF TruthInv
<1>5. MessageInv
  BY Zenon DEF Init, MessageInv
<1>6. HistoryInv
  BY <1>u, <1>e DEF Init, HistoryInv, Never
<1>7. \A r \in Requests : Timely(req[r], now, lastHeld)
  BY <1>0, <1>1, Zenon DEF Timely
<1> QED
  BY <1>2, <1>4, <1>5, <1>6, <1>7, Zenon DEF IInv, TimeInv

\* The inductive invariant of decisions taken in Slack.
THEOREM Invariance == Spec => []IInv
<1>1. Init => IInv
  BY InitIInv, Zenon
<1>2. IInv /\ [Next]_vars => IInv'
  <2> SUFFICES ASSUME IInv, [Next]_vars PROVE IInv'
    BY Zenon
  <2>1. Kept /\ MessagesKept /\ OnTime
    BY TruthStep, MessageStep, TimeStep, Zenon
  <2>2. TypeOK'
    BY <2>1, Zenon DEF Kept, MessagesKept, OnTime, TypeOK
  <2> QED
    BY <2>1, <2>2, Zenon DEF IInv, Kept, MessagesKept, OnTime
<1> QED
  BY <1>1, <1>2, PTL DEF Spec

\* What a person in Slack is told about their click is so, whatever the console
\* and the workers do to the same action and whichever statement or reply fails.
THEOREM TruthTheorem == Spec => []SlackTellsTruth
<1>1. IInv => SlackTellsTruth
  BY ZenonT(30) DEF IInv, TruthInv, Effect, Decided, SlackTellsTruth
<1> QED
  BY <1>1, Invariance, PTL

\* A click decides only under a listed address that was its user's less than a
\* cache lifetime and a lookup before the app knew it, soon after it was made.
THEOREM ReviewersTheorem == Spec => []DecidesForReviewers
<1>1. IInv => DecidesForReviewers
  BY Zenon DEF IInv, TimeInv, Timely, DecidesForReviewers
<1> QED
  BY <1>1, Invariance, PTL

\* The buttons leave a message only when its action was decided, and no update,
\* however late, brings them back.
THEOREM ButtonsTheorem == Spec => ButtonsFollowDecision
<1>1. IInv => \A e \in Entries :
                message[e] \notin {"none", "buttons"} => status[e] # "pending"
  BY Zenon DEF IInv, MessageInv, Decided
<1>2. IInv /\ [Next]_vars =>
        [\A e \in Entries :
           message[e] \notin {"none", "buttons"} => message'[e] # "buttons"]_vars
  BY MessageStep, Zenon DEF MessagesKept
<1> QED
  BY <1>1, <1>2, Invariance, PTL DEF Spec, ButtonsFollowDecision

=============================================================================
