---------------------------- MODULE ServerProofs ----------------------------
(***************************************************************************)
(* What the server keeps for any number of replicas, versions, requests,     *)
(* keys and failures: agents do not decide, migrations are applied in order  *)
(* and before anybody serves, and the limiter grants exactly what it is set  *)
(* to.                                                                     *)
(***************************************************************************)
EXTENDS Server, TLAPS

States == {"idle", "running", "answered", "refused", "cut"}

Routes == {"none", "agent", "human", "session", "slack", "public"}

\* The identities that requests may be served under.
IDs(c) == {NoID} \cup Agents(c) \cup {s.id : s \in SessionIdentities}
          \cup {ToLower(m) : m \in SlackEmails}

Request(c) ==
    [state : States, on : Replicas \cup {Nobody}, route : Routes, id : IDs(c),
     spent : BOOLEAN, at : Nat, status : Nat]

TypeOK ==
    /\ now \in Nat
    /\ DOMAIN pc = Replicas
    /\ req \in [Requests -> Request(cfg)]

\* Whoever passes on a route is what the route is for: an agent's key, a reviewer's,
\* or a listed address.
Entitled(route, i, c) ==
    /\ route \in {"agent", "human", "slack"} => Validate(c)
    /\ route = "agent" => i \in Values(c.APIKeys)
    /\ route = "human" => i \in Values(c.ReviewerAPIKeys) \cup Values(c.AdminAPIKeys)
    /\ route = "slack" => \E m \in c.slack : i = ToLower(TrimSpace(m))

Rightful(x, c) == x.status = 200 => Entitled(x.route, x.id, c)

RequestInv ==
    /\ \A r \in Replicas : pc[r] # "off" => Validate(cfg)
    /\ \A q \in Requests :
         /\ req[q].state = "idle" => ~req[q].spent /\ req[q].on = Nobody
         /\ Rightful(req[q], cfg)

\* One request changes, and rightfully.
Changes(q) ==
    /\ req' \in [Requests -> Request(cfg)]
    /\ \A p \in Requests \ {q} : req'[p] = req[p]
    /\ Rightful(req'[q], cfg)

\* A request that arrives is let through or turned away, uncounted.
Uncounted(q) ==
    /\ Changes(q) /\ UNCHANGED bucket
    /\ ~req'[q].spent /\ req'[q].status # 429
    /\ req'[q].state \in {"running", "refused"}

\* Or it takes a token of its identity, or finds none.
Granted(q, r) == LET x == req'[q] IN
    /\ Changes(q)
    /\ x.id \in Agents(cfg) /\ Allow(r, x.id) /\ Take(r, x.id)
    /\ x.on = r /\ x.spent /\ x.at = now /\ x.status # 429
    /\ x.state \in {"running", "answered"}

Limited(q, r) == LET x == req'[q] IN
    /\ Changes(q) /\ UNCHANGED bucket
    /\ x.id \in Agents(cfg) /\ ~Allow(r, x.id)
    /\ x.on = r /\ ~x.spent /\ x.at = now /\ x.status = 429
    /\ x.state \in {"running", "answered"}

\* What the end of a process leaves of a request.
Leaves(q, r) ==
    /\ req[q].on # r => req'[q] = req[q]
    /\ req[q].on = r =>
         /\ req'[q].on = Nobody /\ ~req'[q].spent
         /\ req'[q].state = IF req[q].state = "running" THEN "cut" ELSE req[q].state
         /\ Rightful(req[q], cfg) => Rightful(req'[q], cfg)

-----------------------------------------------------------------------------
(* The limiter *)

\* What flows into a bucket in an interval, what an identity may get in it, and what
\* it got, all in units of which a token has many.
Refill(f, t) == RPS * (t - f)

Budget(f, t) == Capacity + Refill(f, t)

Used(r, i, f, t) == Token * Spent(r, i, f, t)

\* A request that took a token of identity i from the process of r, and one that
\* found none.
Took(x, r, i) == x.spent /\ x.on = r /\ x.id = i

Denied(x) == x.status = 429 /\ x.on # Nobody

\* The bucket of an identity and the tokens that were taken from it: what is in it
\* and what was taken are together within the budget of every interval that ends
\* with the last one taken, and are the budget of one of them.
Account(r, i) == LET b == bucket[r][i] IN
    /\ b.tokens \in 0 .. Capacity /\ b.last \in 0 .. now
    /\ \A q \in Requests : Took(req[q], r, i) => req[q].at <= b.last
    /\ \A f \in 0 .. b.last : Used(r, i, f, b.last) + b.tokens <= Budget(f, b.last)
    /\ \E f \in 0 .. b.last : Used(r, i, f, b.last) + b.tokens = Budget(f, b.last)
    /\ \A t \in 0 .. b.last : \A f \in 0 .. t : Used(r, i, f, t) <= Budget(f, t)

\* Whoever is answered 429 has less than a token left of the budget of an interval
\* that ends then, and gets none at that instant.
Exhausted(r, i, a) ==
    /\ a <= now
    /\ a = now => ~Allow(r, i)
    /\ \E f \in 0 .. a : Used(r, i, f, a) + Token > Budget(f, a)

Known(x) == x.spent \/ Denied(x) => x.on \in Replicas /\ x.id \in Agents(cfg)

RateInv ==
    /\ DOMAIN bucket = Replicas
    /\ \A r \in Replicas : DOMAIN bucket[r] = Agents(cfg)
    /\ \A r \in Replicas, i \in Agents(cfg) : Account(r, i)
    /\ \A q \in Requests :
         /\ Known(req[q])
         /\ Denied(req[q]) => Exhausted(req[q].on, req[q].id, req[q].at)

\* What the lemmas on tokens use of cardinality; it is shown below, CountingHolds.
Counting ==
    /\ Cardinality({}) = 0
    /\ \A S \in SUBSET Requests :
         /\ Cardinality(S) \in Nat
         /\ \A q \in Requests \ S : Cardinality(S \cup {q}) = Cardinality(S) + 1

\* Tokens in units.
LEMMA Units ==
  /\ Token \in Nat /\ 0 < Token /\ Capacity \in Nat /\ Token <= Capacity
  /\ Token * 0 = 0
  /\ \A n \in Nat : Token * n \in Nat /\ Token * (n + 1) = Token * n + Token
<1>1. Token \in Nat \ {0} /\ Burst \in Nat \ {0}
  BY ServerAssumption, Zenon
<1>2. \A n \in Nat : Token * n \in Nat /\ Token * (n + 1) = Token * n + Token
  BY <1>1
<1>3. PICK m \in Nat : Burst = m + 1
  <2>1. Burst - 1 \in Nat /\ Burst = (Burst - 1) + 1
    BY <1>1
  <2> QED
    BY <2>1, Zenon
<1>4. Capacity = Token * (m + 1)
  BY <1>1, <1>3 DEF Capacity
<1>5. PICK k \in Nat : Token * m = k /\ Token * (m + 1) = k + Token
  BY <1>2, Zenon
<1>6. Capacity \in Nat /\ Token <= Capacity
  BY <1>1, <1>4, <1>5
<1>7. Token * 0 = 0 /\ 0 < Token
  BY <1>1
<1> QED
  BY <1>1, <1>2, <1>6, <1>7, Zenon

\* The budget of an interval and of its parts.
LEMMA BudgetSplit ==
  ASSUME NEW a \in Nat, NEW b \in Nat, NEW c \in Nat, a <= b, b <= c
  PROVE  /\ Budget(a, c) = Budget(a, b) + Refill(b, c)
         /\ Refill(b, c) \in Nat /\ Budget(a, b) \in Nat /\ Budget(a, c) \in Nat
<1>1. RPS \in Nat /\ Capacity \in Nat
  BY ServerAssumption, Units, Zenon
<1>2. ASSUME NEW d \in Nat PROVE RPS * d \in Nat
  BY <1>1, <1>2
<1>3. RPS * (c - b) \in Nat /\ RPS * (b - a) \in Nat /\ RPS * (c - a) \in Nat
  <2>1. c - b \in Nat /\ b - a \in Nat /\ c - a \in Nat
    OBVIOUS
  <2> QED
    BY <1>2, <2>1, Zenon
<1>4. RPS * (c - a) = RPS * (b - a) + RPS * (c - b)
  BY <1>1
<1> QED
  BY <1>1, <1>3, <1>4 DEF Budget, Refill

\* The budget of an instant is the burst, and that of an interval no less.
LEMMA BudgetLeast ==
  ASSUME NEW a \in Nat, NEW c \in Nat, a <= c
  PROVE  Budget(a, c) \in Nat /\ Capacity <= Budget(a, c) /\ Budget(c, c) = Capacity
<1>1. RPS \in Nat /\ Capacity \in Nat
  BY ServerAssumption, Units, Zenon
<1>2. ASSUME NEW d \in Nat PROVE RPS * d \in Nat
  BY <1>1, <1>2
<1>3. RPS * (c - a) \in Nat
  <2>1. c - a \in Nat
    OBVIOUS
  <2> QED
    BY <1>2, <2>1, Zenon
<1>4. RPS * (c - c) = 0
  BY <1>1
<1> QED
  BY <1>1, <1>3, <1>4 DEF Budget, Refill

\* Who took a token in an interval.
Takers(r, i, f, t) == {q \in Requests : Took(req[q], r, i) /\ req[q].at \in f .. t}

\* The tokens given are counted by the requests that took them.
LEMMA SpentCounts ==
  ASSUME Counting, NEW r, NEW i, NEW f, NEW t
  PROVE  /\ Spent(r, i, f, t) = Cardinality(Takers(r, i, f, t))
         /\ Spent(r, i, f, t) \in Nat
<1>1. Takers(r, i, f, t) \in SUBSET Requests
  BY Zenon DEF Takers
<1>2. Cardinality(Takers(r, i, f, t)) \in Nat
  BY <1>1, Zenon DEF Counting
<1>3. Spent(r, i, f, t) = Cardinality(Takers(r, i, f, t))
  BY Zenon DEF Spent, Takers, Took
<1> QED
  BY <1>2, <1>3, Zenon

\* And so are the units.
LEMMA UsedCounts ==
  ASSUME Counting, NEW r, NEW i, NEW f, NEW t
  PROVE  Used(r, i, f, t) \in Nat
BY SpentCounts, Units, Zenon DEF Used

\* No request of an interval took one.
LEMMA NoneSpent ==
  ASSUME Counting, NEW r, NEW i, NEW f, NEW t,
         \A q \in Requests : Took(req[q], r, i) => req[q].at \notin f .. t
  PROVE  Used(r, i, f, t) = 0
<1>1. Takers(r, i, f, t) = {}
  BY Zenon DEF Takers
<1>2. Cardinality({}) = 0
  BY Zenon DEF Counting
<1>3. Spent(r, i, f, t) = 0
  BY <1>1, <1>2, SpentCounts, Zenon
<1> QED
  BY <1>3, Units, Zenon DEF Used

\* After the last token that was taken, an interval may end anywhere.
LEMMA SpentLast ==
  ASSUME Counting, TypeOK, NEW r, NEW i, NEW l \in Nat, NEW f \in Nat, NEW t \in Nat, l <= t,
         \A q \in Requests : Took(req[q], r, i) => req[q].at <= l
  PROVE  /\ f <= l => Used(r, i, f, t) = Used(r, i, f, l)
         /\ l < f => Used(r, i, f, t) = 0
<1>1. \A q \in Requests : req[q].at \in Nat
  BY Zenon DEF TypeOK, Request
<1>2. CASE f <= l
  <2>1. Takers(r, i, f, t) = Takers(r, i, f, l)
    BY <1>1, <1>2 DEF Takers
  <2> QED
    BY <1>2, <2>1, SpentCounts DEF Used
<1>3. CASE l < f
  BY <1>1, <1>3, NoneSpent
<1> QED
  BY <1>2, <1>3, Zenon

\* Nothing happens to an account but that time passes.
Untouched(r, i) ==
    /\ now' \in {now, now + 1} /\ bucket'[r][i] = bucket[r][i]
    /\ \A q \in Requests : /\ Took(req'[q], r, i) <=> Took(req[q], r, i)
                           /\ Took(req[q], r, i) => req'[q].at = req[q].at

\* Then the tokens that were given are the same.
LEMMA SpentKept ==
  ASSUME Counting, NEW r, NEW i, Untouched(r, i)
  PROVE  \A f, t : Used(r, i, f, t)' = Used(r, i, f, t)
<1> SUFFICES ASSUME NEW f, NEW t PROVE Used(r, i, f, t)' = Used(r, i, f, t)
  BY Zenon
<1>1. Takers(r, i, f, t)' = Takers(r, i, f, t)
  BY Zenon DEF Takers, Untouched
<1>2. Spent(r, i, f, t)' = Cardinality(Takers(r, i, f, t)')
  BY Zenon DEF Spent, Takers, Took
<1> QED
  BY <1>1, <1>2, SpentCounts, Zenon DEF Used

\* A request takes one: it counts in the intervals that it is in.
LEMMA SpentGrows ==
  ASSUME Counting, NEW r, NEW i, NEW q \in Requests, ~Took(req[q], r, i), Took(req'[q], r, i),
         \A p \in Requests \ {q} : req'[p] = req[p]
  PROVE  \A f, t : Used(r, i, f, t)' =
                     IF req'[q].at \in f .. t THEN Used(r, i, f, t) + Token
                     ELSE Used(r, i, f, t)
<1> SUFFICES ASSUME NEW f, NEW t
             PROVE  Used(r, i, f, t)' = IF req'[q].at \in f .. t
                                        THEN Used(r, i, f, t) + Token
                                        ELSE Used(r, i, f, t)
  BY Zenon
<1> DEFINE S == Takers(r, i, f, t)
<1>1. Spent(r, i, f, t)' = Cardinality(S')
  BY Zenon DEF Spent, Takers, Took
<1>2. S \in SUBSET Requests /\ q \notin S /\ Spent(r, i, f, t) = Cardinality(S)
  <2>1. S \in SUBSET Requests /\ q \notin S
    BY Zenon DEF Takers
  <2> QED
    BY <2>1, SpentCounts, Zenon
<1>3. S' = IF req'[q].at \in f .. t THEN S \cup {q} ELSE S
  BY DEF Takers
<1>4. Cardinality(S \cup {q}) = Cardinality(S) + 1
  BY <1>2, Zenon DEF Counting
<1>5. Spent(r, i, f, t)' = IF req'[q].at \in f .. t THEN Spent(r, i, f, t) + 1
                           ELSE Spent(r, i, f, t)
  BY <1>1, <1>2, <1>3, <1>4, Zenon
<1> QED
  BY <1>5, SpentCounts, Units, Zenon DEF Used

\* And the account is in order.
LEMMA AccountKept ==
  ASSUME Counting, NEW r, NEW i, Account(r, i), now \in Nat, Untouched(r, i)
  PROVE  Account(r, i)'
<1>0. PICK b : b = bucket[r][i] /\ b = bucket'[r][i]
  BY Zenon DEF Untouched
<1>1. \A f, t : Used(r, i, f, t)' = Used(r, i, f, t)
  BY SpentKept, Zenon
<1>2. /\ b.tokens \in 0 .. Capacity /\ b.last \in 0 .. now'
      /\ \A q \in Requests : Took(req'[q], r, i) => req'[q].at <= b.last
  <2>1. b.tokens \in 0 .. Capacity /\ b.last \in 0 .. now
    BY <1>0, Zenon DEF Account
  <2>2. \A q \in Requests : Took(req[q], r, i) => req[q].at <= b.last
    BY <1>0, Zenon DEF Account
  <2> QED
    BY <2>1, <2>2 DEF Untouched
<1>3. /\ \A f \in 0 .. b.last : Used(r, i, f, b.last)' + b.tokens <= Budget(f, b.last)
      /\ \E f \in 0 .. b.last : Used(r, i, f, b.last)' + b.tokens = Budget(f, b.last)
      /\ \A t \in 0 .. b.last : \A f \in 0 .. t : Used(r, i, f, t)' <= Budget(f, t)
  BY <1>0, <1>1, Zenon DEF Account
<1> QED
  BY <1>0, <1>2, <1>3, Zenon DEF Account

\* A new process starts with full buckets and has given nothing.
LEMMA AccountOpens ==
  ASSUME Counting, NEW r, NEW i, now \in Nat, bucket[r][i] = [tokens |-> Capacity, last |-> 0],
         \A q \in Requests : ~Took(req[q], r, i)
  PROVE  Account(r, i)
<1> DEFINE b == bucket[r][i]
<1>1. b.tokens = Capacity /\ b.last = 0 /\ Capacity \in Nat
  BY Units
<1>2. \A f, t : Used(r, i, f, t) = 0
  BY NoneSpent, Zenon
<1>3. Budget(0, 0) = Capacity
  BY BudgetLeast
<1> HIDE DEF b
<1>4. b.tokens \in 0 .. Capacity /\ b.last \in 0 .. now
  BY <1>1
<1>5. \A f \in 0 .. b.last : f = 0 /\ b.last = 0
  BY <1>1
<1>6. \A f \in 0 .. b.last : Used(r, i, f, b.last) + b.tokens = Budget(f, b.last)
  BY <1>1, <1>2, <1>3, <1>5
<1>7. \A t \in 0 .. b.last : \A f \in 0 .. t : Used(r, i, f, t) <= Budget(f, t)
  BY <1>1, <1>2, <1>3
<1>8. 0 \in 0 .. b.last
  BY <1>1
<1>9. \A f \in 0 .. b.last : /\ Budget(f, b.last) \in Nat
                             /\ Used(r, i, f, b.last) + b.tokens <= Budget(f, b.last)
  BY <1>1, <1>3, <1>5, <1>6
<1> QED
  BY <1>4, <1>6, <1>7, <1>8, <1>9, Zenon DEF Account, b

\* What is in a bucket.
LEMMA TokensLevel ==
  ASSUME NEW r, NEW i, Account(r, i), now \in Nat
  PROVE  LET b == bucket[r][i]
             n == tokens(b)
             g == Refill(b.last, now) IN
         /\ n \in Nat /\ g \in Nat /\ n <= Capacity /\ n <= b.tokens + g
         /\ n = b.tokens + g \/ (n = Capacity /\ b.last < now)
         /\ b.tokens \in Nat /\ b.last \in Nat /\ b.last <= now
<1> DEFINE b == bucket[r][i]
           g == Refill(b.last, now)
<1>1. b.tokens \in 0 .. Capacity /\ b.last \in 0 .. now
  BY Zenon DEF Account
<1>2. Capacity \in Nat /\ RPS \in Nat
  BY ServerAssumption, Units, Zenon
<1>3. g \in Nat /\ (b.last = now => g = 0)
  <2>1. g \in Nat
    <3>1. b.last \in Nat /\ b.last <= b.last /\ b.last <= now
      BY <1>1
    <3> QED
      BY <3>1, BudgetSplit, Zenon
  <2>2. b.last = now => g = 0
    BY <1>2 DEF Refill
  <2> QED
    BY <2>1, <2>2, Zenon
<1>4. tokens(b) = IF b.tokens + g < Capacity THEN b.tokens + g ELSE Capacity
  BY Zenon DEF tokens, Refill
<1> HIDE DEF b, g
<1>5. /\ tokens(b) \in Nat /\ tokens(b) <= Capacity /\ tokens(b) <= b.tokens + g
      /\ tokens(b) = b.tokens + g \/ (tokens(b) = Capacity /\ b.last < now)
  BY <1>1, <1>2, <1>3, <1>4
<1> QED
  BY <1>1, <1>2, <1>3, <1>5 DEF b, g

\* A request takes a token: the account of its identity is kept.
LEMMA AccountTakes ==
  ASSUME Counting, TypeOK, UNCHANGED now, NEW r, NEW i, Account(r, i), Allow(r, i),
         bucket'[r][i] = [tokens |-> tokens(bucket[r][i]) - Token, last |-> now],
         NEW q \in Requests, ~Took(req[q], r, i), Took(req'[q], r, i), req'[q].at = now,
         \A p \in Requests \ {q} : req'[p] = req[p]
  PROVE  Account(r, i)'
<1> DEFINE b == bucket[r][i]
           u(f, t) == Used(r, i, f, t)
           v(f, t) == Used(r, i, f, t)'
<1>0. now \in Nat /\ Capacity \in Nat /\ RPS \in Nat /\ Token \in Nat
  BY ServerAssumption, Units, Zenon DEF TypeOK
<1>1. PICK l \in Nat, k \in Nat, n \in Nat, g \in Nat :
        /\ l = b.last /\ k = b.tokens /\ n = tokens(b) /\ g = Refill(l, now)
        /\ Token <= n /\ n <= Capacity /\ n <= k + g
        /\ n = k + g \/ (n = Capacity /\ l < now)
        /\ l <= now
  <2>1. Token <= tokens(b)
    BY <1>0, TokensLevel DEF Allow, get
  <2> QED
    BY <1>0, <2>1, TokensLevel, Zenon
<1>2. /\ bucket'[r][i].tokens = n - Token /\ bucket'[r][i].last = now
  BY <1>1
<1>3. \A p \in Requests : Took(req[p], r, i) => req[p].at <= l
  BY <1>1, Zenon DEF Account
<1>4. \A f, t : u(f, t) \in Nat
  BY UsedCounts, Zenon
<1>5. \A f, t : v(f, t) = IF now \in f .. t THEN u(f, t) + Token ELSE u(f, t)
  BY SpentGrows
<1>6. /\ \A f \in 0 .. l : u(f, l) + k <= Budget(f, l)
      /\ \E f \in 0 .. l : u(f, l) + k = Budget(f, l)
      /\ \A t \in 0 .. l : \A f \in 0 .. t : u(f, t) <= Budget(f, t)
  BY <1>1, Zenon DEF Account
<1>7. ASSUME NEW f \in Nat, NEW t \in Nat, l <= t
      PROVE  (f <= l => u(f, t) = u(f, l)) /\ (l < f => u(f, t) = 0)
  BY <1>3, <1>7, SpentLast
<1>8. ASSUME NEW f \in Nat, NEW t \in Nat, f <= l, l <= t
       PROVE  /\ Budget(f, t) = Budget(f, l) + Refill(l, t) /\ Refill(l, t) \in Nat
              /\ Budget(f, l) \in Nat
  BY <1>8, BudgetSplit, ZenonT(30)
<1> HIDE DEF b, u, v
<1>9. ASSUME NEW f \in 0 .. now
       PROVE  v(f, now) + (n - Token) <= Budget(f, now)
  <2>1. v(f, now) = u(f, now) + Token /\ u(f, now) \in Nat
    BY <1>0, <1>4, <1>5
  <2>2. CASE f <= l
    <3>1. u(f, now) = u(f, l) /\ u(f, l) \in Nat /\ u(f, l) + k <= Budget(f, l)
      BY <1>0, <1>1, <1>4, <1>7, <1>6, <2>2
    <3>2. Budget(f, now) = Budget(f, l) + g /\ Budget(f, l) \in Nat
      <4>1. f \in Nat
        BY <1>0
      <4> QED
        BY <1>0, <1>1, <2>2, <4>1, <1>8, Zenon
    <3> QED
      BY <1>0, <1>1, <2>1, <3>1, <3>2
  <2>3. CASE l < f
    <3>1. u(f, now) = 0
      BY <1>0, <1>1, <1>7, <2>3
    <3>2. Capacity <= Budget(f, now) /\ Budget(f, now) \in Nat
      BY <1>0, BudgetLeast
    <3> QED
      BY <1>0, <1>1, <2>1, <3>1, <3>2
  <2> QED
    BY <1>1, <2>2, <2>3
<1>10. \E f \in 0 .. now : v(f, now) + (n - Token) = Budget(f, now)
  <2>1. CASE n = k + g
    <3>1. PICK f \in 0 .. l : u(f, l) + k = Budget(f, l)
      BY <1>6, Zenon
    <3>2. f \in Nat /\ f <= l /\ f \in 0 .. now
      BY <1>0, <1>1
    <3>3. /\ v(f, now) = u(f, now) + Token /\ u(f, now) = u(f, l) /\ u(f, l) \in Nat
      BY <1>0, <1>1, <1>4, <1>5, <1>7, <3>2
    <3>4. Budget(f, now) = Budget(f, l) + g /\ Budget(f, l) \in Nat
      BY <1>0, <1>1, <3>2, <1>8
    <3>5. v(f, now) + (n - Token) = Budget(f, now)
      BY <1>0, <1>1, <2>1, <3>1, <3>3, <3>4
    <3> QED
      BY <3>2, <3>5, Zenon
  <2>2. CASE n = Capacity /\ l < now
    <3>1. v(now, now) = u(now, now) + Token /\ u(now, now) = 0
      BY <1>0, <1>1, <1>5, <1>7, <2>2
    <3>2. Budget(now, now) = Capacity /\ now \in 0 .. now
      BY <1>0, BudgetLeast
    <3>3. v(now, now) + (n - Token) = Budget(now, now)
      BY <1>0, <2>2, <3>1, <3>2
    <3> QED
      BY <3>2, <3>3, Zenon
  <2> QED
    BY <1>1, <2>1, <2>2, Zenon
<1>11. ASSUME NEW t \in 0 .. now, NEW f \in 0 .. t
       PROVE  v(f, t) <= Budget(f, t)
  <2>0. t \in Nat /\ f \in Nat /\ f <= t /\ f \in 0 .. now
    BY <1>0
  <2>1. CASE t = now
    <3>1. v(f, now) = u(f, now) + Token /\ u(f, now) \in Nat
      BY <1>0, <1>4, <1>5, <2>0
    <3>2. v(f, now) + (n - Token) <= Budget(f, now) /\ Budget(f, now) \in Nat
      BY <1>0, <1>9, <2>0, BudgetLeast
    <3> QED
      BY <1>0, <1>1, <2>1, <3>1, <3>2
  <2>2. CASE t < now /\ t <= l
    <3>1. v(f, t) = u(f, t)
      BY <1>0, <1>5, <2>0, <2>2
    <3> QED
      BY <1>1, <1>6, <2>0, <2>2, <3>1
  <2>3. CASE t < now /\ l < t
    <3>1. v(f, t) = u(f, t)
      BY <1>0, <1>5, <2>0, <2>3
    <3>2. CASE f <= l
      <4>1. u(f, t) = u(f, l) /\ u(f, l) \in Nat /\ u(f, l) + k <= Budget(f, l)
        BY <1>1, <1>4, <1>7, <1>6, <2>0, <2>3, <3>2
      <4>2. /\ Budget(f, t) = Budget(f, l) + Refill(l, t) /\ Refill(l, t) \in Nat
            /\ Budget(f, l) \in Nat
        BY <1>1, <2>0, <2>3, <3>2, <1>8
      <4> QED
        BY <1>1, <3>1, <4>1, <4>2
    <3>3. CASE l < f
      <4>1. u(f, t) = 0
        BY <1>1, <1>7, <2>0, <2>3, <3>3
      <4>2. Capacity <= Budget(f, t) /\ Budget(f, t) \in Nat
        BY <2>0, BudgetLeast, Zenon
      <4> QED
        BY <1>0, <3>1, <4>1, <4>2
    <3> QED
      BY <1>1, <2>0, <3>2, <3>3
  <2> QED
    BY <1>0, <1>1, <2>0, <2>1, <2>2, <2>3
<1>12. ASSUME NEW p \in Requests, Took(req'[p], r, i)
       PROVE  req'[p].at <= now
  <2>1. CASE p = q
    BY <1>0, <2>1
  <2>2. CASE p # q
    <3>1. req[p].at <= l /\ req[p].at \in Nat /\ req'[p].at = req[p].at
      BY <1>3, <1>12, <2>2, Zenon DEF TypeOK, Request
    <3> QED
      BY <1>0, <1>1, <3>1
  <2> QED
    BY <2>1, <2>2, Zenon
<1>13. n - Token \in 0 .. Capacity /\ now \in 0 .. now'
  BY <1>0, <1>1
<1> QED
  BY <1>2, <1>9, <1>10, <1>11, <1>12, <1>13, Zenon DEF Account, v

\* A request that finds no token.
LEMMA ExhaustedNow ==
  ASSUME Counting, TypeOK, NEW r, NEW i, Account(r, i), ~Allow(r, i)
  PROVE  Exhausted(r, i, now)
<1> DEFINE b == bucket[r][i]
<1>0. now \in Nat /\ Capacity \in Nat /\ Token \in Nat /\ Token <= Capacity
  BY Units, Zenon DEF TypeOK
<1>1. PICK l \in Nat, k \in Nat, n \in Nat, g \in Nat :
        /\ l = b.last /\ k = b.tokens /\ n = tokens(b) /\ g = Refill(l, now)
        /\ n = k + g \/ (n = Capacity /\ l < now)
        /\ l <= now
  BY <1>0, TokensLevel, Zenon
<1>2. n < Token /\ n = k + g
  <2>1. n < Token
    BY <1>0, <1>1 DEF Allow, get
  <2> QED
    BY <1>0, <1>1, <2>1
<1>3. PICK f \in 0 .. l : Used(r, i, f, l) + k = Budget(f, l)
  BY <1>1, Zenon DEF Account
<1>4. f \in Nat /\ f <= l /\ f \in 0 .. now
  BY <1>0, <1>1
<1>5. \A p \in Requests : Took(req[p], r, i) => req[p].at <= l
  BY <1>1, Zenon DEF Account
<1>6. Used(r, i, f, now) = Used(r, i, f, l)
  BY <1>0, <1>1, <1>4, <1>5, SpentLast
<1>7. Budget(f, now) = Budget(f, l) + Refill(l, now) /\ Budget(f, l) \in Nat
  <2>1. ASSUME NEW h \in Nat, NEW t \in Nat, h <= l, l <= t
        PROVE  Budget(h, t) = Budget(h, l) + Refill(l, t) /\ Budget(h, l) \in Nat
    BY <2>1, BudgetSplit, ZenonT(30)
  <2> QED
    BY <1>0, <1>1, <1>4, <2>1, Zenon
<1>8. Used(r, i, f, l) \in Nat
  BY UsedCounts, Zenon
<1>9. Used(r, i, f, now) + Token > Budget(f, now)
  <2>1. Refill(l, now) = g
    BY <1>1, Zenon
  <2> QED
    BY <1>0, <1>1, <1>2, <1>3, <1>6, <1>7, <1>8, <2>1
<1>10. now <= now
  BY <1>0
<1> QED
  BY <1>4, <1>9, <1>10, Zenon DEF Exhausted

\* Who found none keeps the reason, whatever is taken at later instants.
LEMMA ExhaustedKept ==
  ASSUME NEW r, NEW i, NEW a \in Nat, Exhausted(r, i, a), now \in Nat,
         now' \in {now, now + 1}, now' = now => bucket'[r][i] = bucket[r][i] \/ a # now,
         \A f, t : now \notin f .. t => Used(r, i, f, t)' = Used(r, i, f, t),
         a = now => \A f, t : Used(r, i, f, t)' = Used(r, i, f, t)
  PROVE  Exhausted(r, i, a)'
<1>1. a <= now' /\ (a = now' => a = now /\ now' = now)
  BY DEF Exhausted
<1>2. a = now' => ~Allow(r, i)'
  BY <1>1, Zenon DEF Exhausted, Allow, tokens, get
<1>3. PICK f \in 0 .. a : Used(r, i, f, a) + Token > Budget(f, a)
  BY Zenon DEF Exhausted
<1>4. Used(r, i, f, a)' = Used(r, i, f, a)
  <2>1. CASE a = now
    BY <2>1, Zenon
  <2>2. CASE a # now
    <3>1. now \notin f .. a
      BY <2>2 DEF Exhausted
    <3> QED
      BY <3>1, Zenon
  <2> QED
    BY <2>1, <2>2, Zenon
<1> QED
  BY <1>1, <1>2, <1>3, <1>4, Zenon DEF Exhausted

\* The accounts of a process that starts anew.
Opens(r, i) ==
    /\ now \in Nat /\ bucket[r][i] = [tokens |-> Capacity, last |-> 0]
    /\ \A q \in Requests : ~Took(req[q], r, i)

\* They are in order after the step.
LEMMA AccountReopens ==
  ASSUME Counting, NEW r, NEW i
  PROVE  Opens(r, i)' => Account(r, i)'
<1>1. Opens(r, i) => Account(r, i)
  BY AccountOpens, Zenon DEF Opens
<1> QED
  BY <1>1, PTL

\* What is asked of a request by the limiter.
Sound(x) == Known(x) /\ (Denied(x) => Exhausted(x.on, x.id, x.at))

\* A request that is what it was, for the limiter.
Alike(x, y) ==
    y.on = x.on /\ y.id = x.id /\ y.spent = x.spent /\ y.at = x.at /\ y.status = x.status

\* Whoever was turned away was so for good, when nothing happens to the account.
LEMMA DeniedKept ==
  ASSUME Counting, TypeOK, RateInv, UNCHANGED cfg, NEW q \in Requests, Denied(req[q]),
         Alike(req[q], req'[q]), NEW r, NEW i, r = req[q].on, i = req[q].id,
         Untouched(r, i)
  PROVE  Sound(req[q])'
<1>1. PICK a : a = req[q].at
  BY Zenon
<1>2. /\ a \in Nat /\ now \in Nat
      /\ r = req'[q].on /\ i = req'[q].id /\ a = req'[q].at
  BY <1>1, Zenon DEF Alike, TypeOK, Request
<1>3. Exhausted(r, i, a)
  BY <1>1, Zenon DEF RateInv
<1>4. \A f, t : Used(r, i, f, t)' = Used(r, i, f, t)
  BY SpentKept, Zenon
<1>5. Exhausted(r, i, a)'
  BY <1>2, <1>3, <1>4, ExhaustedKept, ZenonT(30) DEF Untouched
<1>6. Known(req[q])'
  BY ZenonT(30) DEF Known, Denied, Alike, RateInv
<1> QED
  BY <1>2, <1>5, <1>6, Zenon DEF Sound, Exhausted

\* A request that is turned away now, by an empty bucket.
Refused(q) == LET x == req'[q] IN
    /\ x.on \in Replicas /\ x.id \in Agents(cfg) /\ ~Allow(x.on, x.id)
    /\ x.at = now /\ now' = now

\* It has used up what it was granted.
LEMMA RefusedIsSound ==
  ASSUME Counting, TypeOK, RateInv, UNCHANGED cfg, NEW q \in Requests, Refused(q),
         NEW r, NEW i, r = req'[q].on, i = req'[q].id, Untouched(r, i)
  PROVE  Sound(req[q])'
<1>1. PICK a : a = now
  BY Zenon
<1>2. /\ r \in Replicas /\ i \in Agents(cfg) /\ ~Allow(r, i)
      /\ req'[q].at = a /\ a \in Nat /\ now \in Nat
  BY <1>1, Zenon DEF Refused, TypeOK
<1>3. Exhausted(r, i, a)
  <2>1. Account(r, i)
    BY <1>2, Zenon DEF RateInv
  <2> QED
    BY <1>1, <1>2, <2>1, ExhaustedNow, Zenon
<1>4. \A f, t : Used(r, i, f, t)' = Used(r, i, f, t)
  BY SpentKept, Zenon
<1>5. Exhausted(r, i, a)'
  BY <1>2, <1>3, <1>4, ExhaustedKept, ZenonT(30) DEF Untouched
<1>6. Known(req[q])'
  BY <1>2, Zenon DEF Known
<1> QED
  BY <1>2, <1>5, <1>6, Zenon DEF Sound, Exhausted

\* Steps that leave the buckets as they are.
LEMMA RateKept ==
  ASSUME Counting, TypeOK, RateInv, UNCHANGED <<cfg, bucket>>, now' \in {now, now + 1},
         \A q \in Requests : \/ Alike(req[q], req'[q])
                             \/ /\ ~req[q].spent /\ ~req'[q].spent
                                /\ Denied(req'[q]) => Refused(q)
  PROVE  RateInv'
<1>1. ASSUME NEW r, NEW i
      PROVE  Untouched(r, i)
  <2>1. ASSUME NEW q \in Requests
        PROVE  /\ Took(req'[q], r, i) <=> Took(req[q], r, i)
               /\ Took(req[q], r, i) => req'[q].at = req[q].at
    BY Zenon DEF Took, Alike
  <2> QED
    BY <2>1, Zenon DEF Untouched
<1>2. ASSUME NEW r \in Replicas, NEW i \in Agents(cfg)
      PROVE  Account(r, i)'
  <2>1. Account(r, i) /\ now \in Nat
    BY Zenon DEF RateInv, TypeOK
  <2> QED
    BY <1>1, <2>1, AccountKept, Zenon
<1>3. ASSUME NEW q \in Requests
      PROVE  Sound(req[q])'
  <2>1. CASE ~req'[q].spent /\ ~Denied(req'[q])
    BY <2>1, Zenon DEF Sound, Known, Denied
  <2>2. CASE Alike(req[q], req'[q]) /\ ~Denied(req[q])
    BY <2>2, ZenonT(30) DEF Sound, Known, Denied, Alike, RateInv
  <2>3. CASE Alike(req[q], req'[q]) /\ Denied(req[q])
    BY <1>1, <2>3, DeniedKept, Zenon
  <2>4. CASE Refused(q)
    BY <1>1, <2>4, RefusedIsSound, Zenon
  <2> QED
    BY <2>1, <2>2, <2>3, <2>4, Zenon
<1> QED
  BY <1>2, <1>3, Zenon DEF RateInv, Sound

\* A process ends: it takes its accounts with it, and a new one has full buckets.
LEMMA RateLeaving ==
  ASSUME Counting, TypeOK, RateInv, UNCHANGED <<cfg, now>>, NEW r \in Replicas,
         bucket' = [bucket EXCEPT ![r] = FullBuckets],
         \A q \in Requests : Leaves(q, r)
  PROVE  RateInv'
<1>0. now \in Nat /\ Nobody \notin Replicas
  BY ServerAssumption, Zenon DEF TypeOK
<1>1. /\ DOMAIN bucket' = Replicas /\ \A s \in Replicas \ {r} : bucket'[s] = bucket[s]
      /\ bucket'[r] = FullBuckets
  BY Zenon DEF RateInv
<1>2. \A i \in Agents(cfg) : bucket'[r][i] = [tokens |-> Capacity, last |-> 0]
  BY <1>1, Zenon DEF FullBuckets
<1>3. \A s \in Replicas : DOMAIN bucket'[s] = Agents(cfg')
  BY <1>1, Zenon DEF RateInv, FullBuckets
<1>4. ASSUME NEW s \in Replicas \ {r}, NEW i
      PROVE  Untouched(s, i)
  <2>1. ASSUME NEW q \in Requests
        PROVE  /\ Took(req'[q], s, i) <=> Took(req[q], s, i)
               /\ Took(req[q], s, i) => req'[q].at = req[q].at
    <3>1. Leaves(q, r)
      BY Zenon
    <3> QED
      BY <3>1, Zenon DEF Took, Leaves
  <2>2. bucket'[s][i] = bucket[s][i] /\ now' \in {now, now + 1}
    BY <1>1, Zenon
  <2> QED
    BY <2>1, <2>2, Zenon DEF Untouched
<1>5. ASSUME NEW i \in Agents(cfg)
      PROVE  Account(r, i)'
  <2>1. ASSUME NEW q \in Requests PROVE ~Took(req'[q], r, i)
    <3>1. Leaves(q, r)
      BY Zenon
    <3> QED
      BY <1>0, <3>1, Zenon DEF Took, Leaves
  <2>2. Opens(r, i)'
    BY <1>0, <1>2, <2>1, Zenon DEF Opens
  <2> QED
    BY <2>2, AccountReopens, Zenon
<1>6. ASSUME NEW s \in Replicas \ {r}, NEW i \in Agents(cfg)
      PROVE  Account(s, i)'
  <2>1. Account(s, i)
    BY Zenon DEF RateInv
  <2> QED
    BY <1>0, <1>4, <2>1, AccountKept, Zenon
<1>7. ASSUME NEW q \in Requests
      PROVE  Sound(req[q])'
  <2>0. Leaves(q, r)
    BY Zenon
  <2>1. CASE req[q].on = r
    BY <2>0, <2>1, Zenon DEF Leaves, Sound, Known, Denied
  <2>2. CASE req[q].on # r /\ ~Denied(req[q])
    BY <2>0, <2>2, ZenonT(30) DEF Leaves, Sound, Known, Denied, RateInv
  <2>3. CASE req[q].on # r /\ Denied(req[q])
    <3>1. PICK s, i : s = req[q].on /\ i = req[q].id
      BY Zenon
    <3>2. Alike(req[q], req'[q])
      BY <2>0, <2>3, Zenon DEF Leaves, Alike
    <3>3. s \in Replicas \ {r}
      BY <2>3, <3>1, Zenon DEF RateInv, Known
    <3> QED
      BY <1>4, <2>3, <3>1, <3>2, <3>3, DeniedKept, Zenon
  <2> QED
    BY <2>1, <2>2, <2>3, Zenon
<1> QED
  BY <1>1, <1>3, <1>5, <1>6, <1>7, Zenon DEF RateInv, Sound

\* A request takes a token: no other account is touched, and nobody who was turned
\* away at this instant was turned away from this one.
LEMMA RateTakes ==
  ASSUME Counting, TypeOK, RateInv, UNCHANGED <<cfg, now>>, NEW q \in Requests, NEW r \in Replicas,
         ~req[q].spent, Granted(q, r)
  PROVE  RateInv'
<1>0. now \in Nat
  BY Zenon DEF TypeOK
<1>1. PICK i : i = req'[q].id
  BY Zenon
<1>2. /\ i \in Agents(cfg) /\ Allow(r, i) /\ Take(r, i)
      /\ \A p \in Requests \ {q} : req'[p] = req[p]
      /\ req'[q].on = r /\ req'[q].id = i /\ req'[q].spent /\ req'[q].at = now
      /\ req'[q].status # 429
  BY <1>1, Zenon DEF Granted, Changes
<1>3. /\ DOMAIN bucket' = Replicas
      /\ \A s \in Replicas : DOMAIN bucket'[s] = Agents(cfg')
      /\ bucket'[r][i] = [tokens |-> tokens(bucket[r][i]) - Token, last |-> now]
      /\ \A s \in Replicas, j \in Agents(cfg) :
             s # r \/ j # i => bucket'[s][j] = bucket[s][j]
  <2> DEFINE full == [tokens |-> tokens(bucket[r][i]) - Token, last |-> now]
             c == [bucket[r] EXCEPT ![i] = full]
  <2>1. bucket' = [bucket EXCEPT ![r] = c]
    BY <1>2, Zenon DEF Take, get
  <2>2. DOMAIN bucket = Replicas /\ \A s \in Replicas : DOMAIN bucket[s] = Agents(cfg)
    BY Zenon DEF RateInv
  <2>3. /\ DOMAIN c = Agents(cfg) /\ c[i] = full
        /\ \A j \in Agents(cfg) : j # i => c[j] = bucket[r][j]
    <3> HIDE DEF full
    <3> QED
      BY <1>2, <2>2
  <2> HIDE DEF c
  <2>4. /\ DOMAIN bucket' = Replicas /\ bucket'[r] = c
        /\ \A s \in Replicas : s # r => bucket'[s] = bucket[s]
    BY <2>1, <2>2, Zenon
  <2> QED
    BY <2>2, <2>3, <2>4, Zenon
<1>4. ~Took(req[q], r, i) /\ Took(req'[q], r, i)
  BY <1>2, Zenon DEF Took
<1>5. ASSUME NEW s \in Replicas, NEW j \in Agents(cfg), s # r \/ j # i
      PROVE  Untouched(s, j)
  <2>1. ASSUME NEW p \in Requests
        PROVE  /\ Took(req'[p], s, j) <=> Took(req[p], s, j)
               /\ Took(req[p], s, j) => req'[p].at = req[p].at
    <3>1. CASE p = q
      BY <1>2, <1>5, <3>1, Zenon DEF Took
    <3>2. CASE p # q
      BY <1>2, <3>2, ZenonT(30) DEF Took
    <3> QED
      BY <3>1, <3>2, Zenon
  <2>2. bucket'[s][j] = bucket[s][j] /\ now' \in {now, now + 1}
    BY <1>3, <1>5, Zenon
  <2> QED
    BY <2>1, <2>2, Zenon DEF Untouched
<1>6. Account(r, i)'
  <2>1. Account(r, i)
    BY <1>2, ZenonT(30) DEF RateInv
  <2> QED
    BY <1>2, <1>3, <1>4, <2>1, AccountTakes
<1>7. ASSUME NEW s \in Replicas, NEW j \in Agents(cfg), s # r \/ j # i
      PROVE  Account(s, j)'
  <2>1. Account(s, j)
    BY Zenon DEF RateInv
  <2> QED
    BY <1>0, <1>5, <1>7, <2>1, AccountKept, Zenon
<1>8. ASSUME NEW p \in Requests
      PROVE  Sound(req[p])'
  <2>1. CASE p = q
    BY <1>2, <2>1, Zenon DEF Sound, Known, Denied
  <2>2. CASE p # q /\ ~Denied(req[p])
    <3>1. req'[p] = req[p]
      BY <1>2, <2>2, Zenon
    <3> QED
      BY <2>2, <3>1, ZenonT(30) DEF Sound, Known, Denied, RateInv
  <2>3. CASE p # q /\ Denied(req[p])
    <3>1. PICK s, j, a : s = req[p].on /\ j = req[p].id /\ a = req[p].at
      BY Zenon
    <3>2. req'[p] = req[p] /\ Alike(req[p], req'[p])
      BY <1>2, <2>3, ZenonT(30) DEF Alike
    <3>3. Exhausted(s, j, a) /\ s \in Replicas /\ j \in Agents(cfg)
      BY <2>3, <3>1, Zenon DEF RateInv, Known
    <3>4. CASE s # r \/ j # i
      BY <1>5, <2>3, <3>1, <3>2, <3>3, <3>4, DeniedKept, Zenon
    <3>5. CASE s = r /\ j = i
      <4>1. a # now /\ a \in Nat /\ now' \in {now, now + 1}
        BY <1>2, <3>1, <3>3, <3>5, SMTT(30) DEF Exhausted, TypeOK, Request
      <4>2. \A f, t : now \notin f .. t => Used(s, j, f, t)' = Used(s, j, f, t)
        BY <1>2, <1>4, <3>5, SpentGrows
      <4>3. Exhausted(s, j, a)'
        BY <1>0, <3>3, <4>1, <4>2, ExhaustedKept, Zenon
      <4>4. Known(req[p])'
        BY <3>1, <3>2, <3>3, Zenon DEF Known
      <4> QED
        BY <3>1, <3>2, <4>3, <4>4, Zenon DEF Sound, Exhausted
    <3> QED
      BY <3>4, <3>5, Zenon
  <2> QED
    BY <2>1, <2>2, <2>3, Zenon
<1> QED
  BY <1>3, <1>6, <1>7, <1>8, Zenon DEF RateInv, Sound

\* A process that has not served anybody is in order.
LEMMA RateInit ==
  ASSUME Counting, Init
  PROVE  RateInv
<1>1. /\ now \in Nat /\ bucket = [r \in Replicas |-> FullBuckets]
      /\ req = [q \in Requests |-> NoRequest]
  BY Zenon DEF Init
<1>2. /\ \A r \in Replicas : DOMAIN bucket[r] = Agents(cfg)
      /\ \A r \in Replicas, i \in Agents(cfg) :
             bucket[r][i] = [tokens |-> Capacity, last |-> 0]
  BY <1>1, Zenon DEF FullBuckets
<1>3. \A q \in Requests : ~req[q].spent /\ req[q].on = Nobody
  BY <1>1, Zenon DEF NoRequest
<1>4. ASSUME NEW r \in Replicas, NEW i \in Agents(cfg)
      PROVE  Account(r, i)
  BY <1>1, <1>2, <1>3, AccountOpens, Zenon DEF Took
<1> QED
  BY <1>1, <1>2, <1>3, <1>4, ZenonT(30) DEF RateInv, Known, Denied

\* Accounts in order are what the limiter is for.
LEMMA RateIsExactNow ==
  ASSUME TypeOK, RateInv
  PROVE  RateIsExact
<1> SUFFICES ASSUME NEW q \in Requests
             PROVE  LET p == req[q] IN
                    /\ p.spent => \A f \in 0 .. p.at :
                         Used(p.on, p.id, f, p.at) <= Budget(f, p.at)
                    /\ Denied(p) => \E f \in 0 .. p.at :
                         Used(p.on, p.id, f, p.at) + Token > Budget(f, p.at)
  BY Zenon DEF RateIsExact, Denied, Budget, Refill, Used
<1>1. ASSUME req[q].spent, NEW f \in 0 .. req[q].at
      PROVE  Used(req[q].on, req[q].id, f, req[q].at) <= Budget(f, req[q].at)
  <2>1. PICK r, i, a : r = req[q].on /\ i = req[q].id /\ a = req[q].at
    BY Zenon 
  <2>2. r \in Replicas /\ i \in Agents(cfg) /\ a \in Nat
    BY <1>1, <2>1, ZenonT(30) DEF RateInv, Known, TypeOK, Request
  <2>3. Account(r, i) /\ Took(req[q], r, i)
    BY <1>1, <2>1, <2>2, ZenonT(30) DEF RateInv, Took
  <2>4. a \in 0 .. bucket[r][i].last
    <3>1. req[q].at <= bucket[r][i].last
      BY <2>3, Zenon DEF Account
    <3>2. bucket[r][i].last \in 0 .. now /\ now \in Nat
      BY <2>3, Zenon DEF Account, TypeOK
    <3> QED
      BY <2>1, <2>2, <3>1, <3>2
  <2>5. Used(r, i, f, a) <= Budget(f, a)
    BY <2>1, <2>3, <2>4, ZenonT(30) DEF Account
  <2> QED
    BY <2>1, <2>5, Zenon
<1>2. ASSUME Denied(req[q])
      PROVE  \E f \in 0 .. req[q].at :
                 Used(req[q].on, req[q].id, f, req[q].at) + Token > Budget(f, req[q].at)
  BY <1>2, Zenon DEF RateInv, Exhausted
<1> QED
  BY <1>1, <1>2, Zenon

-----------------------------------------------------------------------------
(* The records that requests go through *)

\* Turned away, or cut off.
Turned(how) == [NoRequest EXCEPT !.state = how]

Runs(r, route, i) ==
    [NoRequest EXCEPT !.state = "running", !.on = r, !.route = route, !.id = i,
                      !.status = 200]

Orphaned(q) == [q EXCEPT !.on = Nobody, !.spent = FALSE, !.at = 0]

Ended(q) == [q EXCEPT !.state = "answered"]

Tallied(r, i, spent, status) ==
    [state |-> IF status = 200 THEN "running" ELSE "answered", on |-> r,
     route |-> "agent", id |-> i, spent |-> spent, at |-> now, status |-> status]

\* A request that is turned away or cut off.
LEMMA TurnedFields ==
  ASSUME NEW c, NEW how \in States
  PROVE  LET x == Turned(how) IN
         /\ x \in Request(c) /\ x.state = how /\ x.on = Nobody /\ x.route = "none"
         /\ ~x.spent /\ x.status = 0
  BY Zenon DEF Turned, NoRequest, Request, Routes, IDs

\* A request that is let through uncounted.
LEMMA RunsFields ==
  ASSUME NEW c, NEW r \in Replicas, NEW route \in Routes, NEW i \in IDs(c)
  PROVE  LET x == Runs(r, route, i) IN
         /\ x \in Request(c) /\ x.state = "running" /\ x.on = r /\ x.route = route
         /\ x.id = i /\ ~x.spent /\ x.status = 200
  BY ZenonT(30) DEF Runs, NoRequest, Request, States

\* A request that survives its process.
LEMMA OrphanedFields ==
  ASSUME NEW c, NEW q \in Request(c)
  PROVE  LET x == Orphaned(q) IN
         /\ x \in Request(c) /\ x.state = q.state /\ x.on = Nobody
         /\ x.route = q.route /\ x.id = q.id /\ ~x.spent /\ x.status = q.status
<1> DEFINE t == 0
<1>0. t \in Nat
  BY Zenon
<1> HIDE DEF t
<1>1. LET x == [q EXCEPT !.on = Nobody, !.spent = FALSE, !.at = t] IN
         /\ x \in Request(c) /\ x.state = q.state /\ x.on = Nobody
         /\ x.route = q.route /\ x.id = q.id /\ ~x.spent /\ x.status = q.status
  BY <1>0, Zenon DEF Request
<1> QED
  BY <1>1, Zenon DEF t, Orphaned

\* A request that has been served.
LEMMA EndedFields ==
  ASSUME NEW c, NEW q \in Request(c)
  PROVE  LET x == Ended(q) IN
         /\ x \in Request(c) /\ x.state = "answered" /\ x.on = q.on
         /\ x.route = q.route /\ x.id = q.id /\ x.spent = q.spent
         /\ x.at = q.at /\ x.status = q.status
  BY Zenon DEF Ended, Request, States

\* A request that the limiter counts.
LEMMA TalliedFields ==
  ASSUME NEW c, NEW r \in Replicas, NEW i \in IDs(c), NEW spent \in BOOLEAN,
         NEW status \in Nat, now \in Nat
  PROVE  LET x == Tallied(r, i, spent, status) IN
         /\ x \in Request(c) /\ x.state \in {"running", "answered"} /\ x.on = r
         /\ x.route = "agent" /\ x.id = i /\ x.spent = spent /\ x.at = now
         /\ x.status = status
  BY Zenon DEF Tallied, Request, Routes, States

\* A step that concerns one request.
LEMMA OneRequest ==
  ASSUME req \in [Requests -> Request(cfg)], NEW q \in Requests,
         NEW x \in Request(cfg), req' = [req EXCEPT ![q] = x]
  PROVE  /\ req' \in [Requests -> Request(cfg)] /\ req'[q] = x
         /\ \A p \in Requests \ {q} : req'[p] = req[p]
  BY Zenon

-----------------------------------------------------------------------------
(* Who is let through *)

\* What an answer says of the key it was given for.
Accepted(who, t, c) == who.status = 200 =>
    /\ t \in DOMAIN identities(c)
    /\ who.id = identities(c)[t].id /\ who.role = identities(c)[t].role
    /\ who.id \in Agents(c)

\* A key that Middleware accepts is in the table of identities.
LEMMA KeyAccepted ==
  ASSUME NEW c, NEW k
  PROVE  Accepted(Middleware(c, k), k.bearer, c)
  BY DEF Middleware, Reject, Accept, Agents, Accepted

\* The identity behind a key has the role that the key was configured for.
LEMMA RolesAreConfigured ==
  ASSUME NEW c, NEW t \in DOMAIN identities(c)
  PROVE  LET i == identities(c)[t] IN
         /\ i.role \in {"agent", "reviewer", "admin"}
         /\ i.role = "agent" => i.id \in Values(c.APIKeys)
         /\ i.role \in {"reviewer", "admin"} =>
              i.id \in Values(c.ReviewerAPIKeys) \cup Values(c.AdminAPIKeys)
  BY Zenon DEF identities, Values

\* What drainMiddleware and the chains behind it make of a result.
LEMMA PassesStep ==
  ASSUME TypeOK, NEW q \in Requests, NEW r \in Replicas, NEW route \in Routes, NEW result,
         Passes(q, r, route, result), UNCHANGED bucket,
         result.status = 200 => result.id \in IDs(cfg) /\ Entitled(route, result.id, cfg)
  PROVE  Uncounted(q)
<1>1. CASE result.status = 200
  <2> DEFINE x == Runs(r, route, result.id)
  <2>1. req' = [req EXCEPT ![q] = x]
    BY <1>1, Zenon DEF Passes, Runs
  <2>2. /\ x \in Request(cfg) /\ x.state = "running" /\ x.route = route
        /\ x.id = result.id /\ ~x.spent /\ x.status = 200
    BY <1>1, RunsFields
  <2> HIDE DEF x
  <2>3. Rightful(x, cfg)
    BY <1>1, <2>2, Zenon DEF Rightful
  <2>4. x.status # 429 /\ x.state \in {"running", "refused"}
    BY <2>2
  <2>5. /\ req' \in [Requests -> Request(cfg)] /\ req'[q] = x
        /\ \A p \in Requests \ {q} : req'[p] = req[p]
    BY <2>1, <2>2, OneRequest, Zenon DEF TypeOK
  <2> QED
    BY <2>2, <2>3, <2>4, <2>5, ZenonT(30) DEF Uncounted, Changes
<1>2. CASE result.status # 200
  <2> DEFINE x == Turned("refused")
  <2>1. req' = [req EXCEPT ![q] = x]
    BY <1>2, Zenon DEF Passes, Turned
  <2>2. x \in Request(cfg) /\ x.state = "refused" /\ ~x.spent /\ x.status = 0
    BY TurnedFields, Zenon DEF States
  <2> HIDE DEF x
  <2>3. Rightful(x, cfg)
    BY <2>2 DEF Rightful
  <2>4. x.status # 429 /\ x.state \in {"running", "refused"}
    BY <2>2
  <2>5. /\ req' \in [Requests -> Request(cfg)] /\ req'[q] = x
        /\ \A p \in Requests \ {q} : req'[p] = req[p]
    BY <2>1, <2>2, OneRequest, Zenon DEF TypeOK
  <2> QED
    BY <2>2, <2>3, <2>4, <2>5, ZenonT(30) DEF Uncounted, Changes
<1> QED
  BY <1>1, <1>2, Zenon

\* The chain for agents.
LEMMA AgentStep ==
  ASSUME TypeOK, Validate(cfg), NEW q \in Requests, NEW r \in Replicas, agentChain(q, r)
  PROVE  Uncounted(q) \/ Granted(q, r) \/ Limited(q, r)
<1>0. now \in Nat
  BY Zenon DEF TypeOK
<1> DEFINE key(t) == [bearer |-> t]
           who(t) == Middleware(cfg, key(t))
<1>1. PICK t \in Bearers :
        \/ /\ ready(r) /\ who(t).status = 200 /\ Allow(r, who(t).id)
           /\ Take(r, who(t).id)
           /\ Counted(q, r, who(t), TRUE, RequireRole({"agent"}, who(t)).status)
        \/ /\ ready(r) /\ who(t).status = 200 /\ ~Allow(r, who(t).id)
           /\ Counted(q, r, who(t), FALSE, 429)
           /\ UNCHANGED bucket
        \/ /\ ~ready(r) \/ who(t).status # 200
           /\ Passes(q, r, "agent", IF ready(r) THEN who(t) ELSE Reject(503))
           /\ UNCHANGED bucket
  BY Zenon DEF agentChain
<1> DEFINE w == who(t)
<1>2. /\ w.status = 200 =>
           /\ t \in DOMAIN identities(cfg)
           /\ w.id = identities(cfg)[t].id /\ w.role = identities(cfg)[t].role
           /\ w.id \in Agents(cfg)
  <2>1. Accepted(w, key(t).bearer, cfg)
    BY KeyAccepted, Zenon
  <2>2. key(t).bearer = t
    BY Zenon
  <2> HIDE DEF key, w
  <2> QED
    BY <2>1, <2>2, Zenon DEF Accepted
<1> HIDE DEF w
<1>3. CASE /\ w.status = 200 /\ Allow(r, w.id) /\ Take(r, w.id)
           /\ Counted(q, r, w, TRUE, RequireRole({"agent"}, w).status)
  <2> DEFINE s == RequireRole({"agent"}, w).status
             b == TRUE
             x == Tallied(r, w.id, b, s)
  <2>1. /\ s \in Nat /\ s # 429
        /\ s = 200 => w.role = "agent"
    BY <1>3 DEF RequireRole, Reject
  <2>2. req' = [req EXCEPT ![q] = x] /\ b \in BOOLEAN
    BY <1>3, Zenon DEF Counted, Tallied
  <2> HIDE DEF s, b
  <2>3. w.id \in IDs(cfg) /\ w.id \in Agents(cfg)
    BY <1>2, <1>3, Zenon DEF IDs
  <2>4. /\ x \in Request(cfg) /\ x.state \in {"running", "answered"} /\ x.on = r
        /\ x.route = "agent" /\ x.id = w.id /\ x.spent = b /\ x.at = now
        /\ x.status = s
    BY <1>0, <2>1, <2>2, <2>3, TalliedFields, SMTT(30)
  <2> HIDE DEF x
  <2>5. s = 200 => w.id \in Values(cfg.APIKeys)
    <3>1. t \in DOMAIN identities(cfg)
      BY <1>2, <1>3, Zenon
    <3>2. identities(cfg)[t].role = "agent" =>
             identities(cfg)[t].id \in Values(cfg.APIKeys)
      BY <3>1, RolesAreConfigured, Zenon
    <3>3. w.id = identities(cfg)[t].id /\ w.role = identities(cfg)[t].role
      BY <1>2, <1>3, Zenon
    <3> QED
      BY <2>1, <3>2, <3>3
  <2>6. Rightful(x, cfg)
    BY <2>4, <2>5, Zenon DEF Rightful, Entitled
  <2>7. /\ req' \in [Requests -> Request(cfg)] /\ req'[q] = x
        /\ \A p \in Requests \ {q} : req'[p] = req[p]
    BY <2>2, <2>4, OneRequest, Zenon DEF TypeOK
  <2>8. x.spent /\ x.status # 429
    BY <2>1, <2>4, Zenon DEF b
  <2> QED
    BY <1>3, <2>3, <2>4, <2>6, <2>7, <2>8, ZenonT(30) DEF Granted, Changes
<1>4. CASE /\ w.status = 200 /\ ~Allow(r, w.id) /\ Counted(q, r, w, FALSE, 429)
           /\ UNCHANGED bucket
  <2> DEFINE s == 429
             b == FALSE
             x == Tallied(r, w.id, b, s)
  <2>1. s \in Nat /\ s # 200 /\ s = 429
    OBVIOUS
  <2>2. req' = [req EXCEPT ![q] = x] /\ b \in BOOLEAN
    BY <1>4, Zenon DEF Counted, Tallied
  <2> HIDE DEF s, b
  <2>3. w.id \in IDs(cfg) /\ w.id \in Agents(cfg)
    BY <1>2, <1>4, Zenon DEF IDs
  <2>4. /\ x \in Request(cfg) /\ x.state \in {"running", "answered"} /\ x.on = r
        /\ x.id = w.id /\ x.spent = b /\ x.at = now /\ x.status = s
    BY <1>0, <2>1, <2>2, <2>3, TalliedFields, SMTT(30)
  <2> HIDE DEF x
  <2>5. Rightful(x, cfg)
    BY <2>1, <2>4, SMTT(30) DEF Rightful
  <2>6. /\ req' \in [Requests -> Request(cfg)] /\ req'[q] = x
        /\ \A p \in Requests \ {q} : req'[p] = req[p]
    BY <2>2, <2>4, OneRequest, Zenon DEF TypeOK
  <2>7. ~x.spent /\ x.status = 429
    <3>1. ~x.spent
      BY <2>4, Zenon DEF b
    <3>2. x.status = 429
      BY <2>1, <2>4, Zenon
    <3> QED
      BY <3>1, <3>2, Zenon
  <2> QED
    BY <1>4, <2>3, <2>4, <2>5, <2>6, <2>7, ZenonT(30) DEF Limited, Changes
<1>5. CASE /\ ~ready(r) \/ w.status # 200
           /\ Passes(q, r, "agent", IF ready(r) THEN w ELSE Reject(503))
           /\ UNCHANGED bucket
  <2> DEFINE result == IF ready(r) THEN w ELSE Reject(503)
  <2>1. result.status # 200
    BY <1>5 DEF Reject
  <2>2. Passes(q, r, "agent", result) /\ "agent" \in Routes
    BY <1>5, Zenon DEF Routes
  <2> HIDE DEF result
  <2> QED
    BY <1>5, <2>1, <2>2, PassesStep
<1> QED
  BY <1>1, <1>3, <1>4, <1>5, Zenon DEF w

\* The chains for people, for Slack, and for everybody.
LEMMA OthersStep ==
  ASSUME TypeOK, Validate(cfg), NEW q \in Requests, NEW r \in Replicas,
         humanChain(q, r) \/ slackChain(q, r) \/ publicChain(q, r)
  PROVE  Uncounted(q)
<1>1. CASE humanChain(q, r)
  <2> DEFINE cred(t, s, g) == [bearer |-> t, session |-> s, guarded |-> g]
             who(t, s, g) == HumanMiddleware(cfg, cred(t, s, g))
  <2>1. PICK t \in Bearers, s \in SessionIdentities \cup {NoSession}, g \in BOOLEAN :
          Passes(q, r, IF t = "none" THEN "session" ELSE "human",
                 IF ready(r) THEN RequireRole({"reviewer", "admin"}, who(t, s, g))
                 ELSE Reject(503))
    BY <1>1, Zenon DEF humanChain
  <2>2. UNCHANGED bucket
    BY <1>1, Zenon DEF humanChain
  <2> DEFINE k == cred(t, s, g)
             w == who(t, s, g)
             route == IF t = "none" THEN "session" ELSE "human"
             result == IF ready(r) THEN RequireRole({"reviewer", "admin"}, w)
                       ELSE Reject(503)
  <2>3. /\ route \in Routes /\ (route = "human" => t # "none")
        /\ route \in {"session", "human"}
    BY Zenon DEF Routes
  <2>4. result.status = 200 =>
          result.id = w.id /\ w.status = 200 /\ w.role \in {"reviewer", "admin"}
    BY DEF RequireRole, Reject
  <2>5. k.bearer = t /\ k.session = s
    BY Zenon
  <2>6. w = HumanMiddleware(cfg, k) /\ Passes(q, r, route, result)
    BY <2>1, Zenon
  <2> HIDE DEF k, w, route, result
  <2> DEFINE v == Middleware(cfg, k)
  <2>7. v.status = 200 =>
          /\ t \in DOMAIN identities(cfg)
          /\ v.id = identities(cfg)[t].id /\ v.role = identities(cfg)[t].role
          /\ v.id \in Agents(cfg)
    <3>1. Accepted(v, k.bearer, cfg)
      BY KeyAccepted, Zenon
    <3> HIDE DEF v
    <3> QED
      BY <2>5, <3>1, Zenon DEF Accepted
  <2> HIDE DEF v
  <2>8. CASE w = v
    <3>1. ASSUME result.status = 200
          PROVE  result.id \in IDs(cfg) /\ Entitled(route, result.id, cfg)
      <4>1. /\ result.id = v.id /\ v.id \in Agents(cfg) /\ t \in DOMAIN identities(cfg)
            /\ v.id = identities(cfg)[t].id
            /\ identities(cfg)[t].role \in {"reviewer", "admin"}
        BY <2>4, <2>7, <2>8, <3>1, Zenon
      <4>2. v.id \in Values(cfg.ReviewerAPIKeys) \cup Values(cfg.AdminAPIKeys)
        BY <4>1, RolesAreConfigured, Zenon
      <4> QED
        BY <2>3, <4>1, <4>2, Zenon DEF IDs, Entitled
    <3> QED
      BY <2>2, <2>3, <2>6, <3>1, PassesStep, Zenon
  <2>9. CASE w # v
    <3>1. t = "none" /\ w.status = 200 => w.id = s.id /\ s \in SessionIdentities
      BY <2>5, <2>6, <2>9 DEF HumanMiddleware, Reject, Accept, v
    <3>2. t = "none"
      BY <2>5, <2>6, <2>9, Zenon DEF HumanMiddleware, v
    <3>3. ASSUME result.status = 200
          PROVE  result.id \in IDs(cfg) /\ Entitled(route, result.id, cfg)
      BY <2>3, <2>4, <3>1, <3>2, <3>3 DEF IDs, Entitled
    <3> QED
      BY <2>2, <2>3, <2>6, <3>3, PassesStep, Zenon
  <2> QED
    BY <2>8, <2>9, Zenon
<1>2. CASE slackChain(q, r)
  <2> DEFINE listed(e) == [status |-> 200, id |-> e, role |-> "none"]
             answer(e) == IF ~ready(r) THEN Reject(503)
                          ELSE IF e \in reviewers THEN listed(e)
                          ELSE Reject(403)
  <2>1. PICK e \in {ToLower(m) : m \in SlackEmails} : Passes(q, r, "slack", answer(e))
    BY <1>2, Zenon DEF slackChain
  <2> DEFINE result == answer(e)
  <2>2. result.status = 200 => result.id = e /\ e \in reviewers
    BY SMTT(30) DEF Reject
  <2>3. Passes(q, r, "slack", result) /\ "slack" \in Routes /\ UNCHANGED bucket
    BY <1>2, <2>1, Zenon DEF Routes, slackChain
  <2> HIDE DEF result
  <2>4. ASSUME result.status = 200
        PROVE  result.id \in IDs(cfg) /\ Entitled("slack", result.id, cfg)
    <3>1. e \in reviewers /\ result.id = e /\ Validate(cfg)
      BY <2>2, <2>4, Zenon
    <3>2. \E i \in cfg.slack : e = ToLower(TrimSpace(i))
      BY <3>1, Zenon DEF reviewers
    <3> QED
      BY <2>1, <3>1, <3>2, Zenon DEF IDs, Entitled
  <2> QED
    BY <2>3, <2>4, PassesStep, Zenon
<1>3. CASE publicChain(q, r)
  <2> DEFINE result == [status |-> 200, id |-> NoID, role |-> "none"]
  <2>1. Passes(q, r, "public", result) /\ "public" \in Routes /\ UNCHANGED bucket
    BY <1>3, Zenon DEF Routes, publicChain
  <2>2. result.id \in IDs(cfg) /\ Entitled("public", result.id, cfg)
    BY Zenon DEF IDs, Entitled
  <2> HIDE DEF result
  <2> QED
    BY <2>1, <2>2, PassesStep, Zenon
<1> QED
  BY <1>1, <1>2, <1>3, Zenon

-----------------------------------------------------------------------------
(* What a step does to the requests *)

\* A process ends, and nothing else does.
LEMMA ExitStep ==
  ASSUME TypeOK, NEW r \in Replicas, Exit(r)
  PROVE  /\ req' \in [Requests -> Request(cfg)]
         /\ \A q \in Requests : Leaves(q, r)
         /\ UNCHANGED <<cfg, now>>
         /\ bucket' = [bucket EXCEPT ![r] = FullBuckets]
         /\ pc' = [pc EXCEPT ![r] = "off"]
<1>1. /\ UNCHANGED <<cfg, now>> /\ bucket' = [bucket EXCEPT ![r] = FullBuckets]
      /\ pc' = [pc EXCEPT ![r] = "off"]
      /\ req' = [q \in Requests |->
                   IF req[q].on # r THEN req[q]
                   ELSE IF req[q].state = "running" THEN Turned("cut")
                   ELSE Orphaned(req[q])]
  BY ZenonT(30) DEF Exit, Goto, Turned, Orphaned
<1>2. ASSUME NEW q \in Requests
      PROVE  req'[q] \in Request(cfg) /\ Leaves(q, r)
  <2>0. req[q] \in Request(cfg)
    BY Zenon DEF TypeOK
  <2>1. CASE req[q].on # r
    BY <1>1, <2>0, <2>1, Zenon DEF Leaves
  <2>2. CASE req[q].on = r /\ req[q].state = "running"
    <3> DEFINE x == Turned("cut")
    <3>1. req'[q] = x
      BY <1>1, <2>2, Zenon
    <3>2. x \in Request(cfg) /\ x.state = "cut" /\ x.on = Nobody /\ ~x.spent /\ x.status = 0
      <4>1. "cut" \in States
        BY Zenon DEF States
      <4> QED
        BY <4>1, TurnedFields, Zenon
    <3> HIDE DEF x
    <3>3. Rightful(x, cfg)
      BY <3>2 DEF Rightful
    <3> QED
      BY <2>2, <3>1, <3>2, <3>3, Zenon DEF Leaves
  <2>3. CASE req[q].on = r /\ req[q].state # "running"
    <3> DEFINE x == Orphaned(req[q])
    <3>1. req'[q] = x
      BY <1>1, <2>3, Zenon
    <3>2. /\ x \in Request(cfg) /\ x.state = req[q].state /\ x.on = Nobody
          /\ x.route = req[q].route /\ x.id = req[q].id /\ ~x.spent
          /\ x.status = req[q].status
      BY <2>0, OrphanedFields, Zenon
    <3> HIDE DEF x
    <3>3. Rightful(req[q], cfg) => Rightful(x, cfg)
      BY <3>2, Zenon DEF Rightful
    <3> QED
      BY <2>3, <3>1, <3>2, <3>3, Zenon DEF Leaves
  <2> QED
    BY <2>1, <2>2, <2>3, Zenon
<1>3. req' \in [Requests -> Request(cfg)]
  BY <1>1, <1>2, Zenon
<1> QED
  BY <1>1, <1>2, <1>3, Zenon

\* A request that was served keeps what it was served under.
LEMMA FinishStep ==
  ASSUME TypeOK, NEW q \in Requests, Finish(q), Rightful(req[q], cfg)
  PROVE  LET x == req[q]  y == req'[q] IN
         /\ Changes(q) /\ y.state = "answered" /\ y.on = x.on /\ y.id = x.id
         /\ y.spent = x.spent /\ y.at = x.at /\ y.status = x.status
<1> DEFINE x == req[q]
           y == Ended(x)
<1>1. req' = [req EXCEPT ![q] = y] /\ x \in Request(cfg)
  BY Zenon DEF Finish, Ended, TypeOK
<1>2. /\ y \in Request(cfg) /\ y.state = "answered" /\ y.on = x.on /\ y.route = x.route
      /\ y.id = x.id /\ y.spent = x.spent /\ y.at = x.at /\ y.status = x.status
  BY <1>1, EndedFields, Zenon
<1> HIDE DEF y
<1>3. /\ req' \in [Requests -> Request(cfg)] /\ req'[q] = y
      /\ \A p \in Requests \ {q} : req'[p] = req[p]
  BY <1>1, <1>2, OneRequest, Zenon DEF TypeOK
<1>4. Rightful(y, cfg)
  BY <1>2, Zenon DEF Rightful
<1> QED
  BY <1>2, <1>3, <1>4, Zenon DEF Changes

\* Steps that leave requests and buckets alone.
Quiet == UNCHANGED <<bucket, req>> /\ now' \in {now, now + 1}

\* main gets past the configuration only with one that is valid.
Past == \A r \in Replicas : pc'[r] # "off" => pc[r] # "off" \/ Validate(cfg)

\* A label that main goes to.
LEMMA GotoStep ==
  ASSUME TypeOK, NEW r \in Replicas, NEW label, Goto(r, label),
         pc[r] # "off" \/ Validate(cfg) \/ label = "off"
  PROVE  DOMAIN pc' = Replicas /\ Past
<1>1. pc' = [pc EXCEPT ![r] = label] /\ DOMAIN pc = Replicas
  BY Zenon DEF Goto, TypeOK
<1>2. DOMAIN pc' = Replicas /\ pc'[r] = label
      /\ \A s \in Replicas \ {r} : pc'[s] = pc[s]
  BY <1>1, Zenon
<1> QED
  BY <1>2, Zenon DEF Past

\* The steps of main, of the requests, and of everything else.
LEMMA Kinds ==
  ASSUME TypeOK, [Next]_vars
  PROVE  /\ UNCHANGED cfg /\ DOMAIN pc' = Replicas /\ Past
         /\ \/ Quiet
            \/ \E r \in Replicas : UNCHANGED now /\ Exit(r)
            \/ \E q \in Requests, r \in Replicas : UNCHANGED now /\ Arrive(q, r)
            \/ \E q \in Requests : UNCHANGED <<now, bucket>> /\ Finish(q)
<1> DEFINE Kind == \/ Quiet
                   \/ \E r \in Replicas : UNCHANGED now /\ Exit(r)
                   \/ \E q \in Requests, r \in Replicas : UNCHANGED now /\ Arrive(q, r)
                   \/ \E q \in Requests : UNCHANGED <<now, bucket>> /\ Finish(q)
           Kept == UNCHANGED cfg /\ DOMAIN pc' = Replicas /\ Past
<1> SUFFICES Kept /\ Kind
  BY Zenon
<1>0. now \in Nat /\ DOMAIN pc = Replicas
  BY Zenon DEF TypeOK
<1>1. ASSUME UNCHANGED <<cfg, pc>>
      PROVE  Kept
  BY <1>0, <1>1, Zenon DEF Past
<1>2. ASSUME UNCHANGED <<bucket, req, now>>
      PROVE  Kind
  BY <1>2, Zenon DEF Quiet
<1>3. ASSUME NEW r \in Replicas, Exit(r)
      PROVE  Kept /\ Kind
  <2>1. UNCHANGED <<cfg, now>> /\ Goto(r, "off")
    BY <1>3, Zenon DEF Exit
  <2>2. Kept
    BY <2>1, GotoStep, Zenon
  <2> QED
    BY <1>3, <2>1, <2>2, Zenon
<1> HIDE DEF Kept, Kind
<1>4. ASSUME NEW r \in Replicas, NEW label, Goto(r, label), UNCHANGED cfg,
             pc[r] # "off" \/ Validate(cfg), UNCHANGED <<bucket, req, now>>
      PROVE  Kept /\ Kind
  BY <1>2, <1>4, GotoStep, Zenon DEF Kept
<1>5. ASSUME NEW r \in Replicas, Start(r) \/ Signal(r)
      PROVE  Kept /\ Kind
  <2>1. UNCHANGED <<cfg, bucket, req, now>>
    BY <1>5, Zenon DEF Start, Signal
  <2>2. \/ UNCHANGED pc
        \/ Validate(cfg) /\ Goto(r, "connect")
    BY <1>5, Zenon DEF Start, Signal
  <2> QED
    BY <1>1, <1>2, <1>4, <2>1, <2>2, Zenon
<1>6. ASSUME NEW r \in Replicas, connectPostgres(r)
      PROVE  Kept /\ Kind
  <2>1. CASE Exit(r)
    BY <1>3, <2>1, Zenon
  <2>2. CASE Goto(r, "migrate") /\ UNCHANGED <<cfg, bucket, req, now>>
    <3>1. pc[r] # "off"
      BY <1>6, Zenon DEF connectPostgres
    <3> QED
      BY <1>4, <2>2, <3>1, Zenon
  <2>3. CASE UNCHANGED <<cfg, pc, bucket, req, now>>
    BY <1>1, <1>2, <2>3, Zenon
  <2> QED
    BY <1>6, <2>1, <2>2, <2>3, Zenon DEF connectPostgres
<1>7. ASSUME NEW r \in Replicas, Migrate(r)
      PROVE  Kept /\ Kind
  <2>1. UNCHANGED <<cfg, bucket, req, now>> /\ pc[r] # "off"
    BY <1>7, Zenon DEF Migrate
  <2>2. Goto(r, "migrating") \/ UNCHANGED pc \/ Goto(r, "policy")
    BY <1>7, Zenon DEF Migrate
  <2> QED
    BY <1>1, <1>2, <1>4, <2>1, <2>2, Zenon
<1>8. ASSUME NEW r \in Replicas, MigrateFails(r) \/ Dies(r)
      PROVE  Kept /\ Kind
  BY <1>3, <1>8, Zenon DEF MigrateFails, Dies
<1>9. ASSUME NEW r \in Replicas, Serve(r)
      PROVE  Kept /\ Kind
  <2>1. CASE Exit(r)
    BY <1>3, <2>1, Zenon
  <2>2. CASE Goto(r, "serving") /\ UNCHANGED <<cfg, bucket, req, now>>
    <3>1. pc[r] # "off"
      BY <1>9, Zenon DEF Serve
    <3> QED
      BY <1>4, <2>2, <3>1, Zenon
  <2> QED
    BY <1>9, <2>1, <2>2, Zenon DEF Serve
<1>10. ASSUME NEW r \in Replicas, Drain(r) \/ CloseListener(r)
       PROVE  Kept /\ Kind
  <2>1. UNCHANGED <<cfg, bucket, req, now>> /\ pc[r] # "off"
    BY <1>10, Zenon DEF Drain, CloseListener
  <2>2. Goto(r, "draining") \/ Goto(r, "shutdown")
    BY <1>10, Zenon DEF Drain, CloseListener
  <2> QED
    BY <1>4, <2>1, <2>2, Zenon
<1>11. ASSUME NEW r \in Replicas, Shutdown(r)
       PROVE  Kept /\ Kind
  BY <1>3, <1>11, Zenon DEF Shutdown
<1>12. ASSUME NEW q \in Requests, NEW r \in Replicas, Arrive(q, r)
       PROVE  Kept /\ Kind
  <2>1. UNCHANGED <<cfg, pc, now>>
    BY <1>12, Zenon DEF Arrive, mainVars
  <2> QED
    BY <1>1, <1>12, <2>1, Zenon DEF Kind
<1>13. ASSUME NEW q \in Requests, Finish(q)
       PROVE  Kept /\ Kind
  <2>1. UNCHANGED <<cfg, pc, now, bucket>>
    BY <1>13, Zenon DEF Finish, mainVars
  <2> QED
    BY <1>1, <1>13, <2>1, Zenon DEF Kind
<1>14. CASE Tick
  <2>1. UNCHANGED <<cfg, pc, bucket, req>> /\ now' = now + 1
    BY <1>14, Zenon DEF Tick, mainVars
  <2> QED
    BY <1>1, <2>1, Zenon DEF Kind, Quiet
<1>15. CASE PostgresEnds \/ UNCHANGED vars
  <2>1. UNCHANGED <<cfg, pc, bucket, req, now>>
    BY <1>15, Zenon DEF PostgresEnds, vars, mainVars
  <2> QED
    BY <1>1, <1>2, <2>1, Zenon
<1> QED
  BY <1>5, <1>6, <1>7, <1>8, <1>9, <1>10, <1>11, <1>12, <1>13, <1>14, <1>15, Zenon
     DEF Next, Main

-----------------------------------------------------------------------------
(* The separation of duties *)

\* What is so of one request.
Proper(x) ==
    /\ x.state = "idle" => ~x.spent /\ x.on = Nobody
    /\ Rightful(x, cfg)

\* A step of one request.
LEMMA ProperChange ==
  ASSUME RequestInv, UNCHANGED cfg, NEW q \in Requests, Changes(q),
         req'[q].state \in {"running", "answered", "refused"}
  PROVE  \A p \in Requests : Proper(req'[p])
<1> SUFFICES ASSUME NEW p \in Requests PROVE Proper(req'[p])
  BY Zenon
<1>1. CASE p = q
  BY <1>1, Zenon DEF Proper, Changes
<1>2. CASE p # q
  BY <1>2, Zenon DEF Proper, Changes, RequestInv
<1> QED
  BY <1>1, <1>2, Zenon

\* The end of a process.
LEMMA ProperLeaving ==
  ASSUME TypeOK, RequestInv, NEW r \in Replicas, Exit(r)
  PROVE  \A q \in Requests : Proper(req'[q])
<1> SUFFICES ASSUME NEW q \in Requests PROVE Proper(req'[q])
  BY Zenon
<1>1. Proper(req[q])
  BY Zenon DEF RequestInv, Proper
<1>2. Leaves(q, r) /\ UNCHANGED cfg
  BY ExitStep, Zenon
<1> QED
  BY <1>1, <1>2, Zenon DEF Leaves, Proper

\* Every step keeps what is so of the requests.
LEMMA RequestStep ==
  ASSUME TypeOK, RequestInv, [Next]_vars
  PROVE  TypeOK' /\ RequestInv'
<1>0. UNCHANGED cfg /\ DOMAIN pc' = Replicas /\ Past /\ now \in Nat
      /\ req \in [Requests -> Request(cfg)]
  BY Kinds, Zenon DEF TypeOK
<1>1. \A r \in Replicas : pc'[r] # "off" => Validate(cfg)
  BY <1>0, Zenon DEF Past, RequestInv
<1> SUFFICES /\ now' \in Nat /\ req' \in [Requests -> Request(cfg)]
             /\ \A q \in Requests : Proper(req'[q])
  BY <1>0, <1>1, Zenon DEF TypeOK, RequestInv, Proper
<1>2. CASE Quiet
  BY <1>0, <1>2 DEF Quiet, Proper, RequestInv
<1>3. ASSUME NEW r \in Replicas, UNCHANGED now, Exit(r)
      PROVE  /\ now' \in Nat /\ req' \in [Requests -> Request(cfg)]
             /\ \A q \in Requests : Proper(req'[q])
  <2>1. req' \in [Requests -> Request(cfg)]
    BY <1>3, ExitStep, Zenon
  <2> QED
    BY <1>0, <1>3, <2>1, ProperLeaving, Zenon
<1>4. ASSUME NEW q \in Requests, NEW r \in Replicas, UNCHANGED now, Arrive(q, r)
      PROVE  /\ now' \in Nat /\ req' \in [Requests -> Request(cfg)]
             /\ \A p \in Requests : Proper(req'[p])
  <2>1. Validate(cfg)
    BY <1>4, Zenon DEF Arrive, Listening, RequestInv
  <2>2. Uncounted(q) \/ Granted(q, r) \/ Limited(q, r)
    BY <1>4, <2>1, AgentStep, OthersStep, Zenon DEF Arrive
  <2>3. Changes(q) /\ req'[q].state \in {"running", "answered", "refused"}
    BY <2>2, Zenon DEF Uncounted, Granted, Limited
  <2> QED
    BY <1>0, <1>4, <2>3, ProperChange, Zenon DEF Changes
<1>5. ASSUME NEW q \in Requests, UNCHANGED <<now, bucket>>, Finish(q)
      PROVE  /\ now' \in Nat /\ req' \in [Requests -> Request(cfg)]
             /\ \A p \in Requests : Proper(req'[p])
  <2>1. Rightful(req[q], cfg)
    BY Zenon DEF RequestInv
  <2>2. Changes(q) /\ req'[q].state = "answered"
    BY <1>5, <2>1, FinishStep, Zenon
  <2> QED
    BY <1>0, <1>5, <2>2, ProperChange, Zenon DEF Changes
<1> QED
  BY <1>2, <1>3, <1>4, <1>5, Kinds, Zenon

\* The invariant of the requests.
THEOREM RequestInvariance == Spec => [](TypeOK /\ RequestInv)
<1>1. Init => TypeOK /\ RequestInv
  <2> SUFFICES ASSUME Init PROVE TypeOK /\ RequestInv
    BY Zenon
  <2> DEFINE x == NoRequest
  <2>1. /\ x \in Request(cfg) /\ x.state = "idle" /\ ~x.spent /\ x.on = Nobody
        /\ x.status = 0
    BY Zenon DEF NoRequest, Request, States, Routes, IDs
  <2>2. req = [q \in Requests |-> x]
    BY Zenon DEF Init
  <2> HIDE DEF x
  <2>3. req \in [Requests -> Request(cfg)] /\ \A q \in Requests : req[q] = x
    BY <2>1, <2>2, Zenon
  <2>4. Proper(x)
    BY <2>1 DEF Proper, Rightful
  <2> QED
    BY <2>3, <2>4, Zenon DEF Init, TypeOK, RequestInv, Proper
<1>2. (TypeOK /\ RequestInv) /\ [Next]_vars => (TypeOK /\ RequestInv)'
  BY RequestStep, Zenon
<1> QED
  BY <1>1, <1>2, PTL DEF Spec

\* With every configuration that Validate accepts, no key of a reviewer or admin has
\* the identity of an agent's key, and no agent's address decides in Slack but one
\* that is listed with space around it.
THEOREM DutiesTheorem == Spec => []DutiesAreSeparate
<1>1. TypeOK /\ RequestInv => DutiesAreSeparate
  <2> SUFFICES ASSUME RequestInv, NEW p \in Requests, NEW q \in Requests,
                      req[p].route = "agent", req[p].status = 200, req[q].status = 200
               PROVE  /\ req[q].route = "human" => req[p].id # req[q].id
                      /\ req[q].route = "slack" =>
                           ToLower(req[p].id) # req[q].id \/ Padded(req[q].id)
    BY DEF DutiesAreSeparate
  <2>1. Entitled("agent", req[p].id, cfg) /\ Entitled(req[q].route, req[q].id, cfg)
    BY DEF RequestInv, Rightful
  <2>2. req[p].id \in Values(cfg.APIKeys) /\ Validate(cfg)
    BY <2>1, Zenon DEF Entitled
  <2>3. CASE req[q].route = "human"
    BY <2>1, <2>2, <2>3, Zenon DEF Entitled, Validate
  <2>4. CASE req[q].route = "slack"
    <3>1. PICK m \in cfg.slack : req[q].id = ToLower(TrimSpace(m))
      BY <2>1, <2>4, Zenon DEF Entitled
    <3>2. ToLower(m) # ToLower(req[p].id)
      BY <2>2 DEF Validate, validateSlack
    <3>3. CASE TrimSpace(m) = m
      <4>1. req[q].id = ToLower(m)
        BY <3>1, <3>3, Zenon
      <4> QED
        BY <2>4, <3>2, <4>1, Zenon
    <3>4. CASE TrimSpace(m) # m
      BY <2>4, <3>1, <3>4, Zenon DEF Padded
    <3> QED
      BY <3>3, <3>4, Zenon
  <2> QED
    BY <2>3, <2>4, Zenon
<1> QED
  BY <1>1, RequestInvariance, PTL

-----------------------------------------------------------------------------
(* The rollout *)

AllNames == UNION {Embedded[r] : r \in Replicas}

\* main is past db.Migrate.
Migrated(label) == label \in {"policy", "serving", "draining", "shutdown"}

\* The holder of the lock is the one that applies migrations; what others have in
\* their transactions is nothing.
LockInv ==
    /\ DOMAIN pc = Replicas
    /\ applied \in Seq(AllNames)
    /\ tx \in [Replicas -> Seq(AllNames)]
    /\ \A r \in Replicas :
         /\ pc[r] = "migrating" => lock = r
         /\ pc[r] # "migrating" => tx[r] = <<>>
         /\ Names(tx[r]) \subseteq Embedded[r] \ Names(applied)

\* The table has the migrations of whole binaries, and those of whoever is past
\* db.Migrate.
WholeInv ==
    /\ \E S \in SUBSET Replicas : Names(applied) = UNION {Embedded[r] : r \in S}
    /\ \A r \in Replicas : Migrated(pc[r]) => Embedded[r] \subseteq Names(applied)

Increasing(seq) ==
    \A i, j \in DOMAIN seq : i < j => migrationNumber(seq[i]) < migrationNumber(seq[j])

\* A transaction goes on where it is.
OrderInv ==
    /\ Increasing(applied)
    /\ \A r \in Replicas :
         /\ Increasing(tx[r])
         /\ \A m \in Names(tx[r]), n \in Pending(r) :
              migrationNumber(m) < migrationNumber(n)

\* The names in a sequence to which one is appended.
LEMMA NamesAppend ==
  ASSUME NEW S, NEW seq \in Seq(S), NEW n \in S
  PROVE  /\ Append(seq, n) \in Seq(S)
         /\ Names(Append(seq, n)) = Names(seq) \cup {n}
<1>1. /\ Append(seq, n) \in Seq(S) /\ Len(Append(seq, n)) = Len(seq) + 1
      /\ \A i \in 1 .. Len(seq) : Append(seq, n)[i] = seq[i]
      /\ Append(seq, n)[Len(seq) + 1] = n
      /\ DOMAIN seq = 1 .. Len(seq) /\ DOMAIN Append(seq, n) = 1 .. Len(seq) + 1
      /\ Len(seq) \in Nat
  OBVIOUS
<1> QED
  BY <1>1 DEF Names

\* The names in two sequences.
LEMMA NamesConcat ==
  ASSUME NEW S, NEW s \in Seq(S), NEW t \in Seq(S)
  PROVE  s \o t \in Seq(S) /\ Names(s \o t) = Names(s) \cup Names(t)
<1> DEFINE u == s \o t
<1>1. /\ u \in Seq(S) /\ Len(u) = Len(s) + Len(t)
      /\ \A i \in 1 .. Len(s) : u[i] = s[i]
      /\ \A i \in 1 .. Len(t) : u[Len(s) + i] = t[i]
      /\ \A i \in 1 .. Len(u) : IF i <= Len(s) THEN u[i] = s[i] ELSE u[i] = t[i - Len(s)]
      /\ Len(s) \in Nat /\ Len(t) \in Nat
  OBVIOUS
<1>2. /\ DOMAIN s = 1 .. Len(s) /\ DOMAIN t = 1 .. Len(t) /\ DOMAIN u = 1 .. Len(u)
  BY <1>1
<1> HIDE DEF u
<1>3. ASSUME NEW i \in DOMAIN u PROVE u[i] \in Names(s) \cup Names(t)
  <2>1. CASE i <= Len(s)
    BY <1>1, <1>2, <1>3, <2>1 DEF Names
  <2>2. CASE ~(i <= Len(s))
    <3>1. i - Len(s) \in DOMAIN t /\ u[i] = t[i - Len(s)]
      BY <1>1, <1>2, <1>3, <2>2
    <3> QED
      BY <3>1, Zenon DEF Names
  <2> QED
    BY <2>1, <2>2, Zenon
<1>4. ASSUME NEW i \in DOMAIN s PROVE s[i] \in Names(u)
  BY <1>1, <1>2, <1>4 DEF Names
<1>5. ASSUME NEW i \in DOMAIN t PROVE t[i] \in Names(u)
  <2>1. Len(s) + i \in DOMAIN u /\ u[Len(s) + i] = t[i]
    BY <1>1, <1>2, <1>5
  <2> QED
    BY <2>1, Zenon DEF Names
<1>6. Names(u) = Names(s) \cup Names(t)
  BY <1>3, <1>4, <1>5, Zenon DEF Names
<1> QED
  BY <1>1, <1>6, Zenon DEF u

\* A sequence of numbers goes on with a larger one.
LEMMA IncreasingAppend ==
  ASSUME NEW S, NEW seq \in Seq(S), NEW n \in S, Increasing(seq),
         \A m \in Names(seq) : migrationNumber(m) < migrationNumber(n)
  PROVE  Increasing(Append(seq, n))
<1> DEFINE u == Append(seq, n)
<1>1. /\ \A i \in 1 .. Len(seq) : u[i] = seq[i]
      /\ u[Len(seq) + 1] = n /\ Len(seq) \in Nat
      /\ DOMAIN seq = 1 .. Len(seq) /\ DOMAIN u = 1 .. Len(seq) + 1
  OBVIOUS
<1> HIDE DEF u
<1> SUFFICES ASSUME NEW i \in DOMAIN u, NEW j \in DOMAIN u, i < j
             PROVE  migrationNumber(u[i]) < migrationNumber(u[j])
  BY Zenon DEF Increasing, u
<1>2. i \in DOMAIN seq /\ u[i] = seq[i]
  BY <1>1
<1>3. CASE j \in DOMAIN seq
  <2>1. u[j] = seq[j]
    BY <1>1, <1>3, Zenon
  <2> QED
    BY <1>2, <1>3, <2>1, Zenon DEF Increasing
<1>4. CASE j \notin DOMAIN seq
  <2>1. u[j] = n
    BY <1>1, <1>4, SMTT(30)
  <2> QED
    BY <1>2, <2>1, Zenon DEF Names
<1> QED
  BY <1>3, <1>4, Zenon

\* A sequence of numbers goes on with a sequence of larger ones.
LEMMA IncreasingConcat ==
  ASSUME NEW S, NEW s \in Seq(S), NEW t \in Seq(S), Increasing(s), Increasing(t),
         \A m \in Names(s), n \in Names(t) : migrationNumber(m) < migrationNumber(n)
  PROVE  Increasing(s \o t)
<1> DEFINE u == s \o t
           k == Len(s)
<1>1. /\ \A i \in 1 .. Len(u) : IF i <= k THEN u[i] = s[i] ELSE u[i] = t[i - k]
      /\ k \in Nat /\ Len(t) \in Nat /\ Len(u) = k + Len(t) /\ u \in Seq(S)
  OBVIOUS
<1>2. /\ DOMAIN s = 1 .. k /\ DOMAIN t = 1 .. Len(t) /\ DOMAIN u = 1 .. Len(u)
  BY <1>1
<1> HIDE DEF u, k
<1> SUFFICES ASSUME NEW i \in DOMAIN u, NEW j \in DOMAIN u, i < j
             PROVE  migrationNumber(u[i]) < migrationNumber(u[j])
  BY Zenon DEF Increasing, u
<1>3. CASE j <= k
  <2>1. i \in DOMAIN s /\ j \in DOMAIN s /\ u[i] = s[i] /\ u[j] = s[j]
    BY <1>1, <1>2, <1>3
  <2> QED
    BY <2>1, Zenon DEF Increasing
<1>4. CASE i <= k /\ ~(j <= k)
  <2>1. i \in DOMAIN s /\ j - k \in DOMAIN t /\ u[i] = s[i] /\ u[j] = t[j - k]
    BY <1>1, <1>2, <1>4
  <2> QED
    BY <2>1, Zenon DEF Names
<1>5. CASE ~(i <= k)
  <2>1. /\ i - k \in DOMAIN t /\ j - k \in DOMAIN t /\ i - k < j - k
        /\ u[i] = t[i - k] /\ u[j] = t[j - k]
    BY <1>1, <1>2, <1>5
  <2> QED
    BY <2>1, Zenon DEF Increasing
<1> QED
  BY <1>1, <1>2, <1>3, <1>4, <1>5, Zenon

\* Steps that leave the migrations alone.
Still ==
    /\ UNCHANGED migrationVars
    /\ DOMAIN pc' = Replicas
    /\ \A r \in Replicas : /\ pc'[r] = "migrating" <=> pc[r] = "migrating"
                           /\ Migrated(pc'[r]) => Migrated(pc[r])

\* The steps of a replica's transaction.
Transaction(r) ==
    \/ Lock(r) /\ Goto(r, "migrating")
    \/ pc[r] = "migrating" /\ Apply(r) /\ UNCHANGED pc
    \/ pc[r] = "migrating" /\ Commit(r) /\ (Goto(r, "policy") \/ Goto(r, "off"))
    \/ (Rollback(r) \/ Orphan(r)) /\ Goto(r, "off")

\* A label of main that has nothing to do with its transaction.
LEMMA StillGoto ==
  ASSUME DOMAIN pc = Replicas, NEW r \in Replicas, NEW label, Goto(r, label),
         UNCHANGED migrationVars, pc[r] # "migrating", label # "migrating",
         Migrated(label) => Migrated(pc[r])
  PROVE  Still
<1>1. /\ DOMAIN pc' = Replicas /\ pc'[r] = label
      /\ \A s \in Replicas \ {r} : pc'[s] = pc[s]
  BY Zenon DEF Goto
<1> QED
  BY <1>1, Zenon DEF Still

\* What a step does to the migrations.
LEMMA RolloutKinds ==
  ASSUME DOMAIN pc = Replicas, [Next]_vars
  PROVE  \/ Still
         \/ \E r \in Replicas : Transaction(r)
         \/ SessionEnds /\ UNCHANGED pc
<1>1. ASSUME UNCHANGED pc, UNCHANGED migrationVars
      PROVE  Still
  BY <1>1, Zenon DEF Still
<1>2. ASSUME NEW r \in Replicas, Start(r)
      PROVE  Still
  <2>1. UNCHANGED pc \/ (pc[r] = "off" /\ Goto(r, "connect"))
    BY <1>2, Zenon DEF Start
  <2>2. UNCHANGED migrationVars
    BY <1>2, Zenon DEF Start
  <2> QED
    BY <1>1, <2>1, <2>2, StillGoto, Zenon DEF Migrated
<1>3. ASSUME NEW r \in Replicas, Signal(r)
      PROVE  Still
  BY <1>1, <1>3, Zenon DEF Signal
<1>4. ASSUME NEW r \in Replicas, connectPostgres(r)
      PROVE  Still
  <2>1. /\ UNCHANGED migrationVars /\ pc[r] = "connect"
        /\ Goto(r, "migrate") \/ UNCHANGED pc \/ Goto(r, "off")
    BY <1>4, ZenonT(30) DEF connectPostgres, Exit
  <2> QED
    BY <1>1, <2>1, StillGoto, Zenon DEF Migrated
<1>5. ASSUME NEW r \in Replicas, Migrate(r)
      PROVE  Transaction(r)
  BY <1>5, Zenon DEF Migrate, Transaction
<1>6. ASSUME NEW r \in Replicas, MigrateFails(r) \/ Dies(r)
      PROVE  Transaction(r)
  BY <1>6, Zenon DEF MigrateFails, Dies, Transaction, Exit
<1>7. ASSUME NEW r \in Replicas, Serve(r) \/ Drain(r) \/ CloseListener(r) \/ Shutdown(r)
      PROVE  Still
  <2>1. /\ UNCHANGED migrationVars /\ Migrated(pc[r]) /\ pc[r] # "migrating"
        /\ Goto(r, "serving") \/ Goto(r, "draining") \/ Goto(r, "shutdown") \/ Goto(r, "off")
    BY <1>7, Zenon DEF Serve, Drain, CloseListener, Shutdown, Exit, Migrated
  <2> QED
    BY <2>1, StillGoto, Zenon
<1>8. ASSUME NEW q \in Requests, Finish(q) \/ \E r \in Replicas : Arrive(q, r)
      PROVE  Still
  BY <1>1, <1>8, Zenon DEF Finish, Arrive, mainVars
<1>9. CASE Tick \/ UNCHANGED vars
  BY <1>1, <1>9, Zenon DEF Tick, mainVars, vars
<1>10. CASE PostgresEnds
  BY <1>10, Zenon DEF PostgresEnds, mainVars
<1> QED
  BY <1>2, <1>3, <1>4, <1>5, <1>6, <1>7, <1>8, <1>9, <1>10, Zenon DEF Next, Main

\* A transaction that ends empty-handed, and one that has only begun.
LEMMA LockStep ==
  ASSUME LockInv, [Next]_vars
  PROVE  LockInv'
<1>0. /\ DOMAIN pc = Replicas /\ applied \in Seq(AllNames)
      /\ tx \in [Replicas -> Seq(AllNames)]
      /\ Nobody \notin Replicas /\ Dead \notin Replicas
  BY ServerAssumption, Zenon DEF LockInv
<1>1. CASE Still
  BY <1>1, Zenon DEF Still, LockInv, migrationVars
<1>2. CASE SessionEnds /\ UNCHANGED pc
  <2>1. \A r \in Replicas : pc[r] # "migrating"
    BY <1>0, <1>2, Zenon DEF SessionEnds, LockInv
  <2> QED
    BY <1>2, <2>1, Zenon DEF SessionEnds, LockInv
<1>3. ASSUME NEW r \in Replicas, Transaction(r)
      PROVE  LockInv'
  <2>1. CASE Lock(r) /\ Goto(r, "migrating")
    <3>1. /\ lock = Nobody /\ lock' = r /\ UNCHANGED <<applied, tx>>
          /\ pc'[r] = "migrating" /\ DOMAIN pc' = Replicas
          /\ \A s \in Replicas \ {r} : pc'[s] = pc[s]
      BY <1>0, <2>1, Zenon DEF Lock, Goto
    <3>2. \A s \in Replicas : pc[s] # "migrating"
      BY <1>0, <3>1, Zenon DEF LockInv
    <3> QED
      BY <3>1, <3>2, Zenon DEF LockInv
  <2>2. CASE pc[r] = "migrating" /\ Apply(r) /\ UNCHANGED pc
    <3>1. PICK n \in Pending(r) : tx' = [tx EXCEPT ![r] = Append(tx[r], n)]
      BY <2>2, Zenon DEF Apply
    <3>2. n \in Embedded[r] \ Names(applied) /\ n \in AllNames /\ tx[r] \in Seq(AllNames)
      BY <1>0, <3>1, Zenon DEF Pending, AllNames
    <3>3. /\ Append(tx[r], n) \in Seq(AllNames)
          /\ Names(Append(tx[r], n)) = Names(tx[r]) \cup {n}
      BY <3>2, NamesAppend
    <3>4. /\ tx' \in [Replicas -> Seq(AllNames)] /\ tx'[r] = Append(tx[r], n)
          /\ \A s \in Replicas \ {r} : tx'[s] = tx[s]
      BY <1>0, <3>1, <3>3, Zenon
    <3>5. UNCHANGED <<lock, applied, pc>>
      BY <2>2, Zenon DEF Apply
    <3> QED
      BY <2>2, <3>2, <3>3, <3>4, <3>5, Zenon DEF LockInv
  <2>3. ASSUME NEW label, label # "migrating", Goto(r, label),
               lock' \in {Nobody, Dead, lock}, lock # r => lock' = lock,
               tx' = [tx EXCEPT ![r] = <<>>], applied' \in Seq(AllNames),
               \A s \in Replicas \ {r} : Names(tx[s]) \cap Names(applied') = {}
        PROVE  LockInv'
    <3>1. /\ pc'[r] = label /\ DOMAIN pc' = Replicas
          /\ \A s \in Replicas \ {r} : pc'[s] = pc[s]
      BY <1>0, <2>3, Zenon DEF Goto
    <3>2. /\ tx' \in [Replicas -> Seq(AllNames)] /\ tx'[r] = <<>>
          /\ \A s \in Replicas \ {r} : tx'[s] = tx[s]
      BY <1>0, <2>3
    <3>3. Names(<<>>) = {}
      BY SMTT(30) DEF Names
    <3>4. ASSUME NEW s \in Replicas \ {r}
          PROVE  /\ pc'[s] = "migrating" => lock' = s
                 /\ pc'[s] # "migrating" => tx'[s] = <<>>
                 /\ Names(tx'[s]) \subseteq Embedded[s] \ Names(applied')
      BY <2>3, <3>1, <3>2, <3>4, ZenonT(30) DEF LockInv
    <3> QED
      BY <2>3, <3>1, <3>2, <3>3, <3>4, Zenon DEF LockInv
  <2>4. CASE pc[r] = "migrating" /\ Commit(r) /\ (Goto(r, "policy") \/ Goto(r, "off"))
    <3>1. /\ applied' = applied \o tx[r] /\ tx' = [tx EXCEPT ![r] = <<>>]
          /\ lock' \in {Nobody, lock} /\ (lock # r => lock' = lock)
      BY <2>4, Zenon DEF Commit, Release
    <3>2. applied' \in Seq(AllNames)
      BY <1>0, <3>1, NamesConcat, Zenon
    <3>3. ASSUME NEW s \in Replicas \ {r}
          PROVE  Names(tx[s]) = {}
      BY <2>4, <3>3 DEF LockInv, Names
    <3> QED
      BY <2>3, <2>4, <3>1, <3>2, <3>3, Zenon
  <2>5. CASE (Rollback(r) \/ Orphan(r)) /\ Goto(r, "off")
    <3>1. /\ applied' = applied /\ tx' = [tx EXCEPT ![r] = <<>>]
          /\ lock' \in {Nobody, Dead, lock} /\ (lock # r => lock' = lock)
      BY <2>5, Zenon DEF Rollback, Release, Orphan
    <3>2. \A s \in Replicas \ {r} : Names(tx[s]) \cap Names(applied') = {}
      BY <3>1, Zenon DEF LockInv
    <3> QED
      BY <1>0, <2>3, <2>5, <3>1, <3>2, Zenon
  <2> QED
    BY <1>3, <2>1, <2>2, <2>4, <2>5, Zenon DEF Transaction
<1> QED
  BY <1>0, <1>1, <1>2, <1>3, RolloutKinds, Zenon

\* The table grows by the rest of a binary, or not at all.
LEMMA WholeStep ==
  ASSUME LockInv, WholeInv, [Next]_vars
  PROVE  WholeInv'
<1>0. /\ DOMAIN pc = Replicas /\ applied \in Seq(AllNames)
      /\ tx \in [Replicas -> Seq(AllNames)]
  BY Zenon DEF LockInv
<1>1. CASE Still
  BY <1>1, Zenon DEF Still, WholeInv, migrationVars
<1>2. CASE SessionEnds /\ UNCHANGED pc
  BY <1>2, Zenon DEF SessionEnds, WholeInv
<1>3. ASSUME NEW r \in Replicas, Transaction(r)
      PROVE  WholeInv'
  <2>1. ASSUME UNCHANGED applied,
               \/ Goto(r, "migrating") \/ Goto(r, "off") \/ UNCHANGED pc
        PROVE  WholeInv'
    <3>1. \A s \in Replicas : Migrated(pc'[s]) => Migrated(pc[s])
      BY <1>0, <2>1, Zenon DEF Goto, Migrated
    <3> QED
      BY <2>1, <3>1, Zenon DEF WholeInv
  <2>2. CASE pc[r] = "migrating" /\ Commit(r) /\ (Goto(r, "policy") \/ Goto(r, "off"))
    <3>1. \A s \in Replicas \ {r} : pc'[s] = pc[s]
      BY <1>0, <2>2, Zenon DEF Goto
    <3>2. Names(applied') = Names(applied) \cup Names(tx[r])
      BY <1>0, <2>2, NamesConcat DEF Commit
    <3>3. Names(applied') = Names(applied) \cup Embedded[r]
      BY <2>2, <3>2, Zenon DEF Commit, Pending, LockInv
    <3>4. PICK S \in SUBSET Replicas : Names(applied) = UNION {Embedded[s] : s \in S}
      BY Zenon DEF WholeInv
    <3>5. Names(applied') = UNION {Embedded[s] : s \in S \cup {r}}
      BY <3>3, <3>4, Zenon
    <3>6. \A s \in Replicas : Migrated(pc'[s]) => Embedded[s] \subseteq Names(applied')
      BY <3>1, <3>3, Zenon DEF WholeInv
    <3>7. S \cup {r} \in SUBSET Replicas
      BY <3>4, Zenon
    <3> QED
      BY <3>5, <3>6, <3>7, Zenon DEF WholeInv
  <2> QED
    BY <1>3, <2>1, <2>2, Zenon DEF Transaction, Lock, Apply, Rollback, Orphan
<1> QED
  BY <1>0, <1>1, <1>2, <1>3, RolloutKinds, Zenon

\* Versions of the program extend one another: no number is given twice, and what a
\* version adds is numbered after what it had.
VersionsExtend ==
    \A r, s \in Replicas :
        /\ \A m, n \in Embedded[r] : m # n => migrationNumber(m) # migrationNumber(n)
        /\ \A m \in Embedded[r], n \in Embedded[s] \ Embedded[r] :
               migrationNumber(m) < migrationNumber(n)

\* The transactions keep to the order of the numbers.
LEMMA OrderStep ==
  ASSUME VersionsExtend, LockInv, WholeInv, OrderInv, [Next]_vars
  PROVE  OrderInv'
<1>0. /\ DOMAIN pc = Replicas /\ applied \in Seq(AllNames)
      /\ tx \in [Replicas -> Seq(AllNames)]
  BY Zenon DEF LockInv
<1>1. ASSUME UNCHANGED <<applied, tx>>
      PROVE  OrderInv'
  BY <1>1, Zenon DEF OrderInv, Pending
<1>2. Increasing(<<>>) /\ Names(<<>>) = {}
  BY DEF Increasing, Names
<1>3. ASSUME NEW r \in Replicas, Transaction(r)
      PROVE  OrderInv'
  <2>1. CASE pc[r] = "migrating" /\ Apply(r) /\ UNCHANGED pc
    <3>1. PICK n \in Pending(r) : /\ tx' = [tx EXCEPT ![r] = Append(tx[r], n)]
                                  /\ \A m \in Pending(r) \ {n} : Before(n, m)
      BY <2>1, Zenon DEF Apply
    <3>2. n \in AllNames /\ n \in Embedded[r] /\ tx[r] \in Seq(AllNames)
      BY <1>0, <3>1, Zenon DEF Pending, AllNames
    <3>3. Names(Append(tx[r], n)) = Names(tx[r]) \cup {n}
      BY <3>2, NamesAppend
    <3>4. Increasing(Append(tx[r], n))
      BY <3>1, <3>2, IncreasingAppend, Zenon DEF OrderInv
    <3>5. /\ tx'[r] = Append(tx[r], n) /\ applied' = applied
          /\ \A s \in Replicas \ {r} : tx'[s] = tx[s]
      BY <1>0, <2>1, <3>1, Zenon DEF Apply
    <3>6. Pending(r)' = Pending(r) \ {n}
      BY <3>3, <3>5, Zenon DEF Pending
    <3>7. ASSUME NEW m \in Pending(r) \ {n}
          PROVE  migrationNumber(n) < migrationNumber(m)
      <4>1. Before(n, m) /\ m \in Embedded[r] /\ m # n
        BY <3>1, <3>7, Zenon DEF Pending
      <4> QED
        BY <3>2, <4>1, Zenon DEF Before, VersionsExtend
    <3>8. ASSUME NEW k \in Names(tx'[r]), NEW m \in Pending(r)'
          PROVE  migrationNumber(k) < migrationNumber(m)
      BY <3>3, <3>5, <3>6, <3>7, <3>8, Zenon DEF OrderInv
    <3>9. ASSUME NEW s \in Replicas \ {r}
          PROVE  /\ Increasing(tx'[s])
                 /\ \A k \in Names(tx'[s]), m \in Pending(s)' :
                        migrationNumber(k) < migrationNumber(m)
      BY <3>5, <3>9, Zenon DEF OrderInv, Pending
    <3> QED
      BY <3>4, <3>5, <3>8, <3>9, Zenon DEF OrderInv
  <2>2. ASSUME Increasing(applied'), tx' = [tx EXCEPT ![r] = <<>>],
               \A s \in Replicas \ {r} : tx[s] = <<>> \/ UNCHANGED applied
        PROVE  OrderInv'
    <3>1. tx'[r] = <<>> /\ \A s \in Replicas \ {r} : tx'[s] = tx[s]
      BY <1>0, <2>2, Zenon
    <3>2. ASSUME NEW s \in Replicas
          PROVE  /\ Increasing(tx'[s])
                 /\ \A k \in Names(tx'[s]), m \in Pending(s)' :
                        migrationNumber(k) < migrationNumber(m)
      <4>1. CASE tx'[s] = <<>>
        BY <1>2, <4>1, Zenon
      <4>2. CASE s # r /\ UNCHANGED applied
        BY <3>1, <4>2, Zenon DEF OrderInv, Pending
      <4> QED
        BY <2>2, <3>1, <4>1, <4>2, Zenon
    <3> QED
      BY <2>2, <3>2, Zenon DEF OrderInv
  <2>3. CASE pc[r] = "migrating" /\ Commit(r) /\ (Goto(r, "policy") \/ Goto(r, "off"))
    <3>1. \A s \in Replicas \ {r} : tx[s] = <<>>
      BY <2>3, Zenon DEF LockInv
    <3>2. ASSUME NEW m \in Names(applied), NEW n \in Names(tx[r])
          PROVE  migrationNumber(m) < migrationNumber(n)
      <4>1. PICK s \in Replicas : m \in Embedded[s] /\ Embedded[s] \subseteq Names(applied)
        BY <3>2 DEF WholeInv
      <4>2. n \in Embedded[r] \ Embedded[s]
        BY <3>2, <4>1, Zenon DEF LockInv
      <4> QED
        BY <4>1, <4>2, Zenon DEF VersionsExtend
    <3>3. Increasing(applied \o tx[r])
      BY <1>0, <3>2, IncreasingConcat, Zenon DEF OrderInv
    <3> QED
      BY <2>2, <2>3, <3>1, <3>3, Zenon DEF Commit, Release
  <2>4. CASE Rollback(r) \/ Orphan(r)
    BY <2>2, <2>4, Zenon DEF Rollback, Orphan, Release, OrderInv
  <2> QED
    BY <1>1, <1>3, <2>1, <2>3, <2>4, Zenon DEF Transaction, Lock
<1> QED
  BY <1>0, <1>1, <1>3, RolloutKinds, Zenon DEF Still, SessionEnds, migrationVars

\* Nothing is in the table before the first start.
LEMMA RolloutInit ==
  ASSUME Init
  PROVE  LockInv /\ WholeInv /\ OrderInv
<1>1. /\ applied = <<>> /\ tx = [r \in Replicas |-> <<>>]
      /\ pc = [r \in Replicas |-> "off"]
  BY Zenon DEF Init, MigrationsInit
<1>2. Increasing(<<>>) /\ Names(<<>>) = {} /\ <<>> \in Seq(AllNames)
  BY DEF Increasing, Names
<1>3. LockInv
  BY <1>1, <1>2, Zenon DEF LockInv
<1>4. WholeInv
  <2>1. Names(applied) = UNION {Embedded[r] : r \in {}}
    BY <1>1, <1>2, Zenon
  <2> QED
    BY <1>1, <2>1, Zenon DEF WholeInv, Migrated
<1>5. OrderInv
  BY <1>1, <1>2, Zenon DEF OrderInv
<1> QED
  BY <1>3, <1>4, <1>5, Zenon

\* For any number of replicas that start, fail and crash together, with any
\* binaries: the table has a binary's migrations all or none, and nobody serves
\* before its own are committed.
THEOREM WholeTheorem == Spec => []WholeInv
<1>1. Init => LockInv /\ WholeInv
  BY RolloutInit, Zenon
<1>2. (LockInv /\ WholeInv) /\ [Next]_vars => (LockInv /\ WholeInv)'
  BY LockStep, WholeStep, Zenon
<1> QED
  BY <1>1, <1>2, PTL DEF Spec

\* And when the versions extend one another, they are applied in the order of their
\* numbers.
THEOREM RolloutTheorem ==
  ASSUME VersionsExtend
  PROVE  Spec => []RolloutIsSafe
<1> DEFINE Inv == LockInv /\ WholeInv /\ OrderInv
<1>1. Init => Inv
  BY RolloutInit, Zenon
<1>2. Inv /\ [Next]_vars => Inv'
  BY LockStep, WholeStep, OrderStep, Zenon
<1>3. Inv => RolloutIsSafe
  BY Zenon DEF RolloutIsSafe, WholeInv, OrderInv, Increasing, Up, Migrated
<1> QED
  BY <1>1, <1>2, <1>3, PTL DEF Spec

-----------------------------------------------------------------------------
(* The limiter in the server *)

\* Every step keeps the accounts.
LEMMA RateStep ==
  ASSUME Counting, TypeOK, RequestInv, RateInv, [Next]_vars
  PROVE  RateInv'
<1>0. now \in Nat /\ UNCHANGED cfg
  BY Kinds, Zenon DEF TypeOK
<1>1. CASE Quiet
  <2>1. \A q \in Requests : Alike(req[q], req'[q])
    BY <1>1, Zenon DEF Quiet, Alike
  <2> QED
    BY <1>0, <1>1, <2>1, RateKept, Zenon DEF Quiet
<1>2. ASSUME NEW r \in Replicas, UNCHANGED now, Exit(r)
      PROVE  RateInv'
  BY <1>0, <1>2, ExitStep, RateLeaving, Zenon
<1>3. ASSUME NEW q \in Requests, NEW r \in Replicas, UNCHANGED now, Arrive(q, r)
      PROVE  RateInv'
  <2>1. Validate(cfg) /\ ~req[q].spent
    BY <1>3, Zenon DEF Arrive, Listening, RequestInv
  <2>2. now' \in {now, now + 1}
    BY <1>3, Zenon
  <2>3. CASE Granted(q, r)
    BY <1>0, <1>3, <2>1, <2>3, RateTakes, Zenon
  <2>4. ASSUME Changes(q), UNCHANGED bucket, ~req'[q].spent,
               Denied(req'[q]) => Refused(q)
        PROVE  RateInv'
    <3>1. \A p \in Requests \ {q} : Alike(req[p], req'[p])
      BY <2>4, Zenon DEF Changes, Alike
    <3> QED
      BY <1>0, <2>1, <2>2, <2>4, <3>1, RateKept, Zenon
  <2>5. CASE Uncounted(q)
    BY <2>4, <2>5, Zenon DEF Uncounted, Denied
  <2>6. CASE Limited(q, r)
    <3>1. Refused(q)
      BY <1>3, <2>6, Zenon DEF Limited, Refused
    <3> QED
      BY <2>4, <2>6, <3>1, Zenon DEF Limited
  <2> QED
    BY <1>3, <2>1, <2>3, <2>5, <2>6, AgentStep, OthersStep, ZenonT(30) DEF Arrive
<1>4. ASSUME NEW q \in Requests, UNCHANGED <<now, bucket>>, Finish(q)
      PROVE  RateInv'
  <2>1. Rightful(req[q], cfg)
    BY Zenon DEF RequestInv
  <2>2. Changes(q) /\ Alike(req[q], req'[q])
    BY <1>4, <2>1, FinishStep, Zenon DEF Alike
  <2>3. \A p \in Requests : Alike(req[p], req'[p])
    BY <2>2, Zenon DEF Changes, Alike
  <2> QED
    BY <1>0, <1>4, <2>3, RateKept, Zenon
<1> QED
  BY <1>1, <1>2, <1>3, <1>4, Kinds, Zenon

INSTANCE FiniteSetTheorems

\* The requests are finitely many.
LEMMA CountingHolds == Counting
<1>1. IsFiniteSet(Requests)
  BY ServerAssumption, Zenon
<1>2. Cardinality({}) = 0
  BY FS_EmptySet, Zenon
<1>3. ASSUME NEW S \in SUBSET Requests
      PROVE  IsFiniteSet(S) /\ Cardinality(S) \in Nat
  BY <1>1, FS_Subset, FS_CardinalityType, Zenon
<1>4. ASSUME NEW S \in SUBSET Requests, NEW q \in Requests \ S
      PROVE  Cardinality(S \cup {q}) = Cardinality(S) + 1
  BY <1>3, FS_AddElement, Zenon
<1> QED
  BY <1>2, <1>3, <1>4, Zenon DEF Counting

\* For any rate, fractions included, any burst, number of processes and of requests,
\* and however these arrive: no identity gets more than the burst and the rate grant
\* in any interval, and it is answered 429 only when one more token would exceed the
\* grant of an interval that ends then.
THEOREM RateTheorem == Spec => []RateIsExact
<1>1. Init => RateInv
  BY RateInit, CountingHolds, Zenon
<1>2. TypeOK /\ RequestInv /\ RateInv /\ [Next]_vars => RateInv'
  BY RateStep, CountingHolds, Zenon
<1>3. TypeOK /\ RequestInv /\ RateInv => RateIsExact
  BY RateIsExactNow, Zenon
<1> QED
  BY <1>1, <1>2, <1>3, RequestInvariance, PTL DEF Spec

=============================================================================
