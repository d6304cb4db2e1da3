---------------------------- MODULE IngressProofs ----------------------------
(***************************************************************************)
(* Proofs about Ingress, for any number of requests, any inputs, versions    *)
(* and faults.  The inductive invariant follows a request through ServeHTTP: *)
(* what its label says about the decision, the ledger, the quarantine, the    *)
(* upstream and the answer.                                                *)
(***************************************************************************)
EXTENDS Ingress, TLAPS

Labels == {"new", "append", "allow", "deny", "quarantine", "upstream",
           "store_failed", "done"}

Told == {None, "rejected", "audit unavailable", "upstream's",
         "upstream unavailable", "denied", "held", "error"}

Verdicts == {"allow", "deny", "quarantine", "quarantine_store_failed"}

Entry == [decision : Verdicts, version : Versions]

NotHeld == [stored |-> FALSE]

NotSent == [sent |-> FALSE]

TypeOK ==
    /\ pc \in [Requests -> Labels]
    /\ input \in [Requests -> Input]
    /\ decision \in [Requests -> Decision \cup {[action |-> None]}]
    /\ ledger \in [Requests -> Seq(Entry)]
    /\ DOMAIN held = Requests
    /\ DOMAIN sentUp = Requests
    /\ executed \in [Requests -> BOOLEAN]
    /\ answer \in [Requests -> Told]

\* What the quarantine and the upstream got is the request that was accepted.
Stored(r) ==
    /\ held[r].stored = TRUE
    /\ held[r].headers = CaptureReplayHeaders(input[r].headers)
    /\ held[r].body = input[r].body

Sent(r) ==
    /\ sentUp[r].sent = TRUE
    /\ sentUp[r].headers = StripAgentControlledHeaders(input[r].headers)
    /\ sentUp[r].body = input[r].body

\* The ledger's entries for r: none, the decision, or the decision and the report
\* that it could not be stored.
NoEntry(r) == ledger[r] = <<>>

Decided(r) ==
    /\ Len(ledger[r]) = 1
    /\ ledger[r][1] = [decision |-> decision[r].action,
                       version |-> decision[r].version]

Reported(r) ==
    /\ Len(ledger[r]) = 2
    /\ decision[r].action = "quarantine"
    /\ ledger[r][1] = [decision |-> "quarantine", version |-> decision[r].version]
    /\ ledger[r][2] = [decision |-> "quarantine_store_failed",
                       version |-> decision[r].version]

\* Whatever left the handler was accepted, decided so, and recorded before.
EffectsFollowEntries(r) ==
    /\ NoEntry(r) \/ Decided(r) \/ Reported(r)
    /\ held[r] = NotHeld \/ Stored(r)
    /\ sentUp[r] = NotSent \/ Sent(r)
    /\ held[r] # NotHeld => ~NoEntry(r) /\ decision[r].action = "quarantine"
    /\ sentUp[r] # NotSent => Decided(r) /\ decision[r].action = "allow"
    /\ executed[r] => sentUp[r] # NotSent
    /\ ~NoEntry(r) => decision[r] \in Decision
    /\ decision[r] \in Decision => ~Rejected(input[r])

\* Where a request is tells what has been done about it.
LabelsTellProgress(r) ==
    /\ pc[r] # "done" => answer[r] = None
    /\ pc[r] = "new" => NoEntry(r) /\ decision[r] \notin Decision
    /\ pc[r] = "append" => NoEntry(r) /\ decision[r] \in Decision
    /\ pc[r] \in {"allow", "deny", "quarantine"} =>
         Decided(r) /\ decision[r].action = pc[r]
    /\ pc[r] \in {"allow", "quarantine"} =>
         sentUp[r] = NotSent /\ held[r] = NotHeld
    /\ pc[r] = "upstream" => Decided(r) /\ decision[r].action = "allow"
    /\ pc[r] = "store_failed" =>
         Decided(r) /\ decision[r].action = "quarantine"

\* What each answer was given for.
AnswersTellOutcome(r) ==
    /\ answer[r] = "rejected" => decision[r] \notin Decision
    /\ answer[r] = "audit unavailable" =>
         sentUp[r] = NotSent /\ held[r] = NotHeld
    /\ answer[r] = "denied" => Decided(r) /\ decision[r].action = "deny"
    /\ answer[r] = "held" =>
         held[r] # NotHeld /\ decision[r].action = "quarantine"
    /\ answer[r] = "error" => decision[r].action = "quarantine"
    /\ answer[r] \in {"upstream's", "upstream unavailable"} =>
         decision[r].action = "allow"

Progress(r) ==
    EffectsFollowEntries(r) /\ LabelsTellProgress(r) /\ AnswersTellOutcome(r)

IInv == TypeOK /\ \A r \in Requests : Progress(r)

-----------------------------------------------------------------------------
\* A new entry for r comes after the ones it has (ledgerStore.Append).
LEMMA RecordsOne ==
  ASSUME TypeOK, NEW r \in Requests, decision[r] \in Decision,
         NEW d \in Verdicts, Records(r, d)
  PROVE  /\ ledger' \in [Requests -> Seq(Entry)]
         /\ \A q \in Requests \ {r} : ledger'[q] = ledger[q]
         /\ Len(ledger'[r]) = Len(ledger[r]) + 1
         /\ \A i \in 1 .. Len(ledger[r]) : ledger'[r][i] = ledger[r][i]
         /\ ledger'[r][Len(ledger[r]) + 1] =
              [decision |-> d, version |-> decision[r].version]
<1> DEFINE e == [decision |-> d, version |-> decision[r].version]
<1>1. e \in Entry
  BY Zenon DEF Decision, Entry
<1>2. ledger \in [Requests -> Seq(Entry)] /\ ledger[r] \in Seq(Entry)
  BY Zenon DEF TypeOK
<1>3. ledger' = [ledger EXCEPT ![r] = Append(@, e)]
  BY Zenon DEF Records
<1> HIDE DEF e
<1>4. /\ Append(ledger[r], e) \in Seq(Entry)
      /\ Len(Append(ledger[r], e)) = Len(ledger[r]) + 1
      /\ \A i \in 1 .. Len(ledger[r]) : Append(ledger[r], e)[i] = ledger[r][i]
      /\ Append(ledger[r], e)[Len(ledger[r]) + 1] = e
  BY <1>1, <1>2
<1>5. /\ ledger'[r] = Append(ledger[r], e)
      /\ \A q \in Requests \ {r} : ledger'[q] = ledger[q]
      /\ ledger' \in [Requests -> Seq(Entry)]
  BY <1>2, <1>3, <1>4, Zenon
<1> QED
  BY <1>4, <1>5, Zenon DEF e

\* Initially nothing has been done about any request.
LEMMA InitIInv == ASSUME Init PROVE IInv
<1>1. TypeOK
  BY IngressAssumption DEF Init, TypeOK, Labels, Told
<1>2. ASSUME NEW r \in Requests PROVE EffectsFollowEntries(r)
  BY Zenon DEF Init, EffectsFollowEntries, NoEntry, NotHeld, NotSent, Decision, None
<1>3. ASSUME NEW r \in Requests PROVE LabelsTellProgress(r) /\ AnswersTellOutcome(r)
  BY Zenon DEF Init, LabelsTellProgress, AnswersTellOutcome, NoEntry, Decision, None
<1> QED
  BY <1>1, <1>2, <1>3, Zenon DEF IInv, Progress

\* A request whose decision is in the ledger has one.
LEMMA EntryHasDecision ==
  ASSUME NEW r \in Requests, EffectsFollowEntries(r), Decided(r)
  PROVE  ~NoEntry(r) /\ decision[r] \in Decision
<1>1. ~NoEntry(r)
  BY DEF Decided, NoEntry
<1> QED
  BY <1>1, Zenon DEF EffectsFollowEntries

\* Where an entry is added there is a decision, so it is added as it should be.
LEMMA RecordsDecision ==
  ASSUME IInv, NEW r \in Requests, pc[r] = "append"
  PROVE  /\ decision[r] \in Decision
         /\ decision[r].action \in {"allow", "deny", "quarantine"}
         /\ decision[r].action \in Verdicts
  BY Zenon DEF IInv, Progress, LabelsTellProgress, Decision, Verdicts

\* So has a request whose action could not be stored: its second entry says so.
LEMMA ReportHasDecision ==
  ASSUME IInv, NEW r \in Requests, pc[r] = "store_failed"
  PROVE  /\ decision[r] \in Decision
         /\ Decided(r)
         /\ decision[r].action = "quarantine"
         /\ "quarantine_store_failed" \in Verdicts
  BY EntryHasDecision, Zenon DEF IInv, Progress, LabelsTellProgress, Verdicts

\* A step of the handler leaves the variables in their domains.
LEMMA TypeStep ==
  ASSUME IInv, NEW r \in Requests, Step(r) \/ Execute(r) \/ Crash(r)
  PROVE  TypeOK'
<1> USE DEF IInv, Fault, NoFault, Goto, Answers
<1>1. CASE Reject(r) \/ WriteDeny(r) \/ Respond(r) \/ Crash(r)
  BY <1>1, Zenon DEF TypeOK, Labels, Told, Reject, WriteDeny, Respond, Crash
<1>2. CASE Evaluate(r)
  BY <1>2 DEF TypeOK, Labels, Evaluate
<1>3. CASE Record(r)
  <2>1. /\ decision[r] \in Decision
        /\ decision[r].action \in {"allow", "deny", "quarantine"}
        /\ decision[r].action \in Verdicts
    BY <1>3, RecordsDecision, Zenon DEF Record
  <2>2. Records(r, decision[r].action) \/ UNCHANGED ledger
    BY <1>3, Zenon DEF Record
  <2>3. ledger' \in [Requests -> Seq(Entry)]
    <3>1. CASE Records(r, decision[r].action)
      BY <2>1, <3>1, RecordsOne, Zenon
    <3>2. CASE UNCHANGED ledger
      BY <3>2, Zenon DEF TypeOK
    <3> QED
      BY <2>2, <3>1, <3>2, Zenon
  <2> QED
    BY <1>3, <2>1, <2>3, ZenonT(30) DEF TypeOK, Record, Labels, Told
<1>4. CASE Forward(r) \/ Execute(r)
  BY <1>4, Zenon DEF TypeOK, Labels, Forward, Execute
<1>5. CASE Create(r)
  BY <1>5, ZenonT(30) DEF TypeOK, Labels, Told, Create, Stores
<1>6. CASE StoreFailed(r)
  <2>1. decision[r] \in Decision /\ "quarantine_store_failed" \in Verdicts
    BY <1>6, ReportHasDecision, Zenon DEF StoreFailed
  <2>2. Records(r, "quarantine_store_failed") \/ UNCHANGED ledger
    BY <1>6, Zenon DEF StoreFailed
  <2>3. ledger' \in [Requests -> Seq(Entry)]
    <3>1. CASE Records(r, "quarantine_store_failed")
      BY <2>1, <3>1, RecordsOne, Zenon
    <3>2. CASE UNCHANGED ledger
      BY <3>2, Zenon DEF TypeOK
    <3> QED
      BY <2>2, <3>1, <3>2, Zenon
  <2> QED
    BY <1>6, <2>3, Zenon DEF TypeOK, StoreFailed, Labels, Told
<1> QED
  BY <1>1, <1>2, <1>3, <1>4, <1>5, <1>6, Zenon DEF Step

\* A request is handled by its own goroutine: the others are not touched.
LEMMA OthersUntouched ==
  ASSUME IInv, NEW r \in Requests, Step(r) \/ Execute(r) \/ Crash(r),
         NEW q \in Requests \ {r}
  PROVE  Progress(q)'
<1>1. /\ pc'[q] = pc[q] /\ input'[q] = input[q] /\ decision'[q] = decision[q]
      /\ held'[q] = held[q] /\ sentUp'[q] = sentUp[q]
      /\ executed'[q] = executed[q] /\ answer'[q] = answer[q]
  <2>1. CASE Step(r)
    BY <2>1, Zenon DEF IInv, TypeOK, Step, Reject, Evaluate, Record, Forward, Respond,
                WriteDeny, Create, Stores, StoreFailed, Goto, Answers
  <2>2. CASE Execute(r) \/ Crash(r)
    BY <2>2, Zenon DEF IInv, TypeOK, Execute, Crash, Goto
  <2> QED
    BY <2>1, <2>2, Zenon
<1>2. ledger'[q] = ledger[q]
  BY Zenon DEF IInv, TypeOK, Step, Execute, Crash, Reject, Evaluate, Record, Forward,
         Respond, WriteDeny, Create, StoreFailed, Records
<1>3. /\ NoEntry(q)' = NoEntry(q) /\ Decided(q)' = Decided(q)
      /\ Reported(q)' = Reported(q) /\ Stored(q)' = Stored(q)
      /\ Sent(q)' = Sent(q)
  BY <1>1, <1>2, Zenon DEF NoEntry, Decided, Reported, Stored, Sent
<1>4. Progress(q)
  BY Zenon DEF IInv
<1>5. EffectsFollowEntries(q)'
  BY <1>1, <1>3, <1>4, Zenon DEF Progress, EffectsFollowEntries
<1>6. LabelsTellProgress(q)' /\ AnswersTellOutcome(q)'
  BY <1>1, <1>3, <1>4, Zenon DEF Progress, LabelsTellProgress, AnswersTellOutcome
<1> QED
  BY <1>5, <1>6, Zenon DEF Progress

\* The entries of a request that no statement touches, and whose decision stands.
LEMMA EntriesKept ==
  ASSUME NEW r \in Requests, ledger'[r] = ledger[r], decision'[r] = decision[r]
  PROVE  /\ NoEntry(r)' = NoEntry(r)
         /\ Decided(r)' = Decided(r)
         /\ Reported(r)' = Reported(r)
  BY Zenon DEF NoEntry, Decided, Reported

\* The same for what was held and what was sent.
LEMMA EffectsKept ==
  ASSUME NEW r \in Requests, input'[r] = input[r], held'[r] = held[r],
         sentUp'[r] = sentUp[r]
  PROVE  Stored(r)' = Stored(r) /\ Sent(r)' = Sent(r)
  BY Zenon DEF Stored, Sent

\* Handling a request keeps what its label and its answer say of it.
LEMMA OwnStep ==
  ASSUME IInv, NEW r \in Requests, Step(r) \/ Execute(r) \/ Crash(r)
  PROVE  Progress(r)'
<1> USE DEF Goto, Answers, Progress
<1>0. /\ TypeOK
      /\ EffectsFollowEntries(r) /\ LabelsTellProgress(r) /\ AnswersTellOutcome(r)
  BY Zenon DEF IInv
<1>1. CASE Reject(r) \/ WriteDeny(r) \/ Respond(r) \/ Crash(r)
  <2>1. /\ ledger'[r] = ledger[r] /\ decision'[r] = decision[r]
        /\ input'[r] = input[r] /\ held'[r] = held[r] /\ sentUp'[r] = sentUp[r]
        /\ executed'[r] = executed[r] /\ pc'[r] = "done"
    BY <1>0, <1>1, Zenon DEF TypeOK, Reject, WriteDeny, Respond, Crash
  <2>2. EffectsFollowEntries(r)'
    BY <1>0, <2>1, EntriesKept, EffectsKept, Zenon DEF EffectsFollowEntries
  <2>3. LabelsTellProgress(r)'
    BY <2>1, Zenon DEF LabelsTellProgress
  <2>4. AnswersTellOutcome(r)'
    <3>1. CASE Reject(r)
      BY <1>0, <2>1, <3>1, Zenon
         DEF TypeOK, Reject, LabelsTellProgress, AnswersTellOutcome
    <3>2. CASE WriteDeny(r)
      BY <1>0, <2>1, <3>2, EntriesKept, Zenon
         DEF TypeOK, WriteDeny, LabelsTellProgress, AnswersTellOutcome
    <3>3. CASE Respond(r)
      BY <1>0, <2>1, <3>3, Zenon
         DEF TypeOK, Respond, LabelsTellProgress, AnswersTellOutcome
    <3>4. CASE Crash(r)
      BY <1>0, <2>1, <3>4, EntriesKept, Zenon DEF TypeOK, Crash, AnswersTellOutcome
    <3> QED
      BY <1>1, <3>1, <3>2, <3>3, <3>4, Zenon
  <2> QED
    BY <2>2, <2>3, <2>4, Zenon
<1>2. CASE Evaluate(r)
  <2>1. /\ ledger'[r] = ledger[r] /\ input'[r] = input[r] /\ held'[r] = held[r]
        /\ sentUp'[r] = sentUp[r] /\ executed'[r] = executed[r]
        /\ decision'[r] \in Decision /\ ~Rejected(input[r])
        /\ pc[r] = "new" /\ pc'[r] = "append" /\ answer'[r] = answer[r]
    BY <1>0, <1>2, Zenon DEF TypeOK, Evaluate
  <2>2. NoEntry(r) /\ NoEntry(r)' /\ answer[r] = None
    BY <1>0, <2>1, Zenon DEF LabelsTellProgress, NoEntry
  <2>3. ~Decided(r) /\ held[r] = NotHeld /\ sentUp[r] = NotSent
    BY <1>0, <2>2 DEF EffectsFollowEntries, NoEntry, Decided
  <2> QED
    BY <1>0, <2>1, <2>2, <2>3, Zenon
       DEF EffectsFollowEntries, LabelsTellProgress, AnswersTellOutcome, None
<1>3. CASE Record(r)
  <2>1. /\ input'[r] = input[r] /\ decision'[r] = decision[r]
        /\ held'[r] = held[r] /\ sentUp'[r] = sentUp[r]
        /\ executed'[r] = executed[r]
    BY <1>3, Zenon DEF Record
  <2>2. /\ NoEntry(r) /\ ~Decided(r) /\ answer[r] = None
        /\ held[r] = NotHeld /\ sentUp[r] = NotSent /\ ~executed[r]
    <3>1. NoEntry(r) /\ answer[r] = None
      BY <1>0, <1>3, Zenon DEF Record, LabelsTellProgress
    <3>2. ~Decided(r)
      BY <3>1 DEF NoEntry, Decided
    <3> QED
      BY <1>0, <3>1, <3>2, Zenon DEF EffectsFollowEntries
  <2>3. /\ decision[r] \in Decision
        /\ decision[r].action \in {"allow", "deny", "quarantine"}
        /\ decision[r].action \in Verdicts
    BY <1>3, RecordsDecision, Zenon DEF Record
  <2>4. Records(r, decision[r].action) => Decided(r)'
    <3> SUFFICES ASSUME Records(r, decision[r].action) PROVE Decided(r)'
      BY Zenon
    <3>1. Len(ledger[r]) = 0
      BY <2>2 DEF NoEntry
    <3>2. /\ Len(ledger'[r]) = Len(ledger[r]) + 1
          /\ ledger'[r][Len(ledger[r]) + 1] =
               [decision |-> decision[r].action, version |-> decision[r].version]
      BY <1>0, <2>3, RecordsOne, Zenon
    <3> QED
      BY <2>1, <3>1, <3>2 DEF Decided
  <2>5. UNCHANGED ledger => NoEntry(r)'
    BY <2>2, Zenon DEF NoEntry
  <2>6. Decided(r)' => ~NoEntry(r)'
    BY DEF Decided, NoEntry
  <2>7. EffectsFollowEntries(r)'
    <3>1. Decided(r)' \/ NoEntry(r)'
      BY <1>3, <2>4, <2>5, Zenon DEF Record
    <3> QED
      BY <1>0, <2>1, <2>2, <2>3, <3>1, Zenon DEF EffectsFollowEntries
  <2>8. LabelsTellProgress(r)' /\ AnswersTellOutcome(r)'
    <3>1. CASE pc'[r] = decision[r].action /\ answer'[r] = None /\ Decided(r)'
      BY <2>1, <2>2, <2>3, <3>1, Zenon DEF LabelsTellProgress, AnswersTellOutcome, None
    <3>2. CASE pc'[r] = "done" /\ answer'[r] = "audit unavailable"
      BY <2>1, <2>2, <3>2, Zenon DEF LabelsTellProgress, AnswersTellOutcome
    <3> QED
      BY <1>0, <1>3, <2>2, <2>4, <3>1, <3>2, Zenon DEF Record, TypeOK
  <2> QED
    BY <2>7, <2>8, Zenon
<1>4. CASE Forward(r)
  <2>1. /\ ledger'[r] = ledger[r] /\ decision'[r] = decision[r]
        /\ input'[r] = input[r] /\ held'[r] = held[r]
        /\ executed'[r] = executed[r] /\ answer'[r] = answer[r]
        /\ pc[r] = "allow" /\ pc'[r] = "upstream" /\ Sent(r)'
    BY <1>0, <1>4, Zenon DEF TypeOK, Forward, Sent
  <2>2. /\ Decided(r) /\ Decided(r)' /\ ~NoEntry(r)' /\ answer[r] = None
        /\ decision[r] \in Decision /\ decision[r].action = "allow"
        /\ held[r] = NotHeld
    BY <1>0, <2>1, EntriesKept, EntryHasDecision, Zenon DEF LabelsTellProgress
  <2>3. sentUp'[r] # NotSent
    BY <2>1 DEF Sent, NotSent
  <2> QED
    BY <1>0, <2>1, <2>2, <2>3, Zenon
       DEF EffectsFollowEntries, LabelsTellProgress, AnswersTellOutcome, None
<1>5. CASE Execute(r)
  <2>1. /\ ledger'[r] = ledger[r] /\ decision'[r] = decision[r]
        /\ input'[r] = input[r] /\ held'[r] = held[r] /\ sentUp'[r] = sentUp[r]
        /\ pc'[r] = pc[r] /\ answer'[r] = answer[r] /\ sentUp[r].sent
    BY <1>5, Zenon DEF Execute
  <2>2. sentUp[r] # NotSent
    BY <2>1 DEF NotSent
  <2>3. EffectsFollowEntries(r)'
    BY <1>0, <2>1, <2>2, EntriesKept, EffectsKept, Zenon DEF EffectsFollowEntries
  <2> QED
    BY <1>0, <2>1, <2>3, EntriesKept, ZenonT(30) DEF LabelsTellProgress, AnswersTellOutcome
<1>6. CASE Create(r)
  <2>1. /\ ledger'[r] = ledger[r] /\ decision'[r] = decision[r]
        /\ input'[r] = input[r] /\ sentUp'[r] = sentUp[r]
        /\ executed'[r] = executed[r]
        /\ pc[r] = "quarantine"
    BY <1>6, Zenon DEF Create
  <2>2. /\ Decided(r) /\ Decided(r)' /\ ~NoEntry(r)' /\ answer[r] = None
        /\ decision[r] \in Decision /\ decision[r].action = "quarantine"
        /\ sentUp[r] = NotSent /\ held[r] = NotHeld
    BY <1>0, <2>1, EntriesKept, EntryHasDecision, Zenon DEF LabelsTellProgress
  <2>3. \/ Stored(r)' /\ pc'[r] = "done" /\ answer'[r] = "held"
        \/ /\ Stored(r)' \/ held'[r] = NotHeld
           /\ pc'[r] = "store_failed" /\ answer'[r] = None
    BY <1>0, <1>6, <2>1, <2>2 DEF TypeOK, Create, Stores, Stored
  <2>4. Stored(r)' => held'[r] # NotHeld
    BY DEF Stored, NotHeld
  <2>5. EffectsFollowEntries(r)'
    BY <1>0, <2>1, <2>2, <2>3, <2>4, Zenon DEF EffectsFollowEntries
  <2> QED
    BY <2>1, <2>2, <2>3, <2>4, <2>5, Zenon
       DEF LabelsTellProgress, AnswersTellOutcome, None
<1>7. CASE StoreFailed(r)
  <2>1. /\ input'[r] = input[r] /\ decision'[r] = decision[r]
        /\ held'[r] = held[r] /\ sentUp'[r] = sentUp[r]
        /\ executed'[r] = executed[r]
        /\ pc'[r] = "done" /\ answer'[r] = "error"
    BY <1>0, <1>7, Zenon DEF TypeOK, StoreFailed
  <2>2. /\ decision[r] \in Decision /\ Decided(r)
        /\ decision[r].action = "quarantine"
        /\ "quarantine_store_failed" \in Verdicts
    BY <1>7, ReportHasDecision, Zenon DEF StoreFailed
  <2>3. Records(r, "quarantine_store_failed") => Reported(r)'
    <3> SUFFICES ASSUME Records(r, "quarantine_store_failed") PROVE Reported(r)'
      BY Zenon
    <3>1. /\ Len(ledger[r]) = 1
          /\ ledger[r][1] =
               [decision |-> "quarantine", version |-> decision[r].version]
      BY <2>2, Zenon DEF Decided
    <3>2. /\ Len(ledger'[r]) = Len(ledger[r]) + 1
          /\ \A i \in 1 .. Len(ledger[r]) : ledger'[r][i] = ledger[r][i]
          /\ ledger'[r][Len(ledger[r]) + 1] =
               [decision |-> "quarantine_store_failed",
                version |-> decision[r].version]
      BY <1>0, <2>2, RecordsOne, Zenon
    <3> QED
      BY <2>1, <2>2, <3>1, <3>2 DEF Reported
  <2>4. UNCHANGED ledger => Decided(r)'
    BY <2>1, <2>2, Zenon DEF Decided
  <2>5. Reported(r)' \/ Decided(r)'
    BY <1>7, <2>3, <2>4, Zenon DEF StoreFailed
  <2>6. ~NoEntry(r)'
    BY <2>5 DEF NoEntry, Decided, Reported
  <2>7. sentUp[r] = NotSent
    BY <1>0, <2>2, Zenon DEF EffectsFollowEntries
  <2>8. EffectsFollowEntries(r)'
    BY <1>0, <2>1, <2>2, <2>5, <2>6, <2>7, EffectsKept, Zenon DEF EffectsFollowEntries
  <2> QED
    BY <2>1, <2>2, <2>8, Zenon DEF LabelsTellProgress, AnswersTellOutcome
<1> QED
  BY <1>1, <1>2, <1>3, <1>4, <1>5, <1>6, <1>7, Zenon DEF Step

\* The invariant holds whatever the interleaving of requests, failed statements
\* and crashes.
THEOREM Invariance == Spec => []IInv
<1>1. ASSUME IInv, [Next]_vars PROVE IInv'
  <2>1. CASE Next
    <3>1. PICK r \in Requests : Step(r) \/ Execute(r) \/ Crash(r)
      BY <2>1, Zenon DEF Next
    <3>2. TypeOK'
      BY <1>1, <3>1, TypeStep, Zenon
    <3>3. \A q \in Requests : Progress(q)'
      BY <1>1, <3>1, OwnStep, OthersUntouched, Zenon
    <3> QED
      BY <3>2, <3>3, Zenon DEF IInv
  <2>2. CASE UNCHANGED vars
    <3>1. TypeOK'
      BY <1>1, <2>2, Zenon DEF vars, IInv, TypeOK
    <3>2. ASSUME NEW r \in Requests PROVE Progress(r)'
      <4>1. Progress(r)
        BY <1>1, Zenon DEF IInv
      <4>2. /\ NoEntry(r)' = NoEntry(r) /\ Decided(r)' = Decided(r)
            /\ Reported(r)' = Reported(r) /\ Stored(r)' = Stored(r)
            /\ Sent(r)' = Sent(r)
        BY <2>2, Zenon DEF vars, NoEntry, Decided, Reported, Stored, Sent
      <4> QED
        BY <2>2, <4>1, <4>2, ZenonT(30)
        DEF vars, Progress, EffectsFollowEntries, LabelsTellProgress,
            AnswersTellOutcome
    <3> QED
      BY <3>1, <3>2, Zenon DEF IInv
  <2> QED
    BY <1>1, <2>1, <2>2, Zenon
<1> QED
  BY <1>1, InitIInv, PTL DEF Spec

-----------------------------------------------------------------------------
\* What the invariant says of the ledger: which decisions are recorded.
LEMMA EntriesAreDecisions ==
  ASSUME IInv, NEW r \in Requests
  PROVE  /\ Decided(r) => Recorded(r, decision[r].action) /\ Len(ledger[r]) = 1
         /\ Reported(r) => /\ Recorded(r, "quarantine")
                           /\ Recorded(r, "quarantine_store_failed")
                           /\ Len(ledger[r]) = 2
<1>1. ASSUME Decided(r)
      PROVE  Recorded(r, decision[r].action) /\ Len(ledger[r]) = 1
  BY <1>1 DEF Decided, Recorded
<1>2. ASSUME Reported(r)
      PROVE  /\ Recorded(r, "quarantine")
             /\ Recorded(r, "quarantine_store_failed")
             /\ Len(ledger[r]) = 2
  <2>1. 1 \in 1 .. Len(ledger[r]) /\ 2 \in 1 .. Len(ledger[r])
    BY <1>2 DEF Reported
  <2> QED
    BY <1>2, <2>1, Zenon DEF Reported, Recorded
<1> QED
  BY <1>1, <1>2, Zenon

\* The ledger comes first: ServeHTTP forwards and stores only what it has
\* recorded, for any requests, faults and crashes.
THEOREM EffectsTheorem == Spec => []EffectsAreRecorded
<1>1. ASSUME IInv PROVE EffectsAreRecorded
  <2> SUFFICES ASSUME NEW r \in Requests
               PROVE  /\ sentUp[r].sent => Recorded(r, "allow")
                      /\ held[r].stored => Recorded(r, "quarantine")
                      /\ Len(ledger[r]) <=
                           IF Recorded(r, "quarantine_store_failed") THEN 2 ELSE 1
    BY Zenon DEF EffectsAreRecorded
  <2>1. EffectsFollowEntries(r)
    BY <1>1, Zenon DEF IInv, Progress
  <2>2. sentUp[r].sent => Recorded(r, "allow")
    <3>1. ASSUME sentUp[r].sent PROVE sentUp[r] # NotSent
      BY <3>1 DEF NotSent
    <3> QED
      BY <1>1, <2>1, <3>1, EntriesAreDecisions, Zenon DEF EffectsFollowEntries
  <2>3. held[r].stored => Recorded(r, "quarantine")
    <3>1. ASSUME held[r].stored PROVE held[r] # NotHeld
      BY <3>1 DEF NotHeld
    <3> QED
      BY <1>1, <2>1, <3>1, EntriesAreDecisions, Zenon DEF EffectsFollowEntries
  <2>4. Len(ledger[r]) <= IF Recorded(r, "quarantine_store_failed") THEN 2 ELSE 1
    <3>1. NoEntry(r) \/ Decided(r) \/ Reported(r)
      BY <2>1, Zenon DEF EffectsFollowEntries
    <3>2. CASE NoEntry(r)
      BY <3>2 DEF NoEntry
    <3>3. CASE Decided(r)
      BY <3>3 DEF Decided
    <3>4. CASE Reported(r)
      <4>1. Recorded(r, "quarantine_store_failed")
        BY <1>1, <3>4, EntriesAreDecisions, Zenon
      <4>2. Len(ledger[r]) = 2
        BY <3>4, Zenon DEF Reported
      <4> QED
        BY <4>1, <4>2
    <3> QED
      BY <3>1, <3>2, <3>3, <3>4, Zenon
  <2> QED
    BY <2>2, <2>3, <2>4, Zenon
<1> QED
  BY <1>1, Invariance, PTL

\* What the agent is told is so, also when a statement took effect and reported an
\* error, and after a crash.
THEOREM AnswersTheorem == Spec => []AnswersAreTrue
<1>1. ASSUME IInv PROVE AnswersAreTrue
  <2> SUFFICES ASSUME NEW r \in Requests
               PROVE  /\ answer[r] \in {"rejected", "audit unavailable", "denied",
                                        "held", "error"} => ~executed[r]
                      /\ answer[r] = "held" <=>
                           held[r].stored /\ answer[r] \notin {None, "error"}
                      /\ answer[r] = "rejected" => ledger[r] = <<>>
                      /\ answer[r] = "denied" => Recorded(r, "deny")
    BY Zenon DEF AnswersAreTrue
  <2>1. EffectsFollowEntries(r) /\ AnswersTellOutcome(r)
    BY <1>1, Zenon DEF IInv, Progress
  <2>2. answer[r] \in Told
    BY <1>1, Zenon DEF IInv, TypeOK
  <2>3. (held[r] = NotHeld => ~held[r].stored) /\ (Stored(r) => held[r].stored)
    BY DEF NotHeld, Stored
  <2>4. answer[r] \in {"rejected", "audit unavailable", "denied", "held", "error"}
          => ~executed[r]
    <3>1. answer[r] = "rejected" => NoEntry(r)
      BY <2>1, Zenon DEF EffectsFollowEntries, AnswersTellOutcome
    <3>2. NoEntry(r) => ~Decided(r)
      BY DEF NoEntry, Decided
    <3> QED
      BY <2>1, <3>1, <3>2, Zenon DEF EffectsFollowEntries, AnswersTellOutcome
  <2>5. answer[r] = "held" <=> held[r].stored /\ answer[r] \notin {None, "error"}
    <3>1. ASSUME answer[r] = "held" PROVE held[r].stored
      BY <2>1, <2>3, <3>1, Zenon DEF EffectsFollowEntries, AnswersTellOutcome
    <3>2. ASSUME held[r].stored PROVE answer[r] \in {None, "error", "held"}
      <4>1. /\ held[r] # NotHeld /\ decision[r] \in Decision
            /\ decision[r].action = "quarantine"
        BY <2>1, <2>3, <3>2, Zenon DEF EffectsFollowEntries
      <4> QED
        BY <2>1, <2>2, <4>1, Zenon DEF AnswersTellOutcome, Told
    <3> QED
      BY <3>1, <3>2, Zenon DEF None
  <2>6. answer[r] = "rejected" => ledger[r] = <<>>
    BY <2>1, Zenon DEF EffectsFollowEntries, AnswersTellOutcome, NoEntry
  <2>7. answer[r] = "denied" => Recorded(r, "deny")
    BY <1>1, <2>1, EntriesAreDecisions, Zenon DEF AnswersTellOutcome
  <2> QED
    BY <2>4, <2>5, <2>6, <2>7, Zenon
<1> QED
  BY <1>1, Invariance, PTL

\* CaptureReplayHeaders and StripAgentControlledHeaders keep the mirrored headers
\* and the protocol version.
LEMMA MirroredHeadersKept ==
  ASSUME NEW h \in Headers
  PROVE  /\ LET kept == CaptureReplayHeaders(h) IN
              /\ DecodeReplayHeaders(kept).method = h.method
              /\ DecodeReplayHeaders(kept).name = h.name
              /\ DecodeReplayHeaders(kept).version = h.version
         /\ LET up == StripAgentControlledHeaders(h) IN
              /\ up.method = h.method
              /\ up.name = h.name
              /\ up.other \cap {"authorization", "x-elodea-approved-by"} = {}
  BY Zenon DEF Headers, CaptureReplayHeaders, DecodeReplayHeaders,
         StripAgentControlledHeaders

\* An upstream that routes by the mirrored headers, and a replay after an approval,
\* act on the invocation that policy decided about.
THEOREM PolicySawTheorem == Spec => []ExecutesWhatPolicySaw
<1>1. ASSUME IInv, NEW r \in Requests,
             decision[r] \in Decision
      PROVE  /\ validateIngress(input[r].body)
             /\ validateMirroredHeaders(input[r].headers, input[r].body)
             /\ input[r].headers \in Headers
  <2>1. ~Rejected(input[r]) /\ input[r] \in Input
    BY <1>1, Zenon DEF IInv, TypeOK, Progress, EffectsFollowEntries
  <2> QED
    BY <2>1, Zenon DEF Rejected, Accepted, Input
<1>2. ASSUME IInv PROVE ExecutesWhatPolicySaw
  <2> SUFFICES ASSUME NEW r \in Requests
      PROVE LET inv == Parse(input[r].headers, input[r].body)
                up == sentUp[r].headers
                kept == DecodeReplayHeaders(held[r].headers)
            IN  /\ sentUp[r].sent =>
                     /\ up.method \in {"absent", inv.method}
                     /\ up.name \in {"absent", inv.name}
                     /\ up.other \cap {"authorization", "x-elodea-approved-by"} = {}
                /\ held[r].stored =>
                     /\ Accepted(kept, held[r].body)
                     /\ Parse(kept, held[r].body) = inv
    BY Zenon DEF ExecutesWhatPolicySaw
  <2> DEFINE h == input[r].headers
             b == input[r].body
  <2>1. EffectsFollowEntries(r)
    BY <1>2, Zenon DEF IInv, Progress
  <2>2. Parse(h, b).method = b.method /\ Parse(h, b).name = paramsName(b)
    BY Zenon DEF Parse
  <2>3. ASSUME sentUp[r].sent
        PROVE  LET up == sentUp[r].headers IN
               /\ up.method \in {"absent", Parse(h, b).method}
               /\ up.name \in {"absent", Parse(h, b).name}
               /\ up.other \cap {"authorization", "x-elodea-approved-by"} = {}
    <3>1. sentUp[r] # NotSent
      BY <2>3 DEF NotSent
    <3>2. decision[r] \in Decision /\ sentUp[r].headers = StripAgentControlledHeaders(h)
      BY <2>1, <3>1, EntryHasDecision, Zenon DEF EffectsFollowEntries, Sent
    <3> QED
      BY <1>1, <1>2, <2>2, <3>2, MirroredHeadersKept DEF validateMirroredHeaders
  <2>4. ASSUME held[r].stored
        PROVE  LET kept == DecodeReplayHeaders(held[r].headers) IN
               /\ Accepted(kept, held[r].body)
               /\ Parse(kept, held[r].body) = Parse(h, b)
    <3>1. held[r] # NotHeld
      BY <2>4 DEF NotHeld
    <3>2. /\ decision[r] \in Decision /\ held[r].body = b
          /\ held[r].headers = CaptureReplayHeaders(h)
      BY <2>1, <3>1, Zenon DEF EffectsFollowEntries, Stored
    <3> DEFINE kept == DecodeReplayHeaders(CaptureReplayHeaders(h))
    <3>3. kept.method = h.method /\ kept.name = h.name /\ kept.version = h.version
      BY <1>1, <1>2, <3>2, MirroredHeadersKept, Zenon
    <3>4. Accepted(kept, b)
      BY <1>1, <1>2, <3>2, <3>3, Zenon DEF Accepted, validateMirroredHeaders
    <3>5. Parse(kept, b) = Parse(h, b)
      BY <3>3, Zenon DEF Parse
    <3> QED
      BY <3>2, <3>4, <3>5, Zenon
  <2> QED
    BY <2>3, <2>4, Zenon
<1> QED
  BY <1>2, Invariance, PTL

=============================================================================
