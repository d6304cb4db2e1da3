------------------------------- MODULE Ingress -------------------------------
(***************************************************************************)
(* The way of an agent's request through backend/internal/proxy: parse it,  *)
(* evaluate it, record the decision in the ledger, and only then forward,    *)
(* deny or hold it.  A body and its headers are abstracted to what           *)
(* validateIngress and validateMirroredHeaders tell apart.                   *)
(***************************************************************************)
EXTENDS Naturals, Sequences

CONSTANTS
    Requests,   \* requests under way
    Inputs,     \* the inputs they are chosen from, a subset of Input
    Versions,   \* policy versions the engine may decide under
    MaxFaults   \* bound: failed statements, broken connections, crashes

-----------------------------------------------------------------------------
(* Inputs and the invocation policy sees *)

Names == {"n1", "n2"}

Methods == {"tools/call", "prompts/get", "resources/read", "other"}

\* What a body may hold.  "bad" stands for a value of another JSON type, or an
\* empty string where one is required.
Body == [json : {"object", "batch", "duplicate", "invalid"},
         id : {"absent", "scalar", "bad"},
         response : BOOLEAN,                     \* has "result" or "error"
         jsonrpc : {"2.0", "bad"},
         method : Methods \cup {"absent", "bad"},
         params : {"object", "absent", "bad"},
         name : Names \cup {"bad"},              \* params.name or params.uri
         arguments : {"object", "absent", "bad"}]

\* Header values after singleHeader and decodeHeaderName: "bad" is repeated,
\* empty, of invalid characters or of invalid Base64.
Headers == [method : Methods \cup {"absent", "bad"},
            name : Names \cup {"absent", "bad"},
            version : {"v", "absent", "bad"},
            other : SUBSET {"accept", "mcp-param-x", "authorization",
                            "x-elodea-approved-by"}]

Input == [http : {"POST", "GET"},
          read : {"ok", "too large", "failed"},
          body : Body,
          headers : Headers]

ASSUME IngressAssumption ==
    /\ Inputs \subseteq Input
    /\ MaxFaults \in Nat

DecodeObject(b) == b.json = "object"

Named(method) == method \in {"tools/call", "prompts/get", "resources/read"}

validateIngress(b) ==
    /\ DecodeObject(b)
    /\ b.id # "bad"
    /\ ~b.response
    /\ b.jsonrpc = "2.0"
    /\ b.method \in Methods
    /\ b.params = "object"
    /\ Named(b.method) => b.name # "bad"
    /\ b.method = "tools/call" => b.arguments # "bad"

paramsName(b) == IF Named(b.method) THEN b.name ELSE "none"

validateMirroredHeaders(h, b) ==
    /\ h.method \in {"absent", b.method}
    /\ h.name \in {"absent", paramsName(b)}
    /\ h.version # "bad"

\* MCPAdapter.Parse
Accepted(h, b) == validateIngress(b) /\ validateMirroredHeaders(h, b)

Parse(h, b) ==
    [method  |-> b.method,
     name    |-> paramsName(b),
     tool    |-> IF b.method = "tools/call" THEN b.name ELSE b.method,
     arguments |-> IF b.method = "tools/call" THEN b.arguments ELSE "params",
     version |-> h.version]

\* Mutant: the protocol version is not kept.
captureUnversioned(h) ==
    [h EXCEPT !.version = "absent", !.other = @ \cap {"accept", "mcp-param-x"}]

CaptureReplayHeaders(h) ==
    [h EXCEPT !.other = @ \cap {"accept", "mcp-param-x"}]

\* Stored headers are filtered again when they are read.
DecodeReplayHeaders(h) == CaptureReplayHeaders(h)

StripAgentControlledHeaders(h) ==
    [h EXCEPT !.other = @ \ {"authorization", "x-elodea-approved-by"}]

-----------------------------------------------------------------------------
VARIABLES
    pc, input, decision,
    ledger,     \* entries of each request in order, as [decision, version]
    held,       \* rows of the quarantine: the stored request, or NotHeld
    sentUp,     \* what went upstream, or NotSent
    executed,   \* whether the upstream executed it
    answer,     \* what the agent was told
    faults

vars == <<pc, input, decision, ledger, held, sentUp, executed, answer, faults>>

None == "none"

Decision == [action : {"allow", "deny", "quarantine"}, version : Versions]

Init ==
    /\ pc = [r \in Requests |-> "new"]
    /\ input \in [Requests -> Inputs]
    /\ decision = [r \in Requests |-> [action |-> None]]
    /\ ledger = [r \in Requests |-> <<>>]
    /\ held = [r \in Requests |-> [stored |-> FALSE]]
    /\ sentUp = [r \in Requests |-> [sent |-> FALSE]]
    /\ executed = [r \in Requests |-> FALSE]
    /\ answer = [r \in Requests |-> None]
    /\ faults = 0

Fault == faults < MaxFaults /\ faults' = faults + 1

NoFault == UNCHANGED faults

Goto(r, label) == pc' = [pc EXCEPT ![r] = label]

Answers(r, a) == answer' = [answer EXCEPT ![r] = a] /\ Goto(r, "done")

\* One more ledger entry for r.
Records(r, d) ==
    ledger' = [ledger EXCEPT ![r] =
        Append(@, [decision |-> d, version |-> decision[r].version])]

-----------------------------------------------------------------------------
(* Handler.ServeHTTP *)

Rejected(i) ==
    \/ i.http # "POST"
    \/ i.read # "ok"
    \/ ~Accepted(i.headers, i.body)

Reject(r) ==
    /\ pc[r] = "new"
    /\ Rejected(input[r])
    /\ Answers(r, "rejected")
    /\ UNCHANGED <<input, decision, ledger, held, sentUp, executed, faults>>

\* Engine.Evaluate decides under some version (module PolicyEngine); it reports
\* no error, a failed evaluation is a deny.
Evaluate(r) ==
    /\ pc[r] = "new"
    /\ ~Rejected(input[r])
    /\ \E d \in Decision : decision' = [decision EXCEPT ![r] = d]
    /\ Goto(r, "append")
    /\ UNCHANGED <<input, ledger, held, sentUp, executed, answer, faults>>

\* Mutant: an append that fails is only logged.
RecordIgnored(r) ==
    /\ pc[r] = "append"
    /\ Goto(r, decision[r].action) /\ UNCHANGED answer
    /\ \/ Records(r, decision[r].action) /\ NoFault
       \/ UNCHANGED ledger /\ Fault
    /\ UNCHANGED <<input, decision, held, sentUp, executed>>

\* ledgerStore.Append comes first.  It may commit and report an error.
Record(r) ==
    /\ pc[r] = "append"
    /\ \/ /\ Records(r, decision[r].action)
          /\ Goto(r, decision[r].action)
          /\ UNCHANGED answer
          /\ NoFault
       \/ /\ Records(r, decision[r].action) \/ UNCHANGED ledger
          /\ Answers(r, "audit unavailable")
          /\ Fault
    /\ UNCHANGED <<input, decision, held, sentUp, executed>>

Forward(r) ==
    /\ pc[r] = "allow"
    /\ sentUp' = [sentUp EXCEPT ![r] =
                    [sent |-> TRUE,
                     headers |-> StripAgentControlledHeaders(input[r].headers),
                     body |-> input[r].body]]
    /\ Goto(r, "upstream")
    /\ UNCHANGED <<input, decision, ledger, held, executed, answer, faults>>

\* The upstream may execute what it was sent, whether or not the proxy still waits.
Execute(r) ==
    /\ sentUp[r].sent
    /\ ~executed[r]
    /\ executed' = [executed EXCEPT ![r] = TRUE]
    /\ UNCHANGED <<pc, input, decision, ledger, held, sentUp, answer, faults>>

\* The upstream's response is copied; without one the ErrorHandler answers 502.
Respond(r) ==
    /\ pc[r] = "upstream"
    /\ \/ Answers(r, "upstream's") /\ NoFault
       \/ Answers(r, "upstream unavailable") /\ Fault
    /\ UNCHANGED <<input, decision, ledger, held, sentUp, executed>>

WriteDeny(r) ==
    /\ pc[r] = "deny"
    /\ Answers(r, "denied")
    /\ UNCHANGED <<input, decision, ledger, held, sentUp, executed, faults>>

Stores(r) ==
    held' = [held EXCEPT ![r] =
               [stored |-> TRUE,
                headers |-> CaptureReplayHeaders(input[r].headers),
                body |-> input[r].body]]

\* Mutant: the agent is told the action is held before it is stored.
CreateUnchecked(r) ==
    /\ pc[r] = "quarantine"
    /\ \/ Stores(r) /\ NoFault
       \/ UNCHANGED held /\ Fault
    /\ Answers(r, "held")
    /\ UNCHANGED <<input, decision, ledger, sentUp, executed>>

\* quarantineStore.Create, which may commit and report an error.
Create(r) ==
    /\ pc[r] = "quarantine"
    /\ \/ Stores(r) /\ Answers(r, "held") /\ NoFault
       \/ /\ Stores(r) \/ UNCHANGED held
          /\ Goto(r, "store_failed")
          /\ UNCHANGED answer
          /\ Fault
    /\ UNCHANGED <<input, decision, ledger, sentUp, executed>>

StoreFailed(r) ==
    /\ pc[r] = "store_failed"
    /\ \/ Records(r, "quarantine_store_failed") /\ NoFault
       \/ (Records(r, "quarantine_store_failed") \/ UNCHANGED ledger) /\ Fault
    /\ Answers(r, "error")
    /\ UNCHANGED <<input, decision, held, sentUp, executed>>

\* The process ends; the agent gets no answer.
Crash(r) ==
    /\ pc[r] # "done"
    /\ Fault
    /\ Goto(r, "done")
    /\ UNCHANGED <<input, decision, ledger, held, sentUp, executed, answer>>

-----------------------------------------------------------------------------
Step(r) ==
    \/ Reject(r) \/ Evaluate(r) \/ Record(r) \/ Forward(r) \/ Respond(r)
    \/ WriteDeny(r) \/ Create(r) \/ StoreFailed(r)

Next == \E r \in Requests : Step(r) \/ Execute(r) \/ Crash(r)

Spec == Init /\ [][Next]_vars

-----------------------------------------------------------------------------
(* Properties *)

Recorded(r, d) ==
    \E i \in 1 .. Len(ledger[r]) :
        ledger[r][i] = [decision |-> d, version |-> decision[r].version]

\* Nothing reaches the upstream that is not in the ledger as allowed, and
\* nothing is held that is not in the ledger as quarantined, under the version
\* that decided. The ledger has one decision for each request, and beside it at
\* most the report that a request could not be stored, which is also made when it
\* was stored and the reply was lost.
EffectsAreRecorded ==
    \A r \in Requests :
        /\ sentUp[r].sent => Recorded(r, "allow")
        /\ held[r].stored => Recorded(r, "quarantine")
        /\ Len(ledger[r]) <=
             IF Recorded(r, "quarantine_store_failed") THEN 2 ELSE 1

\* What the agent is told is so: a denied, held, rejected or unauditable request
\* has not been executed, a held one is stored, and a rejected one left no trace.
AnswersAreTrue ==
    \A r \in Requests :
        /\ answer[r] \in {"rejected", "audit unavailable", "denied", "held",
                          "error"} => ~executed[r]
        /\ answer[r] = "held" <=> held[r].stored /\ answer[r] \notin {None, "error"}
        /\ answer[r] = "rejected" => ledger[r] = <<>>
        /\ answer[r] = "denied" => Recorded(r, "deny")

\* What is executed, now or after an approval, is what policy saw in the body: an
\* upstream that routes by the mirrored headers is led to the same method and
\* tool, and NewPolicyRecheck parses a held request, with the headers that were
\* kept, into the invocation that was decided at ingress.
ExecutesWhatPolicySaw ==
    \A r \in Requests :
        LET inv == Parse(input[r].headers, input[r].body)
            up == sentUp[r].headers
            kept == DecodeReplayHeaders(held[r].headers)
        IN  /\ sentUp[r].sent =>
                 /\ up.method \in {"absent", inv.method}
                 /\ up.name \in {"absent", inv.name}
                 /\ up.other \cap {"authorization", "x-elodea-approved-by"} = {}
            /\ held[r].stored =>
                 /\ Accepted(kept, held[r].body)
                 /\ Parse(kept, held[r].body) = inv

=============================================================================
