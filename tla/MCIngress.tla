------------------------------ MODULE MCIngress ------------------------------
(* Instances of Ingress for TLC. *)
EXTENDS Ingress

CONSTANT r1

GoodBody ==
    [json |-> "object", id |-> "scalar", response |-> FALSE, jsonrpc |-> "2.0",
     method |-> "tools/call", params |-> "object", name |-> "n1",
     arguments |-> "object"]

GoodHeaders ==
    [method |-> "tools/call", name |-> "n1", version |-> "v",
     other |-> {"accept", "authorization"}]

Good == [http |-> "POST", read |-> "ok", body |-> GoodBody, headers |-> GoodHeaders]

\* Every combination of method, name, arguments and mirrored headers, and every
\* other field wrong on its own.
ManyInputs ==
    [http : {"POST"}, read : {"ok"},
     body : {[GoodBody EXCEPT !.method = m, !.name = n, !.arguments = a] :
               m \in Methods \cup {"absent", "bad"}, n \in Names \cup {"bad"},
               a \in {"object", "absent", "bad"}},
     headers : {[GoodHeaders EXCEPT !.method = m, !.name = n, !.version = v,
                                    !.other = o] :
                  m \in Methods \cup {"absent", "bad"},
                  n \in Names \cup {"absent", "bad"},
                  v \in {"v", "absent", "bad"},
                  o \in {{}, {"accept", "authorization"},
                         {"mcp-param-x", "x-elodea-approved-by"}}}]
    \cup {[Good EXCEPT !.http = "GET"], [Good EXCEPT !.read = "too large"],
          [Good EXCEPT !.read = "failed"], [Good EXCEPT !.body.id = "bad"],
          [Good EXCEPT !.body.response = TRUE], [Good EXCEPT !.body.jsonrpc = "bad"],
          [Good EXCEPT !.body.params = "bad"], [Good EXCEPT !.body.json = "duplicate"],
          [Good EXCEPT !.body.json = "batch"], [Good EXCEPT !.body.params = "absent"]}

=============================================================================
