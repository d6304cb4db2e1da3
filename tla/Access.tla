------------------------------- MODULE Access -------------------------------
(***************************************************************************)
(* Who may do what: the checks that config.Validate makes on the configured *)
(* keys, the identities built from them, and the authentication middleware   *)
(* of backend/internal/auth, as operators.                                  *)
(***************************************************************************)
EXTENDS Integers

\* An identity's name; caps tells apart spellings that strings.ToLower unites, pad
\* those that strings.TrimSpace unites.
ID == [name : STRING, caps : BOOLEAN, pad : BOOLEAN]

ToLower(i) == [i EXCEPT !.caps = FALSE]

TrimSpace(i) == [i EXCEPT !.pad = FALSE]

NoID == [name |-> "", caps |-> FALSE, pad |-> FALSE]

\* A configuration c has
\*   c.APIKeys, c.ReviewerAPIKeys, c.AdminAPIKeys : tokens to IDs
\*   c.sso : whether OIDC is enabled
\*   c.slack : the reviewers of the Slack app, {} when it is not set up
Values(f) == {f[t] : t \in DOMAIN f}

\* Emails of the Slack app against agent IDs, whatever their case, but with the
\* spaces that a configuration file may put around either.
validateSlack(c) ==
    \A m \in c.slack, i \in Values(c.APIKeys) : ToLower(m) # ToLower(i)

\* Some key on either side, and no token in two roles.
KeysAreDistinct(c) ==
    /\ DOMAIN c.APIKeys # {}
    /\ DOMAIN c.ReviewerAPIKeys \cup DOMAIN c.AdminAPIKeys # {} \/ c.sso
    /\ DOMAIN c.APIKeys \cap (DOMAIN c.ReviewerAPIKeys \cup DOMAIN c.AdminAPIKeys) = {}
    /\ DOMAIN c.ReviewerAPIKeys \cap DOMAIN c.AdminAPIKeys = {}

\* Mutant: tokens are compared, the identities behind them are not.
ValidateTokens(c) == KeysAreDistinct(c) /\ validateSlack(c)

\* The part of Validate that is about identities.
Validate(c) ==
    /\ KeysAreDistinct(c)
    /\ validateSlack(c)
    /\ Values(c.APIKeys) \cap
         (Values(c.ReviewerAPIKeys) \cup Values(c.AdminAPIKeys)) = {}

\* main's map of tokens; a later role would overwrite an earlier one.
identities(c) ==
    [t \in DOMAIN c.APIKeys \cup DOMAIN c.ReviewerAPIKeys \cup DOMAIN c.AdminAPIKeys |->
        IF t \in DOMAIN c.AdminAPIKeys
        THEN [id |-> c.AdminAPIKeys[t], role |-> "admin"]
        ELSE IF t \in DOMAIN c.ReviewerAPIKeys
        THEN [id |-> c.ReviewerAPIKeys[t], role |-> "reviewer"]
        ELSE [id |-> c.APIKeys[t], role |-> "agent"]]

-----------------------------------------------------------------------------
(* Middleware: a result is the identity let through, or a status *)

Reject(status) == [status |-> status, id |-> NoID, role |-> "none"]

Accept(i) == [status |-> 200, id |-> i.id, role |-> i.role]

\* Credentials k: k.bearer is a token, "malformed" for an Authorization header that
\* is no Bearer token, or "none" without that header; k.session is the identity of
\* a session, or NoSession; k.guarded says that the method is safe, or that the CSRF
\* header and the Origin are as they should be.
NoSession == [id |-> NoID, role |-> "none"]

Middleware(c, k) ==
    IF k.bearer \in {"none", "malformed"} THEN Reject(401)
    ELSE IF k.bearer \in DOMAIN identities(c) THEN Accept(identities(c)[k.bearer])
    ELSE Reject(403)

HumanMiddleware(c, k) ==
    IF k.bearer # "none" \/ ~c.sso THEN Middleware(c, k)
    ELSE IF k.session = NoSession THEN Reject(401)
    ELSE IF ~k.guarded THEN Reject(403) ELSE Accept(k.session)

RequireRole(roles, result) ==
    IF result.status = 200 /\ result.role \notin roles THEN Reject(403) ELSE result

=============================================================================
