-------------------------------- MODULE Access --------------------------------
(***************************************************************************)
(* Who may call what: the middleware that binds an identity to a request,  *)
(* the gates behind it and the dependencies of the routes (app/auth.py,    *)
(* app/identity.py, app/main.py, mcp_server/mcp_http.py).                  *)
(*                                                                         *)
(* A deployment is its configuration; a request is the route it asks for   *)
(* and the credentials it presents, each in one of four headers.  The      *)
(* gates ask in a fixed order and each asks again what the ones before it  *)
(* decided; they must agree.  The throttle on failed keys is KeyLimiter's. *)
(***************************************************************************)
EXTENDS Naturals, Sequences, FiniteSets

CONSTANTS MaxCredentials, \* bound: headers of a request that carry a credential
          WriteModes      \* JARVIS_MCP_WRITE_ENABLED on or off

VARIABLES deployment, asked, answer

acVars == <<deployment, asked, answer>>

\* keys: the shared secrets configured.  identity: "oauth" (JARVIS_AUTH_MODE), "keys"
\* (JARVIS_KEY_TENANTS) or "shared".
Deployment == [keys : SUBSET {"ledger", "recall", "writer"}, identity : {"shared", "keys", "oauth"},
               public : BOOLEAN, unauthenticated : BOOLEAN, strict : BOOLEAN,
               protectReads : BOOLEAN, writes : WriteModes]

\* assert_writer_key_config and assert_multi_tenant_config: what refuses to start.
StartsWith(d) ==
  /\ "writer" \in d.keys => ~d.public
  /\ d.strict => ~d.unauthenticated /\ (d.identity = "oauth" \/ "ledger" \in d.keys)

\* In a header: nothing, a secret (right or not), a tenant's key or a user's access token.
TenantCredentials == {"key-read", "key-write", "key-no-read", "key-idle"}
UserTokens == {"token-read", "token-write"}
Secrets == {"ledger", "recall", "writer"}
Headers == [bearer : {"none", "wrong"} \cup Secrets \cup TenantCredentials \cup UserTokens,
            apiKey : {"none", "ledger", "key-read"},     \* X-API-Key
            emr : {"none", "recall", "writer"}]      \* X-EMR-Recall-Key or X-EMR-Writer-Key

ReadToolRoutes == {"tool-read", "mcp-read"}
WriteToolRoutes == {"tool-write", "mcp-write"}
ToolRoutes == ReadToolRoutes \cup WriteToolRoutes \cup {"tool-operator", "mcp-operator"}
MemoryRoutes == {"memory-get", "memory-query", "memory-write", "nx-read", "nx-get", "nx-write", "nx-promote"}
OperatorRoutes == {"operator-read", "operator-write", "inference"}
Presented == {h \in Headers : Cardinality({x \in {"bearer", "apiKey", "emr"} : h[x] # "none"}) <= MaxCredentials}
Routes == MemoryRoutes \cup OperatorRoutes \cup ToolRoutes \cup {"rag", "catalog", "health"}

-----------------------------------------------------------------------------
(* Which credential a request carries *)

\* A secret is right only if it is configured; an empty Bearer lets the named header in.
Carries(d, h, secret) ==
  secret \in d.keys /\ (h.bearer = secret \/ (h.bearer = "none" /\ h.emr = secret))
CarriesLedger(d, h) == "ledger" \in d.keys /\ "ledger" \in {h.bearer, h.apiKey}

CredentialKind(d, h) ==
  IF d.public THEN IF Carries(d, h, "recall") THEN "operator" ELSE "none"
  ELSE IF d.keys = {} THEN IF d.unauthenticated THEN "operator" ELSE "none"
  ELSE IF CarriesLedger(d, h) THEN "operator"
  ELSE IF Carries(d, h, "writer") THEN "writer"
  ELSE IF Carries(d, h, "recall") THEN "recall" ELSE "none"

LedgerKeyOpens(d, h) == IF "ledger" \in d.keys THEN CarriesLedger(d, h) ELSE d.unauthenticated

CredentialIsOperator(d, h, route) ==
  /\ d.identity # "oauth" /\ route # "rag"
  /\ IF route \notin ToolRoutes THEN LedgerKeyOpens(d, h)
     ELSE \/ Carries(d, h, "recall")
          \/ ~d.public /\ (Carries(d, h, "writer") \/ LedgerKeyOpens(d, h))

-----------------------------------------------------------------------------
(* identity_middleware *)

NoCaller == [kind |-> "nobody", writes |-> FALSE, refused |-> 0]
Operator == [kind |-> "operator", writes |-> TRUE, refused |-> 0]
TenantCaller(writes) == [kind |-> "tenant", writes |-> writes, refused |-> 0]
RefusedWith(status) == [kind |-> "nobody", writes |-> FALSE, refused |-> status]

\* The first candidate that authenticates, Bearer before X-API-Key.
TenantKey(h) == IF h.bearer \in TenantCredentials THEN h.bearer ELSE h.apiKey

Identity(d, h, route) ==
  IF route = "health" THEN NoCaller
  ELSE IF CredentialIsOperator(d, h, route) THEN Operator
  ELSE IF d.identity = "keys" /\ TenantKey(h) \in TenantCredentials
  THEN CASE TenantKey(h) = "key-idle" -> RefusedWith(503)
         [] TenantKey(h) = "key-no-read" -> RefusedWith(403)
         [] OTHER -> TenantCaller(TenantKey(h) = "key-write")
  ELSE IF d.identity # "oauth" THEN NoCaller
  ELSE IF h.bearer \in UserTokens THEN TenantCaller(h.bearer = "token-write")
  ELSE RefusedWith(401)

TenantInForce(d, who) == d.identity = "oauth" \/ who.kind = "tenant"

-----------------------------------------------------------------------------
(* The gates: 0 lets the request through, anything else is the refusal. *)

Unless(passes, status) == IF passes THEN 0 ELSE status
FirstOf(statuses) ==
  LET refuses == {i \in DOMAIN statuses : statuses[i] # 0}
  IN IF refuses = {} THEN 0 ELSE statuses[CHOOSE i \in refuses : \A j \in refuses : i <= j]

\* mutant: a tenant's key is not told from the operator's
TenantBlind(d, who) == d.identity # "oauth" /\ (d.strict => who.kind = "operator")

CallerIsOperator(d, who) ==
  who.kind # "tenant" /\ d.identity # "oauth" /\ (d.strict => who.kind = "operator")
PublicUnkeyed(d) == d.public /\ "recall" \notin d.keys

\* ledger_read_protection_middleware (which needs a recall key to be switched on).
ReadProtection(d, h, who, route) ==
  IF TenantInForce(d, who) \/ route \notin {"memory-get", "nx-get"}
     \/ ~d.protectReads \/ "recall" \notin d.keys THEN 0
  ELSE Unless(CredentialKind(d, h) = "operator", 401)

\* ApiKeyMiddleware.dispatch.
ApiKeyGate(d, h, who, route) ==
  IF TenantInForce(d, who) \/ route \in ToolRoutes \cup {"rag", "catalog", "health"} THEN 0
  ELSE Unless(LedgerKeyOpens(d, h), 401)

\* mutant: any of the configured credentials opens the route
AnyCredential(d, h, who, kinds) ==
  Unless(TenantInForce(d, who) \/ CredentialKind(d, h) # "none", 401)

\* The dependencies of the routes.  One that finds a tenant in force leaves it to the gates
\* after it.
ToolGate(d, h, who, kinds) ==
  IF TenantInForce(d, who) THEN 0
  ELSE IF CredentialKind(d, h) \in kinds THEN 0
  ELSE IF PublicUnkeyed(d) THEN 503 ELSE 401
WriteScope(d, who) == Unless(TenantInForce(d, who) => who.writes, 403)
WriteGate(d, who) == FirstOf(<<WriteScope(d, who), Unless(d.writes, 403)>>)
OperatorGate(d, who) == Unless(CallerIsOperator(d, who), 403)

\* _scoped_dispatch: the tools a scoped credential may call; no credential kind is asked of a
\* tenant.
McpGate(d, h, who, kinds) ==
  FirstOf(<<ToolGate(d, h, who, {"operator", "writer", "recall"}),
            Unless(TenantInForce(d, who) \/ CredentialKind(d, h) \in kinds, 403)>>)

\* get_store: request_tenant() must name a tenant.
NeedsStore(d, who) == Unless(who.kind # "nobody" \/ ~d.strict, 401)

\* The routes of main.py and the tools of the MCP endpoint, by what they depend on.
MemoryRoute(d, who, route) ==
  IF route = "memory-write" THEN <<WriteGate(d, who), NeedsStore(d, who)>> ELSE <<NeedsStore(d, who)>>

NxRoute(d, h, who, route) ==
  <<OperatorGate(d, who)>> \o
  CASE route = "nx-write" -> <<WriteScope(d, who), WriteGate(d, who)>>
    [] route = "nx-promote" -> <<WriteGate(d, who), NeedsStore(d, who)>>
    [] OTHER -> <<ToolGate(d, h, who, {"operator"}), NeedsStore(d, who)>>

OperatorRoute(d, who, route) ==
  <<OperatorGate(d, who)>> \o
  CASE route = "operator-read" -> <<NeedsStore(d, who)>>
    [] route = "operator-write" -> <<WriteGate(d, who), NeedsStore(d, who)>>
    [] OTHER -> <<>>

ToolRoute(d, h, who, route) ==
  CASE route = "tool-read" -> <<ToolGate(d, h, who, {"operator", "writer", "recall"}), NeedsStore(d, who)>>
    [] route = "tool-write" -> <<ToolGate(d, h, who, {"operator", "writer"}), WriteScope(d, who),
                                 NeedsStore(d, who), Unless(d.writes, 403)>>
    [] OTHER -> <<ToolGate(d, h, who, {"operator"}), OperatorGate(d, who)>>

McpRoute(d, h, who, route) ==
  CASE route = "mcp-read" -> <<McpGate(d, h, who, {"operator", "writer", "recall"}), NeedsStore(d, who)>>
    [] route = "mcp-write" -> <<McpGate(d, h, who, {"operator", "writer"}), NeedsStore(d, who),
                                WriteScope(d, who), Unless(d.writes, 403)>>
    [] OTHER -> <<McpGate(d, h, who, {"operator"}), NeedsStore(d, who), OperatorGate(d, who)>>

\* The RAG routes have a key of their own.
RouteGate(d, h, who, route) ==
  FirstOf(CASE route \in {"memory-get", "memory-query", "memory-write"} -> MemoryRoute(d, who, route)
            [] route \in {"nx-read", "nx-get", "nx-write", "nx-promote"} -> NxRoute(d, h, who, route)
            [] route \in OperatorRoutes -> OperatorRoute(d, who, route)
            [] route \in {"tool-read", "tool-write", "tool-operator"} -> ToolRoute(d, h, who, route)
            [] route \in {"mcp-read", "mcp-write", "mcp-operator"} -> McpRoute(d, h, who, route)
            [] OTHER -> <<>>)

-----------------------------------------------------------------------------
(* A request passes the layers from the outside in. *)

Unanswered == [status |-> 0, who |-> "nobody"]
NoRequest == [route |-> "health", headers |-> [bearer |-> "none", apiKey |-> "none", emr |-> "none"]]

AcInit ==
  /\ deployment \in {d \in Deployment : StartsWith(d)}
  /\ asked = NoRequest
  /\ answer = Unanswered

HandleRequest(route, h) ==
  LET who == Identity(deployment, h, route)
      refusal == FirstOf(<<who.refused, ReadProtection(deployment, h, who, route),
                           ApiKeyGate(deployment, h, who, route),
                           RouteGate(deployment, h, who, route)>>)
  IN /\ asked' = [route |-> route, headers |-> h]
     /\ answer' = [status |-> IF refusal = 0 THEN 200 ELSE refusal, who |-> who.kind]
     /\ UNCHANGED deployment

AcNext == answer = Unanswered /\ \E route \in Routes, h \in Presented : HandleRequest(route, h)
AcSpec == AcInit /\ [][AcNext]_acVars

-----------------------------------------------------------------------------
(* What must hold *)

OpenedOnPurpose(d) == d.unauthenticated /\ "ledger" \notin d.keys
ValidSecret(secret) == secret \in deployment.keys
Shown == {asked.headers.bearer, asked.headers.apiKey, asked.headers.emr}
Served == answer.status = 200
Ungated == {"rag", "catalog", "health"}

\* A tenant is never served by a route that is the operator's alone, and nobody else is served
\* from the operator's ledger without showing a configured secret (unless the deployment was
\* opened on purpose): whatever the layers before a gate decided, and whatever else the
\* request shows (caller_is_operator, credential_is_operator, the dependencies of main.py).
OperatorIsProven ==
  Served /\ asked.route \notin Ungated =>
    /\ answer.who = "tenant" => asked.route \in {"memory-get", "memory-query", "memory-write"} \cup ReadToolRoutes \cup WriteToolRoutes
    /\ answer.who # "tenant" /\ ~OpenedOnPurpose(deployment) => \E s \in Shown \cap Secrets : ValidSecret(s)

\* The recall key and the writer key stay scoped: a request that shows no ledger key reaches,
\* with them, the read tools, and with the writer key the two draft writes; and never a
\* memory route (docs/recall_credential.md, docs/writer_credential.md).
ScopedKeysStayScoped ==
  Served /\ answer.who # "tenant" /\ ~deployment.public /\ ~OpenedOnPurpose(deployment)
  /\ asked.route \notin Ungated /\ "ledger" \notin Shown
    => \/ asked.route \in ReadToolRoutes
       \/ asked.route \in WriteToolRoutes /\ ValidSecret("writer") /\ "writer" \in Shown

\* Every request is served as what it has proven to be: the operator's routes and ledger to the
\* operator only, and no more to a scoped key than its scope, whichever layer decided.
CallersAreProven == OperatorIsProven /\ ScopedKeysStayScoped
=============================================================================
