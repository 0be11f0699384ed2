------------------------------ MODULE HttpApi ------------------------------
(***************************************************************************)
(* The HTTP surface and its client: the handlers of the runtime and of the *)
(* API application as a table of what each checks before its service is    *)
(* called and how it answers, the guards in front of them, the mapping of  *)
(* thrown errors to answers, and the requests the SDK sends with what it   *)
(* makes of the answers.  The services behind the handlers are modelled    *)
(* elsewhere; here they succeed or throw.  A path is the tuple of its      *)
(* segments.  w, the world, is what guards and checks read: whether        *)
(* AURII_API_TOKEN is set, the projects, the owner of each dataset, and    *)
(* for each token that is not revoked its project and scopes.              *)
(***************************************************************************)
EXTENDS Naturals, Sequences, FiniteSets

CONSTANTS
  GlobalToken,   \* the value of AURII_API_TOKEN
  NoToken,       \* a request without a bearer
  NoError        \* the service succeeds

Param == ":"     \* a segment of a handler's path that matches anything

-----------------------------------------------------------------------------
(* Errors: the code a service throws with and the status it stands for.     *)
ProjectErrors ==
  [PROJECT_NOT_FOUND |-> 404, PROJECT_SLUG_CONFLICT |-> 409,
   INVALID_PROJECT_STATUS_TRANSITION |-> 409, PROJECT_VALIDATION_ERROR |-> 400,
   PROJECT_NOT_WRITABLE |-> 409]

DatasetErrors ==
  [DATASET_NOT_FOUND |-> 404, DATASET_ID_CONFLICT |-> 409, DATASET_VALIDATION_ERROR |-> 400]

PlatformErrors ==
  [validation_error |-> 400, disabled |-> 400, unauthorized |-> 401, forbidden |-> 403,
   not_found |-> 404, conflict |-> 409]

(* What a service throws that has no class of its own, and a service that    *)
(* finds nothing where the handler then answers 404 itself.                  *)
Unexpected == "unexpected"
Missing    == "missing"

Refusal(answered, code) == [status |-> answered, body |-> "error", code |-> code]

(* { error: "..." }: an answer whose error is a sentence has no code.        *)
Text(answered) == Refusal(answered, "")

DomainError(e, otherwise) ==
  IF e \in DOMAIN ProjectErrors THEN Refusal(ProjectErrors[e], e)
  ELSE IF e \in DOMAIN DatasetErrors THEN Refusal(DatasetErrors[e], e)
  ELSE otherwise

ToApiError(e) == DomainError(e, Refusal(500, "INTERNAL_ERROR"))

MapPlatformError(e) ==
  IF e \in DOMAIN PlatformErrors THEN Refusal(PlatformErrors[e], e) ELSE ToApiError(e)

CoreError(e) == DomainError(e, Text(500))

(* PUT /entities/:id answers a stale revision with its own code.             *)
UpdateEntityError(e) == IF e = "concurrency_conflict" THEN Refusal(409, e) ELSE CoreError(e)

(* Public delivery: the route's own errors, anything whose message says      *)
(* "not found", and the rest.                                                *)
PublicError(e) ==
  IF e \in DOMAIN PlatformErrors THEN Refusal(PlatformErrors[e], e)
  ELSE IF e \in {"PROJECT_NOT_FOUND", "DATASET_NOT_FOUND"} THEN Refusal(404, "not_found")
  ELSE Refusal(500, "INTERNAL_ERROR")

ServiceErrors ==
  DOMAIN ProjectErrors \union DOMAIN DatasetErrors \union DOMAIN PlatformErrors
    \union {Unexpected, Missing}

-----------------------------------------------------------------------------
(* Handlers.  checks are made in order before the service is called:         *)
(* "project" and "dataset" must exist, "input" must be complete, anything    *)
(* else is a scope.  body is "data" for { data: ... }, "bare" otherwise.     *)
On(method, path, checks, answered, body, errors) ==
  [method |-> method, path |-> path, checks |-> checks, status |-> answered,
   body |-> body, errors |-> errors]

Core(method, path, checks, answered) == On(method, path, checks, answered, "bare", "core")

HealthHandlers == {Core("GET", <<"health">>, <<>>, 200)}

SchemaHandlers ==
  {Core("GET", <<"schemas">>, <<>>, 200), Core("POST", <<"schemas">>, <<>>, 201),
   Core("GET", <<"schemas", Param>>, <<>>, 200)}

EntityHandlers ==
  {Core("GET", <<"entities">>, <<"input">>, 200), Core("GET", <<"entities", Param>>, <<>>, 200),
   On("PUT", <<"entities", Param>>, <<"input">>, 200, "bare", "entity"),
   Core("GET", <<"entities", Param, "revisions", Param>>, <<"input">>, 200)}

QueryHandlers ==
  {Core("GET", <<"query">>, <<"input">>, 200), Core("GET", <<"query", "explain">>, <<"input">>, 200)}

ImportHandlers ==
  {Core("POST", <<"import", "analyze">>, <<"input">>, 200),
   Core("POST", <<"import", "run">>, <<"input">>, 200),
   Core("POST", <<"import">>, <<"input">>, 200), Core("GET", <<"imports">>, <<>>, 200)}

StatsHandlers == {Core("GET", <<"stats">>, <<>>, 200)}

(* The routes under /api/projects.                                          *)
Api(method, path, checks, answered) == On(method, path, checks, answered, "data", "api")

ProjectHandlers ==
  {Api("POST", <<"api", "projects">>, <<>>, 201),
   Api("GET", <<"api", "projects">>, <<>>, 200),
   Api("GET", <<"api", "projects", "by-slug", Param>>, <<>>, 200),
   Api("GET", <<"api", "projects", Param>>, <<>>, 200),
   Api("PATCH", <<"api", "projects", Param>>, <<>>, 200),
   Api("PATCH", <<"api", "projects", Param, "status">>, <<>>, 200),
   Api("POST", <<"api", "projects", Param, "archive">>, <<>>, 200)}

DatasetHandlers ==
  {Api("GET", <<"api", "projects", Param, "datasets">>, <<>>, 200),
   Api("POST", <<"api", "projects", Param, "datasets">>, <<>>, 201),
   Api("GET", <<"api", "projects", Param, "datasets", Param>>, <<>>, 200),
   Api("PATCH", <<"api", "projects", Param, "datasets", Param>>, <<>>, 200)}

DatasetResourceHandlers ==
  {Api("GET", <<"api", "projects", Param, "datasets", Param, "schemas">>,
       <<"project", "dataset">>, 200),
   Api("GET", <<"api", "projects", Param, "datasets", Param, "schemas", Param>>,
       <<"project", "dataset">>, 200),
   Api("POST", <<"api", "projects", Param, "datasets", Param, "schemas">>,
       <<"project", "dataset">>, 201),
   Api("GET", <<"api", "projects", Param, "datasets", Param, "imports">>,
       <<"project", "dataset">>, 200),
   Api("POST", <<"api", "projects", Param, "datasets", Param, "imports", "run">>,
       <<"project", "dataset", "input">>, 200)}

(* Platform handlers on a collection look the project up before the scope;   *)
(* those on one item leave it to the service.                                *)
Collection(method, name, scope, answered) ==
  On(method, <<"api", "projects", Param, name>>, <<"project", scope>>, answered,
     "data", "platform")

Item(method, name, scope) ==
  On(method, <<"api", "projects", Param, name, Param>>, <<scope>>, 200, "data", "platform")

Operation(name, operation, scope) ==
  On("POST", <<"api", "projects", Param, name, Param, operation>>, <<scope>>, 200,
     "data", "platform")

SourceHandlers ==
  {Collection("GET", "sources", "project:read", 200),
   Collection("POST", "sources", "source:manage", 201),
   Item("GET", "sources", "project:read"), Item("PATCH", "sources", "source:manage")}

SavedImportHandlers ==
  {Collection("GET", "saved-imports", "project:read", 200),
   Collection("POST", "saved-imports", "import:run", 201),
   Item("GET", "saved-imports", "project:read"), Item("PATCH", "saved-imports", "import:run"),
   Operation("saved-imports", "run", "import:run")}

RouteHandlers ==
  {Collection("GET", "routes", "project:read", 200),
   Collection("POST", "routes", "route:manage", 201),
   Item("PATCH", "routes", "route:manage"), Operation("routes", "test", "route:manage")}

TokenHandlers ==
  {Collection("GET", "tokens", "project:admin", 200),
   Collection("POST", "tokens", "project:admin", 201),
   Operation("tokens", "revoke", "project:admin")}

AuditHandlers == {Collection("GET", "audit", "project:admin", 200)}

PublicHandlers == {On("GET", <<"public", Param, "v1", Param>>, <<>>, 200, "bare", "public")}

Handlers ==
  HealthHandlers \union SchemaHandlers \union EntityHandlers \union QueryHandlers
    \union ImportHandlers \union StatsHandlers \union ProjectHandlers \union DatasetHandlers
    \union DatasetResourceHandlers \union SourceHandlers \union SavedImportHandlers
    \union RouteHandlers \union TokenHandlers \union AuditHandlers \union PublicHandlers

(* The router: a literal segment is preferred to a parameter.                *)
PathFits(pattern, path) ==
  /\ Len(pattern) = Len(path)
  /\ \A i \in DOMAIN path : pattern[i] \in {Param, path[i]}

Preferred(p, q) ==
  \E i \in DOMAIN p : /\ p[i] # Param /\ q[i] = Param
                      /\ \A j \in 1..(i - 1) : p[j] = q[j]

Served(method, path) ==
  LET fits == {h \in Handlers : h.method = method /\ PathFits(h.path, path)}
  IN {h \in fits : \A g \in fits \ {h} : Preferred(h.path, g.path)}

-----------------------------------------------------------------------------
(* Guards and checks.                                                        *)
AuthScopes ==
  {"project:read", "dataset:read", "entity:write", "import:run", "source:manage",
   "route:manage", "project:admin"}

ScopeAllows(granted, required) == granted \intersect {"project:admin", required} # {}

CoreGuard(r, w) == IF w.locked /\ r.token # GlobalToken THEN Text(401) ELSE NoError

(* A bug: the path is compared as a whole, so only the project itself fits.   *)
WholePathGuard(r, w) ==
  IF ~w.locked \/ r.token = GlobalToken THEN NoError
  ELSE IF r.token \notin DOMAIN w.tokens THEN Text(401)
  ELSE IF r.path # <<"api", "projects", w.tokens[r.token].project>> THEN Text(403)
  ELSE NoError

ProjectsGuard(r, w) ==
  IF ~w.locked \/ r.token = GlobalToken THEN NoError
  ELSE IF r.token \notin DOMAIN w.tokens THEN Text(401)
  ELSE IF Len(r.path) > 2 /\ r.path[3] # w.tokens[r.token].project THEN Text(403)
  ELSE NoError

Guard(r, w) ==
  CASE r.path[1] \in {"health", "public"} -> NoError
    [] r.path[1] = "api"                  -> ProjectsGuard(r, w)
    [] OTHER                              -> CoreGuard(r, w)

(* requirePlatformScope and requireScope.                                    *)
RequireScope(r, scope, w) ==
  IF ~w.locked \/ r.token = GlobalToken THEN NoError
  ELSE IF r.token \notin DOMAIN w.tokens \/ w.tokens[r.token].project # r.path[3]
       THEN "unauthorized"
  ELSE IF ScopeAllows(w.tokens[r.token].scopes, scope) THEN NoError ELSE "forbidden"

Check(check, r, w) ==
  CASE check = "project" -> IF r.path[3] \in w.projects THEN NoError ELSE "PROJECT_NOT_FOUND"
    [] check = "dataset" -> IF r.path[5] \in DOMAIN w.datasets /\ w.datasets[r.path[5]] = r.path[3]
                            THEN NoError ELSE "DATASET_NOT_FOUND"
    [] check = "input"   -> IF r.complete THEN NoError ELSE "input"
    [] OTHER             -> RequireScope(r, check, w)

ErrorAnswer(h, e) ==
  IF e = "input" THEN IF h.errors = "api" THEN Refusal(400, "VALIDATION_ERROR") ELSE Text(400)
  ELSE IF e = Missing THEN Text(404)
  ELSE IF e = "unavailable" THEN [status |-> 503, body |-> h.body, code |-> ""]
  ELSE CASE h.errors = "core"     -> CoreError(e)
         [] h.errors = "entity"   -> UpdateEntityError(e)
         [] h.errors = "api"      -> ToApiError(e)
         [] h.errors = "platform" -> MapPlatformError(e)
         [] h.errors = "public"   -> PublicError(e)

(* What is answered to r when the service, if it is called, ends with e.     *)
Handle(h, r, e, w) ==
  LET failing == {i \in DOMAIN h.checks : Check(h.checks[i], r, w) # NoError}
  IN IF failing # {}
     THEN ErrorAnswer(h, Check(h.checks[CHOOSE i \in failing : \A j \in failing : i =< j], r, w))
     ELSE IF e # NoError THEN ErrorAnswer(h, e)
     ELSE [status |-> h.status, body |-> h.body, code |-> ""]

Respond(r, e, w) ==
  LET serving == Served(r.method, r.path)
  IN IF serving = {} THEN Text(404)
     ELSE IF Guard(r, w) # NoError THEN Guard(r, w)
     ELSE Handle(CHOOSE h \in serving : TRUE, r, e, w)

-----------------------------------------------------------------------------
(* The SDK: the requests its methods send.  expects is "data" where the      *)
(* method unwraps { data }.                                                  *)
Sends(method, path, expects) ==
  [method |-> method, path |-> path, expects |-> expects, complete |-> TRUE]

SdkDatasets(p, d) ==
  {Sends("GET", <<"api", "projects", p, "datasets">>, "data"),
   Sends("GET", <<"api", "projects", p, "datasets", d>>, "data"),
   Sends("POST", <<"api", "projects", p, "datasets">>, "data"),
   Sends("PATCH", <<"api", "projects", p, "datasets", d>>, "data")}

SdkProjects(p, x) ==
  {Sends("GET", <<"api", "projects">>, "data"), Sends("GET", <<"api", "projects", p>>, "data"),
   Sends("GET", <<"api", "projects", "by-slug", x>>, "data")}

SdkPlatform(p, x) ==
  {Sends(method, <<"api", "projects", p, name>>, "data") :
     method \in {"GET", "POST"}, name \in {"sources", "saved-imports", "routes"}}
  \union {Sends("POST", <<"api", "projects", p, "saved-imports", x, "run">>, "data")}
  \union {Sends("PATCH", <<"api", "projects", p, name, x>>, "data") : name \in {"saved-imports", "routes"}}

SdkSchemas(x) ==
  {Sends("GET", <<"schemas">>, "bare"), Sends("GET", <<"schemas", x>>, "bare"),
   Sends("POST", <<"schemas">>, "bare")}

SdkEntities(x) ==
  {Sends("GET", <<"entities">>, "bare"), Sends("GET", <<"entities", x>>, "bare"),
   Sends("PUT", <<"entities", x>>, "bare"), Sends("GET", <<"entities", x, "revisions", x>>, "bare")}

SdkQuery == {Sends("GET", <<"query">>, "bare"), Sends("GET", <<"query", "explain">>, "bare")}

SdkImport ==
  {Sends("POST", <<"import", "analyze">>, "bare"), Sends("POST", <<"import", "run">>, "bare"),
   Sends("GET", <<"imports">>, "bare")}

SdkStats == {Sends("GET", <<"stats">>, "bare")}

SdkHealth == {Sends("GET", <<"health">>, "bare")}

SdkPublished(x) == {Sends("GET", <<"public", x, "v1", x>>, "bare")}

SdkOfProject(p, d, x) == SdkDatasets(p, d) \union SdkPlatform(p, x)

SdkCalls(p, d, x) ==
  SdkProjects(p, x) \union SdkOfProject(p, d, x) \union SdkSchemas(x) \union SdkEntities(x)
    \union SdkQuery \union SdkImport \union SdkStats \union SdkHealth \union SdkPublished(x)

(* What a method makes of an answer: health.check reads any body; the others  *)
(* read a body that is ok, and raise the conflict error only for a conflict   *)
(* of revisions, whatever else is answered with 409.                          *)
Outcome(c, a) ==
  IF a.status \in 200..299 \/ c \in SdkHealth
  THEN IF a.body = c.expects THEN "data" ELSE "undefined"
  ELSE IF a.status = 409 /\ a.code = "concurrency_conflict" THEN "ConcurrencyConflictError"
  ELSE "AuriiError"

Asked(c, token) ==
  [method |-> c.method, path |-> c.path, token |-> token, complete |-> c.complete]

(* What the service behind the handler of c may end with.                    *)
EndsFor(c) ==
  IF c \in SdkHealth THEN {NoError, "unavailable"}
  ELSE ServiceErrors \union {NoError}
         \union (IF c.method = "PUT" THEN {"concurrency_conflict"} ELSE {})

Expected(c, e) ==
  IF e = NoError \/ c \in SdkHealth THEN "data"
  ELSE IF e = "concurrency_conflict" THEN "ConcurrencyConflictError"
  ELSE "AuriiError"

(* Every method of the SDK reaches a handler that answers in the form it      *)
(* reads, for a client with the global token and, within its own project,     *)
(* for one with an administrator's token of the project; and a client is told *)
(* of a conflict of revisions exactly when there is one.  x stands for an id  *)
(* or slug of anything else.                                                  *)
ServesSdk(w, x) ==
  \A p \in w.projects : \A d \in {d \in DOMAIN w.datasets : w.datasets[d] = p} :
    LET own == {t \in DOMAIN w.tokens : w.tokens[t].project = p
                                          /\ ScopeAllows(w.tokens[t].scopes, "project:admin")}
        Reads(c, t) == \A e \in EndsFor(c) : Outcome(c, Respond(Asked(c, t), e, w)) = Expected(c, e)
    IN /\ \A c \in SdkCalls(p, d, x) : Reads(c, GlobalToken)
       /\ \A c \in SdkOfProject(p, d, x), t \in own : Reads(c, t)
=============================================================================
