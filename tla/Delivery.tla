------------------------------ MODULE Delivery ------------------------------
(***************************************************************************)
(* Published routes and the packages that declare them: visitors read      *)
(* routes, administrators operate them and the data sources beside them,   *)
(* and registrars bind a project package, over HTTP or in process, each    *)
(* request going through its service await by await over the durable       *)
(* stores.  One project has the package's slug and one dataset is the      *)
(* package's; definitions, data and the cache settings are left out.       *)
(***************************************************************************)
EXTENDS HttpApi

CONSTANTS
  Visitors, Admins, Registrars,
  Project, Other, Dataset,    \* ids; Other is a project beside the package's
  Sources, Imports, Routes,   \* ids of the package's resources
  Package,      \* the resources in the order they are bound: <<kind, id>>
  PathOf,       \* the path of each route, a tuple of segments
  Paths,        \* the paths visitors ask for
  Tokens,       \* project tokens an administrator may issue
  None,
  MaxVisits, MaxAttempts, MaxChanges, MaxFailures   \* bounds

Clients == Visitors \union Admins \union Registrars

Accesses == {"public", "authenticated", "private"}

RouteRow == [enabled : BOOLEAN, access : Accesses, hits : Nat]

Resources == ({"source"} \X Sources) \union ({"import"} \X Imports) \union ({"route"} \X Routes)

Kinds == {"source", "import", "route", "patch", "edit", "project", "visit", "test"}

StageNames ==
  {"slug", "list", "writable", "owned", "schema", "read", "write", "insert", "execute", "data",
   "hit", "answer"}

Outcomes == {"created", "upserted", "exists", "failed"}

(* A package has something to bind; ids of projects are made by the program;  *)
(* None and NoError are no values of the program.                            *)
ASSUME DeliveryAssumption ==
  /\ Visitors \intersect Admins = {} /\ Visitors \intersect Registrars = {}
  /\ Admins \intersect Registrars = {}
  /\ Package \in Seq(Resources) /\ Package # <<>>
  /\ None \notin Kinds \union StageNames \union Outcomes \union {"edited"}
  /\ None \notin BOOLEAN \union RouteRow
  /\ NoError \notin ServiceErrors
  /\ "by-slug" \notin {Project, Other}

VARIABLES
  status,     \* the project's status, or None before it is created
  owner,      \* the project of the dataset, or None
  schema,     \* whether the dataset has the routes' schema
  tokens,     \* the project's live tokens, with their scopes
  sources, imports, routes,   \* the platform store: rows by id, or None
  req,        \* the request each client is in
  binding,    \* the state of each registrar's program
  served,     \* how often each route was served
  published,  \* the routes an operator has enabled
  changes,    \* how many operations administrators have started
  failures    \* how many awaits have failed

world == <<status, owner, schema, tokens>>
store == <<sources, imports, routes>>
vars  == <<world, store, req, binding, served, published, changes, failures>>

NoRequest == [kind |-> None, id |-> None, at |-> None, enabled |-> None, access |-> None,
              seen |-> None, path |-> None, token |-> None]

NoBinding == [mode |-> None, at |-> "off", item |-> 1,
              said |-> [i \in DOMAIN Package |-> None], attempts |-> 0]

World ==
  [locked   |-> TRUE,
   projects |-> {Other} \union (IF status = None THEN {} ELSE {Project}),
   datasets |-> IF owner = None THEN <<>> ELSE [d \in {Dataset} |-> owner],
   tokens   |-> [t \in DOMAIN tokens |-> [project |-> Project, scopes |-> tokens[t]]]]

Init ==
  /\ \/ status = None /\ owner = None /\ schema = FALSE /\ tokens = <<>>
     \/ /\ status = "active" /\ owner = Project /\ schema = TRUE
        /\ tokens = [t \in Tokens |-> {"project:admin"}]
  /\ sources = [s \in Sources |-> None]
  /\ imports = [i \in Imports |-> None]
  /\ routes = [r \in Routes |-> None]
  /\ req = [c \in Clients |-> NoRequest]
  /\ binding = [g \in Registrars |-> NoBinding]
  /\ served = [r \in Routes |-> 0]
  /\ published = {}
  /\ changes = 0 /\ failures = 0

-----------------------------------------------------------------------------
(* Requests.  Every kind passes its stages in order; a stage is what happens *)
(* between two awaits.                                                       *)
Stages(kind) ==
  CASE kind \in {"source", "import"} -> <<"writable", "owned", "read", "write", "answer">>
    [] kind = "route"                -> <<"writable", "owned", "schema", "read", "write", "answer">>
    [] kind = "patch"                -> <<"read", "writable", "owned", "schema", "write", "answer">>
    [] kind = "edit"                 -> <<"read", "writable", "owned", "write", "answer">>
    [] kind = "project"              -> <<"slug", "insert", "answer">>
    [] kind = "visit"                -> <<"slug", "list", "execute", "data", "hit">>
    [] kind = "test"                 -> <<"read", "execute", "data", "hit">>

Begin(kind, id) == [NoRequest EXCEPT !.kind = kind, !.id = id, !.at = Head(Stages(kind))]

At(c, stage) == req[c].kind # None /\ req[c].at = stage

Advanced(q) ==
  LET s == Stages(q.kind)
      i == CHOOSE i \in DOMAIN s : s[i] = q.at
  IN [q EXCEPT !.at = s[i + 1]]

Advance(c) == req' = [req EXCEPT ![c] = Advanced(@)]

(* What exists already, in process: an error of the platform whose status is  *)
(* 409; errors of projects and datasets have no status.  A bug: what is       *)
(* answered with 409.                                                         *)
IsConflictByHttp(e) == MapPlatformError(e).status = 409

IsConflict(e) == e \in DOMAIN PlatformErrors /\ PlatformErrors[e] = 409

(* The status a registrar's POST is answered with.                           *)
CollectionOf(kind) ==
  [source |-> "sources", import |-> "saved-imports", route |-> "routes"][kind]

Posted(kind) ==
  [method |-> "POST", token |-> GlobalToken, complete |-> TRUE,
   path |-> IF kind = "project" THEN <<"api", "projects">>
            ELSE <<"api", "projects", Project, CollectionOf(kind)>>]

Reply(kind, e) == Respond(Posted(kind), e, World).status

(* What a registrar makes of the end of its request: an outcome, or None when *)
(* it throws.                                                                 *)
OutcomeOverHttp(kind, e) ==
  LET reply == Reply(kind, e)
  IN CASE reply = 201                                    -> IF kind = "route" THEN "upserted" ELSE "created"
       [] reply = 409 /\ kind \in {"source", "import"}    -> "exists"
       [] OTHER                                          -> None

OutcomeInProcess(mode, kind, e) ==
  IF e = NoError THEN IF kind = "route" THEN "upserted" ELSE "created"
  ELSE IF kind = "route" THEN IF mode = "lenient" THEN "failed" ELSE None
  ELSE IF IsConflict(e) THEN "exists" ELSE None

OutcomeOf(mode, kind, e) ==
  IF mode = "http" THEN OutcomeOverHttp(kind, e) ELSE OutcomeInProcess(mode, kind, e)

Continued(b, kind, outcome) ==
  IF outcome = None THEN [b EXCEPT !.at = "failed"]
  ELSE IF kind = "project" THEN [b EXCEPT !.at = "bind"]
  ELSE IF b.item = Len(Package) THEN [b EXCEPT !.at = "done", !.said[b.item] = outcome]
  ELSE [b EXCEPT !.item = @ + 1, !.said[b.item] = outcome]

(* The request of c ends, with error e or without; a registrar's program      *)
(* goes on from the answer.                                                   *)
End(c, e) ==
  /\ req' = [req EXCEPT ![c] = NoRequest]
  /\ binding' = IF c \notin Registrars THEN binding
                ELSE [binding EXCEPT ![c] = Continued(@, req[c].kind, OutcomeOf(@.mode, req[c].kind, e))]

Refuse(c, e) == End(c, e) /\ UNCHANGED <<world, store, served, published, changes, failures>>

Proceed(c) == Advance(c) /\ UNCHANGED <<world, store, binding, served, published, changes, failures>>

-----------------------------------------------------------------------------
(* The checks the services share.                                            *)
CheckWritable(c) ==
  /\ At(c, "writable")
  /\ IF owner = None THEN Refuse(c, "DATASET_NOT_FOUND")
     ELSE IF owner = Project /\ status # "active" THEN Refuse(c, "PROJECT_NOT_WRITABLE")
     ELSE Proceed(c)

CheckOwned(c) ==
  /\ At(c, "owned")
  /\ IF owner # Project THEN Refuse(c, "DATASET_NOT_FOUND") ELSE Proceed(c)

(* The schema is looked up when a route is published, and when one is enabled.  *)
CheckSchema(c) ==
  /\ At(c, "schema")
  /\ IF schema \/ (req[c].kind = "patch" /\ req[c].enabled # TRUE)
     THEN Proceed(c) ELSE Refuse(c, "validation_error")

-----------------------------------------------------------------------------
(* Data sources and saved imports.                                           *)
TableOf(kind) == CASE kind \in {"source", "edit"} -> sources
                   [] kind = "import"             -> imports
                   [] OTHER                       -> routes

ReadRow(c) ==
  /\ At(c, "read")
  /\ LET q   == req[c]
         row == TableOf(q.kind)[q.id]
     IN IF q.kind \in {"source", "import"} /\ row # None THEN Refuse(c, "conflict")
        ELSE IF q.kind \in {"edit", "patch", "test"} /\ row = None THEN Refuse(c, "not_found")
        ELSE /\ req' = [req EXCEPT ![c] = [Advanced(@) EXCEPT !.seen = IF q.kind \in {"route", "patch"} THEN row ELSE None]]
             /\ UNCHANGED <<world, store, binding, served, published, changes, failures>>

(* A bug: an insertion that replaces the row of its key.                     *)
InsertSourceAnyway(c) ==
  /\ At(c, "write") /\ req[c].kind = "source"
  /\ sources' = [sources EXCEPT ![req[c].id] = "created"]
  /\ Advance(c)
  /\ UNCHANGED <<world, imports, routes, binding, served, published, changes, failures>>

(* A second insertion under one key is refused by the primary key.           *)
InsertSource(c) ==
  /\ At(c, "write") /\ req[c].kind = "source"
  /\ IF sources[req[c].id] # None THEN Refuse(c, Unexpected)
     ELSE /\ sources' = [sources EXCEPT ![req[c].id] = "created"]
          /\ Advance(c)
          /\ UNCHANGED <<world, imports, routes, binding, served, published, changes, failures>>

InsertImport(c) ==
  /\ At(c, "write") /\ req[c].kind = "import"
  /\ IF imports[req[c].id] # None THEN Refuse(c, Unexpected)
     ELSE /\ imports' = [imports EXCEPT ![req[c].id] = "created"]
          /\ Advance(c)
          /\ UNCHANGED <<world, sources, routes, binding, served, published, changes, failures>>

UpdateSource(c) ==
  /\ At(c, "write") /\ req[c].kind = "edit"
  /\ sources' = [sources EXCEPT ![req[c].id] = "edited"]
  /\ Advance(c)
  /\ UNCHANGED <<world, imports, routes, binding, served, published, changes, failures>>

-----------------------------------------------------------------------------
(* Published routes: the row an upsert stores, from the input, the row read   *)
(* and the defaults, and the row a patch stores, from the input and the row   *)
(* read.                                                                      *)
Given(input, otherwise) == IF input # None THEN input ELSE otherwise

(* A bug: a route nobody has enabled starts out enabled and public.           *)
EnabledAtFirst(q) ==
  IF q.seen = None
  THEN [enabled |-> Given(q.enabled, TRUE), access |-> Given(q.access, "public"), hits |-> 0]
  ELSE [enabled |-> Given(q.enabled, q.seen.enabled), access |-> Given(q.access, q.seen.access),
        hits |-> q.seen.hits]

UpsertedRoute(q) ==
  IF q.seen = None
  THEN [enabled |-> Given(q.enabled, FALSE), access |-> Given(q.access, "private"), hits |-> 0]
  ELSE [enabled |-> Given(q.enabled, q.seen.enabled), access |-> Given(q.access, q.seen.access),
        hits |-> q.seen.hits]

PatchedRoute(q) ==
  [enabled |-> Given(q.enabled, q.seen.enabled), access |-> Given(q.access, q.seen.access),
   hits |-> q.seen.hits]

WriteRoute(c) ==
  /\ At(c, "write") /\ req[c].kind \in {"route", "patch"}
  /\ LET q   == req[c]
         row == IF q.kind = "route" THEN UpsertedRoute(q) ELSE PatchedRoute(q)
     IN /\ routes' = [routes EXCEPT ![q.id] = row]
        /\ published' = IF c \in Admins /\ q.enabled = TRUE THEN published \union {q.id} ELSE published
  /\ Advance(c)
  /\ UNCHANGED <<world, sources, imports, binding, served, changes, failures>>

(* The audit event is appended and the request answered.                     *)
AnswerRequest(c) == At(c, "answer") /\ Refuse(c, NoError)

(* An await is rejected, or the process goes down and the client hears so.    *)
RequestFails(c) ==
  /\ req[c].kind # None /\ failures < MaxFailures
  /\ failures' = failures + 1
  /\ End(c, Unexpected)
  /\ UNCHANGED <<world, store, served, published, changes>>

-----------------------------------------------------------------------------
(* Administrators.                                                           *)
Edits == [kind : {"route"}, id : Routes, enabled : {TRUE, None}, access : {"authenticated", None}]
         \union [kind : {"patch"}, id : Routes, enabled : BOOLEAN, access : {None}]

Idle(c) == req[c] = NoRequest

Change == changes < MaxChanges /\ changes' = changes + 1

StartEdit(a) ==
  /\ Change
  /\ Idle(a)
  /\ \/ \E e \in Edits :
          req' = [req EXCEPT ![a] = [Begin(e.kind, e.id) EXCEPT !.enabled = e.enabled, !.access = e.access]]
     \/ \E kind \in {"source", "edit"}, s \in Sources : req' = [req EXCEPT ![a] = Begin(kind, s)]
     \/ \E r \in Routes : req' = [req EXCEPT ![a] = [Begin("test", r) EXCEPT !.path = PathOf[r]]]
  /\ UNCHANGED <<world, store, binding, served, published, failures>>

AllowedTransitions ==
  [active |-> {"inactive", "archived"}, inactive |-> {"active", "archived"}, archived |-> {"active"}]

SetStatus(s) ==
  /\ Change
  /\ status # None /\ s \in AllowedTransitions[status]
  /\ status' = s
  /\ UNCHANGED <<owner, schema, tokens, store, req, binding, served, published, failures>>

(* The dataset is created in the project, or moved to it or away from it; its *)
(* schema is registered.                                                      *)
PlaceDataset(p) ==
  /\ Change
  /\ p \in World.projects \ {owner}
  /\ owner' = p
  /\ UNCHANGED <<status, schema, tokens, store, req, binding, served, published, failures>>

RegisterSchema ==
  /\ Change
  /\ owner # None /\ ~schema
  /\ schema' = TRUE
  /\ UNCHANGED <<status, owner, tokens, store, req, binding, served, published, failures>>

CreateToken(t, scopes) ==
  /\ Change
  /\ status # None /\ t \notin DOMAIN tokens
  /\ tokens' = [u \in DOMAIN tokens \union {t} |-> IF u = t THEN scopes ELSE tokens[u]]
  /\ UNCHANGED <<status, owner, schema, store, req, binding, served, published, failures>>

RevokeToken(t) ==
  /\ Change
  /\ t \in DOMAIN tokens
  /\ tokens' = [u \in DOMAIN tokens \ {t} |-> tokens[u]]
  /\ UNCHANGED <<status, owner, schema, store, req, binding, served, published, failures>>

-----------------------------------------------------------------------------
(* Visitors.                                                                 *)
Visits == [path : Paths, token : Tokens \union {NoToken}]

StartVisit(v) ==
  /\ Idle(v) /\ \A r \in Routes : served[r] < MaxVisits
  /\ \E x \in Visits :
       req' = [req EXCEPT ![v] = [Begin("visit", None) EXCEPT !.path = x.path, !.token = x.token]]
  /\ UNCHANGED <<world, store, binding, served, published, changes, failures>>

VisitProject(v) ==
  /\ At(v, "slug") /\ req[v].kind = "visit"
  /\ IF status = None THEN Refuse(v, "PROJECT_NOT_FOUND") ELSE Proceed(v)

(* The rows of a listing that a path fits; a SELECT gives them in any order.  *)
Listed(path) == {r \in Routes : routes[r] # None /\ PathFits(PathOf[r], path)}

(* The handler looks for an enabled route; whether it asks for a token        *)
(* depends on the one it finds.                                               *)
ListRoutes(v) ==
  /\ At(v, "list")
  /\ LET enabled == {r \in Listed(req[v].path) : routes[r].enabled}
     IN \/ enabled = {} /\ Refuse(v, Missing)
        \/ \E r \in enabled :
             IF routes[r].access = "authenticated" /\ req[v].token \notin DOMAIN tokens
             THEN Refuse(v, "unauthorized") ELSE Proceed(v)

(* execute lists again and takes the first route the path fits, whatever its  *)
(* state.                                                                     *)
Execute(c) ==
  /\ At(c, "execute")
  /\ \/ Listed(req[c].path) = {} /\ Refuse(c, Missing)
     \/ \E r \in Listed(req[c].path) :
          IF ~routes[r].enabled THEN Refuse(c, Missing)
          ELSE IF routes[r].access = "private" THEN Refuse(c, "forbidden")
          ELSE IF routes[r].access # "public" /\ req[c].kind = "visit" /\ req[c].token = NoToken
               THEN Refuse(c, "unauthorized")
          ELSE /\ req' = [req EXCEPT ![c] = [Advanced(@) EXCEPT !.id = r, !.seen = routes[r]]]
               /\ UNCHANGED <<world, store, binding, served, published, changes, failures>>

ReadData(c) ==
  /\ At(c, "data")
  /\ IF owner # Project THEN Refuse(c, "DATASET_NOT_FOUND") ELSE Proceed(c)

Counted(seen) == [seen EXCEPT !.hits = @ + 1]

(* The listed row is published back with one more hit and the data answered.    *)
CountHit(c) ==
  /\ At(c, "hit")
  /\ routes' = [routes EXCEPT ![req[c].id] = Counted(req[c].seen)]
  /\ served' = [served EXCEPT ![req[c].id] = @ + 1]
  /\ End(c, NoError)
  /\ UNCHANGED <<world, sources, imports, published, changes, failures>>

-----------------------------------------------------------------------------
(* Registrars: registerProjectPackage over HTTP, or applyProjectPackage in    *)
(* process, strict or lenient about routes; run again after a failure.        *)
Attempt(g) ==
  /\ binding[g].at \in {"off", "failed"} /\ binding[g].attempts < MaxAttempts
  /\ \/ binding' = [binding EXCEPT ![g] = [NoBinding EXCEPT !.mode = "http", !.at = "list",
                                                            !.attempts = binding[g].attempts + 1]]
     \/ /\ status # None
        /\ \E mode \in {"strict", "lenient"} :
             binding' = [binding EXCEPT ![g] = [NoBinding EXCEPT !.mode = mode, !.at = "bind",
                                                                 !.attempts = binding[g].attempts + 1]]
  /\ UNCHANGED <<world, store, req, served, published, changes, failures>>

ListProjects(g) ==
  /\ binding[g].at = "list" /\ Idle(g)
  /\ IF status # None
     THEN binding' = [binding EXCEPT ![g].at = "bind"] /\ UNCHANGED req
     ELSE binding' = [binding EXCEPT ![g].at = "create"] /\ req' = [req EXCEPT ![g] = Begin("project", None)]
  /\ UNCHANGED <<world, store, served, published, changes, failures>>

CheckSlug(g) ==
  /\ At(g, "slug") /\ req[g].kind = "project"
  /\ IF status # None THEN Refuse(g, "PROJECT_SLUG_CONFLICT") ELSE Proceed(g)

InsertProject(g) ==
  /\ At(g, "insert")
  /\ IF status # None THEN Refuse(g, Unexpected)
     ELSE /\ status' = "active"
          /\ Advance(g)
          /\ UNCHANGED <<owner, schema, tokens, store, binding, served, published, changes, failures>>

(* The payload of a route names its settings, taken from the definition's     *)
(* defaults, whatever the stored route has.                                   *)
BindNext(g) ==
  /\ binding[g].at = "bind" /\ Idle(g)
  /\ LET item == Package[binding[g].item]
         q    == Begin(item[1], item[2])
     IN req' = [req EXCEPT ![g] = IF item[1] = "route"
                                  THEN [q EXCEPT !.enabled = FALSE, !.access = "public"] ELSE q]
  /\ UNCHANGED <<world, store, binding, served, published, changes, failures>>

-----------------------------------------------------------------------------
Step(c) ==
  \/ CheckWritable(c) \/ CheckOwned(c) \/ CheckSchema(c) \/ ReadRow(c)
  \/ InsertSource(c) \/ InsertImport(c) \/ UpdateSource(c) \/ WriteRoute(c)
  \/ AnswerRequest(c) \/ RequestFails(c)
  \/ Execute(c) \/ ReadData(c) \/ CountHit(c)

Next ==
  \/ \E c \in Clients : Step(c)
  \/ \E a \in Admins : StartEdit(a)
  \/ \E s \in {"active", "inactive", "archived"} : SetStatus(s)
  \/ \E p \in {Project, Other} : PlaceDataset(p)
  \/ RegisterSchema
  \/ \E t \in Tokens : CreateToken(t, {"project:admin"}) \/ RevokeToken(t)
  \/ \E v \in Visitors : StartVisit(v) \/ VisitProject(v) \/ ListRoutes(v)
  \/ \E g \in Registrars :
       Attempt(g) \/ ListProjects(g) \/ CheckSlug(g) \/ InsertProject(g) \/ BindNext(g)

Spec == Init /\ [][Next]_vars

-----------------------------------------------------------------------------
(* Whether the given tables have the row of an item of a package.            *)
HasRow(source, import, route, item) ==
  CASE item[1] = "source" -> source[item[2]] # None
    [] item[1] = "import" -> import[item[2]] # None
    [] item[1] = "route"  -> route[item[2]] # None

Present(item) == HasRow(sources, imports, routes, item)

(* What a registrar reports of a resource is true: what it says it created or *)
(* stored is there, and so is what it says exists already, as far as it is    *)
(* told; over HTTP, 409 does not tell it apart from a project that refuses    *)
(* writes.                                                                    *)
ReportsAreTrue ==
  \A g \in Registrars, i \in DOMAIN Package :
    LET said == binding[g].said[i]
    IN (said \in {"created", "upserted"} \/ (said = "exists" /\ binding[g].mode # "http"))
       => Present(Package[i])

(* A registrar that ends without an error has bound the whole package.        *)
RegistrationIsComplete ==
  \A g \in Registrars, i \in DOMAIN Package :
    binding[g].at = "done" /\ binding[g].said[i] # "failed" => Present(Package[i])

(* In process even what exists already is known, so a registrar that ends     *)
(* without an error has bound all it does not report as failed.               *)
InProcessIsComplete ==
  \A g \in Registrars, i \in DOMAIN Package :
    binding[g].at = "done" /\ binding[g].mode # "http" /\ binding[g].said[i] # "failed"
      => Present(Package[i])

(* Existing data sources and saved imports are kept by registrars.            *)
PackageKeepsExisting ==
  [][(\E g \in Registrars : req'[g] # req[g])
     => /\ \A s \in Sources : sources[s] # None => sources'[s] = sources[s]
        /\ \A i \in Imports : imports[i] # None => imports'[i] = imports[i]]_vars

(* A route is served only after an operator enabled it: registering a package *)
(* does not publish, and a route never has more hits than it was served.      *)
OnlyOperatorsPublish ==
  \A r \in Routes :
    /\ served[r] > 0 => r \in published
    /\ routes[r] # None => routes[r].hits =< served[r]

(* Whatever the state of projects, datasets and tokens, the SDK is served.    *)
Worlds ==
  {[locked |-> TRUE, projects |-> ps, datasets |-> ds, tokens |-> ts] :
     ps \in {{Other}, {Other, Project}},
     ds \in {<<>>} \union [{Dataset} -> {Project, Other}],
     ts \in UNION {[T -> {[project |-> Project, scopes |-> {"project:admin"}]}] : T \in SUBSET Tokens}}

ServedWorlds == UNION {IF ServesSdk(w, None) THEN {w} ELSE {} : w \in Worlds}

SdkIsServed == World \in ServedWorlds

-----------------------------------------------------------------------------
(* The inductive invariant *)

Request ==
  [kind : Kinds \union {None}, id : Sources \union Imports \union Routes \union {None},
   at : StageNames \union {None}, enabled : BOOLEAN \union {None},
   access : Accesses \union {None}, seen : RouteRow \union {None},
   path : Paths \union {PathOf[r] : r \in Routes} \union {None},
   token : Tokens \union {NoToken, None}]

Binding ==
  [mode : {None, "http", "strict", "lenient"},
   at : {"off", "list", "create", "bind", "failed", "done"},
   item : DOMAIN Package,
   said : [DOMAIN Package -> Outcomes \union {None}],
   attempts : Nat]

TypeOK ==
  /\ sources \in [Sources -> {None, "created", "edited"}]
  /\ imports \in [Imports -> {None, "created"}]
  /\ routes \in [Routes -> RouteRow \union {None}]
  /\ req \in [Clients -> Request]
  /\ binding \in [Registrars -> Binding]
  /\ served \in [Routes -> Nat]

(* A request is in a stage of its kind, about an id of its kind, and asks     *)
(* only for what its client may ask for.                                      *)
RequestFits(c) ==
  LET q == req[c]
  IN /\ q.kind = None => q = NoRequest
     /\ q.kind # None => \E i \in DOMAIN Stages(q.kind) : q.at = Stages(q.kind)[i]
     /\ q.kind \in {"source", "edit"} => q.id \in Sources
     /\ q.kind = "import" => q.id \in Imports
     /\ q.kind \in {"route", "patch", "test"} => q.id \in Routes
     /\ c \notin Admins => q.enabled # TRUE
     /\ c \in Registrars => q.kind \in {None, "project", "source", "import", "route"}

(* The row a request has read and will write back was the route's: it has no  *)
(* more hits than the route was served, and is enabled only if an operator    *)
(* enabled the route.                                                         *)
SeenIsGenuine(c) ==
  LET q == req[c]
  IN /\ q.seen # None => /\ q.id \in Routes
                         /\ q.seen.hits =< served[q.id]
                         /\ q.seen.enabled => q.id \in published
     /\ q.kind = "patch" /\ q.at # "read" => q.seen # None
     /\ q.at \in {"data", "hit"} => q.seen # None /\ q.seen.enabled

(* What is about to be answered was written.                                  *)
AnsweredIsPresent(c) ==
  LET q == req[c]
  IN q.at = "answer" /\ q.kind \in {"source", "import", "route"} => Present(<<q.kind, q.id>>)

(* A registrar's request is for the item its program is at, and every item    *)
(* before it has its outcome.                                                 *)
BindsInOrder(g) ==
  LET q == req[g]
      b == binding[g]
  IN /\ q.kind # None => \/ b.at = "create" /\ q.kind = "project"
                         \/ b.at = "bind" /\ <<q.kind, q.id>> = Package[b.item]
     /\ \A i \in DOMAIN Package : i < b.item \/ b.at = "done" => b.said[i] # None

HitsAreServed ==
  \A r \in Routes : routes[r] # None => /\ routes[r].hits =< served[r]
                                        /\ routes[r].enabled => r \in published

(* What the guards read of the world.                                         *)
WorldFits ==
  /\ owner \in {None, Project, Other}
  /\ \A t \in DOMAIN tokens : t \in Tokens /\ tokens[t] = {"project:admin"}

DInv ==
  /\ TypeOK
  /\ \A c \in Clients : RequestFits(c) /\ SeenIsGenuine(c) /\ AnsweredIsPresent(c)
  /\ \A g \in Registrars : BindsInOrder(g)
  /\ HitsAreServed /\ ReportsAreTrue /\ OnlyOperatorsPublish
=============================================================================
