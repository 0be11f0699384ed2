--------------------------- MODULE DeliveryProofs ---------------------------
(***************************************************************************)
(* Proofs about Delivery, for any visitors, administrators and registrars, *)
(* any package and routes, and any number of changes and failed awaits.    *)
(***************************************************************************)
EXTENDS Delivery, TLAPS

LEMMA NoneIsNoValue ==
  /\ \A x \in Kinds \union StageNames \union Outcomes \union {"edited"} : x # None
  /\ \A x \in BOOLEAN \union RouteRow : x # None
BY DeliveryAssumption

(* None of the errors of this module is success.                            *)
LEMMA NoErrorIsNoCode ==
  \A e \in {"DATASET_NOT_FOUND", "PROJECT_NOT_WRITABLE", "PROJECT_NOT_FOUND",
            "PROJECT_SLUG_CONFLICT", "validation_error", "conflict", "not_found",
            "unauthorized", "forbidden", Unexpected, Missing} : e # NoError
<1>1. {"DATASET_NOT_FOUND", "PROJECT_NOT_WRITABLE", "PROJECT_NOT_FOUND",
       "PROJECT_SLUG_CONFLICT", "validation_error", "conflict", "not_found",
       "unauthorized", "forbidden", Unexpected, Missing} \subseteq ServiceErrors
  BY DEF ServiceErrors, ProjectErrors, DatasetErrors, PlatformErrors
<1> QED BY <1>1, DeliveryAssumption

-----------------------------------------------------------------------------
(* Answers *)

LEMMA NoErrorTableIsCreated ==
  /\ \A e \in DOMAIN ProjectErrors : ProjectErrors[e] # 201
  /\ \A e \in DOMAIN DatasetErrors : DatasetErrors[e] # 201
  /\ \A e \in DOMAIN PlatformErrors : PlatformErrors[e] # 201
<1>1. \A e \in DOMAIN ProjectErrors : ProjectErrors[e] # 201
  BY DEF ProjectErrors
<1>2. \A e \in DOMAIN DatasetErrors : DatasetErrors[e] # 201
  BY DEF DatasetErrors
<1>3. \A e \in DOMAIN PlatformErrors : PlatformErrors[e] # 201
  BY DEF PlatformErrors
<1> QED BY <1>1, <1>2, <1>3

LEMMA DomainErrorIsNotCreated ==
  ASSUME NEW e, NEW otherwise, otherwise.status # 201
  PROVE  DomainError(e, otherwise).status # 201
BY NoErrorTableIsCreated DEF DomainError, Refusal

(* No error is answered with 201, whatever handler it meets.                *)
LEMMA NoErrorIsCreated ==
  ASSUME NEW h, h.errors \in {"core", "entity", "api", "platform", "public"}, NEW e
  PROVE  ErrorAnswer(h, e).status # 201
<1> USE DEF Refusal, Text
<1>1. ToApiError(e).status # 201
  BY DomainErrorIsNotCreated DEF ToApiError
<1>2. CoreError(e).status # 201
  <2>1. Text(500).status # 201
    OBVIOUS
  <2> HIDE DEF Text
  <2> QED BY <2>1, DomainErrorIsNotCreated DEF CoreError
<1>3. /\ MapPlatformError(e).status # 201 /\ UpdateEntityError(e).status # 201
      /\ PublicError(e).status # 201
  BY <1>1, <1>2, NoErrorTableIsCreated DEF MapPlatformError, UpdateEntityError, PublicError
<1>4. CASE e = "input" \/ e = Missing \/ e = "unavailable"
  BY <1>4 DEF ErrorAnswer
<1>5. CASE ~(e = "input" \/ e = Missing \/ e = "unavailable")
  BY <1>1, <1>2, <1>3, <1>5 DEF ErrorAnswer
<1> QED
  BY <1>4, <1>5

LEMMA HandlersAnswerErrors ==
  \A h \in Handlers : h.errors \in {"core", "entity", "api", "platform", "public"}
<1> USE DEF On, Core, Api, Collection, Item, Operation
<1>1. \A h \in HealthHandlers \union SchemaHandlers \union QueryHandlers \union ImportHandlers
                 \union StatsHandlers : h.errors = "core"
  BY DEF HealthHandlers, SchemaHandlers, QueryHandlers, ImportHandlers, StatsHandlers
<1>2. \A h \in EntityHandlers : h.errors \in {"core", "entity"}
  BY DEF EntityHandlers
<1>3. \A h \in ProjectHandlers \union DatasetHandlers \union DatasetResourceHandlers : h.errors = "api"
  BY DEF ProjectHandlers, DatasetHandlers, DatasetResourceHandlers
<1>4. \A h \in SourceHandlers \union SavedImportHandlers \union RouteHandlers \union TokenHandlers
                 \union AuditHandlers : h.errors = "platform"
  BY DEF SourceHandlers, SavedImportHandlers, RouteHandlers, TokenHandlers, AuditHandlers
<1>5. \A h \in PublicHandlers : h.errors = "public"
  BY DEF PublicHandlers
<1> QED
  BY <1>1, <1>2, <1>3, <1>4, <1>5 DEF Handlers

(* 201 is answered only to a request whose service succeeded.               *)
LEMMA CreatedMeansSuccess ==
  ASSUME NEW r, NEW e, NEW w, Respond(r, e, w).status = 201
  PROVE  e = NoError
<1> DEFINE serving == Served(r.method, r.path)
           h == CHOOSE h \in serving : TRUE
<1>1. serving \subseteq Handlers
  BY DEF Served
<1>2. serving # {}
  BY DEF Respond, Text, Refusal
<1>3. Guard(r, w).status # 201 \/ Guard(r, w) = NoError
  BY DEF Guard, ProjectsGuard, CoreGuard, Text, Refusal
<1>4. h \in serving
  BY <1>2
<1>5. h \in Handlers
  BY <1>1, <1>4
<1>6. Handle(h, r, e, w).status = 201
  <2> HIDE DEF serving
  <2> QED BY <1>2, <1>3 DEF Respond, serving
<1> HIDE DEF h
<1>7. \A x : ErrorAnswer(h, x).status # 201
  BY <1>5, HandlersAnswerErrors, NoErrorIsCreated
<1> QED
  BY <1>6, <1>7 DEF Handle

(* A registrar that says it created or stored something was answered         *)
(* without an error; in process one that says it exists was told so.        *)
LEMMA OutcomesAreTold ==
  ASSUME NEW mode, NEW kind, NEW e
  PROVE  /\ OutcomeOf(mode, kind, e) \in Outcomes \union {None}
         /\ OutcomeOf(mode, kind, e) \in {"created", "upserted"} => e = NoError
         /\ OutcomeOf(mode, kind, e) = "exists" /\ mode # "http" => e = "conflict"
<1>1. \A x : IsConflict(x) => x = "conflict"
  BY DEF IsConflict, PlatformErrors
<1>2. None \notin Outcomes /\ "created" \in Outcomes /\ "upserted" \in Outcomes
        /\ "exists" \in Outcomes /\ "failed" \in Outcomes
  BY NoneIsNoValue DEF Outcomes
<1>3. Reply(kind, e) = 201 => e = NoError
  BY CreatedMeansSuccess DEF Reply
<1>4. CASE mode = "http"
  BY <1>2, <1>3, <1>4 DEF OutcomeOf, OutcomeOverHttp
<1>5. CASE mode # "http"
  BY <1>1, <1>2, <1>5 DEF OutcomeOf, OutcomeInProcess
<1> QED
  BY <1>4, <1>5

-----------------------------------------------------------------------------
(* Stages *)


(* The stages of a kind are all different, and what they lead to.           *)
InOrder(s) ==
  \A i \in 1 .. Len(s) :
    /\ s[i] \in StageNames
    /\ \A j \in 1 .. Len(s) : s[i] = s[j] => i = j
    /\ s[i] \notin {"answer", "hit"} => i + 1 \in 1 .. Len(s)
    /\ \A j \in 1 .. Len(s) : j = i + 1 =>
         /\ s[j] = "answer" => s[i] \in {"write", "insert"}
         /\ s[j] \in {"data", "hit"} => s[i] \in {"execute", "data"}

LEMMA StagesInOrder ==
  ASSUME NEW kind \in Kinds
  PROVE  InOrder(Stages(kind)) /\ DOMAIN Stages(kind) = 1 .. Len(Stages(kind))
<1>1. CASE kind \in {"source", "import"}
  <2> DEFINE s == <<"writable", "owned", "read", "write", "answer">>
  <2>1. Stages(kind) = s
    BY <1>1 DEF Stages
  <2>2. Len(s) = 5 /\ DOMAIN s = 1 .. 5 /\ \A i \in 1 .. 5 : i \in {1, 2, 3, 4, 5}
    OBVIOUS
  <2>3. /\ s[1] = "writable" /\ s[2] = "owned" /\ s[3] = "read"
        /\ s[4] = "write" /\ s[5] = "answer"
    OBVIOUS
  <2> HIDE DEF s
  <2>4. InOrder(s)
    BY <2>2, <2>3 DEF InOrder, StageNames
  <2> QED BY <2>1, <2>2, <2>4
<1>2. CASE kind = "route"
  <2> DEFINE s == <<"writable", "owned", "schema", "read", "write", "answer">>
  <2>1. Stages(kind) = s
    BY <1>2 DEF Stages
  <2>2. Len(s) = 6 /\ DOMAIN s = 1 .. 6 /\ \A i \in 1 .. 6 : i \in {1, 2, 3, 4, 5, 6}
    OBVIOUS
  <2>3. /\ s[1] = "writable" /\ s[2] = "owned" /\ s[3] = "schema"
        /\ s[4] = "read" /\ s[5] = "write" /\ s[6] = "answer"
    OBVIOUS
  <2> HIDE DEF s
  <2>4. InOrder(s)
    BY <2>2, <2>3 DEF InOrder, StageNames
  <2> QED BY <2>1, <2>2, <2>4
<1>3. CASE kind = "patch"
  <2> DEFINE s == <<"read", "writable", "owned", "schema", "write", "answer">>
  <2>1. Stages(kind) = s
    BY <1>3 DEF Stages
  <2>2. Len(s) = 6 /\ DOMAIN s = 1 .. 6 /\ \A i \in 1 .. 6 : i \in {1, 2, 3, 4, 5, 6}
    OBVIOUS
  <2>3. /\ s[1] = "read" /\ s[2] = "writable" /\ s[3] = "owned"
        /\ s[4] = "schema" /\ s[5] = "write" /\ s[6] = "answer"
    OBVIOUS
  <2> HIDE DEF s
  <2>4. InOrder(s)
    BY <2>2, <2>3 DEF InOrder, StageNames
  <2> QED BY <2>1, <2>2, <2>4
<1>4. CASE kind = "edit"
  <2> DEFINE s == <<"read", "writable", "owned", "write", "answer">>
  <2>1. Stages(kind) = s
    BY <1>4 DEF Stages
  <2>2. Len(s) = 5 /\ DOMAIN s = 1 .. 5 /\ \A i \in 1 .. 5 : i \in {1, 2, 3, 4, 5}
    OBVIOUS
  <2>3. /\ s[1] = "read" /\ s[2] = "writable" /\ s[3] = "owned"
        /\ s[4] = "write" /\ s[5] = "answer"
    OBVIOUS
  <2> HIDE DEF s
  <2>4. InOrder(s)
    BY <2>2, <2>3 DEF InOrder, StageNames
  <2> QED BY <2>1, <2>2, <2>4
<1>5. CASE kind = "project"
  <2> DEFINE s == <<"slug", "insert", "answer">>
  <2>1. Stages(kind) = s
    BY <1>5 DEF Stages
  <2>2. Len(s) = 3 /\ DOMAIN s = 1 .. 3 /\ \A i \in 1 .. 3 : i \in {1, 2, 3}
    OBVIOUS
  <2>3. /\ s[1] = "slug" /\ s[2] = "insert" /\ s[3] = "answer"
    OBVIOUS
  <2> HIDE DEF s
  <2>4. InOrder(s)
    BY <2>2, <2>3 DEF InOrder, StageNames
  <2> QED BY <2>1, <2>2, <2>4
<1>6. CASE kind = "visit"
  <2> DEFINE s == <<"slug", "list", "execute", "data", "hit">>
  <2>1. Stages(kind) = s
    BY <1>6 DEF Stages
  <2>2. Len(s) = 5 /\ DOMAIN s = 1 .. 5 /\ \A i \in 1 .. 5 : i \in {1, 2, 3, 4, 5}
    OBVIOUS
  <2>3. /\ s[1] = "slug" /\ s[2] = "list" /\ s[3] = "execute"
        /\ s[4] = "data" /\ s[5] = "hit"
    OBVIOUS
  <2> HIDE DEF s
  <2>4. InOrder(s)
    BY <2>2, <2>3 DEF InOrder, StageNames
  <2> QED BY <2>1, <2>2, <2>4
<1>7. CASE kind = "test"
  <2> DEFINE s == <<"read", "execute", "data", "hit">>
  <2>1. Stages(kind) = s
    BY <1>7 DEF Stages
  <2>2. Len(s) = 4 /\ DOMAIN s = 1 .. 4 /\ \A i \in 1 .. 4 : i \in {1, 2, 3, 4}
    OBVIOUS
  <2>3. /\ s[1] = "read" /\ s[2] = "execute" /\ s[3] = "data"
        /\ s[4] = "hit"
    OBVIOUS
  <2> HIDE DEF s
  <2>4. InOrder(s)
    BY <2>2, <2>3 DEF InOrder, StageNames
  <2> QED BY <2>1, <2>2, <2>4
<1> QED
  BY <1>1, <1>2, <1>3, <1>4, <1>5, <1>6, <1>7 DEF Kinds

(* Only visits and tests execute a route.                                   *)
LEMMA ExecutedKinds ==
  ASSUME NEW kind \in Kinds, \E i \in DOMAIN Stages(kind) : Stages(kind)[i] = "execute"
  PROVE  kind \in {"visit", "test"}
BY DEF Stages, Kinds

(* A request that is not at its last stage goes on to the next; it is        *)
(* answered after it has written, and reads data after it has executed.     *)
LEMMA NextStage ==
  ASSUME NEW q \in Request, q.kind \in Kinds, q.at \notin {"answer", "hit"},
         \E i \in DOMAIN Stages(q.kind) : q.at = Stages(q.kind)[i]
  PROVE  \E stage \in StageNames :
           /\ Advanced(q) = [q EXCEPT !.at = stage]
           /\ \E i \in DOMAIN Stages(q.kind) : stage = Stages(q.kind)[i]
           /\ stage = "answer" => q.at \in {"write", "insert"}
           /\ stage \in {"data", "hit"} => q.at \in {"execute", "data"}
<1> DEFINE s == Stages(q.kind)
<1>1. InOrder(s) /\ DOMAIN s = 1 .. Len(s)
  BY StagesInOrder
<1>2. PICK i \in DOMAIN s : q.at = s[i]
  OBVIOUS
<1>3. (CHOOSE j \in DOMAIN s : s[j] = q.at) = i
  BY <1>1, <1>2 DEF InOrder
<1>4. Advanced(q) = [q EXCEPT !.at = s[i + 1]]
  BY <1>3 DEF Advanced
<1>5. i + 1 \in DOMAIN s
  BY <1>1, <1>2 DEF InOrder
<1> HIDE DEF s
<1>6. /\ s[i + 1] \in StageNames
      /\ s[i + 1] = "answer" => q.at \in {"write", "insert"}
      /\ s[i + 1] \in {"data", "hit"} => q.at \in {"execute", "data"}
  BY <1>1, <1>2, <1>5 DEF InOrder
<1> QED
  BY <1>4, <1>5, <1>6 DEF s

-----------------------------------------------------------------------------
(* What a step does *)

(* Rows stay, routes are served ever more and never unpublished.            *)
Keeps ==
  /\ \A x \in Resources : Present(x) => HasRow(sources', imports', routes', x)
  /\ \A r \in Routes : served'[r] >= served[r] /\ served'[r] \in Nat
  /\ published \subseteq published'

OthersStay(c) ==
  /\ \A d \in Clients \ {c} : req'[d] = req[d]
  /\ \A g \in Registrars \ {c} : binding'[g] = binding[g]

ClientOK(c) == RequestFits(c) /\ SeenIsGenuine(c) /\ AnsweredIsPresent(c)

SaysTrue(g) ==
  \A i \in DOMAIN Package :
    LET said == binding[g].said[i]
    IN (said \in {"created", "upserted"} \/ (said = "exists" /\ binding[g].mode # "http"))
       => Present(Package[i])

RegistrarOK(g) == BindsInOrder(g) /\ SaysTrue(g)

LEMMA DInvParts ==
  DInv <=> /\ TypeOK /\ HitsAreServed /\ OnlyOperatorsPublish
           /\ \A c \in Clients : ClientOK(c)
           /\ \A g \in Registrars : RegistrarOK(g)
BY DEF DInv, ClientOK, RegistrarOK, SaysTrue, ReportsAreTrue

LEMMA PackageItems ==
  /\ DOMAIN Package = 1 .. Len(Package) /\ Len(Package) \in Nat \ {0}
  /\ \A i \in DOMAIN Package : Package[i] \in Resources
BY DeliveryAssumption

LEMMA ResourceItems ==
  ASSUME NEW x \in Resources
  PROVE  /\ x = <<x[1], x[2]>>
         /\ \/ x[1] = "source" /\ x[2] \in Sources
            \/ x[1] = "import" /\ x[2] \in Imports
            \/ x[1] = "route" /\ x[2] \in Routes
BY DEF Resources

(* What a client that is not concerned holds stays right.                   *)
LEMMA OthersStayOK ==
  ASSUME TypeOK, TypeOK', NEW d \in Clients, ClientOK(d), Keeps, req'[d] = req[d]
  PROVE  ClientOK(d)'
<1>1. RequestFits(d)'
  BY DEF ClientOK, RequestFits
<1>2. SeenIsGenuine(d)'
  <2>1. req[d].seen # None => req[d].seen.hits \in Nat
    BY DEF TypeOK, Request, RouteRow
  <2>2. SeenIsGenuine(d)
    BY DEF ClientOK
  <2>3. req[d].seen # None => req[d].id \in Routes /\ req[d].seen.hits =< served[req[d].id]
    BY <2>2 DEF SeenIsGenuine
  <2>4. served \in [Routes -> Nat]
    BY DEF TypeOK
  <2>5. req[d].seen # None =>
          req[d].seen.hits =< served'[req[d].id] /\ req[d].id \in Routes
    BY <2>1, <2>3, <2>4 DEF Keeps
  <2>6. req[d].seen # None /\ req[d].seen.enabled => req[d].id \in published'
    BY <2>2 DEF SeenIsGenuine, Keeps
  <2> QED BY <2>2, <2>5, <2>6 DEF SeenIsGenuine
<1>3. AnsweredIsPresent(d)'
  <2>1. req[d].kind \in {"source", "import", "route"} => <<req[d].kind, req[d].id>> \in Resources
    BY DEF ClientOK, RequestFits, Resources
  <2> QED BY <2>1 DEF ClientOK, AnsweredIsPresent, Keeps, Present
<1> QED BY <1>1, <1>2, <1>3 DEF ClientOK

LEMMA OtherBindingsStayOK ==
  ASSUME NEW g \in Registrars, RegistrarOK(g), Keeps, req'[g] = req[g], binding'[g] = binding[g]
  PROVE  RegistrarOK(g)'
<1>1. BindsInOrder(g)'
  BY DEF RegistrarOK, BindsInOrder
<1>2. SaysTrue(g)'
  BY PackageItems DEF RegistrarOK, SaysTrue, Keeps, Present
<1> QED BY <1>1, <1>2 DEF RegistrarOK

(* A step of one client keeps the invariant if it keeps that client's part. *)
LEMMA StepKeepsDInv ==
  ASSUME DInv, TypeOK', Keeps, HitsAreServed', OnlyOperatorsPublish',
         NEW c \in Clients, OthersStay(c), ClientOK(c)',
         c \in Registrars => RegistrarOK(c)'
  PROVE  DInv'
<1>1. TypeOK /\ (\A d \in Clients : ClientOK(d)) /\ (\A g \in Registrars : RegistrarOK(g))
  BY DInvParts
<1>2. \A d \in Clients : ClientOK(d)'
  BY <1>1, OthersStayOK DEF OthersStay
<1>3. \A g \in Registrars : RegistrarOK(g)'
  BY <1>1, OtherBindingsStayOK DEF OthersStay, Clients
<1> QED
  BY <1>2, <1>3 DEF DInv, ClientOK, RegistrarOK, SaysTrue, ReportsAreTrue

-----------------------------------------------------------------------------
(* Requests that end *)

(* The end of a request leaves its client with none.                        *)
LEMMA EndRequest ==
  ASSUME TypeOK, NEW c \in Clients, NEW e, End(c, e)
  PROVE  /\ req' \in [Clients -> Request] /\ ClientOK(c)'
         /\ req'[c] = NoRequest
         /\ \A d \in Clients \ {c} : req'[d] = req[d]
         /\ \A g \in Registrars \ {c} : binding'[g] = binding[g]
<1>1. NoRequest \in Request
  BY DEF NoRequest, Request
<1>2. req' \in [Clients -> Request] /\ req'[c] = NoRequest
        /\ \A d \in Clients \ {c} : req'[d] = req[d]
  BY <1>1 DEF End, TypeOK
<1>3. None \notin Kinds /\ None \notin StageNames /\ None \notin BOOLEAN
  BY NoneIsNoValue
<1>4. /\ NoRequest.kind = None /\ NoRequest.at = None /\ NoRequest.seen = None
      /\ NoRequest.enabled = None
  BY DEF NoRequest
<1>5. ClientOK(c)'
  <2>1. RequestFits(c)'
    BY <1>2, <1>3, <1>4 DEF RequestFits, Kinds
  <2>2. SeenIsGenuine(c)'
    BY <1>2, <1>3, <1>4 DEF SeenIsGenuine, Kinds, StageNames
  <2>3. AnsweredIsPresent(c)'
    BY <1>2, <1>3, <1>4 DEF AnsweredIsPresent, StageNames
  <2> QED BY <2>1, <2>2, <2>3 DEF ClientOK
<1>6. \A g \in Registrars \ {c} : binding'[g] = binding[g]
  BY DEF End, TypeOK
<1> QED BY <1>2, <1>5, <1>6

(* A registrar's program goes on from the answer: what it then says of the   *)
(* item is true if the item is there whenever it was told so.               *)
LEMMA EndBinding ==
  ASSUME TypeOK, Keeps, NEW c \in Registrars, RequestFits(c), RegistrarOK(c),
         req[c].kind # None, NEW e, End(c, e),
         e \in {NoError, "conflict"} /\ req[c].kind # "project" =>
           HasRow(sources', imports', routes', <<req[c].kind, req[c].id>>)
  PROVE  binding' \in [Registrars -> Binding] /\ RegistrarOK(c)'
<1> DEFINE b == binding[c]
           outcome == OutcomeOf(b.mode, req[c].kind, e)
           new == Continued(b, req[c].kind, outcome)
<1>1. c \in Clients /\ b \in Binding
  BY DEF Clients, TypeOK
<1>2. binding' = [binding EXCEPT ![c] = new]
  BY DEF End
<1>3. binding'[c] = new
  BY <1>2 DEF TypeOK
<1>4. outcome \in Outcomes \union {None}
  BY OutcomesAreTold
<1>5. new \in Binding /\ new.mode = b.mode
  <2>1. b.item \in DOMAIN Package /\ b.said \in [DOMAIN Package -> Outcomes \union {None}]
    BY <1>1 DEF Binding
  <2>2. b.item # Len(Package) => b.item + 1 \in DOMAIN Package
    BY <2>1, PackageItems
  <2> HIDE DEF outcome
  <2>3. [b.said EXCEPT ![b.item] = outcome] \in [DOMAIN Package -> Outcomes \union {None}]
    BY <1>4, <2>1
  <2> QED BY <1>1, <2>1, <2>2, <2>3 DEF Continued, Binding
<1>6. binding' \in [Registrars -> Binding]
  BY <1>2, <1>5 DEF TypeOK
<1>7. req'[c].kind = None
  BY <1>1, EndRequest DEF NoRequest
<1>8. b.item \in DOMAIN Package /\ b.said \in [DOMAIN Package -> Outcomes \union {None}]
  BY <1>1 DEF Binding
<1>9. ASSUME NEW i \in DOMAIN Package
      PROVE  \/ i = b.item /\ req[c].kind # "project" /\ outcome # None /\ new.said[i] = outcome
             \/ new.said[i] = b.said[i] /\ (i # b.item \/ req[c].kind = "project" \/ outcome = None)
  <2> HIDE DEF outcome
  <2> QED BY <1>1, <1>8 DEF Continued, Binding
<1>10. BindsInOrder(c)'
  <2>1. \A i \in DOMAIN Package : i < b.item \/ b.at = "done" => b.said[i] # None
    BY DEF RegistrarOK, BindsInOrder
  <2>2. ASSUME NEW i \in DOMAIN Package, i < new.item \/ new.at = "done"
        PROVE  new.said[i] # None
    <3> HIDE DEF outcome
    <3>1. CASE outcome = None \/ req[c].kind = "project"
      BY <1>1, <1>8, <2>1, <2>2, <3>1 DEF Continued, Binding
    <3>2. CASE outcome # None /\ req[c].kind # "project"
      <4>1. i <= b.item
        <5>1. b.at # "done"
          BY <3>2 DEF RegistrarOK, BindsInOrder
        <5>2. b.item \in Nat /\ i \in Nat /\ i <= Len(Package)
          BY <1>8, PackageItems
        <5>3. CASE b.item = Len(Package)
          BY <5>2, <5>3
        <5>4. CASE b.item # Len(Package)
          <6>1. new.item = b.item + 1 /\ new.at = b.at
            BY <1>1, <3>2, <5>4 DEF Continued, Binding
          <6> QED BY <2>2, <5>1, <5>2, <6>1
        <5> QED BY <5>3, <5>4
      <4>2. i = b.item \/ i < b.item
        BY <1>8, <4>1, PackageItems
      <4> HIDE DEF new
      <4> QED BY <1>9, <2>1, <3>2, <4>2
    <3> QED BY <3>1, <3>2
  <2> HIDE DEF new
  <2> QED BY <1>3, <1>7, <2>2, NoneIsNoValue DEF BindsInOrder, Kinds
<1>11. SaysTrue(c)'
  <2> SUFFICES ASSUME NEW i \in DOMAIN Package,
                      \/ new.said[i] \in {"created", "upserted"}
                      \/ new.said[i] = "exists" /\ b.mode # "http"
               PROVE  HasRow(sources', imports', routes', Package[i])
    <3> HIDE DEF new
    <3> QED BY <1>3, <1>5 DEF SaysTrue, Present
  <2>1. CASE new.said[i] = b.said[i]
    <3>1. Present(Package[i])
      BY <2>1 DEF RegistrarOK, SaysTrue
    <3> QED BY <3>1, PackageItems DEF Keeps
  <2>2. CASE i = b.item /\ req[c].kind # "project" /\ new.said[i] = outcome
    <3>1. e \in {NoError, "conflict"}
      BY <2>2, OutcomesAreTold
    <3>2. <<req[c].kind, req[c].id>> = Package[i]
      BY <2>2 DEF RegistrarOK, BindsInOrder
    <3> QED BY <2>2, <3>1, <3>2
  <2> QED BY <1>9, <2>1, <2>2
<1> QED BY <1>6, <1>10, <1>11 DEF RegistrarOK

-----------------------------------------------------------------------------
(* Requests that go on *)

(* The request of c goes on, about id and with the row seen.                *)
Moved(c, id, seen) ==
  /\ req' \in [Clients -> Request]
  /\ \A d \in Clients \ {c} : req'[d] = req[d]
  /\ req'[c].kind = req[c].kind /\ req'[c].enabled = req[c].enabled
  /\ req'[c].id = id /\ req'[c].seen = seen
  /\ \E i \in DOMAIN Stages(req[c].kind) : req'[c].at = Stages(req[c].kind)[i]
  /\ req'[c].at = "answer" => req[c].at \in {"write", "insert"}
  /\ req'[c].at \in {"data", "hit"} => req[c].at \in {"execute", "data"}

LEMMA RequestMoves ==
  ASSUME TypeOK, NEW c \in Clients, RequestFits(c), req[c].kind # None,
         req[c].at \notin {"answer", "hit"},
         NEW id \in Sources \union Imports \union Routes \union {None},
         NEW seen \in RouteRow \union {None},
         \/ /\ req' = [req EXCEPT ![c] = Advanced(@)]
            /\ id = req[c].id /\ seen = req[c].seen
         \/ /\ req' = [req EXCEPT ![c] = [Advanced(@) EXCEPT !.seen = seen]]
            /\ id = req[c].id
         \/ req' = [req EXCEPT ![c] = [Advanced(@) EXCEPT !.id = id, !.seen = seen]]
  PROVE  Moved(c, id, seen)
<1> DEFINE q == req[c]
<1>1. q \in Request /\ q.kind \in Kinds
  BY DEF TypeOK, Request
<1>2. PICK stage \in StageNames :
           /\ Advanced(q) = [q EXCEPT !.at = stage]
           /\ \E i \in DOMAIN Stages(q.kind) : stage = Stages(q.kind)[i]
           /\ stage = "answer" => q.at \in {"write", "insert"}
           /\ stage \in {"data", "hit"} => q.at \in {"execute", "data"}
  BY <1>1, NextStage DEF RequestFits
<1> DEFINE p == req'[c]
<1>3. \/ p = [q EXCEPT !.at = stage] /\ id = q.id /\ seen = q.seen
      \/ p = [[q EXCEPT !.at = stage] EXCEPT !.seen = seen] /\ id = q.id
      \/ p = [[q EXCEPT !.at = stage] EXCEPT !.id = id, !.seen = seen]
  BY <1>2 DEF TypeOK
<1>4. /\ p \in Request /\ p.kind = q.kind /\ p.enabled = q.enabled /\ p.id = id
      /\ p.seen = seen /\ p.at = stage
  <2>1. stage \in StageNames \union {None} /\ q.id \in Sources \union Imports \union Routes \union {None}
          /\ q.seen \in RouteRow \union {None}
    BY <1>1 DEF Request
  <2> HIDE DEF q, p
  <2>2. CASE p = [q EXCEPT !.at = stage] /\ id = q.id /\ seen = q.seen
    BY <1>1, <2>1, <2>2 DEF Request
  <2>3. CASE p = [[q EXCEPT !.at = stage] EXCEPT !.seen = seen] /\ id = q.id
    BY <1>1, <2>1, <2>3 DEF Request
  <2>4. CASE p = [[q EXCEPT !.at = stage] EXCEPT !.id = id, !.seen = seen]
    BY <1>1, <2>1, <2>4 DEF Request
  <2> QED BY <1>3, <2>2, <2>3, <2>4
<1>5. req' = [req EXCEPT ![c] = p]
  BY DEF TypeOK
<1>6. req' \in [Clients -> Request] /\ \A d \in Clients \ {c} : req'[d] = req[d]
  <2> HIDE DEF p
  <2> QED BY <1>4, <1>5 DEF TypeOK
<1> QED
  BY <1>2, <1>4, <1>6 DEF Moved

(* A registrar's request that goes on is still for its item.                *)
LEMMA MovedBinding ==
  ASSUME NEW g \in Registrars, RegistrarOK(g), Keeps, NEW seen, Moved(g, req[g].id, seen),
         UNCHANGED binding
  PROVE  RegistrarOK(g)'
<1>1. req'[g].kind = req[g].kind /\ req'[g].id = req[g].id
  BY DEF Moved
<1>2. BindsInOrder(g)'
  BY <1>1 DEF RegistrarOK, BindsInOrder
<1>3. SaysTrue(g)'
  BY PackageItems DEF RegistrarOK, SaysTrue, Keeps, Present
<1> QED BY <1>2, <1>3 DEF RegistrarOK

(* What the client of a request that goes on holds stays right.             *)
LEMMA MovedClient ==
  ASSUME NEW c \in Clients, ClientOK(c), req[c].kind # None, NEW id, NEW seen, Moved(c, id, seen),
         id = req[c].id \/ (req[c].kind \in {"visit", "test"} /\ id \in Routes),
         seen # None => /\ id \in Routes
                        /\ seen.hits =< served'[id]
                        /\ seen.enabled => id \in published',
         req[c].kind = "patch" => seen # None,
         req[c].at \in {"execute", "data"} => seen # None /\ seen.enabled,
         req[c].at \in {"write", "insert"} /\ req[c].kind \in {"source", "import", "route"} =>
           HasRow(sources', imports', routes', <<req[c].kind, id>>)
  PROVE  ClientOK(c)'
<1>1. RequestFits(c)'
  BY DEF ClientOK, RequestFits, Moved
<1>2. SeenIsGenuine(c)'
  BY DEF Moved, SeenIsGenuine
<1>3. AnsweredIsPresent(c)'
  BY DEF Moved, AnsweredIsPresent, Present
<1> QED BY <1>1, <1>2, <1>3 DEF ClientOK

(* Where the tables and counters stay, so does what is said of them.        *)
LEMMA NothingWritten ==
  ASSUME TypeOK, HitsAreServed, OnlyOperatorsPublish, UNCHANGED <<store, served, published>>
  PROVE  /\ Keeps /\ HitsAreServed' /\ OnlyOperatorsPublish'
         /\ req' \in [Clients -> Request] /\ binding' \in [Registrars -> Binding] => TypeOK'
<1>1. /\ sources' = sources /\ imports' = imports /\ routes' = routes
      /\ served' = served /\ published' = published
  BY DEF store
<1>2. Keeps
  BY <1>1 DEF Keeps, Present, TypeOK
<1>3. HitsAreServed' /\ OnlyOperatorsPublish'
  BY <1>1 DEF HitsAreServed, OnlyOperatorsPublish
<1>4. req' \in [Clients -> Request] /\ binding' \in [Registrars -> Binding] => TypeOK'
  BY <1>1 DEF TypeOK
<1> QED BY <1>2, <1>3, <1>4

(* A request that ends keeps the invariant, if it succeeds or is refused as *)
(* existing only where its row is there.                                    *)
LEMMA EndStep ==
  ASSUME DInv, NEW c \in Clients, req[c].kind # None, NEW e, End(c, e),
         Keeps, HitsAreServed', OnlyOperatorsPublish',
         req' \in [Clients -> Request] /\ binding' \in [Registrars -> Binding] => TypeOK',
         e \in {NoError, "conflict"} /\ req[c].kind # "project" /\ c \in Registrars =>
           HasRow(sources', imports', routes', <<req[c].kind, req[c].id>>)
  PROVE  DInv'
<1>1. TypeOK /\ ClientOK(c) /\ (c \in Registrars => RegistrarOK(c))
  BY DInvParts
<1>2. RequestFits(c)
  BY <1>1 DEF ClientOK
<1>3. req' \in [Clients -> Request] /\ ClientOK(c)' /\ OthersStay(c)
  BY <1>1, EndRequest DEF OthersStay
<1>4. CASE c \in Registrars
  <2>1. binding' \in [Registrars -> Binding] /\ RegistrarOK(c)'
    BY <1>1, <1>2, <1>4, EndBinding
  <2> QED BY <1>3, <2>1, StepKeepsDInv
<1>5. CASE c \notin Registrars
  <2>1. binding' = binding
    BY <1>5 DEF End
  <2>2. TypeOK'
    BY <1>1, <1>3, <2>1 DEF TypeOK
  <2> QED BY <1>3, <1>5, <2>2, StepKeepsDInv
<1> QED BY <1>4, <1>5

LEMMA RefuseStep ==
  ASSUME DInv, NEW c \in Clients, req[c].kind # None, NEW e, Refuse(c, e),
         e \in {NoError, "conflict"} /\ req[c].kind # "project" /\ c \in Registrars =>
           Present(<<req[c].kind, req[c].id>>)
  PROVE  DInv'
<1>1. TypeOK /\ HitsAreServed /\ OnlyOperatorsPublish
  BY DInvParts
<1>2. End(c, e) /\ UNCHANGED <<store, served, published>>
  BY DEF Refuse
<1>3. Present(<<req[c].kind, req[c].id>>) =>
        HasRow(sources', imports', routes', <<req[c].kind, req[c].id>>)
  BY <1>2 DEF Present, store
<1> QED BY <1>1, <1>2, <1>3, NothingWritten, EndStep

(* So does one that goes on without a write.                                *)
LEMMA MoveStep ==
  ASSUME DInv, NEW c \in Clients, req[c].kind # None,
         NEW id, NEW seen, Moved(c, id, seen), UNCHANGED <<store, binding, served, published>>,
         id = req[c].id \/ (req[c].kind \in {"visit", "test"} /\ id \in Routes),
         seen # None => /\ id \in Routes
                        /\ seen.hits =< served[id]
                        /\ seen.enabled => id \in published,
         req[c].kind = "patch" => seen # None,
         req[c].at \in {"execute", "data"} => seen # None /\ seen.enabled,
         req[c].at \notin {"write", "insert"}
  PROVE  DInv'
<1>1. TypeOK /\ HitsAreServed /\ OnlyOperatorsPublish /\ ClientOK(c)
        /\ (c \in Registrars => RegistrarOK(c))
  BY DInvParts
<1>2. Keeps /\ HitsAreServed' /\ OnlyOperatorsPublish'
  BY <1>1, NothingWritten
<1>3. TypeOK'
  BY <1>1, NothingWritten DEF Moved, TypeOK
<1>4. served' = served /\ published' = published
  OBVIOUS
<1>5. ClientOK(c)'
  BY <1>1, <1>4, MovedClient
<1>6. OthersStay(c)
  BY DEF Moved, OthersStay
<1>7. c \in Registrars => id = req[c].id
  BY <1>1 DEF ClientOK, RequestFits
<1>8. c \in Registrars => RegistrarOK(c)'
  BY <1>1, <1>2, <1>7, MovedBinding
<1> QED BY <1>2, <1>3, <1>5, <1>6, <1>8, StepKeepsDInv

-----------------------------------------------------------------------------
(* The actions *)

(* A check that is passed.                                                  *)
LEMMA ProceedStep ==
  ASSUME DInv, NEW c \in Clients, req[c].kind # None,
         req[c].at \in {"writable", "owned", "schema", "slug", "list", "data"}, Proceed(c)
  PROVE  DInv'
<1>1. TypeOK /\ ClientOK(c)
  BY DInvParts
<1>2. RequestFits(c) /\ SeenIsGenuine(c) /\ req[c] \in Request
  BY <1>1 DEF ClientOK, TypeOK
<1>3. req[c].id \in Sources \union Imports \union Routes \union {None}
        /\ req[c].seen \in RouteRow \union {None}
  BY <1>2 DEF Request
<1>4. req' = [req EXCEPT ![c] = Advanced(@)] /\ UNCHANGED <<store, binding, served, published>>
  BY DEF Proceed, Advance
<1>5. Moved(c, req[c].id, req[c].seen)
  BY <1>1, <1>2, <1>3, <1>4, RequestMoves
<1>7. req[c].at \notin {"write", "insert"}
  OBVIOUS
<1>8. UNCHANGED <<store, binding, served, published>>
  BY <1>4
<1>9. PICK id, seen : id = req[c].id /\ seen = req[c].seen
  OBVIOUS
<1>10. Moved(c, id, seen)
  BY <1>5, <1>9 DEF Moved
<1>11. seen # None => /\ id \in Routes
                      /\ seen.hits =< served[id]
                      /\ seen.enabled => id \in published
  BY <1>2, <1>9 DEF SeenIsGenuine
<1>12. req[c].kind = "patch" => seen # None
  BY <1>2, <1>9 DEF SeenIsGenuine
<1>13. req[c].at \in {"execute", "data"} => seen # None /\ seen.enabled
  BY <1>2, <1>9 DEF SeenIsGenuine
<1> QED BY <1>7, <1>8, <1>9, <1>10, <1>11, <1>12, <1>13, MoveStep

(* A refusal that says nothing of what exists.                              *)
LEMMA RefusedStep ==
  ASSUME DInv, NEW c \in Clients, req[c].kind # None,
         NEW e \in {"DATASET_NOT_FOUND", "PROJECT_NOT_WRITABLE", "PROJECT_NOT_FOUND",
                    "PROJECT_SLUG_CONFLICT", "validation_error", "not_found",
                    "unauthorized", "forbidden", Unexpected, Missing},
         Refuse(c, e)
  PROVE  DInv'
<1>1. e # NoError /\ e # "conflict"
  BY NoErrorIsNoCode DEF Unexpected, Missing
<1> QED BY <1>1, RefuseStep

LEMMA ChecksStep ==
  ASSUME DInv, NEW c \in Clients,
         \/ CheckWritable(c) \/ CheckOwned(c) \/ CheckSchema(c) \/ ReadData(c)
         \/ VisitProject(c) \/ ListRoutes(c) \/ CheckSlug(c)
  PROVE  DInv'
<1>1. /\ req[c].kind # None
      /\ req[c].at \in {"writable", "owned", "schema", "slug", "list", "data"}
  BY DEF CheckWritable, CheckOwned, CheckSchema, ReadData, VisitProject, ListRoutes, CheckSlug, At
<1>2. \/ Proceed(c)
      \/ \E e \in {"DATASET_NOT_FOUND", "PROJECT_NOT_WRITABLE", "PROJECT_NOT_FOUND",
                   "PROJECT_SLUG_CONFLICT", "validation_error", "not_found",
                   "unauthorized", "forbidden", Unexpected, Missing} : Refuse(c, e)
  BY DEF CheckWritable, CheckOwned, CheckSchema, ReadData, VisitProject, ListRoutes, CheckSlug
<1> QED BY <1>1, <1>2, ProceedStep, RefusedStep

(* A source or saved import that is there is refused as existing; a route    *)
(* is remembered as it is.                                                  *)
LEMMA ReadRowStep ==
  ASSUME DInv, NEW c \in Clients, ReadRow(c)
  PROVE  DInv'
<1> DEFINE q == req[c]
           row == TableOf(q.kind)[q.id]
<1>1. TypeOK /\ ClientOK(c) /\ HitsAreServed
  BY DInvParts
<1>2. RequestFits(c) /\ SeenIsGenuine(c) /\ q \in Request /\ q.kind # None /\ q.at = "read"
  BY <1>1 DEF ClientOK, TypeOK, ReadRow, At
<1>3. q.id \in Sources \union Imports \union Routes \union {None}
  BY <1>2 DEF Request
<1>4. CASE q.kind \in {"source", "import"} /\ row # None
  <2>1. Refuse(c, "conflict")
    BY <1>4 DEF ReadRow
  <2>2. Present(<<q.kind, q.id>>)
    BY <1>4 DEF Present, HasRow, TableOf
  <2> QED BY <1>2, <2>1, <2>2, RefuseStep
<1>5. CASE q.kind \in {"edit", "patch", "test"} /\ row = None
  <2>1. Refuse(c, "not_found")
    BY <1>5 DEF ReadRow
  <2> QED BY <1>2, <2>1, RefusedStep
<1>6. CASE /\ ~(q.kind \in {"source", "import"} /\ row # None)
           /\ ~(q.kind \in {"edit", "patch", "test"} /\ row = None)
  <2> DEFINE seen == IF q.kind \in {"route", "patch"} THEN row ELSE None
  <2>1. /\ req' = [req EXCEPT ![c] = [Advanced(@) EXCEPT !.seen = seen]]
        /\ UNCHANGED <<store, binding, served, published>>
    BY <1>6 DEF ReadRow
  <2>2. q.kind \in {"route", "patch"} => row = routes[q.id] /\ q.id \in Routes
    BY <1>2 DEF TableOf, RequestFits
  <2>3. seen # None => seen = routes[q.id] /\ q.id \in Routes
    BY <2>2
  <2>4. seen \in RouteRow \union {None}
    BY <1>1, <2>3 DEF TypeOK
  <2>5. q.kind = "patch" => seen # None
    BY <1>6
  <2> HIDE DEF seen
  <2>6. seen # None => /\ q.id \in Routes
                       /\ seen.hits =< served[q.id]
                       /\ seen.enabled => q.id \in published
    BY <1>1, <2>3 DEF HitsAreServed
  <2>7. Moved(c, q.id, seen)
    BY <1>1, <1>2, <1>3, <2>1, <2>4, RequestMoves
  <2> QED BY <1>2, <2>1, <2>5, <2>6, <2>7, MoveStep
<1> QED BY <1>4, <1>5, <1>6

(* A route is executed only while it is enabled.                            *)
LEMMA ExecuteStep ==
  ASSUME DInv, NEW c \in Clients, Execute(c)
  PROVE  DInv'
<1>1. TypeOK /\ ClientOK(c) /\ HitsAreServed
  BY DInvParts
<1>2. RequestFits(c) /\ req[c].kind # None /\ req[c].at = "execute"
  BY <1>1 DEF ClientOK, Execute, At
<1>3. \/ \E e \in {Missing, "forbidden", "unauthorized"} : Refuse(c, e)
      \/ \E r \in Listed(req[c].path) :
           /\ routes[r].enabled
           /\ req' = [req EXCEPT ![c] = [Advanced(@) EXCEPT !.id = r, !.seen = routes[r]]]
           /\ UNCHANGED <<store, binding, served, published>>
  BY DEF Execute
<1>4. CASE \E e \in {Missing, "forbidden", "unauthorized"} : Refuse(c, e)
  BY <1>2, <1>4, RefusedStep
<1>5. ASSUME NEW r \in Listed(req[c].path), routes[r].enabled,
             req' = [req EXCEPT ![c] = [Advanced(@) EXCEPT !.id = r, !.seen = routes[r]]],
             UNCHANGED <<store, binding, served, published>>
      PROVE  DInv'
  <2>1. r \in Routes /\ routes[r] # None
    BY DEF Listed
  <2>2. routes[r] \in RouteRow
    BY <1>1, <2>1 DEF TypeOK
  <2>3. routes[r].hits =< served[r] /\ r \in published
    BY <1>1, <1>5, <2>1 DEF HitsAreServed
  <2>4. Moved(c, r, routes[r])
    BY <1>1, <1>2, <1>5, <2>1, <2>2, RequestMoves
  <2>5. req[c].kind \in {"visit", "test"}
    <3>1. req[c].kind \in Kinds
      BY <1>1, <1>2 DEF TypeOK, Request
    <3>2. \E i \in DOMAIN Stages(req[c].kind) : Stages(req[c].kind)[i] = "execute"
      BY <1>2 DEF RequestFits
    <3> QED BY <3>1, <3>2, ExecutedKinds
  <2> QED BY <1>2, <1>5, <2>1, <2>3, <2>4, <2>5, MoveStep
<1> QED BY <1>3, <1>4, <1>5

(* A request that goes on from its write has its row, and every row it      *)
(* touches stays as the invariant wants it.                                 *)
LEMMA WriteStep ==
  ASSUME DInv, NEW c \in Clients, req[c].kind # None, req[c].at \in {"write", "insert"},
         Advance(c), UNCHANGED <<binding, served>>,
         sources' \in [Sources -> {None, "created", "edited"}],
         imports' \in [Imports -> {None, "created"}],
         routes' \in [Routes -> RouteRow \union {None}],
         Keeps, HitsAreServed', OnlyOperatorsPublish',
         req[c].kind \in {"source", "import", "route"} =>
           HasRow(sources', imports', routes', <<req[c].kind, req[c].id>>)
  PROVE  DInv'
<1>1. TypeOK /\ ClientOK(c) /\ (c \in Registrars => RegistrarOK(c))
  BY DInvParts
<1>2. RequestFits(c) /\ SeenIsGenuine(c) /\ req[c] \in Request
  BY <1>1 DEF ClientOK, TypeOK
<1>3. req[c].id \in Sources \union Imports \union Routes \union {None}
        /\ req[c].seen \in RouteRow \union {None}
  BY <1>2 DEF Request
<1>4. req[c].at \notin {"answer", "hit", "read", "execute", "data"}
  OBVIOUS
<1>5. Moved(c, req[c].id, req[c].seen)
  BY <1>1, <1>2, <1>3, <1>4, RequestMoves DEF Advance
<1>6. PICK id, seen : id = req[c].id /\ seen = req[c].seen
  OBVIOUS
<1>7. Moved(c, id, seen)
  BY <1>5, <1>6 DEF Moved
<1>8. served' = served /\ published \subseteq published'
  BY DEF Keeps
<1>9. seen # None => /\ id \in Routes
                     /\ seen.hits =< served'[id]
                     /\ seen.enabled => id \in published'
  BY <1>2, <1>6, <1>8 DEF SeenIsGenuine
<1>10. req[c].kind = "patch" => seen # None
  BY <1>2, <1>4, <1>6 DEF SeenIsGenuine
<1>11. req[c].kind \in {"source", "import", "route"} =>
         HasRow(sources', imports', routes', <<req[c].kind, id>>)
  BY <1>6 DEF HasRow
<1>12. ClientOK(c)'
  BY <1>1, <1>4, <1>6, <1>7, <1>9, <1>10, <1>11, MovedClient
<1>13. TypeOK'
  BY <1>1, <1>5 DEF Moved, TypeOK
<1>14. OthersStay(c)
  BY <1>5 DEF Moved, OthersStay
<1>15. c \in Registrars => RegistrarOK(c)'
  BY <1>1, <1>5, MovedBinding
<1> QED BY <1>12, <1>13, <1>14, <1>15, StepKeepsDInv

(* Where no route is written, what is said of the routes stays.             *)
LEMMA RoutesStay ==
  ASSUME TypeOK, HitsAreServed, OnlyOperatorsPublish, UNCHANGED <<routes, served, published>>,
         \A s \in Sources : sources[s] # None => sources'[s] # None,
         \A i \in Imports : imports[i] # None => imports'[i] # None
  PROVE  Keeps /\ HitsAreServed' /\ OnlyOperatorsPublish'
<1>1. ASSUME NEW x \in Resources, Present(x)
      PROVE  HasRow(sources', imports', routes', x)
  BY <1>1, ResourceItems DEF Present, HasRow
<1>2. \A r \in Routes : served'[r] >= served[r] /\ served'[r] \in Nat
  BY DEF TypeOK
<1>3. HitsAreServed' /\ OnlyOperatorsPublish'
  BY DEF HitsAreServed, OnlyOperatorsPublish
<1> QED BY <1>1, <1>2, <1>3 DEF Keeps

LEMMA SourceStep ==
  ASSUME DInv, NEW c \in Clients, InsertSource(c) \/ UpdateSource(c)
  PROVE  DInv'
<1>1. TypeOK /\ ClientOK(c) /\ HitsAreServed /\ OnlyOperatorsPublish
  BY DInvParts
<1>2. /\ req[c].kind \in {"source", "edit"} /\ req[c].kind # None /\ req[c].at = "write"
      /\ req[c].id \in Sources
  BY <1>1 DEF InsertSource, UpdateSource, At, ClientOK, RequestFits
<1>3. CASE Refuse(c, Unexpected)
  BY <1>2, <1>3, RefusedStep
<1>4. ASSUME NEW to \in {"created", "edited"}, sources' = [sources EXCEPT ![req[c].id] = to],
             Advance(c), UNCHANGED <<imports, routes, binding, served, published>>
      PROVE  DInv'
  <2>1. to # None
    BY NoneIsNoValue DEF Outcomes
  <2>2. sources' \in [Sources -> {None, "created", "edited"}] /\ sources'[req[c].id] # None
    BY <1>1, <1>2, <1>4, <2>1 DEF TypeOK
  <2>3. imports' \in [Imports -> {None, "created"}] /\ routes' \in [Routes -> RouteRow \union {None}]
    BY <1>1, <1>4 DEF TypeOK
  <2>4. Keeps /\ HitsAreServed' /\ OnlyOperatorsPublish'
    <3>1. \A s \in Sources : sources[s] # None => sources'[s] # None
      BY <1>1, <1>4, <2>1 DEF TypeOK
    <3> QED BY <1>1, <1>4, <3>1, RoutesStay
  <2>5. req[c].kind \in {"source", "import", "route"} =>
          HasRow(sources', imports', routes', <<req[c].kind, req[c].id>>)
    BY <1>2, <2>2 DEF HasRow
  <2> QED BY <1>2, <1>4, <2>2, <2>3, <2>4, <2>5, WriteStep
<1>5. \/ Refuse(c, Unexpected)
      \/ \E to \in {"created", "edited"} :
           /\ sources' = [sources EXCEPT ![req[c].id] = to]
           /\ Advance(c) /\ UNCHANGED <<imports, routes, binding, served, published>>
  BY DEF InsertSource, UpdateSource
<1> QED BY <1>3, <1>4, <1>5

LEMMA InsertImportStep ==
  ASSUME DInv, NEW c \in Clients, InsertImport(c)
  PROVE  DInv'
<1>1. TypeOK /\ ClientOK(c) /\ HitsAreServed /\ OnlyOperatorsPublish
  BY DInvParts
<1>2. /\ req[c].kind = "import" /\ req[c].kind # None /\ req[c].at = "write"
      /\ req[c].id \in Imports
  BY <1>1 DEF InsertImport, At, ClientOK, RequestFits
<1>3. CASE Refuse(c, Unexpected)
  BY <1>2, <1>3, RefusedStep
<1>4. CASE /\ imports' = [imports EXCEPT ![req[c].id] = "created"]
           /\ Advance(c) /\ UNCHANGED <<sources, routes, binding, served, published>>
  <2>1. "created" # None
    BY NoneIsNoValue DEF Outcomes
  <2>2. imports' \in [Imports -> {None, "created"}] /\ imports'[req[c].id] # None
    BY <1>1, <1>2, <1>4, <2>1 DEF TypeOK
  <2>3. sources' \in [Sources -> {None, "created", "edited"}]
          /\ routes' \in [Routes -> RouteRow \union {None}]
    BY <1>1, <1>4 DEF TypeOK
  <2>4. Keeps /\ HitsAreServed' /\ OnlyOperatorsPublish'
    <3>1. \A i \in Imports : imports[i] # None => imports'[i] # None
      BY <1>1, <1>4, <2>1 DEF TypeOK
    <3> QED BY <1>1, <1>4, <3>1, RoutesStay
  <2>5. HasRow(sources', imports', routes', <<req[c].kind, req[c].id>>)
    BY <1>2, <2>2 DEF HasRow
  <2> QED BY <1>2, <1>4, <2>2, <2>3, <2>4, <2>5, WriteStep
<1> QED BY <1>3, <1>4 DEF InsertImport

(* The row a route gets has the hits of the one read, and is enabled only    *)
(* where that one was or its client asks for it.                            *)
LEMMA WriteRouteStep ==
  ASSUME DInv, NEW c \in Clients, WriteRoute(c)
  PROVE  DInv'
<1> DEFINE q == req[c]
           row == IF q.kind = "route" THEN UpsertedRoute(q) ELSE PatchedRoute(q)
<1>1. TypeOK /\ ClientOK(c) /\ HitsAreServed /\ OnlyOperatorsPublish
  BY DInvParts
<1>2. /\ q.kind \in {"route", "patch"} /\ q.kind # None /\ q.at = "write" /\ q.id \in Routes
      /\ q \in Request /\ RequestFits(c) /\ SeenIsGenuine(c)
  BY <1>1 DEF WriteRoute, At, ClientOK, RequestFits, TypeOK
<1>3. /\ routes' = [routes EXCEPT ![q.id] = row]
      /\ published' = IF c \in Admins /\ q.enabled = TRUE THEN published \union {q.id} ELSE published
      /\ Advance(c) /\ UNCHANGED <<sources, imports, binding, served>>
  BY DEF WriteRoute
<1>4. row \in RouteRow /\ row.hits =< served[q.id] /\ (row.enabled => q.id \in published')
  <2>1. /\ q.enabled \in BOOLEAN \union {None} /\ q.access \in Accesses \union {None}
        /\ q.seen \in RouteRow \union {None} /\ served[q.id] \in Nat
    BY <1>1, <1>2 DEF Request, TypeOK
  <2>2. q.enabled = TRUE => q.id \in published'
    BY <1>2, <1>3 DEF RequestFits
  <2>3. q.seen # None => /\ q.seen \in RouteRow /\ q.seen.hits =< served[q.id]
                         /\ q.seen.enabled => q.id \in published'
    BY <1>2, <1>3, <2>1 DEF SeenIsGenuine
  <2>4. CASE q.seen = None
    <3>1. row = [enabled |-> Given(q.enabled, FALSE), access |-> Given(q.access, "private"), hits |-> 0]
      <4>1. q.kind = "route"
        BY <1>2, <2>4 DEF SeenIsGenuine
      <4> QED BY <2>4, <4>1 DEF UpsertedRoute
    <3>2. Given(q.enabled, FALSE) \in BOOLEAN /\ (Given(q.enabled, FALSE) => q.enabled = TRUE)
      BY <2>1 DEF Given
    <3>3. Given(q.access, "private") \in Accesses
      BY <2>1 DEF Given, Accesses
    <3>4. /\ row.enabled = Given(q.enabled, FALSE) /\ row.hits = 0
          /\ row \in RouteRow
      <4> HIDE DEF row, q
      <4> QED BY <3>1, <3>2, <3>3 DEF RouteRow
    <3>5. row.enabled => q.id \in published'
      BY <2>2, <3>2, <3>4
    <3>6. row.hits =< served[q.id]
      BY <2>1, <3>4
    <3> QED BY <3>4, <3>5, <3>6
  <2>5. CASE q.seen # None
    <3>1. row = [enabled |-> Given(q.enabled, q.seen.enabled), access |-> Given(q.access, q.seen.access),
                 hits |-> q.seen.hits]
      BY <1>2, <2>5 DEF UpsertedRoute, PatchedRoute
    <3>2. q.seen.enabled \in BOOLEAN /\ q.seen.access \in Accesses /\ q.seen.hits \in Nat
      BY <2>1, <2>5 DEF RouteRow
    <3>3. Given(q.enabled, q.seen.enabled) \in BOOLEAN
            /\ (Given(q.enabled, q.seen.enabled) => q.enabled = TRUE \/ q.seen.enabled = TRUE)
      BY <2>1, <3>2 DEF Given
    <3>4. Given(q.access, q.seen.access) \in Accesses
      BY <2>1, <3>2 DEF Given
    <3> HIDE DEF row, q
    <3> QED BY <2>1, <2>2, <2>3, <2>5, <3>1, <3>2, <3>3, <3>4 DEF RouteRow
  <2> QED BY <2>4, <2>5
<1> HIDE DEF row
<1>5. row # None
  BY <1>4, NoneIsNoValue
<1>6. /\ routes' \in [Routes -> RouteRow \union {None}] /\ routes'[q.id] = row
      /\ \A r \in Routes \ {q.id} : routes'[r] = routes[r]
  BY <1>1, <1>2, <1>3, <1>4 DEF TypeOK
<1>7. published \subseteq published' /\ served' = served
  BY <1>3
<1>8. HitsAreServed'
  BY <1>1, <1>4, <1>6, <1>7 DEF HitsAreServed
<1>9. OnlyOperatorsPublish'
  BY <1>1, <1>4, <1>6, <1>7 DEF OnlyOperatorsPublish
<1>10. Keeps
  <2>1. ASSUME NEW x \in Resources, Present(x)
        PROVE  HasRow(sources', imports', routes', x)
    <3>1. \A r \in Routes : routes[r] # None => routes'[r] # None
      BY <1>5, <1>6
    <3>2. sources' = sources /\ imports' = imports
      BY <1>3
    <3> QED BY <2>1, <3>1, <3>2, ResourceItems DEF Present, HasRow
  <2>2. \A r \in Routes : served'[r] >= served[r] /\ served'[r] \in Nat
    BY <1>1, <1>7 DEF TypeOK
  <2> QED BY <1>7, <2>1, <2>2 DEF Keeps
<1>11. /\ sources' \in [Sources -> {None, "created", "edited"}]
       /\ imports' \in [Imports -> {None, "created"}]
  BY <1>1, <1>3 DEF TypeOK
<1>12. q.kind = "route" => HasRow(sources', imports', routes', <<q.kind, q.id>>)
  BY <1>5, <1>6 DEF HasRow
<1> QED BY <1>2, <1>3, <1>6, <1>8, <1>9, <1>10, <1>11, <1>12, WriteStep

(* Only visits and tests count hits, and only projects are inserted.        *)
LEMMA LastKinds ==
  ASSUME NEW kind \in Kinds
  PROVE  /\ (\E i \in DOMAIN Stages(kind) : Stages(kind)[i] = "hit") => kind \in {"visit", "test"}
         /\ (\E i \in DOMAIN Stages(kind) : Stages(kind)[i] = "insert") => kind = "project"
BY DEF Stages, Kinds

LEMMA AnswerStep ==
  ASSUME DInv, NEW c \in Clients, AnswerRequest(c)
  PROVE  DInv'
<1>1. ClientOK(c) /\ TypeOK /\ (c \in Registrars => RegistrarOK(c))
  BY DInvParts
<1>2. req[c].kind # None /\ req[c].at = "answer" /\ Refuse(c, NoError)
  BY DEF AnswerRequest, At
<1>3. c \in Registrars /\ req[c].kind # "project" => req[c].kind \in {"source", "import", "route"}
  BY <1>1, <1>2 DEF ClientOK, RequestFits
<1>4. c \in Registrars /\ req[c].kind # "project" => Present(<<req[c].kind, req[c].id>>)
  BY <1>1, <1>2, <1>3 DEF ClientOK, AnsweredIsPresent
<1> QED BY <1>2, <1>4, RefuseStep

LEMMA RequestFailsStep ==
  ASSUME DInv, NEW c \in Clients, RequestFails(c)
  PROVE  DInv'
<1>1. TypeOK /\ HitsAreServed /\ OnlyOperatorsPublish
  BY DInvParts
<1>2. req[c].kind # None /\ End(c, Unexpected) /\ UNCHANGED <<store, served, published>>
  BY DEF RequestFails
<1>3. /\ Keeps /\ HitsAreServed' /\ OnlyOperatorsPublish'
      /\ req' \in [Clients -> Request] /\ binding' \in [Registrars -> Binding] => TypeOK'
  BY <1>1, <1>2, NothingWritten
<1>4. Unexpected # NoError /\ Unexpected # "conflict"
  BY NoErrorIsNoCode DEF Unexpected
<1> QED BY <1>2, <1>3, <1>4, EndStep

(* The row written back is enabled and has at most as many hits as the       *)
(* route has now been served.                                               *)
LEMMA CountHitStep ==
  ASSUME DInv, NEW c \in Clients, CountHit(c)
  PROVE  DInv'
<1> DEFINE q == req[c]
           row == Counted(q.seen)
<1>1. TypeOK /\ ClientOK(c) /\ HitsAreServed /\ OnlyOperatorsPublish
  BY DInvParts
<1>2. /\ q.kind # None /\ q.at = "hit" /\ q \in Request /\ RequestFits(c) /\ SeenIsGenuine(c)
  BY <1>1 DEF CountHit, At, ClientOK, TypeOK
<1>3. /\ q.seen # None /\ q.seen.enabled /\ q.id \in Routes /\ q.seen.hits =< served[q.id]
      /\ q.id \in published
  BY <1>2 DEF SeenIsGenuine
<1>4. q.seen \in RouteRow
  BY <1>2, <1>3 DEF Request
<1>5. /\ routes' = [routes EXCEPT ![q.id] = row] /\ served' = [served EXCEPT ![q.id] = @ + 1]
      /\ End(c, NoError) /\ UNCHANGED <<sources, imports, published>>
  BY DEF CountHit
<1>6. served[q.id] \in Nat /\ served'[q.id] = served[q.id] + 1 /\ served' \in [Routes -> Nat]
        /\ \A r \in Routes \ {q.id} : served'[r] = served[r]
  BY <1>1, <1>3, <1>5 DEF TypeOK
<1>7. row \in RouteRow /\ row.hits = q.seen.hits + 1
  <2> HIDE DEF q
  <2> QED BY <1>4 DEF Counted, RouteRow
<1>8. row.hits =< served'[q.id]
  <2>1. q.seen.hits \in Nat
    BY <1>4 DEF RouteRow
  <2> QED BY <1>3, <1>6, <1>7, <2>1
<1> HIDE DEF row
<1>9. row # None
  BY <1>7, NoneIsNoValue
<1>10. /\ routes' \in [Routes -> RouteRow \union {None}] /\ routes'[q.id] = row
       /\ \A r \in Routes \ {q.id} : routes'[r] = routes[r]
  BY <1>1, <1>3, <1>5, <1>7 DEF TypeOK
<1>11. HitsAreServed'
  BY <1>1, <1>3, <1>5, <1>6, <1>8, <1>10 DEF HitsAreServed
<1>12. OnlyOperatorsPublish'
  BY <1>1, <1>3, <1>5, <1>6, <1>8, <1>10 DEF OnlyOperatorsPublish
<1>13. Keeps
  <2>1. ASSUME NEW x \in Resources, Present(x)
        PROVE  HasRow(sources', imports', routes', x)
    <3>1. \A r \in Routes : routes[r] # None => routes'[r] # None
      BY <1>9, <1>10
    <3>2. sources' = sources /\ imports' = imports
      BY <1>5
    <3> QED BY <2>1, <3>1, <3>2, ResourceItems DEF Present, HasRow
  <2>2. \A r \in Routes : served'[r] >= served[r] /\ served'[r] \in Nat
    <3>1. \A r \in Routes : served[r] \in Nat
      BY <1>1 DEF TypeOK
    <3> QED BY <1>6, <3>1
  <2> QED BY <1>5, <2>1, <2>2 DEF Keeps
<1>14. req' \in [Clients -> Request] /\ binding' \in [Registrars -> Binding] => TypeOK'
  BY <1>1, <1>5, <1>6, <1>10 DEF TypeOK
<1>15. c \notin Registrars
  <2>1. q.kind \in {"visit", "test"}
    <3>1. q.kind \in Kinds
      BY <1>2 DEF Request
    <3>2. \E i \in DOMAIN Stages(q.kind) : Stages(q.kind)[i] = "hit"
      BY <1>2 DEF RequestFits
    <3> QED BY <3>1, <3>2, LastKinds
  <2> QED BY <1>2, <2>1 DEF RequestFits
<1> QED BY <1>2, <1>5, <1>11, <1>12, <1>13, <1>14, <1>15, EndStep

LEMMA InsertProjectStep ==
  ASSUME DInv, NEW g \in Registrars, InsertProject(g)
  PROVE  DInv'
<1>1. g \in Clients
  BY DEF Clients
<1>2. TypeOK /\ ClientOK(g) /\ HitsAreServed /\ OnlyOperatorsPublish
  BY <1>1, DInvParts
<1>3. req[g].kind # None /\ req[g].at = "insert"
  BY DEF InsertProject, At
<1>4. CASE Refuse(g, Unexpected)
  BY <1>1, <1>3, <1>4, RefusedStep
<1>5. CASE Advance(g) /\ UNCHANGED <<store, binding, served, published>>
  <2>1. req[g].kind = "project"
    <3>1. req[g].kind \in Kinds
      BY <1>1, <1>2, <1>3 DEF TypeOK, Request
    <3>2. \E i \in DOMAIN Stages(req[g].kind) : Stages(req[g].kind)[i] = "insert"
      BY <1>2, <1>3 DEF ClientOK, RequestFits
    <3> QED BY <3>1, <3>2, LastKinds
  <2>2. Keeps /\ HitsAreServed' /\ OnlyOperatorsPublish'
    BY <1>2, <1>5, NothingWritten
  <2>3. /\ sources' \in [Sources -> {None, "created", "edited"}]
        /\ imports' \in [Imports -> {None, "created"}]
        /\ routes' \in [Routes -> RouteRow \union {None}]
    BY <1>2, <1>5 DEF TypeOK, store
  <2>4. UNCHANGED <<binding, served>>
    BY <1>5
  <2> QED BY <1>1, <1>3, <1>5, <2>1, <2>2, <2>3, <2>4, WriteStep
<1> QED BY <1>4, <1>5 DEF InsertProject

-----------------------------------------------------------------------------
(* Requests that begin, and what is not a request *)

LEMMA FirstStage ==
  ASSUME NEW kind \in Kinds
  PROVE  /\ Head(Stages(kind)) \in {"writable", "read", "slug"}
         /\ \E i \in DOMAIN Stages(kind) : Head(Stages(kind)) = Stages(kind)[i]
         /\ kind = "patch" => Head(Stages(kind)) = "read"
<1>1. CASE kind \in {"source", "import"}
  BY <1>1 DEF Stages
<1>2. CASE kind = "route"
  BY <1>2 DEF Stages
<1>3. CASE kind = "patch"
  BY <1>3 DEF Stages
<1>4. CASE kind = "edit"
  BY <1>4 DEF Stages
<1>5. CASE kind = "project"
  BY <1>5 DEF Stages
<1>6. CASE kind = "visit"
  BY <1>6 DEF Stages
<1>7. CASE kind = "test"
  BY <1>7 DEF Stages
<1> QED BY <1>1, <1>2, <1>3, <1>4, <1>5, <1>6, <1>7 DEF Kinds

(* A request that begins has read nothing.                                  *)
Fresh(q, c) ==
  /\ q \in Request /\ q.kind \in Kinds /\ q.seen = None
  /\ q.at = Head(Stages(q.kind))
  /\ q.kind \in {"source", "edit"} => q.id \in Sources
  /\ q.kind = "import" => q.id \in Imports
  /\ q.kind \in {"route", "patch", "test"} => q.id \in Routes
  /\ c \notin Admins => q.enabled # TRUE
  /\ c \in Registrars => q.kind \in {"project", "source", "import", "route"}

LEMMA BeginFields ==
  ASSUME NEW kind \in Kinds, NEW id \in Sources \union Imports \union Routes \union {None}
  PROVE  LET q == Begin(kind, id)
         IN /\ q \in Request /\ q.kind = kind /\ q.id = id /\ q.seen = None
            /\ q.at = Head(Stages(kind)) /\ q.enabled = None
<1> DEFINE at == Head(Stages(kind))
<1>1. at \in StageNames
  BY FirstStage DEF StageNames
<1>2. Begin(kind, id) = [NoRequest EXCEPT !.kind = kind, !.id = id, !.at = at]
  BY DEF Begin
<1> HIDE DEF at
<1>3. /\ Begin(kind, id) \in Request /\ Begin(kind, id).kind = kind /\ Begin(kind, id).id = id
      /\ Begin(kind, id).seen = None /\ Begin(kind, id).at = at /\ Begin(kind, id).enabled = None
  BY <1>1, <1>2 DEF NoRequest, Request
<1> QED BY <1>3 DEF at

LEMMA StartStep ==
  ASSUME DInv, NEW c \in Clients, NEW q, Fresh(q, c), req' = [req EXCEPT ![c] = q],
         UNCHANGED <<store, served, published>>,
         binding' \in [Registrars -> Binding],
         \A g \in Registrars \ {c} : binding'[g] = binding[g],
         c \in Registrars => RegistrarOK(c)'
  PROVE  DInv'
<1>1. TypeOK /\ HitsAreServed /\ OnlyOperatorsPublish
  BY DInvParts
<1>2. /\ req' \in [Clients -> Request] /\ req'[c] = q
      /\ \A d \in Clients \ {c} : req'[d] = req[d]
  BY <1>1 DEF TypeOK, Fresh
<1>3. TypeOK' /\ Keeps /\ HitsAreServed' /\ OnlyOperatorsPublish'
  BY <1>1, <1>2, NothingWritten
<1>4. /\ q.at \in {"writable", "read", "slug"}
      /\ \E i \in DOMAIN Stages(q.kind) : q.at = Stages(q.kind)[i]
      /\ q.kind = "patch" => q.at = "read"
  BY FirstStage DEF Fresh
<1>5. q.kind # None
  BY NoneIsNoValue DEF Fresh
<1>6. RequestFits(c)'
  BY <1>2, <1>4, <1>5 DEF RequestFits, Fresh
<1>7. SeenIsGenuine(c)' /\ AnsweredIsPresent(c)'
  BY <1>2, <1>4 DEF SeenIsGenuine, AnsweredIsPresent, Fresh
<1> QED BY <1>2, <1>3, <1>6, <1>7, StepKeepsDInv DEF ClientOK, OthersStay

(* An administrator's or a visitor's request changes no registrar.          *)
LEMMA OutsiderStep ==
  ASSUME DInv, NEW c \in Clients, c \notin Registrars, NEW q, Fresh(q, c),
         req' = [req EXCEPT ![c] = q], UNCHANGED <<store, binding, served, published>>
  PROVE  DInv'
<1>1. binding \in [Registrars -> Binding]
  BY DInvParts DEF TypeOK
<1> QED BY <1>1, StartStep

LEMMA StartEditStep ==
  ASSUME DInv, NEW a \in Admins, StartEdit(a)
  PROVE  DInv'
<1>1. a \in Clients /\ a \notin Registrars
  BY DeliveryAssumption DEF Clients
<1>2. UNCHANGED <<store, binding, served, published>>
  BY DEF StartEdit
<1>3. ASSUME NEW e \in Edits,
             req' = [req EXCEPT ![a] = [Begin(e.kind, e.id) EXCEPT !.enabled = e.enabled, !.access = e.access]]
      PROVE  DInv'
  <2> DEFINE b == Begin(e.kind, e.id)
             q == [b EXCEPT !.enabled = e.enabled, !.access = e.access]
  <2>1. /\ e.kind \in {"route", "patch"} /\ e.id \in Routes /\ e.enabled \in BOOLEAN \union {None}
        /\ e.access \in Accesses \union {None}
    BY DEF Edits, Accesses
  <2>2. /\ b \in Request /\ b.kind = e.kind /\ b.id = e.id /\ b.seen = None
        /\ b.at = Head(Stages(e.kind))
    BY <2>1, BeginFields DEF Kinds
  <2> HIDE DEF b
  <2>3. /\ q \in Request /\ q.kind = e.kind /\ q.id = e.id /\ q.seen = None
        /\ q.at = Head(Stages(e.kind))
    BY <2>1, <2>2 DEF Request
  <2>4. req' = [req EXCEPT ![a] = q]
    BY <1>3 DEF b
  <2> HIDE DEF q
  <2>5. Fresh(q, a)
    BY <1>1, <2>1, <2>3 DEF Fresh, Kinds
  <2> QED BY <1>1, <1>2, <2>4, <2>5, OutsiderStep
<1>4. ASSUME NEW kind \in {"source", "edit"}, NEW s \in Sources,
             req' = [req EXCEPT ![a] = Begin(kind, s)]
      PROVE  DInv'
  <2> DEFINE q == Begin(kind, s)
  <2>1. q \in Request /\ q.kind = kind /\ q.id = s /\ q.seen = None /\ q.at = Head(Stages(kind))
    BY BeginFields DEF Kinds
  <2> HIDE DEF q
  <2>2. Fresh(q, a)
    BY <1>1, <2>1 DEF Fresh, Kinds
  <2>3. req' = [req EXCEPT ![a] = q]
    BY <1>4 DEF q
  <2> QED BY <1>1, <1>2, <2>2, <2>3, OutsiderStep
<1>5. ASSUME NEW r \in Routes, req' = [req EXCEPT ![a] = [Begin("test", r) EXCEPT !.path = PathOf[r]]]
      PROVE  DInv'
  <2> DEFINE b == Begin("test", r)
             q == [b EXCEPT !.path = PathOf[r]]
  <2>1. /\ b \in Request /\ b.kind = "test" /\ b.id = r /\ b.seen = None
        /\ b.at = Head(Stages("test"))
    BY BeginFields DEF Kinds
  <2> HIDE DEF b
  <2>2. /\ q \in Request /\ q.kind = "test" /\ q.id = r /\ q.seen = None
        /\ q.at = Head(Stages("test"))
    BY <2>1 DEF Request
  <2>3. req' = [req EXCEPT ![a] = q]
    BY <1>5 DEF b
  <2> HIDE DEF q
  <2>4. Fresh(q, a)
    BY <1>1, <2>2 DEF Fresh, Kinds
  <2> QED BY <1>1, <1>2, <2>3, <2>4, OutsiderStep
<1> QED BY <1>3, <1>4, <1>5 DEF StartEdit

LEMMA StartVisitStep ==
  ASSUME DInv, NEW v \in Visitors, StartVisit(v)
  PROVE  DInv'
<1>1. v \in Clients /\ v \notin Registrars
  BY DeliveryAssumption DEF Clients
<1> DEFINE b == Begin("visit", None)
<1>2. PICK x \in Visits : req' = [req EXCEPT ![v] = [b EXCEPT !.path = x.path, !.token = x.token]]
  BY DEF StartVisit
<1> DEFINE q == [b EXCEPT !.path = x.path, !.token = x.token]
<1>3. UNCHANGED <<store, binding, served, published>>
  BY DEF StartVisit
<1>4. /\ b \in Request /\ b.kind = "visit" /\ b.seen = None /\ b.enabled = None
      /\ b.at = Head(Stages("visit"))
  BY BeginFields DEF Kinds
<1>5. x.path \in Paths /\ x.token \in Tokens \union {NoToken}
  BY DEF Visits
<1> HIDE DEF b
<1>6. /\ q \in Request /\ q.kind = "visit" /\ q.seen = None /\ q.enabled = None
      /\ q.at = Head(Stages("visit"))
  BY <1>4, <1>5 DEF Request
<1>7. req' = [req EXCEPT ![v] = q]
  BY <1>2
<1> HIDE DEF q
<1>8. None # TRUE
  BY NoneIsNoValue
<1>9. Fresh(q, v)
  BY <1>1, <1>6, <1>8 DEF Fresh, Kinds
<1> QED BY <1>1, <1>3, <1>7, <1>9, OutsiderStep

(* A registrar's program starts over, or goes on without a request.         *)
LEMMA ProgramStep ==
  ASSUME DInv, NEW g \in Registrars, UNCHANGED <<store, req, served, published>>,
         binding' \in [Registrars -> Binding],
         \A h \in Registrars \ {g} : binding'[h] = binding[h],
         RegistrarOK(g)'
  PROVE  DInv'
<1>1. g \in Clients /\ TypeOK /\ HitsAreServed /\ OnlyOperatorsPublish /\ ClientOK(g)
  BY DInvParts DEF Clients
<1>2. req' \in [Clients -> Request]
  BY <1>1 DEF TypeOK
<1>3. TypeOK' /\ Keeps /\ HitsAreServed' /\ OnlyOperatorsPublish'
  BY <1>1, <1>2, NothingWritten
<1>4. ClientOK(g)'
  BY <1>1, <1>3, OthersStayOK
<1> QED BY <1>1, <1>3, <1>4, StepKeepsDInv DEF OthersStay

LEMMA AttemptStep ==
  ASSUME DInv, NEW g \in Registrars, Attempt(g)
  PROVE  DInv'
<1>1. TypeOK /\ RegistrarOK(g) /\ binding[g] \in Binding
  BY DInvParts DEF TypeOK
<1>2. PICK b :
        /\ binding' = [binding EXCEPT ![g] = b] /\ b \in Binding
        /\ b.at \in {"list", "bind"} /\ b.item = 1 /\ b.said = [i \in DOMAIN Package |-> None]
  <2>1. binding[g].attempts + 1 \in Nat /\ 1 \in DOMAIN Package
    BY <1>1, PackageItems DEF Binding
  <2>2. [i \in DOMAIN Package |-> None] \in [DOMAIN Package -> Outcomes \union {None}]
    OBVIOUS
  <2>3. ASSUME NEW mode \in {"http", "strict", "lenient"}, NEW at \in {"list", "bind"}
        PROVE  LET b == [NoBinding EXCEPT !.mode = mode, !.at = at, !.attempts = binding[g].attempts + 1]
               IN /\ b \in Binding /\ b.at = at /\ b.item = 1
                  /\ b.said = [i \in DOMAIN Package |-> None]
    <3> DEFINE n == binding[g].attempts + 1
               said == [i \in DOMAIN Package |-> None]
    <3>1. NoBinding = [mode |-> None, at |-> "off", item |-> 1, said |-> said, attempts |-> 0]
      BY DEF NoBinding
    <3>2. n \in Nat /\ said \in [DOMAIN Package -> Outcomes \union {None}]
      BY <2>1, <2>2
    <3> HIDE DEF n, said
    <3>3. LET b == [NoBinding EXCEPT !.mode = mode, !.at = at, !.attempts = n]
          IN b \in Binding /\ b.at = at /\ b.item = 1 /\ b.said = said
      BY <2>1, <3>1, <3>2 DEF Binding
    <3> QED BY <3>3 DEF n, said
  <2>4. PICK mode \in {"http", "strict", "lenient"}, at \in {"list", "bind"} :
          binding' = [binding EXCEPT ![g] = [NoBinding EXCEPT !.mode = mode, !.at = at,
                                                              !.attempts = binding[g].attempts + 1]]
    BY DEF Attempt
  <2> DEFINE b == [NoBinding EXCEPT !.mode = mode, !.at = at, !.attempts = binding[g].attempts + 1]
  <2>5. binding' = [binding EXCEPT ![g] = b]
    BY <2>4
  <2>6. b \in Binding /\ b.at = at /\ b.item = 1 /\ b.said = [i \in DOMAIN Package |-> None]
    BY <2>3
  <2> HIDE DEF b
  <2> QED BY <2>5, <2>6
<1>3. binding' \in [Registrars -> Binding] /\ binding'[g] = b
        /\ \A h \in Registrars \ {g} : binding'[h] = binding[h]
  BY <1>1, <1>2 DEF TypeOK
<1>4. UNCHANGED <<store, req, served, published>>
  BY DEF Attempt
<1>5. req'[g].kind = None
  BY <1>1, <1>4 DEF Attempt, RegistrarOK, BindsInOrder
<1>6. \A i \in DOMAIN Package : ~(i < 1)
  BY PackageItems
<1>7. BindsInOrder(g)'
  BY <1>2, <1>3, <1>5, <1>6 DEF BindsInOrder
<1>8. SaysTrue(g)'
  BY <1>2, <1>3, NoneIsNoValue DEF SaysTrue, Outcomes
<1> QED BY <1>3, <1>4, <1>7, <1>8, ProgramStep DEF RegistrarOK

LEMMA ListProjectsStep ==
  ASSUME DInv, NEW g \in Registrars, ListProjects(g)
  PROVE  DInv'
<1>1. TypeOK /\ RegistrarOK(g) /\ binding[g] \in Binding /\ g \in Clients /\ g \notin Admins
  BY DInvParts, DeliveryAssumption DEF TypeOK, Clients
<1>2. PICK to \in {"bind", "create"} :
        /\ binding' = [binding EXCEPT ![g].at = to]
        /\ IF to = "bind" THEN UNCHANGED req ELSE req' = [req EXCEPT ![g] = Begin("project", None)]
  BY DEF ListProjects
<1>3. binding[g].at = "list" /\ req[g] = NoRequest /\ UNCHANGED <<store, served, published>>
  BY DEF ListProjects, Idle
<1> DEFINE b == [binding[g] EXCEPT !.at = to]
<1>4. b \in Binding /\ b.at = to /\ b.item = binding[g].item /\ b.said = binding[g].said
        /\ b.mode = binding[g].mode
  BY <1>1 DEF Binding
<1>5. binding' \in [Registrars -> Binding] /\ binding'[g] = b
        /\ \A h \in Registrars \ {g} : binding'[h] = binding[h]
  BY <1>1, <1>2, <1>4 DEF TypeOK
<1> HIDE DEF b
<1>6. Keeps
  BY <1>1, <1>3, DInvParts, NothingWritten
<1>7. SaysTrue(g)'
  BY <1>1, <1>4, <1>5, <1>6, PackageItems DEF RegistrarOK, SaysTrue, Keeps, Present
<1>8. \A i \in DOMAIN Package : i < b.item \/ b.at = "done" => b.said[i] # None
  BY <1>1, <1>4 DEF RegistrarOK, BindsInOrder
<1>9. CASE to = "bind"
  <2>1. UNCHANGED req
    BY <1>2, <1>9
  <2>2. req'[g].kind = None
    BY <1>3, <2>1 DEF NoRequest
  <2>3. BindsInOrder(g)'
    BY <1>5, <1>8, <2>2 DEF BindsInOrder
  <2> QED BY <1>3, <1>5, <1>7, <2>1, <2>3, ProgramStep DEF RegistrarOK
<1>10. CASE to = "create"
  <2> DEFINE q == Begin("project", None)
  <2>1. /\ q \in Request /\ q.kind = "project" /\ q.seen = None /\ q.enabled = None
        /\ q.at = Head(Stages("project"))
    BY BeginFields DEF Kinds
  <2>2. req' = [req EXCEPT ![g] = q]
    BY <1>2, <1>10
  <2> HIDE DEF q
  <2>3. None # TRUE
    BY NoneIsNoValue
  <2>4. Fresh(q, g)
    BY <1>1, <2>1, <2>3 DEF Fresh, Kinds
  <2>5. req'[g].kind = "project"
    BY <1>1, <2>1, <2>2 DEF TypeOK
  <2>6. BindsInOrder(g)'
    BY <1>4, <1>5, <1>8, <1>10, <2>5 DEF BindsInOrder
  <2> QED BY <1>1, <1>3, <1>5, <1>7, <2>2, <2>4, <2>6, StartStep DEF RegistrarOK
<1> QED BY <1>9, <1>10

(* The request is for the item the program is at.                           *)
LEMMA BindNextStep ==
  ASSUME DInv, NEW g \in Registrars, BindNext(g)
  PROVE  DInv'
<1>1. TypeOK /\ RegistrarOK(g) /\ binding[g] \in Binding /\ g \in Clients /\ g \notin Admins
  BY DInvParts, DeliveryAssumption DEF TypeOK, Clients
<1> DEFINE item == Package[binding[g].item]
           b == Begin(item[1], item[2])
           q == IF item[1] = "route" THEN [b EXCEPT !.enabled = FALSE, !.access = "public"] ELSE b
<1>2. /\ req' = [req EXCEPT ![g] = q] /\ binding[g].at = "bind"
      /\ UNCHANGED <<store, binding, served, published>>
  BY DEF BindNext
<1>3. item \in Resources
  BY <1>1, PackageItems DEF Binding
<1>4. /\ item = <<item[1], item[2]>>
      /\ \/ item[1] = "source" /\ item[2] \in Sources
         \/ item[1] = "import" /\ item[2] \in Imports
         \/ item[1] = "route" /\ item[2] \in Routes
  BY <1>3, ResourceItems
<1>5. /\ b \in Request /\ b.kind = item[1] /\ b.id = item[2] /\ b.seen = None
      /\ b.at = Head(Stages(item[1])) /\ b.enabled = None
  BY <1>4, BeginFields DEF Kinds
<1> HIDE DEF b, item
<1>6. /\ q \in Request /\ q.kind = item[1] /\ q.id = item[2] /\ q.seen = None
      /\ q.at = Head(Stages(item[1])) /\ q.enabled \in {None, FALSE}
  BY <1>5 DEF Request, Accesses
<1> HIDE DEF q
<1>7. None # TRUE
  BY NoneIsNoValue
<1>8. Fresh(q, g)
  BY <1>1, <1>4, <1>6, <1>7 DEF Fresh, Kinds
<1>9. req'[g].kind = item[1] /\ req'[g].id = item[2]
  BY <1>1, <1>2, <1>6 DEF TypeOK
<1>10. binding' = binding /\ binding \in [Registrars -> Binding]
  BY <1>1, <1>2 DEF TypeOK
<1>11. BindsInOrder(g)'
  <2>1. <<req'[g].kind, req'[g].id>> = Package[binding'[g].item]
    BY <1>4, <1>9, <1>10 DEF item
  <2> QED BY <1>1, <1>2, <1>10, <2>1 DEF RegistrarOK, BindsInOrder
<1>12. Keeps
  BY <1>1, <1>2, DInvParts, NothingWritten
<1>13. SaysTrue(g)'
  BY <1>1, <1>10, <1>12, PackageItems DEF RegistrarOK, SaysTrue, Keeps, Present
<1> QED BY <1>1, <1>2, <1>8, <1>10, <1>11, <1>13, StartStep DEF RegistrarOK

-----------------------------------------------------------------------------
(* The invariant *)

LEMMA InitDInv ==
  ASSUME Init
  PROVE  DInv
<1>1. None \notin Kinds /\ None \notin StageNames /\ None \notin BOOLEAN /\ None \notin Outcomes
  BY NoneIsNoValue
<1>2. NoRequest \in Request /\ NoBinding \in Binding
  <2>1. 1 \in DOMAIN Package
    BY PackageItems
  <2> DEFINE said == [i \in DOMAIN Package |-> None]
  <2>2. said \in [DOMAIN Package -> Outcomes \union {None}]
    OBVIOUS
  <2>3. NoBinding = [mode |-> None, at |-> "off", item |-> 1, said |-> said, attempts |-> 0]
    BY DEF NoBinding
  <2> HIDE DEF said
  <2>4. NoBinding \in Binding
    BY <2>1, <2>2, <2>3 DEF Binding
  <2>5. NoRequest \in Request
    BY DEF NoRequest, Request
  <2> QED BY <2>4, <2>5
<1>3. /\ NoRequest.kind = None /\ NoRequest.at = None /\ NoRequest.seen = None
      /\ NoRequest.enabled = None
      /\ NoBinding.item = 1 /\ NoBinding.at = "off" /\ NoBinding.said = [i \in DOMAIN Package |-> None]
  BY DEF NoRequest, NoBinding
<1>4. TypeOK
  BY <1>2 DEF Init, TypeOK
<1>5. ASSUME NEW c \in Clients
      PROVE  ClientOK(c)
  <2>1. req[c] = NoRequest
    BY DEF Init
  <2>2. RequestFits(c)
    BY <1>1, <1>3, <2>1 DEF RequestFits, Kinds
  <2>3. SeenIsGenuine(c)
    BY <1>1, <1>3, <2>1 DEF SeenIsGenuine, Kinds, StageNames
  <2>4. AnsweredIsPresent(c)
    BY <1>1, <1>3, <2>1 DEF AnsweredIsPresent, StageNames
  <2> QED BY <2>2, <2>3, <2>4 DEF ClientOK
<1>6. ASSUME NEW g \in Registrars
      PROVE  RegistrarOK(g)
  <2>1. req[g].kind = None /\ binding[g] = NoBinding
    BY <1>3 DEF Init, Clients
  <2>2. \A i \in DOMAIN Package : ~(i < 1)
    BY PackageItems
  <2>3. BindsInOrder(g)
    BY <1>3, <2>1, <2>2 DEF BindsInOrder
  <2>4. SaysTrue(g)
    BY <1>1, <1>3, <2>1 DEF SaysTrue, Outcomes
  <2> QED BY <2>3, <2>4 DEF RegistrarOK
<1>7. HitsAreServed /\ OnlyOperatorsPublish
  BY DEF Init, HitsAreServed, OnlyOperatorsPublish
<1> QED BY <1>4, <1>5, <1>6, <1>7, DInvParts

(* Projects, datasets, schemas and tokens change nothing of this.           *)
LEMMA WorldStep ==
  ASSUME DInv, UNCHANGED <<store, req, binding, served, published>>
  PROVE  DInv'
<1>1. /\ TypeOK /\ HitsAreServed /\ OnlyOperatorsPublish
      /\ \A c \in Clients : ClientOK(c)
      /\ \A g \in Registrars : RegistrarOK(g)
  BY DInvParts
<1>2. req' \in [Clients -> Request] /\ binding' \in [Registrars -> Binding]
  BY <1>1 DEF TypeOK
<1>3. TypeOK' /\ Keeps /\ HitsAreServed' /\ OnlyOperatorsPublish'
  BY <1>1, <1>2, NothingWritten
<1>4. \A c \in Clients : ClientOK(c)'
  BY <1>1, <1>3, OthersStayOK
<1>5. \A g \in Registrars : RegistrarOK(g)'
  BY <1>1, <1>3, OtherBindingsStayOK
<1> QED BY <1>3, <1>4, <1>5 DEF DInv, ClientOK, RegistrarOK, SaysTrue, ReportsAreTrue

LEMMA DInvStep ==
  ASSUME DInv, [Next]_vars
  PROVE  DInv'
<1>1. ASSUME NEW c \in Clients, Step(c)
      PROVE  DInv'
  BY <1>1, ChecksStep, ReadRowStep, SourceStep, InsertImportStep, WriteRouteStep, AnswerStep,
     RequestFailsStep, ExecuteStep, CountHitStep DEF Step
<1>2. ASSUME NEW a \in Admins, StartEdit(a)
      PROVE  DInv'
  BY <1>2, StartEditStep
<1>3. CASE \/ \E s \in {"active", "inactive", "archived"} : SetStatus(s)
           \/ \E p \in {Project, Other} : PlaceDataset(p)
           \/ RegisterSchema
           \/ \E t \in Tokens : CreateToken(t, {"project:admin"}) \/ RevokeToken(t)
           \/ UNCHANGED vars
  <2>1. UNCHANGED <<store, req, binding, served, published>>
    BY <1>3 DEF SetStatus, PlaceDataset, RegisterSchema, CreateToken, RevokeToken, vars
  <2> QED BY <2>1, WorldStep
<1>4. ASSUME NEW v \in Visitors, StartVisit(v) \/ VisitProject(v) \/ ListRoutes(v)
      PROVE  DInv'
  BY <1>4, StartVisitStep, ChecksStep DEF Clients
<1>5. ASSUME NEW g \in Registrars,
             Attempt(g) \/ ListProjects(g) \/ CheckSlug(g) \/ InsertProject(g) \/ BindNext(g)
      PROVE  DInv'
  BY <1>5, AttemptStep, ListProjectsStep, ChecksStep, InsertProjectStep, BindNextStep DEF Clients
<1> QED BY <1>1, <1>2, <1>3, <1>4, <1>5 DEF Next

(* However visitors, administrators and registrars interleave, and whatever  *)
(* fails, what a request holds and a registrar says is true of the store.   *)
THEOREM DeliveryInvariance == Spec => []DInv
<1>1. Init => DInv
  BY InitDInv
<1>2. DInv /\ [Next]_vars => DInv'
  BY DInvStep
<1> QED BY <1>1, <1>2, PTL DEF Spec

(* A registrar that says it created or stored a resource is right, and so is  *)
(* one in process that says a resource exists.                              *)
THEOREM ReportsAreAlwaysTrue == Spec => []ReportsAreTrue
<1>1. DInv => ReportsAreTrue
  BY DEF DInv
<1> QED BY <1>1, DeliveryInvariance, PTL

(* Only an administrator's request makes a route one that is served, and its *)
(* hits are at most its visits.                                             *)
THEOREM RoutesAreOperated == Spec => []OnlyOperatorsPublish
<1>1. DInv => OnlyOperatorsPublish
  BY DEF DInv
<1> QED BY <1>1, DeliveryInvariance, PTL

(* A registrar in process that ends without an error has bound its package,  *)
(* up to the routes it reports as failed.                                   *)
THEOREM InProcessRegistersAll == Spec => []InProcessIsComplete
<1>1. ASSUME DInv
      PROVE  InProcessIsComplete
  <2> SUFFICES ASSUME NEW g \in Registrars, NEW i \in DOMAIN Package,
                      binding[g].at = "done", binding[g].mode # "http", binding[g].said[i] # "failed"
               PROVE  Present(Package[i])
    BY DEF InProcessIsComplete
  <2>1. binding[g].said[i] \in Outcomes \union {None}
    BY <1>1 DEF DInv, TypeOK, Binding
  <2>2. binding[g].said[i] # None
    BY <1>1 DEF DInv, BindsInOrder
  <2> QED BY <1>1, <2>1, <2>2 DEF DInv, ReportsAreTrue, Outcomes
<1> QED BY <1>1, DeliveryInvariance, PTL

LEMMA KeepsExistingStep ==
  ASSUME DInv, [Next]_vars, NEW g \in Registrars, req'[g] # req[g]
  PROVE  /\ \A s \in Sources : sources[s] # None => sources'[s] = sources[s]
         /\ \A i \in Imports : imports[i] # None => imports'[i] = imports[i]
<1> USE DEF store
<1>1. TypeOK /\ \A c \in Clients : RequestFits(c)
  BY DEF DInv
<1>2. ASSUME NEW c \in Clients, UpdateSource(c)
      PROVE  FALSE
  <2>1. c \notin Registrars
    BY <1>1, <1>2, NoneIsNoValue DEF UpdateSource, RequestFits, Kinds
  <2> QED BY <1>1, <1>2, <2>1 DEF UpdateSource, Advance, TypeOK
<1>3. ASSUME NEW c \in Clients, InsertSource(c)
      PROVE  /\ \A s \in Sources : sources[s] # None => sources'[s] = sources[s]
             /\ imports' = imports
  BY <1>1, <1>3 DEF InsertSource, Refuse, TypeOK
<1>4. ASSUME NEW c \in Clients, InsertImport(c)
      PROVE  /\ \A i \in Imports : imports[i] # None => imports'[i] = imports[i]
             /\ sources' = sources
  BY <1>1, <1>4 DEF InsertImport, Refuse, TypeOK
<1>5. ASSUME NEW c \in Clients,
             \/ CheckWritable(c) \/ CheckOwned(c) \/ CheckSchema(c) \/ ReadRow(c)
             \/ WriteRoute(c) \/ AnswerRequest(c) \/ RequestFails(c)
             \/ Execute(c) \/ ReadData(c) \/ CountHit(c)
             \/ StartVisit(c) \/ VisitProject(c) \/ ListRoutes(c) \/ StartEdit(c)
             \/ Attempt(c) \/ ListProjects(c) \/ CheckSlug(c) \/ InsertProject(c) \/ BindNext(c)
      PROVE  sources' = sources /\ imports' = imports
  <2>1. CASE CheckWritable(c) \/ CheckOwned(c) \/ CheckSchema(c) \/ ReadRow(c) \/ WriteRoute(c)
    BY <2>1 DEF CheckWritable, CheckOwned, CheckSchema, ReadRow, WriteRoute, Refuse, Proceed
  <2>2. CASE AnswerRequest(c) \/ RequestFails(c) \/ Execute(c) \/ ReadData(c) \/ CountHit(c)
    BY <2>2 DEF AnswerRequest, RequestFails, Execute, ReadData, CountHit, Refuse, Proceed
  <2>3. CASE StartVisit(c) \/ VisitProject(c) \/ ListRoutes(c) \/ StartEdit(c)
    BY <2>3 DEF StartVisit, VisitProject, ListRoutes, StartEdit, Refuse, Proceed
  <2>4. CASE Attempt(c) \/ ListProjects(c) \/ CheckSlug(c) \/ InsertProject(c) \/ BindNext(c)
    BY <2>4 DEF Attempt, ListProjects, CheckSlug, InsertProject, BindNext, Refuse, Proceed
  <2> QED BY <1>5, <2>1, <2>2, <2>3, <2>4
<1>6. CASE \/ \E s \in {"active", "inactive", "archived"} : SetStatus(s)
           \/ \E p \in {Project, Other} : PlaceDataset(p)
           \/ RegisterSchema
           \/ \E t \in Tokens : CreateToken(t, {"project:admin"}) \/ RevokeToken(t)
           \/ UNCHANGED vars
  BY <1>6 DEF SetStatus, PlaceDataset, RegisterSchema, CreateToken, RevokeToken, vars
<1> QED BY <1>2, <1>3, <1>4, <1>5, <1>6 DEF Next, Step, Clients

(* No step of a registrar changes a data source or a saved import that is     *)
(* there, so registering a package again keeps what operators made of them. *)
THEOREM PackagesKeepExisting == Spec => PackageKeepsExisting
<1>1. DInv /\ [Next]_vars =>
        ((\E g \in Registrars : req'[g] # req[g])
         => /\ \A s \in Sources : sources[s] # None => sources'[s] = sources[s]
            /\ \A i \in Imports : imports[i] # None => imports'[i] = imports[i])
  BY KeepsExistingStep
<1> QED BY <1>1, DeliveryInvariance, PTL DEF Spec, PackageKeepsExisting

-----------------------------------------------------------------------------
(* The SDK.                                                                 *)

(* The handlers by the number of segments of their paths, written out.        *)
OneSegment ==
  {On("GET", <<"health">>, <<>>, 200, "bare", "core"),
   On("GET", <<"schemas">>, <<>>, 200, "bare", "core"),
   On("POST", <<"schemas">>, <<>>, 201, "bare", "core"),
   On("GET", <<"entities">>, <<"input">>, 200, "bare", "core"),
   On("GET", <<"query">>, <<"input">>, 200, "bare", "core"),
   On("POST", <<"import">>, <<"input">>, 200, "bare", "core"),
   On("GET", <<"imports">>, <<>>, 200, "bare", "core"),
   On("GET", <<"stats">>, <<>>, 200, "bare", "core")}

TwoSegments ==
  {On("GET", <<"schemas", Param>>, <<>>, 200, "bare", "core"),
   On("GET", <<"entities", Param>>, <<>>, 200, "bare", "core"),
   On("PUT", <<"entities", Param>>, <<"input">>, 200, "bare", "entity"),
   On("GET", <<"query", "explain">>, <<"input">>, 200, "bare", "core"),
   On("POST", <<"import", "analyze">>, <<"input">>, 200, "bare", "core"),
   On("POST", <<"import", "run">>, <<"input">>, 200, "bare", "core"),
   On("POST", <<"api", "projects">>, <<>>, 201, "data", "api"),
   On("GET", <<"api", "projects">>, <<>>, 200, "data", "api")}

ThreeSegments ==
  {On("GET", <<"api", "projects", Param>>, <<>>, 200, "data", "api"),
   On("PATCH", <<"api", "projects", Param>>, <<>>, 200, "data", "api")}

FourSegments ==
  {On("GET", <<"entities", Param, "revisions", Param>>, <<"input">>, 200, "bare", "core"),
   On("GET", <<"api", "projects", "by-slug", Param>>, <<>>, 200, "data", "api"),
   On("PATCH", <<"api", "projects", Param, "status">>, <<>>, 200, "data", "api"),
   On("POST", <<"api", "projects", Param, "archive">>, <<>>, 200, "data", "api"),
   On("GET", <<"api", "projects", Param, "datasets">>, <<>>, 200, "data", "api"),
   On("POST", <<"api", "projects", Param, "datasets">>, <<>>, 201, "data", "api"),
   On("GET", <<"api", "projects", Param, "sources">>,
      <<"project", "project:read">>, 200, "data", "platform"),
   On("POST", <<"api", "projects", Param, "sources">>,
      <<"project", "source:manage">>, 201, "data", "platform"),
   On("GET", <<"api", "projects", Param, "saved-imports">>,
      <<"project", "project:read">>, 200, "data", "platform"),
   On("POST", <<"api", "projects", Param, "saved-imports">>,
      <<"project", "import:run">>, 201, "data", "platform"),
   On("GET", <<"api", "projects", Param, "routes">>,
      <<"project", "project:read">>, 200, "data", "platform"),
   On("POST", <<"api", "projects", Param, "routes">>,
      <<"project", "route:manage">>, 201, "data", "platform"),
   On("GET", <<"api", "projects", Param, "tokens">>,
      <<"project", "project:admin">>, 200, "data", "platform"),
   On("POST", <<"api", "projects", Param, "tokens">>,
      <<"project", "project:admin">>, 201, "data", "platform"),
   On("GET", <<"api", "projects", Param, "audit">>,
      <<"project", "project:admin">>, 200, "data", "platform"),
   On("GET", <<"public", Param, "v1", Param>>, <<>>, 200, "bare", "public")}

FiveSegments ==
  {On("GET", <<"api", "projects", Param, "datasets", Param>>, <<>>, 200, "data", "api"),
   On("PATCH", <<"api", "projects", Param, "datasets", Param>>, <<>>, 200, "data", "api"),
   On("GET", <<"api", "projects", Param, "sources", Param>>,
      <<"project:read">>, 200, "data", "platform"),
   On("PATCH", <<"api", "projects", Param, "sources", Param>>,
      <<"source:manage">>, 200, "data", "platform"),
   On("GET", <<"api", "projects", Param, "saved-imports", Param>>,
      <<"project:read">>, 200, "data", "platform"),
   On("PATCH", <<"api", "projects", Param, "saved-imports", Param>>,
      <<"import:run">>, 200, "data", "platform"),
   On("PATCH", <<"api", "projects", Param, "routes", Param>>,
      <<"route:manage">>, 200, "data", "platform")}

SixSegments ==
  {On("GET", <<"api", "projects", Param, "datasets", Param, "schemas">>,
      <<"project", "dataset">>, 200, "data", "api"),
   On("POST", <<"api", "projects", Param, "datasets", Param, "schemas">>,
      <<"project", "dataset">>, 201, "data", "api"),
   On("GET", <<"api", "projects", Param, "datasets", Param, "imports">>,
      <<"project", "dataset">>, 200, "data", "api"),
   On("POST", <<"api", "projects", Param, "saved-imports", Param, "run">>,
      <<"import:run">>, 200, "data", "platform"),
   On("POST", <<"api", "projects", Param, "routes", Param, "test">>,
      <<"route:manage">>, 200, "data", "platform"),
   On("POST", <<"api", "projects", Param, "tokens", Param, "revoke">>,
      <<"project:admin">>, 200, "data", "platform")}

SevenSegments ==
  {On("GET", <<"api", "projects", Param, "datasets", Param, "schemas", Param>>,
      <<"project", "dataset">>, 200, "data", "api"),
   On("POST", <<"api", "projects", Param, "datasets", Param, "imports", "run">>,
      <<"project", "dataset", "input">>, 200, "data", "api")}

LEMMA HandlersBySize ==
  Handlers = OneSegment \union TwoSegments \union ThreeSegments \union FourSegments
               \union FiveSegments \union SixSegments \union SevenSegments
<1> DEFINE BySize == OneSegment \union TwoSegments \union ThreeSegments \union FourSegments
                       \union FiveSegments \union SixSegments \union SevenSegments
<1>1. HealthHandlers \subseteq BySize
  BY DEF HealthHandlers, Core, OneSegment
<1>2. SchemaHandlers \subseteq BySize
  BY DEF SchemaHandlers, Core, OneSegment, TwoSegments
<1>3. EntityHandlers \subseteq BySize
  BY DEF EntityHandlers, Core, OneSegment, TwoSegments, FourSegments
<1>4. QueryHandlers \subseteq BySize
  BY DEF QueryHandlers, Core, OneSegment, TwoSegments
<1>5. ImportHandlers \subseteq BySize
  BY DEF ImportHandlers, Core, OneSegment, TwoSegments
<1>6. StatsHandlers \subseteq BySize
  BY DEF StatsHandlers, Core, OneSegment
<1>7. ProjectHandlers \subseteq BySize
  BY DEF ProjectHandlers, Api, TwoSegments, ThreeSegments, FourSegments
<1>8. DatasetHandlers \subseteq BySize
  BY DEF DatasetHandlers, Api, FourSegments, FiveSegments
<1>9. DatasetResourceHandlers \subseteq BySize
  BY DEF DatasetResourceHandlers, Api, SixSegments, SevenSegments
<1>10. SourceHandlers \subseteq BySize
  BY DEF SourceHandlers, Collection, Item, FourSegments, FiveSegments
<1>11. SavedImportHandlers \subseteq BySize
  BY DEF SavedImportHandlers, Collection, Item, Operation, FourSegments, FiveSegments, SixSegments
<1>12. RouteHandlers \subseteq BySize
  BY DEF RouteHandlers, Collection, Item, Operation, FourSegments, FiveSegments, SixSegments
<1>13. TokenHandlers \subseteq BySize
  BY DEF TokenHandlers, Collection, Operation, FourSegments, SixSegments
<1>14. AuditHandlers \subseteq BySize
  BY DEF AuditHandlers, Collection, FourSegments
<1>15. PublicHandlers \subseteq BySize
  BY DEF PublicHandlers, FourSegments
<1>16. OneSegment \subseteq Handlers
  BY
     DEF OneSegment, Handlers, HealthHandlers, SchemaHandlers, EntityHandlers, QueryHandlers,
         ImportHandlers, StatsHandlers, Core
<1>17. TwoSegments \subseteq Handlers
  BY
     DEF TwoSegments, Handlers, SchemaHandlers, EntityHandlers, QueryHandlers, ImportHandlers,
         ProjectHandlers, Core, Api
<1>18. ThreeSegments \subseteq Handlers
  BY DEF ThreeSegments, Handlers, ProjectHandlers, Api
<1>19. FourSegments \subseteq Handlers
  BY
     DEF FourSegments, Handlers, EntityHandlers, ProjectHandlers, DatasetHandlers,
         SourceHandlers, SavedImportHandlers, RouteHandlers, TokenHandlers, AuditHandlers,
         PublicHandlers, Core, Api, Collection, Item, Operation
<1>20. FiveSegments \subseteq Handlers
  BY
     DEF FiveSegments, Handlers, DatasetHandlers, SourceHandlers, SavedImportHandlers,
         RouteHandlers, Api, Collection, Item, Operation
<1>21. SixSegments \subseteq Handlers
  BY
     DEF SixSegments, Handlers, DatasetResourceHandlers, SavedImportHandlers, RouteHandlers,
         TokenHandlers, Api, Collection, Item, Operation
<1>22. SevenSegments \subseteq Handlers
  BY DEF SevenSegments, Handlers, DatasetResourceHandlers, Api
<1>23. Handlers \subseteq BySize
  <2> HIDE DEF BySize
  <2> QED BY <1>1, <1>2, <1>3, <1>4, <1>5, <1>6, <1>7, <1>8, <1>9, <1>10, <1>11, <1>12,
     <1>13, <1>14, <1>15 DEF Handlers
<1> QED BY <1>16, <1>17, <1>18, <1>19, <1>20, <1>21, <1>22, <1>23

OfSize(n) == {h \in Handlers : Len(h.path) = n}

LEMMA SizesOfHandlers ==
  /\ OfSize(1) = OneSegment /\ OfSize(2) = TwoSegments /\ OfSize(3) = ThreeSegments
  /\ OfSize(4) = FourSegments /\ OfSize(5) = FiveSegments /\ OfSize(6) = SixSegments
<1>1. \A f \in OneSegment : Len(f.path) = 1
  BY DEF OneSegment, On
<1>2. \A f \in TwoSegments : Len(f.path) = 2
  BY DEF TwoSegments, On
<1>3. \A f \in ThreeSegments : Len(f.path) = 3
  BY DEF ThreeSegments, On
<1>4. \A f \in FourSegments : Len(f.path) = 4
  BY DEF FourSegments, On
<1>5. \A f \in FiveSegments : Len(f.path) = 5
  BY DEF FiveSegments, On
<1>6. \A f \in SixSegments : Len(f.path) = 6
  BY DEF SixSegments, On
<1>7. \A f \in SevenSegments : Len(f.path) = 7
  BY DEF SevenSegments, On
<1> QED BY <1>1, <1>2, <1>3, <1>4, <1>5, <1>6, <1>7, HandlersBySize DEF OfSize

(* The handler h is the one a call c of the SDK is routed to; it answers in the *)
(* form the method reads, and checks only what a call about the project p     *)
(* meets with the scopes for it.                                              *)
Reaches(c, h, p) ==
  /\ h \in OfSize(Len(c.path)) /\ h.method = c.method /\ PathFits(h.path, c.path)
  /\ \A g \in OfSize(Len(c.path)) :
       g.method = c.method /\ PathFits(g.path, c.path) /\ g # h
         => Preferred(h.path, g.path) /\ ~Preferred(g.path, h.path)
  /\ c.complete = TRUE /\ h.body = c.expects /\ h.status \in 200..299
  /\ h.errors \in {"core", "entity", "api", "platform", "public"}
  /\ c.method = "PUT" => h.errors = "entity"
  /\ \A i \in DOMAIN h.checks :
       \/ h.checks[i] = "project" /\ c.path[3] = p
       \/ h.checks[i] \in AuthScopes \union {"input"}

LEMMA DatasetCalls ==
  ASSUME NEW p, p # "by-slug", NEW d, NEW c \in SdkDatasets(p, d)
  PROVE  \E h \in Handlers : Reaches(c, h, p)
<1>1. Reaches(Sends("GET", <<"api", "projects", p, "datasets">>, "data"),
             Api("GET", <<"api", "projects", Param, "datasets">>, <<>>, 200), p)
  BY SizesOfHandlers DEF Reaches, Sends, PathFits, Param, AuthScopes, On, Api, FourSegments
<1>2. Reaches(Sends("GET", <<"api", "projects", p, "datasets", d>>, "data"),
             Api("GET", <<"api", "projects", Param, "datasets", Param>>, <<>>, 200), p)
  BY SizesOfHandlers DEF Reaches, Sends, PathFits, Param, AuthScopes, On, Api, FiveSegments
<1>3. Reaches(Sends("POST", <<"api", "projects", p, "datasets">>, "data"),
             Api("POST", <<"api", "projects", Param, "datasets">>, <<>>, 201), p)
  BY SizesOfHandlers DEF Reaches, Sends, PathFits, Param, AuthScopes, On, Api, FourSegments
<1>4. Reaches(Sends("PATCH", <<"api", "projects", p, "datasets", d>>, "data"),
             Api("PATCH", <<"api", "projects", Param, "datasets", Param>>, <<>>, 200), p)
  BY SizesOfHandlers DEF Reaches, Sends, PathFits, Param, AuthScopes, On, Api, FiveSegments
<1>5. \A b, h : Reaches(b, h, p) => h \in Handlers
  BY DEF Reaches, OfSize
<1> QED BY <1>1, <1>2, <1>3, <1>4, <1>5 DEF SdkDatasets

LEMMA ProjectCalls ==
  ASSUME NEW p, NEW x, NEW c \in SdkProjects(p, x)
  PROVE  \E h \in Handlers : Reaches(c, h, p)
<1>1. Reaches(Sends("GET", <<"api", "projects">>, "data"),
             Api("GET", <<"api", "projects">>, <<>>, 200), p)
  BY SizesOfHandlers DEF Reaches, Sends, PathFits, Param, AuthScopes, On, Api, TwoSegments
<1>2. Reaches(Sends("GET", <<"api", "projects", p>>, "data"),
             Api("GET", <<"api", "projects", Param>>, <<>>, 200), p)
  BY SizesOfHandlers DEF Reaches, Sends, PathFits, Param, AuthScopes, On, Api, ThreeSegments
<1>3. Reaches(Sends("GET", <<"api", "projects", "by-slug", x>>, "data"),
             Api("GET", <<"api", "projects", "by-slug", Param>>, <<>>, 200), p)
  BY SizesOfHandlers
     DEF Reaches, Sends, PathFits, Param, AuthScopes, On, Preferred, Api, FourSegments
<1>4. \A b, h : Reaches(b, h, p) => h \in Handlers
  BY DEF Reaches, OfSize
<1> QED BY <1>1, <1>2, <1>3, <1>4 DEF SdkProjects

LEMMA PlatformCalls ==
  ASSUME NEW p, p # "by-slug", NEW x, NEW c \in SdkPlatform(p, x)
  PROVE  \E h \in Handlers : Reaches(c, h, p)
<1>1. Reaches(Sends("GET", <<"api", "projects", p, "sources">>, "data"),
             Collection("GET", "sources", "project:read", 200), p)
  BY SizesOfHandlers DEF Reaches, Sends, PathFits, Param, AuthScopes, On, Collection, FourSegments
<1>2. Reaches(Sends("POST", <<"api", "projects", p, "sources">>, "data"),
             Collection("POST", "sources", "source:manage", 201), p)
  BY SizesOfHandlers DEF Reaches, Sends, PathFits, Param, AuthScopes, On, Collection, FourSegments
<1>3. Reaches(Sends("GET", <<"api", "projects", p, "saved-imports">>, "data"),
             Collection("GET", "saved-imports", "project:read", 200), p)
  BY SizesOfHandlers DEF Reaches, Sends, PathFits, Param, AuthScopes, On, Collection, FourSegments
<1>4. Reaches(Sends("POST", <<"api", "projects", p, "saved-imports">>, "data"),
             Collection("POST", "saved-imports", "import:run", 201), p)
  BY SizesOfHandlers DEF Reaches, Sends, PathFits, Param, AuthScopes, On, Collection, FourSegments
<1>5. Reaches(Sends("GET", <<"api", "projects", p, "routes">>, "data"),
             Collection("GET", "routes", "project:read", 200), p)
  BY SizesOfHandlers DEF Reaches, Sends, PathFits, Param, AuthScopes, On, Collection, FourSegments
<1>6. Reaches(Sends("POST", <<"api", "projects", p, "routes">>, "data"),
             Collection("POST", "routes", "route:manage", 201), p)
  BY SizesOfHandlers DEF Reaches, Sends, PathFits, Param, AuthScopes, On, Collection, FourSegments
<1>7. Reaches(Sends("POST", <<"api", "projects", p, "saved-imports", x, "run">>, "data"),
             Operation("saved-imports", "run", "import:run"), p)
  BY SizesOfHandlers DEF Reaches, Sends, PathFits, Param, AuthScopes, On, Operation, SixSegments
<1>8. Reaches(Sends("PATCH", <<"api", "projects", p, "saved-imports", x>>, "data"),
             Item("PATCH", "saved-imports", "import:run"), p)
  BY SizesOfHandlers DEF Reaches, Sends, PathFits, Param, AuthScopes, On, Item, FiveSegments
<1>9. Reaches(Sends("PATCH", <<"api", "projects", p, "routes", x>>, "data"),
             Item("PATCH", "routes", "route:manage"), p)
  BY SizesOfHandlers DEF Reaches, Sends, PathFits, Param, AuthScopes, On, Item, FiveSegments
<1>10. \A b, h : Reaches(b, h, p) => h \in Handlers
  BY DEF Reaches, OfSize
<1> QED BY <1>1, <1>2, <1>3, <1>4, <1>5, <1>6, <1>7, <1>8, <1>9, <1>10 DEF SdkPlatform

LEMMA SchemaCalls ==
  ASSUME NEW p, NEW x, NEW c \in SdkSchemas(x)
  PROVE  \E h \in Handlers : Reaches(c, h, p)
<1>1. Reaches(Sends("GET", <<"schemas">>, "bare"),
             Core("GET", <<"schemas">>, <<>>, 200), p)
  BY SizesOfHandlers DEF Reaches, Sends, PathFits, Param, AuthScopes, On, Core, OneSegment
<1>2. Reaches(Sends("GET", <<"schemas", x>>, "bare"),
             Core("GET", <<"schemas", Param>>, <<>>, 200), p)
  BY SizesOfHandlers DEF Reaches, Sends, PathFits, Param, AuthScopes, On, Core, TwoSegments
<1>3. Reaches(Sends("POST", <<"schemas">>, "bare"),
             Core("POST", <<"schemas">>, <<>>, 201), p)
  BY SizesOfHandlers DEF Reaches, Sends, PathFits, Param, AuthScopes, On, Core, OneSegment
<1>4. \A b, h : Reaches(b, h, p) => h \in Handlers
  BY DEF Reaches, OfSize
<1> QED BY <1>1, <1>2, <1>3, <1>4 DEF SdkSchemas

LEMMA EntityCalls ==
  ASSUME NEW p, NEW x, NEW c \in SdkEntities(x)
  PROVE  \E h \in Handlers : Reaches(c, h, p)
<1>1. Reaches(Sends("GET", <<"entities">>, "bare"),
             Core("GET", <<"entities">>, <<"input">>, 200), p)
  BY SizesOfHandlers DEF Reaches, Sends, PathFits, Param, AuthScopes, On, Core, OneSegment
<1>2. Reaches(Sends("GET", <<"entities", x>>, "bare"),
             Core("GET", <<"entities", Param>>, <<>>, 200), p)
  BY SizesOfHandlers DEF Reaches, Sends, PathFits, Param, AuthScopes, On, Core, TwoSegments
<1>3. Reaches(Sends("PUT", <<"entities", x>>, "bare"),
             On("PUT", <<"entities", Param>>, <<"input">>, 200, "bare", "entity"), p)
  BY SizesOfHandlers DEF Reaches, Sends, PathFits, Param, AuthScopes, On, TwoSegments
<1>4. Reaches(Sends("GET", <<"entities", x, "revisions", x>>, "bare"),
             Core("GET", <<"entities", Param, "revisions", Param>>, <<"input">>, 200), p)
  BY SizesOfHandlers DEF Reaches, Sends, PathFits, Param, AuthScopes, On, Core, FourSegments
<1>5. \A b, h : Reaches(b, h, p) => h \in Handlers
  BY DEF Reaches, OfSize
<1> QED BY <1>1, <1>2, <1>3, <1>4, <1>5 DEF SdkEntities

LEMMA OtherCalls ==
  ASSUME NEW p, NEW x, NEW c \in SdkQuery \union SdkImport \union SdkStats \union SdkHealth \union SdkPublished(x)
  PROVE  \E h \in Handlers : Reaches(c, h, p)
<1>1. Reaches(Sends("GET", <<"query">>, "bare"),
             Core("GET", <<"query">>, <<"input">>, 200), p)
  BY SizesOfHandlers DEF Reaches, Sends, PathFits, Param, AuthScopes, On, Core, OneSegment
<1>2. Reaches(Sends("GET", <<"query", "explain">>, "bare"),
             Core("GET", <<"query", "explain">>, <<"input">>, 200), p)
  BY SizesOfHandlers DEF Reaches, Sends, PathFits, Param, AuthScopes, On, Core, TwoSegments
<1>3. Reaches(Sends("POST", <<"import", "analyze">>, "bare"),
             Core("POST", <<"import", "analyze">>, <<"input">>, 200), p)
  BY SizesOfHandlers DEF Reaches, Sends, PathFits, Param, AuthScopes, On, Core, TwoSegments
<1>4. Reaches(Sends("POST", <<"import", "run">>, "bare"),
             Core("POST", <<"import", "run">>, <<"input">>, 200), p)
  BY SizesOfHandlers DEF Reaches, Sends, PathFits, Param, AuthScopes, On, Core, TwoSegments
<1>5. Reaches(Sends("GET", <<"imports">>, "bare"),
             Core("GET", <<"imports">>, <<>>, 200), p)
  BY SizesOfHandlers DEF Reaches, Sends, PathFits, Param, AuthScopes, On, Core, OneSegment
<1>6. Reaches(Sends("GET", <<"stats">>, "bare"),
             Core("GET", <<"stats">>, <<>>, 200), p)
  BY SizesOfHandlers DEF Reaches, Sends, PathFits, Param, AuthScopes, On, Core, OneSegment
<1>7. Reaches(Sends("GET", <<"health">>, "bare"),
             Core("GET", <<"health">>, <<>>, 200), p)
  BY SizesOfHandlers DEF Reaches, Sends, PathFits, Param, AuthScopes, On, Core, OneSegment
<1>8. Reaches(Sends("GET", <<"public", x, "v1", x>>, "bare"),
             On("GET", <<"public", Param, "v1", Param>>, <<>>, 200, "bare", "public"), p)
  BY SizesOfHandlers DEF Reaches, Sends, PathFits, Param, AuthScopes, On, FourSegments
<1>9. \A b, h : Reaches(b, h, p) => h \in Handlers
  BY DEF Reaches, OfSize
<1> QED BY <1>1, <1>2, <1>3, <1>4, <1>5, <1>6, <1>7, <1>8, <1>9
   DEF SdkQuery, SdkImport, SdkStats, SdkHealth, SdkPublished

(* A call is served by the handler it reaches alone.                        *)
LEMMA ReachedIsServed ==
  ASSUME NEW c, NEW h \in Handlers, NEW p, Reaches(c, h, p)
  PROVE  Served(c.method, c.path) = {h}
<1>1. \A g \in Handlers : PathFits(g.path, c.path) => g \in OfSize(Len(c.path))
  BY DEF OfSize, PathFits
<1> QED BY <1>1 DEF Served, Reaches

-----------------------------------------------------------------------------
(* What a service that fails is answered with: never with success, and with *)
(* a conflict of revisions only where there was one.                        *)
IsFailure(a) == a.status \notin 200..299 /\ ~(a.status = 409 /\ a.code = "concurrency_conflict")

LEMMA ErrorTables ==
  /\ \A e \in DOMAIN ProjectErrors : IsFailure(Refusal(ProjectErrors[e], e))
  /\ \A e \in DOMAIN DatasetErrors : IsFailure(Refusal(DatasetErrors[e], e))
  /\ \A e \in DOMAIN PlatformErrors : IsFailure(Refusal(PlatformErrors[e], e))
<1> USE DEF IsFailure, Refusal
<1>1. \A e \in DOMAIN ProjectErrors : IsFailure(Refusal(ProjectErrors[e], e))
  BY DEF ProjectErrors
<1>2. \A e \in DOMAIN DatasetErrors : IsFailure(Refusal(DatasetErrors[e], e))
  BY DEF DatasetErrors
<1>3. \A e \in DOMAIN PlatformErrors : IsFailure(Refusal(PlatformErrors[e], e))
  BY DEF PlatformErrors
<1> QED BY <1>1, <1>2, <1>3

LEMMA RefusalsAreFailures ==
  /\ IsFailure(Refusal(500, "INTERNAL_ERROR")) /\ IsFailure(Refusal(404, "not_found"))
  /\ IsFailure(Text(500)) /\ IsFailure(Text(404))
BY DEF IsFailure, Refusal, Text

LEMMA ErrorsAreFailures ==
  ASSUME NEW h, h.errors \in {"core", "entity", "api", "platform", "public"},
         NEW e \in ServiceErrors
  PROVE  IsFailure(ErrorAnswer(h, e))
<1>1. e # "input" /\ e # "unavailable" /\ e # "concurrency_conflict"
  BY DEF ServiceErrors, ProjectErrors, DatasetErrors, PlatformErrors, Unexpected, Missing
<1>2. ASSUME NEW other, IsFailure(other)
      PROVE  IsFailure(DomainError(e, other))
  BY <1>2, ErrorTables DEF DomainError
<1>3. /\ IsFailure(ToApiError(e)) /\ IsFailure(CoreError(e)) /\ IsFailure(UpdateEntityError(e))
  BY <1>1, <1>2, RefusalsAreFailures DEF ToApiError, CoreError, UpdateEntityError
<1>4. IsFailure(MapPlatformError(e)) /\ IsFailure(PublicError(e))
  BY <1>3, ErrorTables, RefusalsAreFailures DEF MapPlatformError, PublicError
<1> QED BY <1>1, <1>3, <1>4, RefusalsAreFailures DEF ErrorAnswer

-----------------------------------------------------------------------------
(* A method that reaches its handler, and is let through to its service, reads *)
(* what it expects, however the service ends.                               *)
LEMMA ReachedIsRead ==
  ASSUME NEW w, NEW c, NEW h \in Handlers, NEW p, NEW t, Reaches(c, h, p),
         Guard(Asked(c, t), w) = NoError,
         \A i \in DOMAIN h.checks : Check(h.checks[i], Asked(c, t), w) = NoError,
         NEW e \in EndsFor(c)
  PROVE  Outcome(c, Respond(Asked(c, t), e, w)) = Expected(c, e)
<1> DEFINE a == Respond(Asked(c, t), e, w)
           ok == [status |-> h.status, body |-> h.body, code |-> ""]
<1>1. a = Handle(h, Asked(c, t), e, w)
  <2>1. Served(c.method, c.path) = {h}
    BY ReachedIsServed
  <2>2. Asked(c, t).method = c.method /\ Asked(c, t).path = c.path
    BY DEF Asked
  <2> QED BY <2>1, <2>2 DEF Respond
<1>2. a = IF e # NoError THEN ErrorAnswer(h, e) ELSE ok
  BY <1>1 DEF Handle
<1>3. h.body = c.expects /\ h.status \in 200..299
  BY DEF Reaches
<1> HIDE DEF a
<1>4. CASE e = NoError
  <2>1. a.body = c.expects /\ a.status \in 200..299
    BY <1>2, <1>3, <1>4
  <2>2. Outcome(c, a) = "data"
    BY <2>1 DEF Outcome
  <2> QED BY <1>4, <2>2 DEF Expected, a
<1>5. CASE e # NoError /\ c \in SdkHealth
  <2>1. e = "unavailable"
    BY <1>5 DEF EndsFor
  <2>2. a = [status |-> 503, body |-> h.body, code |-> ""]
    BY <1>2, <1>5, <2>1 DEF ErrorAnswer, Missing
  <2>3. a.body = c.expects
    BY <1>3, <2>2
  <2>4. Outcome(c, a) = "data"
    BY <1>5, <2>3 DEF Outcome
  <2> QED BY <1>5, <2>4 DEF Expected, a
<1>6. CASE e # NoError /\ c \notin SdkHealth /\ e \in ServiceErrors
  <2>1. e # "concurrency_conflict"
    BY <1>6 DEF ServiceErrors, ProjectErrors, DatasetErrors, PlatformErrors, Unexpected, Missing
  <2>2. IsFailure(a)
    BY <1>2, <1>6, ErrorsAreFailures DEF Reaches
  <2> QED BY <1>6, <2>1, <2>2 DEF Outcome, Expected, IsFailure, a
<1>7. CASE e # NoError /\ c \notin SdkHealth /\ e \notin ServiceErrors
  <2>1. e = "concurrency_conflict" /\ c.method = "PUT"
    BY <1>7 DEF EndsFor
  <2>2. h.errors = "entity"
    BY <2>1 DEF Reaches
  <2>3. a = Refusal(409, "concurrency_conflict")
    BY <1>2, <1>7, <2>1, <2>2 DEF ErrorAnswer, UpdateEntityError, Missing
  <2> QED BY <1>7, <2>1, <2>3 DEF Outcome, Expected, Refusal, a
<1> QED BY <1>4, <1>5, <1>6, <1>7

(* What stands in front of the service lets the global token through, and an  *)
(* administrator's token of the project in a request about the project.     *)
LEMMA GlobalTokenPasses ==
  ASSUME NEW w, NEW c, NEW h, NEW p \in w.projects, Reaches(c, h, p)
  PROVE  /\ Guard(Asked(c, GlobalToken), w) = NoError
         /\ \A i \in DOMAIN h.checks : Check(h.checks[i], Asked(c, GlobalToken), w) = NoError
<1> DEFINE r == Asked(c, GlobalToken)
<1>1. r.token = GlobalToken /\ r.path = c.path /\ r.complete = TRUE
  BY DEF Asked, Reaches
<1> HIDE DEF r
<1>2. Guard(r, w) = NoError
  BY <1>1 DEF Guard, CoreGuard, ProjectsGuard
<1>3. ASSUME NEW check \in AuthScopes \union {"input"}
      PROVE  Check(check, r, w) = NoError
  BY <1>1, <1>3 DEF Check, RequireScope, AuthScopes
<1>4. ASSUME c.path[3] = p
      PROVE  Check("project", r, w) = NoError
  BY <1>1, <1>4 DEF Check
<1> QED BY <1>2, <1>3, <1>4 DEF r, Reaches

LEMMA OwnTokenPasses ==
  ASSUME NEW w, NEW c, NEW h, NEW p \in w.projects, Reaches(c, h, p),
         c.path[1] = "api", c.path[3] = p,
         NEW t \in DOMAIN w.tokens, w.tokens[t].project = p,
         ScopeAllows(w.tokens[t].scopes, "project:admin")
  PROVE  /\ Guard(Asked(c, t), w) = NoError
         /\ \A i \in DOMAIN h.checks : Check(h.checks[i], Asked(c, t), w) = NoError
<1> DEFINE r == Asked(c, t)
<1>1. r.token = t /\ r.path = c.path /\ r.complete = TRUE
  BY DEF Asked, Reaches
<1> HIDE DEF r
<1>2. Guard(r, w) = NoError
  BY <1>1 DEF Guard, ProjectsGuard
<1>3. ASSUME NEW scope \in AuthScopes
      PROVE  Check(scope, r, w) = NoError
  <2>1. ScopeAllows(w.tokens[t].scopes, scope)
    BY DEF ScopeAllows
  <2> QED BY <1>1, <2>1 DEF Check, RequireScope, AuthScopes
<1>4. Check("project", r, w) = NoError /\ Check("input", r, w) = NoError
  BY <1>1 DEF Check
<1> QED BY <1>3, <1>2, <1>4 DEF r, Reaches

LEMMA OwnCalls ==
  ASSUME NEW p, NEW d, NEW x, NEW c \in SdkOfProject(p, d, x)
  PROVE  c.path[1] = "api" /\ c.path[3] = p
BY DEF SdkOfProject, SdkDatasets, SdkPlatform, Sends

(* Every method of the SDK reaches a handler that answers in the form it reads. *)
LEMMA CallsReach ==
  ASSUME NEW p, p # "by-slug", NEW d, NEW x, NEW c \in SdkCalls(p, d, x)
  PROVE  \E h \in Handlers : Reaches(c, h, p)
BY DatasetCalls, ProjectCalls, PlatformCalls, SchemaCalls, EntityCalls, OtherCalls
   DEF SdkCalls, SdkOfProject

(* In a world in which no project has the id "by-slug", every method of the     *)
(* SDK, about any project and its dataset and whatever else it names, reads     *)
(* what it expects: with the global token always, and within its project with  *)
(* an administrator's token (project-api.ts, project-platform.ts and the       *)
(* methods of sdk/src/client.ts).                                              *)
THEOREM TheSdkIsServed ==
  ASSUME NEW w, "by-slug" \notin w.projects, NEW x
  PROVE  ServesSdk(w, x)
<1> SUFFICES ASSUME NEW p \in w.projects,
                    NEW d \in {d \in DOMAIN w.datasets : w.datasets[d] = p}
             PROVE  /\ \A c \in SdkCalls(p, d, x) : \A e \in EndsFor(c) :
                         Outcome(c, Respond(Asked(c, GlobalToken), e, w)) = Expected(c, e)
                    /\ \A c \in SdkOfProject(p, d, x), t \in DOMAIN w.tokens : \A e \in EndsFor(c) :
                         w.tokens[t].project = p /\ ScopeAllows(w.tokens[t].scopes, "project:admin")
                           => Outcome(c, Respond(Asked(c, t), e, w)) = Expected(c, e)
  BY DEF ServesSdk
<1>1. p # "by-slug"
  OBVIOUS
<1>2. ASSUME NEW c \in SdkCalls(p, d, x), NEW e \in EndsFor(c)
      PROVE  Outcome(c, Respond(Asked(c, GlobalToken), e, w)) = Expected(c, e)
  <2>1. PICK h \in Handlers : Reaches(c, h, p)
    BY <1>1, CallsReach
  <2>2. /\ Guard(Asked(c, GlobalToken), w) = NoError
        /\ \A i \in DOMAIN h.checks : Check(h.checks[i], Asked(c, GlobalToken), w) = NoError
    BY <2>1, GlobalTokenPasses
  <2> QED BY <1>2, <2>1, <2>2, ReachedIsRead
<1>3. ASSUME NEW c \in SdkOfProject(p, d, x), NEW t \in DOMAIN w.tokens, NEW e \in EndsFor(c),
             w.tokens[t].project = p, ScopeAllows(w.tokens[t].scopes, "project:admin")
      PROVE  Outcome(c, Respond(Asked(c, t), e, w)) = Expected(c, e)
  <2>1. c \in SdkCalls(p, d, x)
    BY DEF SdkCalls
  <2>2. PICK h \in Handlers : Reaches(c, h, p)
    BY <1>1, <2>1, CallsReach
  <2>3. c.path[1] = "api" /\ c.path[3] = p
    BY OwnCalls
  <2>4. /\ Guard(Asked(c, t), w) = NoError
        /\ \A i \in DOMAIN h.checks : Check(h.checks[i], Asked(c, t), w) = NoError
    BY <1>3, <2>2, <2>3, OwnTokenPasses
  <2> QED BY <1>3, <2>2, <2>4, ReachedIsRead
<1> QED BY <1>2, <1>3

LEMMA WorldFitsStep ==
  ASSUME WorldFits, [Next]_vars
  PROVE  WorldFits'
<1>1. CASE UNCHANGED world
  BY <1>1 DEF WorldFits, world
<1>2. ASSUME NEW s, SetStatus(s)
      PROVE  WorldFits'
  BY <1>2 DEF WorldFits, SetStatus
<1>3. ASSUME NEW p \in {Project, Other}, PlaceDataset(p)
      PROVE  WorldFits'
  BY <1>3 DEF WorldFits, PlaceDataset
<1>4. CASE RegisterSchema
  BY <1>4 DEF WorldFits, RegisterSchema
<1>5. ASSUME NEW t \in Tokens, CreateToken(t, {"project:admin"})
      PROVE  WorldFits'
  BY <1>5 DEF WorldFits, CreateToken
<1>6. ASSUME NEW t \in Tokens, RevokeToken(t)
      PROVE  WorldFits'
  BY <1>6 DEF WorldFits, RevokeToken
<1>7. ASSUME NEW c \in Clients, Step(c)
      PROVE  UNCHANGED world
  BY <1>7 DEF Step, CheckWritable, CheckOwned, CheckSchema, ReadRow, InsertSource, InsertImport,
     UpdateSource, WriteRoute, AnswerRequest, RequestFails, Execute, ReadData, CountHit,
     Refuse, Proceed
<1>8. ASSUME NEW c \in Clients, StartEdit(c) \/ StartVisit(c) \/ VisitProject(c) \/ ListRoutes(c)
      PROVE  UNCHANGED world
  BY <1>8 DEF StartEdit, StartVisit, VisitProject, ListRoutes, Refuse, Proceed
<1>9. ASSUME NEW g \in Registrars, Attempt(g) \/ ListProjects(g) \/ CheckSlug(g) \/ BindNext(g)
      PROVE  UNCHANGED world
  BY <1>9 DEF Attempt, ListProjects, CheckSlug, BindNext, Refuse, Proceed
<1>10. ASSUME NEW g \in Registrars, InsertProject(g)
       PROVE  WorldFits'
  BY <1>10 DEF InsertProject, Refuse, WorldFits, world
<1>11. CASE UNCHANGED vars
  BY <1>1, <1>11 DEF vars
<1> QED BY <1>1, <1>2, <1>3, <1>4, <1>5, <1>6, <1>7, <1>8, <1>9, <1>10, <1>11 DEF Next, Clients

LEMMA WorldIsAWorld ==
  ASSUME WorldFits
  PROVE  World \in Worlds /\ "by-slug" \notin World.projects
<1>1. World.projects \in {{Other}, {Other, Project}}
  BY DEF World
<1>2. World.datasets \in {<<>>} \union [{Dataset} -> {Project, Other}]
  BY DEF World, WorldFits
<1>3. /\ World.tokens \in [DOMAIN tokens -> {[project |-> Project, scopes |-> {"project:admin"}]}]
      /\ DOMAIN tokens \in SUBSET Tokens
  BY DEF World, WorldFits
<1>4. World = [locked |-> TRUE, projects |-> World.projects, datasets |-> World.datasets,
               tokens |-> World.tokens]
  BY DEF World
<1> HIDE DEF World
<1>5. World.tokens \in
        UNION {[T -> {[project |-> Project, scopes |-> {"project:admin"}]}] : T \in SUBSET Tokens}
  BY <1>3
<1>6. World \in Worlds
  <2> DEFINE P == {{Other}, {Other, Project}}
             D == {<<>>} \union [{Dataset} -> {Project, Other}]
             T == UNION {[S -> {[project |-> Project, scopes |-> {"project:admin"}]}] : S \in SUBSET Tokens}
  <2>1. Worlds = {[locked |-> TRUE, projects |-> p, datasets |-> d, tokens |-> t] :
                    p \in P, d \in D, t \in T}
    BY DEF Worlds
  <2>2. World.projects \in P /\ World.datasets \in D /\ World.tokens \in T
    BY <1>1, <1>2, <1>5
  <2> HIDE DEF P, D, T
  <2> QED BY <1>4, <2>1, <2>2
<1>7. "by-slug" \notin World.projects
  BY <1>1, DeliveryAssumption
<1> QED BY <1>6, <1>7

(* Whatever becomes of the project, its dataset and its tokens, every method  *)
(* of the SDK reads what it expects, with the global token and, within its     *)
(* project, with an administrator's.                                         *)
THEOREM SdkIsAlwaysServed == Spec => []SdkIsServed
<1>1. Init => WorldFits
  BY DEF Init, WorldFits
<1>2. WorldFits /\ [Next]_vars => WorldFits'
  BY WorldFitsStep
<1>3. WorldFits => SdkIsServed
  <2> SUFFICES ASSUME WorldFits
               PROVE  SdkIsServed
    OBVIOUS
  <2>1. World \in Worlds /\ ServesSdk(World, None)
    BY WorldIsAWorld, TheSdkIsServed
  <2> HIDE DEF World
  <2> QED BY <2>1 DEF SdkIsServed, ServedWorlds
<1> QED BY <1>1, <1>2, <1>3, PTL DEF Spec
=============================================================================
