-------------------------- MODULE RequestBuilding --------------------------
(***************************************************************************)
(* From a decorated method to the request of one call.  When the class     *)
(* body runs, the path template is split (src/mxhttp/parse.py) and the     *)
(* parameters become a plan, one after the other, or the declaration is    *)
(* rejected (markers.py, build_plan in request.py, endpoint.py).  A call   *)
(* resolves its configuration (endpoint.py, headers.py, cookies.py) and    *)
(* inserts what it was given, in the order of the plan (build_request).    *)
(*                                                                         *)
(* Values are the names of their sources: what a request carries under a   *)
(* key is who put it there.                                                *)
(***************************************************************************)
EXTENDS Naturals, Sequences, FiniteSets, Functions

CONSTANTS
  Templates,  \* [host, path, query]: the host, if the path is absolute, the fields of
              \* the path, and the entries of the query, as [key, field]
  Endpoints,  \* [method, returns, coroutine, resumable, parts, checksum, idempotent]
  Params,     \* [marker, target, bag, override, typed]; `target` is what
              \* the brackets name, or the parameter itself
  MaxParams,  \* BOUND: parameters of one method
  Configs,    \* [headers, cookies, base, instance]; the first three as
              \* [endpoint, class]
  Jars,       \* the names the cookie jar may hold
  BagKeys,    \* the keys a bag may have
  Names, Lower,
  Missing, None

Keyed == {"query", "field", "header", "cookie"}
Bodies == {"body", "field", "part"}
Kinds == Keyed \cup {"path", "part", "body"}

(* The headers that have a mechanism of their own.                         *)
Reserved == {"content-type", "cookie", "idempotency-key"}

(* A bag is a parameter of a kind that has keys, and only a raw body has a *)
(* content type of its own.                                                *)
ASSUME BuildingAssumption ==
  /\ MaxParams \in Nat
  /\ Lower \in [Names -> Names] /\ \A r \in Reserved : r \in Names /\ Lower[r] = r
  /\ BagKeys \subseteq Names
  /\ \A t \in Templates : \A e \in Range(t.query) : e.key \in Names \cup {"placeholder"}
  /\ \A p \in Params :
       /\ p.marker \in {"none", "raw"} \cup Kinds /\ p.target \in Names
       /\ p.bag \in BOOLEAN /\ p.override \in BOOLEAN /\ p.typed \in BOOLEAN
       /\ p.bag => p.marker \in Keyed
       /\ p.typed => p.marker = "raw"
  /\ \A c \in Configs : \A choice \in {c.headers, c.cookies} :
       /\ choice.endpoint \in {Missing, None} \cup SUBSET Names
       /\ choice.class \in {None} \cup SUBSET Names

VARIABLES
  template, endpoint,
  plan,    \* the parameters so far: [kind, wire, bag, override, typed]
  phase,
  given,   \* given[i]: the keys that plan[i] has a value for, in this call
  config,  \* what the call resolved, and the jar it saw
  sent,    \* sent[kind][key]: where the value comes from
  over     \* over[kind]: the defaults that may still be overridden

declared == <<template, endpoint, plan>>
vars == <<declared, phase, given, config, sent, over>>

Unsent == [kind \in Kinds |-> [k \in {} |-> <<>>]]
NoCall == [headers |-> {}, cookies |-> {}, base |-> None, jar |-> {}]

----------------------------------------------------------------------------
(* What dict.update leaves under each key.                                 *)
Updated(old, new) ==
  [k \in DOMAIN old \cup DOMAIN new |-> IF k \in DOMAIN new THEN new[k] ELSE old[k]]

(* split_path_template: the entries of the query are literals or bare      *)
(* placeholders, under keys of their own.                                  *)
StaticQuery == {e.key : e \in {d \in Range(template.query) : d.field = "literal"}}
InlineFields == {e.field : e \in Range(template.query)} \ {"literal"}
InlineKey(field) == (CHOOSE e \in Range(template.query) : e.field = field).key
InlineKeys == {InlineKey(field) : field \in InlineFields}

Splits(t) ==
  /\ \A e \in Range(t.query) : e.field # "mixed" /\ e.key # "placeholder"
  /\ \A i, j \in DOMAIN t.query : i # j =>
       /\ t.query[i].key # t.query[j].key
       /\ t.query[i].field = "literal" \/ t.query[i].field # t.query[j].field
  /\ \A e \in Range(t.query) : e.field \notin t.path

Downloaders == {"Downloader", "AsyncDownloader"}

(* EndpointConfiguration.validate                                          *)
Valid(e) ==
  /\ e.resumable => e.method = "GET" /\ e.returns \in Downloaders \cup {"bytes stream"}
  /\ e.idempotent => e.method \in {"POST", "PUT"}
  /\ e.parts \/ e.checksum => e.returns \in Downloaders
  /\ e.returns \in Downloaders =>
       e.method = "GET" /\ (e.returns = "AsyncDownloader" <=> e.coroutine)

Init ==
  /\ template \in Templates /\ endpoint \in Endpoints
  /\ plan = <<>> /\ phase = "template"
  /\ given = <<>> /\ config = NoCall /\ sent = Unsent /\ over = [kind \in Keyed |-> {}]

Split ==
  /\ phase = "template"
  /\ phase' = IF Splits(template) THEN "plan" ELSE "rejected"
  /\ UNCHANGED <<declared, given, config, sent, over>>

----------------------------------------------------------------------------
(* classify: what a parameter binds, by its marker or by its name.         *)
Kind(p) ==
  CASE p.marker = "none" -> IF p.target \in InlineFields THEN "query" ELSE "path"
    [] p.marker = "raw" -> "body"
    [] OTHER -> p.marker

Wire(p) ==
  CASE Kind(p) = "query" /\ p.target \in InlineFields -> InlineKey(p.target)
    [] p.marker = "body" -> "json"
    [] p.marker = "raw" -> "content"
    [] OTHER -> p.target

Binds(p) ==
  /\ p.marker = "none" => p.target \in InlineFields \cup template.path
  /\ p.marker = "path" => p.target \in template.path
  /\ p.marker = "query" /\ p.target \in InlineFields => ~p.bag
  /\ p.marker = "query" /\ p.target \notin InlineFields => p.target \notin InlineKeys
  /\ p.marker = "header" => Lower[p.target] \notin Reserved

Taken(kind) ==
  {q.wire : q \in {r \in Range(plan) : r.kind = kind /\ ~r.bag}}
    \cup (IF kind = "query" THEN StaticQuery ELSE {})

(* Mutant of HasSlot: the static values of the template are forgotten.     *)
HasSlotBesideStatic(p) ==
  IF p.bag THEN \A q \in Range(plan) : ~(q.bag /\ q.kind = Kind(p))
  ELSE Kind(p) \in Keyed \cup {"path"} =>
         Wire(p) \notin {q.wire : q \in {r \in Range(plan) : r.kind = Kind(p) /\ ~r.bag}}

(* A wire name is bound once, except that of a part; a kind has one bag.   *)
HasSlot(p) ==
  IF p.bag THEN \A q \in Range(plan) : ~(q.bag /\ q.kind = Kind(p))
  ELSE Kind(p) \in Keyed \cup {"path"} => Wire(p) \notin Taken(Kind(p))

(* Mutant of FitsBody: two bodies are as good as two fields.               *)
FitsAnyBody(p) ==
  Kind(p) \in Bodies =>
    \A q \in Range(plan) : q.kind \in Bodies => (q.kind = "body" <=> Kind(p) = "body")

(* Fields and parts share a form; nothing goes with a body.                *)
FitsBody(p) ==
  Kind(p) \in Bodies =>
    \A q \in Range(plan) : q.kind \in Bodies => "body" \notin {q.kind, Kind(p)}

Declare(p) ==
  /\ phase = "plan" /\ Len(plan) < MaxParams
  /\ IF Binds(p) /\ HasSlot(p) /\ FitsBody(p)
     THEN plan' = Append(plan, [kind |-> Kind(p), wire |-> Wire(p), bag |-> p.bag,
                                override |-> p.override, typed |-> p.typed])
          /\ UNCHANGED phase
     ELSE phase' = "rejected" /\ UNCHANGED plan
  /\ UNCHANGED <<template, endpoint, given, config, sent, over>>

Bound(kind) == {q.wire : q \in {r \in Range(plan) : r.kind = kind}}

(* Mutant of Covers: fields of the query may be left unbound.              *)
CoversPath == template.path \subseteq Bound("path")

Covers == template.path \subseteq Bound("path") /\ InlineKeys \subseteq Bound("query")

(* The end of build_plan, and the checks of the decorator.                 *)
Close ==
  /\ phase = "plan"
  /\ phase' = IF Covers /\ Valid(endpoint) THEN "ready" ELSE "rejected"
  /\ UNCHANGED <<declared, given, config, sent, over>>

----------------------------------------------------------------------------
(* resolve_endpoint_kwargs: the endpoint's value, None included, or the    *)
(* class's; the base of the instance goes before that of its class.        *)
Pick(choice) == IF choice.endpoint = Missing THEN choice.class ELSE choice.endpoint

Base(c) ==
  IF c.base.endpoint # Missing THEN c.base.endpoint
  ELSE IF c.instance # None THEN c.instance ELSE c.base.class

Keys(map) == IF map = None THEN {} ELSE map

Resolved(c, jar) ==
  [headers |-> Keys(Pick(c.headers)), cookies |-> Keys(Pick(c.cookies)),
   base |-> Base(c), jar |-> jar]

Absolute == template.host # None

(* resolve_headers rejects reserved names at the latest here.              *)
Resolvable(r) ==
  /\ Absolute \/ r.base # None
  /\ \A k \in r.headers : Lower[k] \notin Reserved

(* The keys that have a default.                                           *)
Defaults(r, kind) ==
  CASE kind = "header" -> r.headers
    [] kind = "cookie" -> r.cookies
    [] OTHER -> {}

(* The key of an idempotent call is made here, once.                       *)
IdempotencyKey == [k \in (IF endpoint.idempotent THEN {"idempotency-key"} ELSE {}) |-> <<"key">>]

(* What build_request starts from: a default cookie yields to the jar.     *)
Seed(r) ==
  [kind \in Kinds |->
    CASE kind = "query" -> [k \in StaticQuery |-> <<"static">>]
      [] kind = "header" -> Updated([k \in r.headers |-> <<"default">>], IdempotencyKey)
      [] OTHER -> [k \in Defaults(r, kind) |-> IF k \in r.jar THEN <<"jar">> ELSE <<"default">>]]

(* A call of the endpoint.  An absolute path and a base_url of its own     *)
(* were refused with the declaration.                                      *)
Call ==
  /\ phase = "ready"
  /\ \E c \in Configs, jar \in Jars :
       /\ Absolute => c.base.endpoint = Missing
       /\ config' = Resolved(c, jar)
       /\ phase' = IF Resolvable(Resolved(c, jar)) THEN "bind" ELSE "raised"
       /\ sent' = Seed(Resolved(c, jar))
       /\ over' = [kind \in Keyed |-> Defaults(Resolved(c, jar), kind)]
  /\ UNCHANGED <<declared, given>>

----------------------------------------------------------------------------
(* What a parameter may be given: None is nothing, and so is a key of a    *)
(* bag whose value is None.                                                *)
Given(p) ==
  CASE p.kind = "path" -> {{p.wire}}
    [] p.bag -> SUBSET BagKeys
    [] OTHER -> {{}, {p.wire}}

(* Mutant of Refused: reserved names are compared as they are written.     *)
RefusedAsWritten(p, k) ==
  \/ k \in DOMAIN sent[p.kind] \ over[p.kind]
  \/ p.bag /\ p.kind = "header" /\ k \in Reserved

(* insert_unique, and the reserved names of a header bag.                  *)
Refused(p, k) ==
  \/ k \in DOMAIN sent[p.kind] \ over[p.kind]
  \/ p.bag /\ p.kind = "header" /\ Lower[k] \in Reserved

(* Mutant of Value: the jar wins over override=True too.                   *)
ValueFromJar(p, k) ==
  IF p.kind = "cookie" /\ k \in config.jar THEN <<"jar">> ELSE <<"param", Len(given) + 1>>

Value(p, k) ==
  IF p.kind = "cookie" /\ ~p.override /\ k \in config.jar THEN <<"jar">>
  ELSE <<"param", Len(given) + 1>>

ContentType(p) ==
  [k \in (IF p.typed THEN {"content-type"} ELSE {}) |-> <<"type">>]

(* A raw body may bring a content type with it.                            *)
Inserted(p, keys) ==
  [kind \in Kinds |->
    IF kind = p.kind THEN Updated(sent[kind], [k \in keys |-> Value(p, k)])
    ELSE IF kind = "header" /\ keys # {} THEN Updated(sent[kind], ContentType(p))
    ELSE sent[kind]]

(* Mutant of StillOver: a default may be overridden again and again.       *)
OverAgain(p, keys) == over

StillOver(p, keys) ==
  [kind \in Keyed |-> IF kind = p.kind THEN over[kind] \ keys ELSE over[kind]]

(* The next parameter of the plan.  Its entries are inserted one by one;   *)
(* the first that is refused ends the call.                                *)
Bind ==
  /\ phase = "bind" /\ Len(given) < Len(plan)
  /\ LET p == plan[Len(given) + 1] IN
     \E keys \in Given(p) :
       /\ given' = Append(given, keys)
       /\ IF p.kind \in Keyed /\ \E k \in keys : Refused(p, k)
          THEN phase' = "raised" /\ UNCHANGED <<sent, over>>
          ELSE sent' = Inserted(p, keys) /\ over' = StillOver(p, keys) /\ UNCHANGED phase
  /\ UNCHANGED <<declared, config>>

(* The cookies become one header.                                          *)
Finish ==
  /\ phase = "bind" /\ Len(given) = Len(plan)
  /\ phase' = "built"
  /\ sent' = IF DOMAIN sent["cookie"] = {} THEN sent
             ELSE [sent EXCEPT !["header"] = Updated(@, [k \in {"cookie"} |-> <<"cookies">>])]
  /\ UNCHANGED <<declared, given, config, over>>

(* The request is sent, or the error raised; the next call starts afresh.  *)
Return ==
  /\ phase \in {"built", "raised"}
  /\ phase' = "ready"
  /\ given' = <<>> /\ config' = NoCall /\ sent' = Unsent /\ over' = [kind \in Keyed |-> {}]
  /\ UNCHANGED declared

Next ==
  \/ Split \/ (\E p \in Params : Declare(p)) \/ Close
  \/ Call \/ Bind \/ Finish \/ Return

Spec == Init /\ [][Next]_vars

(* resolve_gate_url and join_url: the host whose gates a call passes, and  *)
(* the one its request goes to: an argument, if the host is a placeholder. *)
GateHost == IF Absolute THEN template.host ELSE config.base

UrlHost ==
  IF template.host \in template.path THEN "an argument"
  ELSE IF Absolute \/ config.base = None THEN template.host ELSE config.base

----------------------------------------------------------------------------
(* Who may set a key, read off the plan and the arguments at once, without *)
(* an order.                                                               *)
Setters(kind, k) ==
  {<<"param", i>> : i \in {j \in DOMAIN given : plan[j].kind = kind /\ k \in given[j]}}
    \cup (IF kind = "query" /\ k \in StaticQuery THEN {<<"static">>} ELSE {})

Overrides(setter) == setter[1] = "param" /\ plan[setter[2]].override

(* The setters of a key in the end: the jar goes before a cookie that does *)
(* not override it and before a default, a parameter before a default.     *)
Winners(kind, k) ==
  LET own == Setters(kind, k)
      all == IF own # {} THEN own
             ELSE IF k \in Defaults(config, kind) THEN {<<"default">>} ELSE {}
  IN  {IF kind = "cookie" /\ k \in config.jar /\ ~Overrides(w) THEN <<"jar">> ELSE w : w \in all}

Ambiguous ==
  \E kind \in Keyed, k \in Names : \E a, b \in Setters(kind, k) : a # b

ReservedInBag ==
  \E j \in DOMAIN given :
    plan[j].kind = "header" /\ plan[j].bag /\ \E k \in given[j] : Lower[k] \in Reserved

(* README.md:61, 329, 331, 349: under each key a request carries the value *)
(* of the one source that the rules name, whatever the order of the        *)
(* parameters, and nothing where no source has a value.                    *)
BuiltAsDeclared ==
  phase = "built" =>
    \A kind \in Keyed, k \in Names \ Reserved :
      Winners(kind, k) = IF k \in DOMAIN sent[kind] THEN {sent[kind][k]} ELSE {}

(* README.md:176: a key with two sources raises, always, "so a call is     *)
(* never silently ambiguous about which value wins", and nothing else      *)
(* does, but for a reserved name and a configuration that cannot be used.  *)
RaisesIfAmbiguous ==
  /\ phase = "built" => ~Ambiguous /\ ~ReservedInBag
  /\ phase = "raised" /\ Resolvable(config) => Ambiguous \/ ReservedInBag

(* What the class body accepted cannot clash in a call, unless keys come   *)
(* from a bag: README.md:110, 115.                                         *)
NamedNeverClash ==
  phase = "raised" /\ Resolvable(config) => \E q \in Range(plan) : q.bag

(* README.md:152 "a request can only have one body encoding".              *)
OneBody ==
  phase = "built" =>
    /\ Cardinality(DOMAIN sent["body"]) <= 1
    /\ DOMAIN sent["body"] # {} => DOMAIN sent["field"] = {} /\ DOMAIN sent["part"] = {}

(* README.md:114: every field of the path is filled, and every field of    *)
(* the query has one parameter, in any method that can be called.          *)
TemplateFilled ==
  /\ phase = "built" => DOMAIN sent["path"] = template.path
  /\ phase = "ready" => \A k \in InlineKeys :
       Cardinality({i \in DOMAIN plan : plan[i].kind = "query" /\ plan[i].wire = k}) = 1

(* README.md:70, 177, 266: Content-Type, Cookie and Idempotency-Key, in    *)
(* any casing, are set by RawBody, by cookies and by idempotent= only.     *)
ReservedByMechanism ==
  phase = "built" =>
    \A k \in DOMAIN sent["header"] : Lower[k] \in Reserved =>
      \/ k = "content-type" /\ sent["header"][k] = <<"type">> /\ "content" \in DOMAIN sent["body"]
      \/ k = "cookie" /\ sent["header"][k] = <<"cookies">>
      \/ k = "idempotency-key" /\ sent["header"][k] = <<"key">> /\ endpoint.method # "GET"

(* Header names differ in their casing only by mistake: the server gets    *)
(* both lines (README.md:329 "silently overrides a class default").        *)
HeadersDiffer ==
  phase = "built" =>
    \A j, k \in DOMAIN sent["header"] : Lower[j] = Lower[k] => j = k

(* README.md:176 read of parts: nothing that was given is left out.        *)
PartsAllSent ==
  phase = "built" =>
    \A i \in DOMAIN given : plan[i].kind = "part" =>
      \A k \in given[i] : sent["part"][k] = <<"param", i>>

(* ratelimit.py:120 "keyed by the actual host `url` targets".              *)
GateIsOfRequestHost == phase = "built" => GateHost = UrlHost
=============================================================================
