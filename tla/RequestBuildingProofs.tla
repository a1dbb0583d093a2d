----------------------- MODULE RequestBuildingProofs -----------------------
(***************************************************************************)
(* Proofs about RequestBuilding, for any path, endpoint, parameters and    *)
(* configuration, any number of parameters and any keys in the bags.       *)
(***************************************************************************)
EXTENDS RequestBuilding, FiniteSetTheorems, TLAPS

----------------------------------------------------------------------------
(* What a plan that has been accepted so far says of its parameters.       *)

Planned == [kind : Kinds, wire : Names \cup {"json", "content"},
            bag : BOOLEAN, override : BOOLEAN, typed : BOOLEAN]

(* Of one parameter.                                                       *)
WellBound(q) ==
  /\ q.kind \in Keyed \cup {"path"} => q.wire \in Names
  /\ q.kind = "body" => q.wire \in {"json", "content"}
  /\ q.bag => q.kind \in Keyed
  /\ q.typed => q.kind = "body" /\ q.wire = "content"
  /\ q.kind = "path" => q.wire \in template.path
  /\ q.kind = "query" => q.wire \notin (IF q.bag THEN InlineKeys ELSE StaticQuery)
  /\ q.kind = "header" => Lower[q.wire] \notin Reserved

(* Of two: they take different wire names, are not both bags of one kind,  *)
(* and are not a body and something else that goes into the body.          *)
Apart(q, r) ==
  /\ q.kind = r.kind /\ q.kind \in Keyed \cup {"path"} /\ ~q.bag /\ ~r.bag => q.wire # r.wire
  /\ q.kind = r.kind => ~(q.bag /\ r.bag)
  /\ q.kind = "body" => r.kind \notin Bodies

(* A method can be called once its plan covers the template.               *)
PlanInv ==
  /\ plan \in Seq(Planned)
  /\ template \in Templates /\ endpoint \in Endpoints
  /\ \A q \in Range(plan) : WellBound(q)
  /\ \A i, j \in DOMAIN plan : i # j => Apart(plan[i], plan[j])
  /\ phase \in {"template", "plan", "rejected", "ready", "bind", "built", "raised"}
  /\ phase \notin {"template", "rejected"} => Splits(template)
  /\ phase \in {"ready", "bind", "built", "raised"} => Covers /\ Valid(endpoint)

----------------------------------------------------------------------------
(* What a call has sent, in terms of what it was given.                    *)

GivenKeys(kind) == UNION {given[i] : i \in {j \in DOMAIN given : plan[j].kind = kind}}

(* The keys that neither a parameter nor a default has set, and their      *)
(* values.                                                                 *)
Typed == \E i \in DOMAIN given : plan[i].typed /\ given[i] # {}

OwnKey(kind, k) ==
  \/ kind = "query" /\ k \in StaticQuery
  \/ kind = "header" /\
       \/ k = "idempotency-key" /\ endpoint.idempotent
       \/ k = "content-type" /\ Typed
       \/ k = "cookie" /\ phase = "built" /\ DOMAIN sent["cookie"] # {}

OwnValue(kind, k) ==
  IF kind = "query" THEN <<"static">>
  ELSE CASE k = "idempotency-key" -> <<"key">>
         [] k = "content-type" -> <<"type">>
         [] OTHER -> <<"cookies">>

Unjarred(kind, k, override, source) ==
  IF kind = "cookie" /\ k \in config.jar /\ ~override THEN <<"jar">> ELSE source

GivenInv ==
  /\ given \in Seq(SUBSET (Names \cup {"json", "content"})) /\ Len(given) <= Len(plan)
  /\ \A i \in DOMAIN given : given[i] \in Given(plan[i])
  /\ phase \notin {"bind", "built", "raised"} => given = <<>>
  /\ phase = "built" => Len(given) = Len(plan)

(* Two parameters have given no key in common, and none of them one that   *)
(* the path or a mechanism sets.                                           *)
Disjoint ==
  \A i \in DOMAIN given : plan[i].kind \in Keyed => \A k \in given[i] :
    /\ \A j \in DOMAIN given : i # j /\ plan[i].kind = plan[j].kind => k \notin given[j]
    /\ plan[i].kind = "query" => k \notin StaticQuery
    /\ plan[i].kind = "header" => Lower[k] \notin Reserved

SentInv ==
  /\ Resolvable(config) /\ config.headers \subseteq Names /\ config.cookies \subseteq Names
  /\ DOMAIN sent = Kinds /\ DOMAIN over = Keyed
  /\ \A kind \in Keyed : over[kind] = Defaults(config, kind) \ GivenKeys(kind)
  /\ \A kind \in Kinds : \A k :
       k \in DOMAIN sent[kind] <=>
         k \in Defaults(config, kind) \/ k \in GivenKeys(kind) \/ OwnKey(kind, k)
  /\ \A kind \in Kinds : \A k \in DOMAIN sent[kind] :
       /\ OwnKey(kind, k) => sent[kind][k] = OwnValue(kind, k)
       /\ k \in Defaults(config, kind) \ GivenKeys(kind) =>
            sent[kind][k] = Unjarred(kind, k, FALSE, <<"default">>)
  /\ \A i \in DOMAIN given : plan[i].kind \in Keyed => \A k \in given[i] :
       sent[plan[i].kind][k] = Unjarred(plan[i].kind, k, plan[i].override, <<"param", i>>)

(* A call raises for nothing else, and only with a bag in the plan.        *)
RaisedInv ==
  phase = "raised" /\ Resolvable(config) =>
    (Ambiguous \/ ReservedInBag) /\ \E q \in Range(plan) : q.bag

BuildInv ==
  /\ PlanInv /\ GivenInv /\ RaisedInv
  /\ phase \in {"bind", "built"} => Disjoint /\ SentInv

----------------------------------------------------------------------------
(* The plan.                                                               *)

(* The key of an entry of the query is the name of a header, or else the   *)
(* template does not split.                                                *)
LEMMA InlineKeysAreNames ==
  ASSUME template \in Templates, Splits(template)
  PROVE  InlineKeys \subseteq Names
<1> SUFFICES ASSUME NEW f \in InlineFields PROVE InlineKey(f) \in Names
  BY DEF InlineKeys
<1>1. PICK e \in Range(template.query) : e.field = f
  BY DEF InlineFields
<1>2. \A d \in Range(template.query) : d.key \in Names
  BY BuildingAssumption DEF Splits
<1> DEFINE d == CHOOSE d \in Range(template.query) : d.field = f
<1>3. d \in Range(template.query)
  BY <1>1
<1> QED
  BY <1>2, <1>3 DEF InlineKey

(* What a parameter becomes is well bound.                                 *)
LEMMA DeclaredIsWellBound ==
  ASSUME PlanInv, phase = "plan", NEW p \in Params, Binds(p), HasSlot(p),
         NEW q, q = [kind |-> Kind(p), wire |-> Wire(p), bag |-> p.bag,
                     override |-> p.override, typed |-> p.typed]
  PROVE  q \in Planned /\ WellBound(q)
<1>1. /\ p.marker \in {"none", "raw"} \cup Kinds /\ p.target \in Names
      /\ p.bag \in BOOLEAN /\ p.override \in BOOLEAN /\ p.typed \in BOOLEAN
      /\ p.bag => p.marker \in Keyed
      /\ p.typed => p.marker = "raw"
  BY BuildingAssumption
<1>2. InlineKeys \subseteq Names
  BY InlineKeysAreNames DEF PlanInv
<1>3. /\ q.kind = Kind(p) /\ q.wire = Wire(p) /\ q.bag = p.bag /\ q.typed = p.typed
      /\ q.override = p.override
  OBVIOUS
<1>4. Kind(p) \in Kinds
  BY <1>1 DEF Kind, Kinds, Keyed
<1>5. \A f \in InlineFields : InlineKey(f) \in InlineKeys
  BY DEF InlineKeys
<1>6. /\ Kind(p) = "query" /\ p.target \in InlineFields => Wire(p) = InlineKey(p.target)
      /\ Kind(p) = "body" => Wire(p) \in {"json", "content"}
      /\ p.marker = "raw" => Wire(p) = "content" /\ Kind(p) = "body"
      /\ Kind(p) # "body" /\ ~(Kind(p) = "query" /\ p.target \in InlineFields) =>
           Wire(p) = p.target
  BY <1>1 DEF Wire, Kind, Kinds, Keyed
<1>7. q \in Planned
  BY <1>1, <1>2, <1>3, <1>4, <1>5, <1>6 DEF Planned
<1>8. Kind(p) \in Keyed \cup {"path"} => Wire(p) \in Names
  BY <1>1, <1>2, <1>5, <1>6 DEF Keyed
<1>9. p.bag => Kind(p) = p.marker
  BY <1>1 DEF Kind, Keyed
<1>10. Kind(p) = "path" => Wire(p) \in template.path
  BY <1>1, <1>6 DEF Binds, Kind, Kinds, Keyed
<1>11. Kind(p) = "query" => Wire(p) \notin (IF p.bag THEN InlineKeys ELSE StaticQuery)
  <2>1. CASE p.bag
    BY <1>6, <1>9, <2>1 DEF Binds
  <2>2. CASE ~p.bag
    BY <2>2 DEF HasSlot, Taken, Keyed
  <2> QED
    BY <2>1, <2>2
<1>12. Kind(p) = "header" => Lower[Wire(p)] \notin Reserved
  BY <1>1, <1>6 DEF Binds, Kind, Kinds, Keyed
<1> QED
  BY <1>1, <1>3, <1>6, <1>7, <1>8, <1>9, <1>10, <1>11, <1>12 DEF WellBound

(* It keeps apart from the parameters before it.                           *)
LEMMA DeclaredIsApart ==
  ASSUME PlanInv, NEW p \in Params, HasSlot(p), FitsBody(p), NEW r \in Range(plan),
         NEW q, q = [kind |-> Kind(p), wire |-> Wire(p), bag |-> p.bag,
                     override |-> p.override, typed |-> p.typed]
  PROVE  Apart(q, r) /\ Apart(r, q)
<1>1. q.kind = Kind(p) /\ q.wire = Wire(p) /\ q.bag = p.bag
  OBVIOUS
<1>2. q.kind = r.kind => ~(q.bag /\ r.bag)
  BY <1>1 DEF HasSlot
<1>3. q.kind = r.kind /\ q.kind \in Keyed \cup {"path"} /\ ~q.bag /\ ~r.bag => q.wire # r.wire
  BY <1>1 DEF HasSlot, Taken
<1>4. (q.kind = "body" => r.kind \notin Bodies) /\ (r.kind = "body" => q.kind \notin Bodies)
  BY <1>1 DEF FitsBody, Bodies
<1> QED
  BY <1>2, <1>3, <1>4 DEF Apart

(* A plan that does not change stays as it was.                            *)
LEMMA PlanStays ==
  ASSUME PlanInv, UNCHANGED declared,
         phase' \in {"template", "plan", "rejected", "ready", "bind", "built", "raised"},
         phase' \notin {"template", "rejected"} => Splits(template),
         phase' \in {"ready", "bind", "built", "raised"} => Covers /\ Valid(endpoint)
  PROVE  PlanInv'
<1>1. template' = template /\ endpoint' = endpoint /\ plan' = plan
  BY DEF declared
<1>2. InlineKeys' = InlineKeys /\ StaticQuery' = StaticQuery /\ Covers' = Covers
  BY <1>1 DEF InlineKeys, InlineFields, InlineKey, StaticQuery, Covers, Bound
<1>3. \A q : WellBound(q) => WellBound(q)'
  BY <1>1, <1>2 DEF WellBound
<1>4. \A q \in Range(plan') : WellBound(q)'
  BY <1>1, <1>3 DEF PlanInv
<1>5. \A i, j \in DOMAIN plan' : i # j => Apart(plan'[i], plan'[j])
  BY <1>1 DEF PlanInv
<1> QED
  BY <1>1, <1>2, <1>4, <1>5 DEF PlanInv, Apart

(* A parameter joins the plan, or the declaration is rejected.             *)
LEMMA DeclareKeepsPlan ==
  ASSUME PlanInv, NEW p \in Params, Declare(p)
  PROVE  PlanInv'
<1>1. CASE ~(Binds(p) /\ HasSlot(p) /\ FitsBody(p))
  BY <1>1, PlanStays DEF PlanInv, Declare, declared
<1>2. CASE Binds(p) /\ HasSlot(p) /\ FitsBody(p)
  <2> DEFINE q == [kind |-> Kind(p), wire |-> Wire(p), bag |-> p.bag,
                   override |-> p.override, typed |-> p.typed]
  <2>1. plan \in Seq(Planned) /\ phase = "plan" /\ phase' = phase
        /\ UNCHANGED <<template, endpoint>>
        /\ plan' = Append(plan, q)
    BY <1>2 DEF Declare, PlanInv
  <2>2. q \in Planned /\ WellBound(q)
    BY <1>2, <2>1, DeclaredIsWellBound
  <2>3. \A r \in Range(plan) : Apart(q, r) /\ Apart(r, q)
    BY <1>2, DeclaredIsApart
  <2> HIDE DEF q
  <2>4. /\ plan' \in Seq(Planned) /\ DOMAIN plan' = 1..Len(plan) + 1
        /\ \A i \in 1..Len(plan) : plan'[i] = plan[i]
        /\ plan'[Len(plan) + 1] = q /\ DOMAIN plan = 1..Len(plan) /\ Len(plan) \in Nat
    BY <2>1, <2>2
  <2>5. \A i \in DOMAIN plan : plan[i] \in Range(plan)
    BY DEF Range
  <2>6. \A r \in Range(plan') : WellBound(r)'
    <3>1. \A r : WellBound(r) => WellBound(r)'
      BY <2>1 DEF WellBound, InlineKeys, InlineFields, InlineKey, StaticQuery
    <3>2. \A i \in DOMAIN plan' : WellBound(plan'[i])
      BY <2>2, <2>4, <2>5 DEF PlanInv
    <3> QED
      BY <3>1, <3>2 DEF Range
  <2>7. \A i, j \in DOMAIN plan' : i # j => Apart(plan'[i], plan'[j])
    <3> SUFFICES ASSUME NEW i \in DOMAIN plan', NEW j \in DOMAIN plan', i # j
                 PROVE  Apart(plan'[i], plan'[j])
      OBVIOUS
    <3>1. CASE i \in DOMAIN plan /\ j \in DOMAIN plan
      BY <2>4, <3>1 DEF PlanInv
    <3>2. CASE i = Len(plan) + 1 \/ j = Len(plan) + 1
      BY <2>3, <2>4, <2>5, <3>2
    <3> QED
      BY <2>4, <3>1, <3>2
  <2> QED
    BY <2>1, <2>4, <2>6, <2>7 DEF PlanInv, Apart
<1> QED
  BY <1>1, <1>2 DEF Declare

(* Only declarations change it.                                            *)
LEMMA PlanStep == PlanInv /\ [Next]_vars => PlanInv'
<1> SUFFICES ASSUME PlanInv, [Next]_vars PROVE PlanInv'
  OBVIOUS
<1>1. CASE UNCHANGED vars
  BY <1>1, PlanStays DEF PlanInv, vars
<1>2. CASE Split
  BY <1>2, PlanStays DEF PlanInv, Split
<1>3. CASE Close
  BY <1>3, PlanStays DEF PlanInv, Close
<1>4. CASE Call
  BY <1>4, PlanStays DEF PlanInv, Call
<1>5. CASE Bind
  BY <1>5, PlanStays DEF PlanInv, Bind
<1>6. CASE Finish
  BY <1>6, PlanStays DEF PlanInv, Finish
<1>7. CASE Return
  BY <1>7, PlanStays DEF PlanInv, Return
<1> QED
  BY <1>1, <1>2, <1>3, <1>4, <1>5, <1>6, <1>7, DeclareKeepsPlan DEF Next

(* A template as it is given.                                              *)
LEMMA PlanInit == Init => PlanInv
  BY DEF Init, PlanInv, Range

----------------------------------------------------------------------------
(* What a call is given and sends.                                         *)

(* A reserved name is written as it is compared.                           *)
LEMMA ReservedLower == \A r \in Reserved : r \in Names /\ Lower[r] = r /\ Lower[r] \in Reserved
  BY BuildingAssumption DEF Reserved

(* A default is never a reserved name, or the call does not get to sending.*)
LEMMA DefaultsNotReserved ==
  ASSUME Resolvable(config), NEW k \in Defaults(config, "header")
  PROVE  Lower[k] \notin Reserved
  BY DEF Resolvable, Defaults

(* New entries take the place of old ones under the same keys.             *)
LEMMA UpdatedIs ==
  ASSUME NEW old, NEW new
  PROVE  /\ \A k : k \in DOMAIN Updated(old, new) <=> k \in DOMAIN old \/ k \in DOMAIN new
         /\ \A k \in DOMAIN new : Updated(old, new)[k] = new[k]
         /\ \A k \in DOMAIN old \ DOMAIN new : Updated(old, new)[k] = old[k]
  BY DEF Updated

(* Only a raw body brings a content type, and only if it was declared so.  *)
LEMMA ContentTypeIs ==
  ASSUME NEW p
  PROVE  /\ \A k : k \in DOMAIN ContentType(p) <=> k = "content-type" /\ p.typed
         /\ \A k \in DOMAIN ContentType(p) : ContentType(p)[k] = <<"type">>
<1>1. CASE p.typed
  BY <1>1 DEF ContentType
<1>2. CASE ~p.typed
  BY <1>2 DEF ContentType
<1> QED
  BY <1>1, <1>2

(* Only headers and cookies have defaults.                                 *)
LEMMA DefaultsAreKinds ==
  ASSUME NEW r, NEW kind, kind \notin {"header", "cookie"}
  PROVE  Defaults(r, kind) = {}
  BY DEF Defaults

(* A value for the next parameter is one that parameter may have.          *)
LEMMA GivenGrows ==
  ASSUME PlanInv, GivenInv, UNCHANGED declared, Len(given) < Len(plan),
         NEW keys \in Given(plan[Len(given) + 1]), given' = Append(given, keys),
         phase' \in {"bind", "raised"}
  PROVE  /\ GivenInv'
         /\ plan[Len(given) + 1] \in Range(plan) /\ plan[Len(given) + 1] \in Planned
         /\ Len(given) \in Nat /\ Len(given) + 1 \in DOMAIN plan
         /\ DOMAIN given = 1..Len(given) /\ DOMAIN given' = 1..Len(given) + 1
         /\ \A i \in DOMAIN given : i \in DOMAIN plan /\ given'[i] = given[i]
         /\ given'[Len(given) + 1] = keys
<1>1. plan' = plan
  BY DEF declared
<1>2. /\ plan \in Seq(Planned) /\ given \in Seq(SUBSET (Names \cup {"json", "content"}))
      /\ Len(given) \in Nat /\ Len(plan) \in Nat /\ DOMAIN given = 1..Len(given)
      /\ DOMAIN plan = 1..Len(plan) /\ Len(given) + 1 \in DOMAIN plan
  BY DEF PlanInv, GivenInv
<1>3. plan[Len(given) + 1] \in Range(plan) /\ plan[Len(given) + 1] \in Planned
  BY <1>2 DEF Range
<1>4. keys \subseteq Names \cup {"json", "content"}
  BY <1>3, BuildingAssumption DEF Given, Planned
<1>5. /\ given' \in Seq(SUBSET (Names \cup {"json", "content"})) /\ Len(given') = Len(given) + 1
      /\ DOMAIN given' = 1..Len(given) + 1 /\ given'[Len(given) + 1] = keys
      /\ \A i \in 1..Len(given) : given'[i] = given[i]
  BY <1>2, <1>4
<1>6. \A i \in DOMAIN given' : given'[i] \in Given(plan[i])
  <2>1. \A i \in 1..Len(given) : given'[i] \in Given(plan[i])
    BY <1>2, <1>5 DEF GivenInv
  <2>2. given'[Len(given) + 1] \in Given(plan[Len(given) + 1])
    BY <1>5
  <2>3. \A i \in DOMAIN given' : i \in 1..Len(given) \/ i = Len(given) + 1
    BY <1>2, <1>5
  <2> QED
    BY <2>1, <2>2, <2>3
<1>7. Len(given') <= Len(plan')
  BY <1>1, <1>2, <1>5
<1>8. GivenInv'
  BY <1>1, <1>5, <1>6, <1>7 DEF GivenInv
<1> QED
  BY <1>2, <1>3, <1>5, <1>8

(* What a call starts from is what the configuration and the mechanisms    *)
(* have set.                                                               *)
LEMMA SeedSends ==
  ASSUME PlanInv, GivenInv, phase = "ready", Call, phase' = "bind"
  PROVE  Disjoint' /\ SentInv'
<1>1. PICK c \in Configs, jar \in Jars :
        /\ config' = Resolved(c, jar) /\ Resolvable(config')
        /\ sent' = Seed(config') /\ over' = [kind \in Keyed |-> Defaults(config', kind)]
  BY DEF Call
<1>2. UNCHANGED declared /\ given' = <<>>
  BY DEF Call, GivenInv
<1>3. config'.headers \subseteq Names /\ config'.cookies \subseteq Names
  BY <1>1, BuildingAssumption DEF Resolved, Keys, Pick
<1>4. /\ \A kind : GivenKeys(kind)' = {}
      /\ ~Typed' /\ Disjoint'
  BY <1>2 DEF GivenKeys, Typed, Disjoint
<1>5. Resolvable(config)'
  BY <1>1, <1>2 DEF Resolvable, Absolute, declared
<1>6. \A kind, k : OwnKey(kind, k)' <=> \/ kind = "query" /\ k \in StaticQuery
                                        \/ /\ kind = "header" /\ endpoint.idempotent
                                           /\ k = "idempotency-key"
  BY <1>2, <1>4 DEF OwnKey, StaticQuery, declared
<1>7. \A kind \in Kinds :
        sent'[kind] =
          CASE kind = "query" -> [k \in StaticQuery |-> <<"static">>]
            [] kind = "header" -> Updated([k \in config'.headers |-> <<"default">>], IdempotencyKey)
            [] OTHER -> [k \in Defaults(config', kind) |->
                           IF k \in config'.jar THEN <<"jar">> ELSE <<"default">>]
  BY <1>1 DEF Seed
<1>8. /\ sent'["query"] = [k \in StaticQuery |-> <<"static">>]
      /\ sent'["header"] = Updated([k \in config'.headers |-> <<"default">>], IdempotencyKey)
      /\ \A kind \in Kinds \ {"query", "header"} :
           sent'[kind] = [k \in Defaults(config', kind) |->
                           IF k \in config'.jar THEN <<"jar">> ELSE <<"default">>]
  BY <1>7 DEF Kinds, Keyed
<1>9. \A kind \in Kinds : \A k :
        k \in DOMAIN sent'[kind] <=> k \in Defaults(config', kind) \/ OwnKey(kind, k)'
  <2> SUFFICES ASSUME NEW kind \in Kinds, NEW k
               PROVE  k \in DOMAIN sent'[kind] <=> k \in Defaults(config', kind) \/ OwnKey(kind, k)'
    OBVIOUS
  <2>1. CASE kind = "query"
    BY <1>6, <1>8, <2>1 DEF Defaults
  <2>2. CASE kind = "header"
    BY <1>6, <1>8, <2>2 DEF Defaults, Updated, IdempotencyKey
  <2>3. CASE kind \notin {"query", "header"}
    <3>1. DOMAIN sent'[kind] = Defaults(config', kind)
      BY <1>8, <2>3
    <3>2. ~OwnKey(kind, k)'
      BY <1>6, <2>3
    <3> QED
      BY <3>1, <3>2
  <2> QED
    BY <2>1, <2>2, <2>3
<1>10. \A kind \in Kinds : \A k \in DOMAIN sent'[kind] :
         /\ OwnKey(kind, k)' => sent'[kind][k] = OwnValue(kind, k)
         /\ k \in Defaults(config', kind) =>
              sent'[kind][k] = Unjarred(kind, k, FALSE, <<"default">>)'
  <2> SUFFICES ASSUME NEW kind \in Kinds, NEW k \in DOMAIN sent'[kind]
               PROVE  /\ OwnKey(kind, k)' => sent'[kind][k] = OwnValue(kind, k)
                      /\ k \in Defaults(config', kind) =>
                           sent'[kind][k] = Unjarred(kind, k, FALSE, <<"default">>)'
    OBVIOUS
  <2>1. CASE kind = "query"
    <3>1. k \in StaticQuery /\ sent'[kind][k] = <<"static">>
      BY <1>8, <2>1
    <3>2. OwnValue(kind, k) = <<"static">>
      BY <2>1 DEF OwnValue
    <3>3. Defaults(config', kind) = {}
      BY <2>1, DefaultsAreKinds
    <3> QED
      BY <3>1, <3>2, <3>3
  <2>2. CASE kind = "header"
    <3>1. k \in config'.headers => k # "idempotency-key"
      BY <1>1, ReservedLower DEF Resolvable, Reserved
    <3> QED
      BY <1>6, <1>8, <2>2, <3>1 DEF Defaults, Updated, IdempotencyKey, OwnValue, Unjarred
  <2>3. CASE kind \notin {"query", "header"}
    BY <1>6, <1>8, <2>3 DEF Unjarred, Defaults
  <2> QED
    BY <2>1, <2>2, <2>3
<1>11. DOMAIN sent' = Kinds /\ DOMAIN over' = Keyed
       /\ \A kind \in Keyed : over'[kind] = Defaults(config', kind)
  BY <1>1 DEF Seed
<1>12. \A i \in DOMAIN given' : FALSE
  BY <1>2
<1>13. \A kind : Defaults(config, kind)' = Defaults(config', kind)
  BY DEF Defaults
<1>14. \A kind, k : OwnValue(kind, k)' = OwnValue(kind, k)
  BY DEF OwnValue
<1> QED
  BY <1>3, <1>4, <1>5, <1>9, <1>10, <1>11, <1>12, <1>13, <1>14 DEF SentInv

(* The keys that a parameter adds are new, and not a mechanism's.          *)
LEMMA AcceptedIsNew ==
  ASSUME PlanInv, GivenInv, Disjoint, SentInv, phase = "bind",
         NEW p \in Range(plan), p.kind \in Keyed,
         NEW keys \in Given(p), NEW k \in keys, ~Refused(p, k)
  PROVE  /\ k \notin GivenKeys(p.kind)
         /\ p.kind = "query" => k \notin StaticQuery
         /\ p.kind = "header" => Lower[k] \notin Reserved
<1>1. /\ k \notin DOMAIN sent[p.kind] \/ k \in over[p.kind]
      /\ p.bag /\ p.kind = "header" => Lower[k] \notin Reserved
  BY DEF Refused
<1>2. /\ over[p.kind] = Defaults(config, p.kind) \ GivenKeys(p.kind)
      /\ k \in GivenKeys(p.kind) \/ OwnKey(p.kind, k) => k \in DOMAIN sent[p.kind]
  BY DEF SentInv, Kinds
<1>3. k \notin GivenKeys(p.kind)
  BY <1>1, <1>2
<1>4. p.kind = "query" => k \notin StaticQuery
  BY <1>1, <1>2, DefaultsAreKinds DEF OwnKey
<1>5. ~p.bag => k = p.wire
  BY DEF Given, Keyed
<1>6. p.kind = "header" => Lower[k] \notin Reserved
  BY <1>1, <1>5 DEF PlanInv, WellBound
<1> QED
  BY <1>3, <1>4, <1>6

(* What has been given, once the next parameter has its values.            *)
LEMMA GivenNext ==
  ASSUME PlanInv, GivenInv, UNCHANGED declared, Len(given) < Len(plan),
         NEW keys \in Given(plan[Len(given) + 1]), given' = Append(given, keys),
         phase' \in {"bind", "raised"}, phase = "bind",
         NEW kind, NEW k
  PROVE  /\ k \in GivenKeys(kind)' <=>
              \/ k \in GivenKeys(kind)
              \/ kind = plan[Len(given) + 1].kind /\ k \in keys
         /\ OwnKey(kind, k)' <=>
              \/ OwnKey(kind, k)
              \/ /\ kind = "header" /\ k = "content-type"
                 /\ plan[Len(given) + 1].typed /\ keys # {}
<1> DEFINE n == Len(given) + 1
<1>1. /\ DOMAIN given' = DOMAIN given \cup {n} /\ n \in DOMAIN given'
      /\ \A i \in DOMAIN given : given'[i] = given[i]
      /\ given'[n] = keys
  BY GivenGrows
<1>2. plan' = plan /\ template' = template /\ endpoint' = endpoint
  BY DEF declared
<1> HIDE DEF n
<1>3. k \in GivenKeys(kind)' <=> k \in GivenKeys(kind) \/ (kind = plan[n].kind /\ k \in keys)
  <2>1. k \in GivenKeys(kind) <=> \E i \in DOMAIN given : plan[i].kind = kind /\ k \in given[i]
    BY DEF GivenKeys
  <2>2. k \in GivenKeys(kind)' <=>
          \E i \in DOMAIN given' : plan'[i].kind = kind /\ k \in given'[i]
    BY DEF GivenKeys
  <2> QED
    BY <1>1, <1>2, <2>1, <2>2, Zenon
<1>4. Typed' <=> Typed \/ (plan[n].typed /\ keys # {})
  BY <1>1, <1>2, Zenon DEF Typed
<1>5. OwnKey(kind, k)' <=>
        \/ OwnKey(kind, k)
        \/ kind = "header" /\ k = "content-type" /\ plan[n].typed /\ keys # {}
  <2>1. StaticQuery' = StaticQuery /\ phase # "built" /\ phase' # "built"
    BY <1>2 DEF StaticQuery
  <2> QED
    BY <1>2, <1>4, <2>1, Zenon DEF OwnKey
<1> QED
  BY <1>3, <1>5 DEF n

(* The values of a parameter go in, and take nobody's place but a          *)
(* default's.                                                              *)
LEMMA BindSends ==
  ASSUME BuildInv, phase = "bind", phase' = "bind",
         UNCHANGED <<declared, config>>, Len(given) < Len(plan),
         NEW keys \in Given(plan[Len(given) + 1]), given' = Append(given, keys),
         plan[Len(given) + 1].kind \in Keyed =>
           \A k \in keys : ~Refused(plan[Len(given) + 1], k),
         sent' = Inserted(plan[Len(given) + 1], keys),
         over' = StillOver(plan[Len(given) + 1], keys)
  PROVE  Disjoint' /\ SentInv'
<1> DEFINE n == Len(given) + 1
           p == plan[n]
<1>1. PlanInv /\ GivenInv /\ Disjoint /\ SentInv
  BY DEF BuildInv
<1>2. /\ p \in Range(plan) /\ p \in Planned
      /\ DOMAIN given' = DOMAIN given \cup {n} /\ n \notin DOMAIN given
      /\ \A i \in DOMAIN given : given'[i] = given[i]
      /\ given'[n] = keys
  BY <1>1, GivenGrows
<1>3. \A kind, k :
        /\ k \in GivenKeys(kind)' <=> k \in GivenKeys(kind) \/ (kind = p.kind /\ k \in keys)
        /\ OwnKey(kind, k)' <=>
             \/ OwnKey(kind, k)
             \/ kind = "header" /\ k = "content-type" /\ p.typed /\ keys # {}
  BY <1>1, GivenNext
<1>4. p.kind \in Keyed => \A k \in keys :
        /\ k \notin GivenKeys(p.kind)
        /\ p.kind = "query" => k \notin StaticQuery
        /\ p.kind = "header" => Lower[k] \notin Reserved
  BY <1>1, <1>2, AcceptedIsNew
<1>5. /\ UNCHANGED <<plan, template, endpoint, config>>
      /\ StaticQuery' = StaticQuery /\ Resolvable(config)'
      /\ \A kind, k, o, source : Unjarred(kind, k, o, source)' = Unjarred(kind, k, o, source)
      /\ \A kind : Defaults(config, kind)' = Defaults(config, kind)
  BY <1>1 DEF declared, StaticQuery, Resolvable, Absolute, Unjarred, Defaults, SentInv
<1>6. p.typed => p.kind = "body"
  BY <1>1, <1>2 DEF PlanInv, WellBound
<1>7. /\ sent' = Inserted(p, keys) /\ over' = StillOver(p, keys)
  OBVIOUS
<1> HIDE DEF n, p
<1>8. \A kind, k, i : i \in DOMAIN given /\ plan[i].kind = kind /\ k \in given[i] =>
        k \in GivenKeys(kind)
  BY DEF GivenKeys
<1>9. Disjoint'
  <2> SUFFICES ASSUME NEW i \in DOMAIN given', plan[i].kind \in Keyed, NEW k \in given'[i]
               PROVE  /\ \A j \in DOMAIN given' :
                           i # j /\ plan[i].kind = plan[j].kind => k \notin given'[j]
                      /\ plan[i].kind = "query" => k \notin StaticQuery
                      /\ plan[i].kind = "header" => Lower[k] \notin Reserved
    BY <1>5 DEF Disjoint
  <2>1. CASE i = n
    BY <1>2, <1>4, <1>8, <2>1 DEF p
  <2>2. CASE i \in DOMAIN given
    <3>1. given'[i] = given[i]
      BY <1>2, <2>2
    <3>2. \A j \in DOMAIN given : i # j /\ plan[i].kind = plan[j].kind => k \notin given[j]
      BY <1>1, <2>2, <3>1 DEF Disjoint
    <3>3. plan[i].kind = p.kind => k \notin keys
      BY <1>4, <1>8, <2>2, <3>1
    <3>4. \A j \in DOMAIN given' : i # j /\ plan[i].kind = plan[j].kind => k \notin given'[j]
      BY <1>2, <3>2, <3>3 DEF p
    <3> QED
      BY <1>1, <2>2, <3>1, <3>4 DEF Disjoint
  <2> QED
    BY <1>2, <2>1, <2>2
<1>10. /\ DOMAIN sent' = Kinds /\ DOMAIN over' = Keyed
       /\ \A kind \in Kinds :
            sent'[kind] = IF kind = p.kind THEN Updated(sent[kind], [k \in keys |-> Value(p, k)])
                          ELSE IF kind = "header" /\ keys # {}
                            THEN Updated(sent[kind], ContentType(p))
                          ELSE sent[kind]
       /\ \A kind \in Keyed : over'[kind] = IF kind = p.kind THEN over[kind] \ keys ELSE over[kind]
  BY <1>7 DEF Inserted, StillOver
<1>11. \A kind \in Kinds : \A k :
         k \in DOMAIN sent'[kind] <=>
           \/ k \in DOMAIN sent[kind]
           \/ kind = p.kind /\ k \in keys
           \/ kind = "header" /\ k = "content-type" /\ p.typed /\ keys # {}
  <2> SUFFICES ASSUME NEW kind \in Kinds, NEW k
               PROVE  k \in DOMAIN sent'[kind] <=>
                        \/ k \in DOMAIN sent[kind]
                        \/ kind = p.kind /\ k \in keys
                        \/ kind = "header" /\ k = "content-type" /\ p.typed /\ keys # {}
    OBVIOUS
  <2>1. CASE kind = p.kind
    <3>1. sent'[kind] = Updated(sent[kind], [j \in keys |-> Value(p, j)])
      BY <1>10, <2>1
    <3>2. kind = "header" => ~p.typed
      BY <1>6, <2>1
    <3> QED
      BY <2>1, <3>1, <3>2, UpdatedIs
  <2>2. CASE kind # p.kind /\ kind = "header" /\ keys # {}
    <3>1. sent'[kind] = Updated(sent[kind], ContentType(p))
      BY <1>10, <2>2
    <3>2. k \in DOMAIN sent'[kind] <=> k \in DOMAIN sent[kind] \/ k \in DOMAIN ContentType(p)
      BY <3>1, UpdatedIs, Zenon
    <3>3. k \in DOMAIN ContentType(p) <=> k = "content-type" /\ p.typed
      BY ContentTypeIs, Zenon
    <3> QED
      BY <2>2, <3>2, <3>3, Zenon
  <2>3. CASE kind # p.kind /\ ~(kind = "header" /\ keys # {})
    BY <1>10, <2>3
  <2> QED
    BY <2>1, <2>2, <2>3
<1>12. \A kind \in Kinds : \A k \in DOMAIN sent[kind] :
         /\ kind = p.kind => k \notin keys
         /\ ~(kind = "header" /\ k = "content-type" /\ p.typed /\ keys # {})
         => sent'[kind][k] = sent[kind][k]
  <2> SUFFICES ASSUME NEW kind \in Kinds, NEW k \in DOMAIN sent[kind],
                      kind = p.kind => k \notin keys,
                      ~(kind = "header" /\ k = "content-type" /\ p.typed /\ keys # {})
               PROVE  sent'[kind][k] = sent[kind][k]
    OBVIOUS
  <2>1. CASE kind = p.kind
    <3>1. sent'[kind] = Updated(sent[kind], [j \in keys |-> Value(p, j)])
      BY <1>10, <2>1
    <3> QED
      BY <2>1, <3>1, UpdatedIs
  <2>2. CASE kind # p.kind /\ kind = "header" /\ keys # {}
    <3>1. sent'[kind] = Updated(sent[kind], ContentType(p))
      BY <1>10, <2>2
    <3>2. k \notin DOMAIN ContentType(p)
      BY <2>2, ContentTypeIs, Zenon
    <3> QED
      BY <3>1, <3>2, UpdatedIs
  <2>3. CASE kind # p.kind /\ ~(kind = "header" /\ keys # {})
    BY <1>10, <2>3
  <2> QED
    BY <2>1, <2>2, <2>3
<1>13. \A k \in keys : sent'[p.kind][k] = Value(p, k)
  BY <1>2, <1>10 DEF Updated, Planned
<1>14. p.typed /\ keys # {} => sent'["header"]["content-type"] = <<"type">>
  BY <1>6, <1>10 DEF Updated, ContentType, Kinds, Keyed
<1>15. \A kind \in Keyed : over'[kind] = Defaults(config, kind) \ GivenKeys(kind)'
  <2> SUFFICES ASSUME NEW kind \in Keyed
               PROVE  over'[kind] = Defaults(config, kind) \ GivenKeys(kind)'
    OBVIOUS
  <2>1. /\ over[kind] = Defaults(config, kind) \ GivenKeys(kind)
        /\ over'[kind] = IF kind = p.kind THEN over[kind] \ keys ELSE over[kind]
    BY <1>1, <1>10 DEF SentInv
  <2>2. \A k : k \in GivenKeys(kind)' <=> k \in GivenKeys(kind) \/ (kind = p.kind /\ k \in keys)
    BY <1>3
  <2> QED
    BY <2>1, <2>2
<1>16. \A kind \in Kinds : \A k :
         k \in DOMAIN sent'[kind] <=>
           k \in Defaults(config, kind) \/ k \in GivenKeys(kind)' \/ OwnKey(kind, k)'
  BY <1>1, <1>3, <1>11 DEF SentInv
<1>17. \A k \in Defaults(config, "header") : k # "content-type"
  BY <1>1, DefaultsNotReserved, ReservedLower DEF SentInv, Reserved
<1>18. \A kind, k : OwnKey(kind, k) /\ kind = p.kind => k \notin keys
  BY <1>1, <1>4, ReservedLower DEF OwnKey, Reserved, Keyed
<1>19. \A kind \in Kinds : \A k \in DOMAIN sent'[kind] :
         /\ OwnKey(kind, k)' => sent'[kind][k] = OwnValue(kind, k)
         /\ k \in Defaults(config, kind) \ GivenKeys(kind)' =>
              sent'[kind][k] = Unjarred(kind, k, FALSE, <<"default">>)
  <2> SUFFICES ASSUME NEW kind \in Kinds, NEW k \in DOMAIN sent'[kind]
               PROVE  /\ OwnKey(kind, k)' => sent'[kind][k] = OwnValue(kind, k)
                      /\ k \in Defaults(config, kind) \ GivenKeys(kind)' =>
                           sent'[kind][k] = Unjarred(kind, k, FALSE, <<"default">>)
    OBVIOUS
  <2>1. CASE kind = "header" /\ k = "content-type" /\ p.typed /\ keys # {}
    BY <1>14, <1>17, <2>1 DEF OwnValue
  <2>2. CASE ~(kind = "header" /\ k = "content-type" /\ p.typed /\ keys # {})
    <3>1. OwnKey(kind, k)' => OwnKey(kind, k) /\ k \in DOMAIN sent[kind]
      BY <1>1, <1>3, <2>2 DEF SentInv
    <3>2. k \in Defaults(config, kind) \ GivenKeys(kind)' =>
            /\ k \in Defaults(config, kind) \ GivenKeys(kind) /\ k \in DOMAIN sent[kind]
            /\ kind = p.kind => k \notin keys
      BY <1>1, <1>3 DEF SentInv
    <3> QED
      BY <1>1, <1>12, <1>18, <2>2, <3>1, <3>2 DEF SentInv
  <2> QED
    BY <2>1, <2>2
<1>20. \A i \in DOMAIN given' : plan[i].kind \in Keyed => \A k \in given'[i] :
         sent'[plan[i].kind][k] = Unjarred(plan[i].kind, k, plan[i].override, <<"param", i>>)
  <2> SUFFICES ASSUME NEW i \in DOMAIN given', plan[i].kind \in Keyed, NEW k \in given'[i]
               PROVE  sent'[plan[i].kind][k]
                        = Unjarred(plan[i].kind, k, plan[i].override, <<"param", i>>)
    OBVIOUS
  <2>1. CASE i = n
    BY <1>2, <1>13, <2>1 DEF p, n, Value, Unjarred
  <2>2. CASE i \in DOMAIN given
    <3>1. k \in given[i] /\ k \in DOMAIN sent[plan[i].kind]
      BY <1>1, <1>2, <1>8, <2>2 DEF SentInv, Kinds
    <3>2. plan[i].kind = p.kind => k \notin keys
      BY <1>4, <1>8, <2>2, <3>1
    <3>3. plan[i].kind = "header" => k # "content-type"
      BY <1>1, <2>2, <3>1, ReservedLower DEF Disjoint, Reserved
    <3>4. sent'[plan[i].kind][k] = sent[plan[i].kind][k]
      BY <1>12, <3>1, <3>2, <3>3 DEF Kinds
    <3> QED
      BY <1>1, <2>2, <3>1, <3>4 DEF SentInv
  <2> QED
    BY <1>2, <2>1, <2>2
<1>21. \A kind, k : OwnValue(kind, k)' = OwnValue(kind, k)
  BY DEF OwnValue
<1> QED
  BY <1>1, <1>5, <1>9, <1>10, <1>15, <1>16, <1>19, <1>20, <1>21 DEF SentInv

(* A key is refused for nothing but a second source or a reserved name,    *)
(* and never without a bag.                                                *)
LEMMA RefusedIsAmbiguous ==
  ASSUME BuildInv, phase = "bind", phase' = "raised",
         UNCHANGED <<declared, config>>, Len(given) < Len(plan),
         NEW keys \in Given(plan[Len(given) + 1]), given' = Append(given, keys),
         plan[Len(given) + 1].kind \in Keyed,
         NEW k \in keys, Refused(plan[Len(given) + 1], k)
  PROVE  (Ambiguous' \/ ReservedInBag') /\ \E q \in Range(plan) : q.bag
<1> DEFINE n == Len(given) + 1
           p == plan[n]
<1>1. PlanInv /\ GivenInv /\ Disjoint /\ SentInv
  BY DEF BuildInv
<1>2. /\ p \in Range(plan) /\ p \in Planned /\ n \in DOMAIN plan
      /\ DOMAIN given' = DOMAIN given \cup {n} /\ n \notin DOMAIN given
      /\ \A i \in DOMAIN given : i \in DOMAIN plan /\ given'[i] = given[i]
      /\ given'[n] = keys
  BY <1>1, GivenGrows DEF declared
<1>3. Refused(p, k) /\ p.kind \in Keyed /\ keys \in Given(p)
  OBVIOUS
<1>4. plan' = plan /\ template' = template /\ endpoint' = endpoint
  BY DEF declared
<1> HIDE DEF n, p
<1>kind. PICK kind \in Keyed : kind = p.kind
  BY <1>3
<1>5. ~p.bag => k = p.wire
  BY <1>3 DEF Given, Keyed
<1>6. WellBound(p) /\ k \in Names
  BY <1>1, <1>2, <1>3, <1>5, BuildingAssumption DEF PlanInv, WellBound, Given, Keyed
<1>7. CASE p.bag /\ p.kind = "header" /\ Lower[k] \in Reserved
  BY <1>2, <1>4, <1>7 DEF ReservedInBag, p
<1>8. CASE OwnKey(p.kind, k)
  <2>1. CASE p.kind = "query" /\ k \in StaticQuery
    <3>1. <<"param", n>> \in Setters(kind, k)'
      BY <1>kind, <1>2, <1>4 DEF Setters, p
    <3>2. <<"static">> \in Setters(kind, k)'
      BY <1>kind, <1>4, <2>1 DEF Setters, StaticQuery
    <3>3. <<"param", n>> # <<"static">>
      OBVIOUS
    <3>4. Ambiguous'
      BY <1>kind, <1>3, <1>6, <3>1, <3>2, <3>3 DEF Ambiguous
    <3>5. p.bag
      BY <1>5, <1>6, <2>1 DEF WellBound
    <3> QED
      BY <1>2, <3>4, <3>5
  <2>2. CASE p.kind = "header"
    <3>1. Lower[k] \in Reserved
      BY <1>8, <2>2, ReservedLower DEF OwnKey, Reserved
    <3> QED
      BY <1>5, <1>6, <1>7, <2>2, <3>1 DEF WellBound
  <2> QED
    BY <1>8, <2>1, <2>2 DEF OwnKey
<1>9. CASE k \in GivenKeys(p.kind)
  <2>1. PICK i \in DOMAIN given : plan[i].kind = p.kind /\ k \in given[i]
    BY <1>9 DEF GivenKeys
  <2>2. <<"param", n>> \in Setters(kind, k)'
    BY <1>kind, <1>2, <1>4 DEF Setters, p
  <2>3. <<"param", i>> \in Setters(kind, k)'
    BY <1>kind, <1>2, <1>4, <2>1 DEF Setters
  <2>4. <<"param", n>> # <<"param", i>>
    BY <1>2, <2>1
  <2>5. Ambiguous'
    BY <1>kind, <1>3, <1>6, <2>2, <2>3, <2>4 DEF Ambiguous
  <2>6. plan[i] \in Range(plan) /\ k \in given[i] /\ given[i] \in Given(plan[i])
    BY <1>1, <1>2, <2>1 DEF Range, GivenInv
  <2>7. p.bag \/ plan[i].bag
    <3>1. ~plan[i].bag => k = plan[i].wire
      BY <1>3, <2>1, <2>6 DEF Given, Keyed
    <3>2. Apart(plan[i], plan[n])
      BY <1>1, <1>2, <2>1 DEF PlanInv
    <3> QED
      BY <1>3, <1>5, <2>1, <3>1, <3>2 DEF Apart, p
  <2> QED
    BY <1>2, <2>5, <2>6, <2>7
<1>10. k \in DOMAIN sent[p.kind] \ over[p.kind] => k \in GivenKeys(p.kind) \/ OwnKey(p.kind, k)
  BY <1>1, <1>3 DEF SentInv, Kinds
<1> QED
  BY <1>3, <1>7, <1>8, <1>9, <1>10 DEF Refused

(* The next parameter is bound, or the call raises.                        *)
LEMMA BindKeeps ==
  ASSUME BuildInv, Bind
  PROVE  BuildInv'
<1>1. PICK keys \in Given(plan[Len(given) + 1]) :
        /\ given' = Append(given, keys)
        /\ IF /\ plan[Len(given) + 1].kind \in Keyed
              /\ \E k \in keys : Refused(plan[Len(given) + 1], k)
           THEN phase' = "raised" /\ UNCHANGED <<sent, over>>
           ELSE /\ sent' = Inserted(plan[Len(given) + 1], keys)
                /\ over' = StillOver(plan[Len(given) + 1], keys) /\ UNCHANGED phase
  BY DEF Bind
<1>2. phase = "bind" /\ Len(given) < Len(plan) /\ UNCHANGED <<declared, config>>
  BY DEF Bind
<1>3. phase' \in {"bind", "raised"} /\ UNCHANGED declared
  BY <1>1, <1>2
<1>4. PlanInv' /\ GivenInv'
  BY <1>1, <1>2, <1>3, PlanStep, GivenGrows DEF BuildInv, Next
<1>5. CASE phase' = "raised"
  <2>1. PICK k \in keys : /\ plan[Len(given) + 1].kind \in Keyed
                          /\ Refused(plan[Len(given) + 1], k)
    BY <1>1, <1>2, <1>5
  <2>2. (Ambiguous' \/ ReservedInBag') /\ \E q \in Range(plan) : q.bag
    BY <1>1, <1>2, <1>5, <2>1, RefusedIsAmbiguous
  <2>3. plan' = plan
    BY <1>3 DEF declared
  <2> QED
    BY <1>4, <1>5, <2>2, <2>3 DEF BuildInv, RaisedInv
<1>6. CASE phase' = "bind"
  <2>1. Disjoint' /\ SentInv'
    BY <1>1, <1>2, <1>6, BindSends
  <2> QED
    BY <1>4, <1>6, <2>1 DEF BuildInv, RaisedInv
<1> QED
  BY <1>3, <1>5, <1>6

(* The cookies go into a header of their own.                              *)
LEMMA FinishKeeps ==
  ASSUME BuildInv, Finish
  PROVE  BuildInv'
<1>1. /\ phase = "bind" /\ phase' = "built" /\ Len(given) = Len(plan)
      /\ UNCHANGED <<template, endpoint, plan, given, config, over>>
      /\ sent' = IF DOMAIN sent["cookie"] = {} THEN sent
                 ELSE [sent EXCEPT !["header"]
                         = Updated(sent["header"], [k \in {"cookie"} |-> <<"cookies">>])]
  BY DEF Finish, declared
<1>2. PlanInv /\ GivenInv /\ Disjoint /\ SentInv /\ PlanInv'
  BY <1>1, PlanStep DEF BuildInv, Next
<1>3. GivenInv' /\ Disjoint'
  BY <1>1, <1>2 DEF GivenInv, Disjoint, StaticQuery
<1>4. /\ \A kind \in Kinds \ {"header"} : sent'[kind] = sent[kind]
      /\ DOMAIN sent' = Kinds /\ DOMAIN sent = Kinds /\ DOMAIN over' = Keyed
      /\ sent'["header"] = IF DOMAIN sent["cookie"] = {} THEN sent["header"]
                           ELSE Updated(sent["header"], [k \in {"cookie"} |-> <<"cookies">>])
  BY <1>1, <1>2 DEF SentInv, Kinds, Keyed
<1>5. /\ \A kind : GivenKeys(kind)' = GivenKeys(kind)
      /\ Typed' = Typed /\ Resolvable(config)'
  BY <1>1, <1>2 DEF GivenKeys, Typed, SentInv, Resolvable, Absolute
<1>6. \A kind, k : OwnKey(kind, k)' <=>
        \/ OwnKey(kind, k)
        \/ kind = "header" /\ k = "cookie" /\ DOMAIN sent["cookie"] # {}
  <2>1. StaticQuery' = StaticQuery /\ sent'["cookie"] = sent["cookie"]
    BY <1>1, <1>4 DEF StaticQuery, Kinds, Keyed
  <2> QED
    BY <1>1, <1>5, <2>1, Zenon DEF OwnKey
<1>7. /\ \A k : k \in DOMAIN sent'["header"] <=>
           \/ k \in DOMAIN sent["header"]
           \/ k = "cookie" /\ DOMAIN sent["cookie"] # {}
      /\ \A k \in DOMAIN sent["header"] : k # "cookie" => sent'["header"][k] = sent["header"][k]
      /\ DOMAIN sent["cookie"] # {} => sent'["header"]["cookie"] = <<"cookies">>
  BY <1>4, UpdatedIs
<1>8. Lower["cookie"] = "cookie" /\ "cookie" \in Reserved
  BY ReservedLower DEF Reserved
<1>9. "cookie" \notin DOMAIN sent["header"]
  <2>1. "cookie" \notin Defaults(config, "header")
    BY <1>2, <1>8, DefaultsNotReserved DEF SentInv
  <2>2. "cookie" \notin GivenKeys("header")
    BY <1>2, <1>8 DEF GivenKeys, Disjoint, Keyed
  <2>3. ~OwnKey("header", "cookie")
    BY <1>1 DEF OwnKey
  <2> QED
    BY <1>2, <2>1, <2>2, <2>3 DEF SentInv, Kinds, Keyed
<1>10. \A kind \in Kinds : \A k :
         k \in DOMAIN sent'[kind] <=>
           k \in Defaults(config, kind) \/ k \in GivenKeys(kind) \/ OwnKey(kind, k)'
  <2> SUFFICES ASSUME NEW kind \in Kinds, NEW k
               PROVE  k \in DOMAIN sent'[kind] <=>
                        k \in Defaults(config, kind) \/ k \in GivenKeys(kind) \/ OwnKey(kind, k)'
    OBVIOUS
  <2>1. k \in DOMAIN sent[kind] <=>
          k \in Defaults(config, kind) \/ k \in GivenKeys(kind) \/ OwnKey(kind, k)
    BY <1>2 DEF SentInv
  <2> QED
    BY <1>4, <1>6, <1>7, <2>1
<1>11. \A kind \in Kinds : \A k \in DOMAIN sent'[kind] :
         /\ OwnKey(kind, k)' => sent'[kind][k] = OwnValue(kind, k)
         /\ k \in Defaults(config, kind) \ GivenKeys(kind) =>
              sent'[kind][k] = Unjarred(kind, k, FALSE, <<"default">>)
  <2> SUFFICES ASSUME NEW kind \in Kinds, NEW k \in DOMAIN sent'[kind]
               PROVE  /\ OwnKey(kind, k)' => sent'[kind][k] = OwnValue(kind, k)
                      /\ k \in Defaults(config, kind) \ GivenKeys(kind) =>
                           sent'[kind][k] = Unjarred(kind, k, FALSE, <<"default">>)
    OBVIOUS
  <2>1. CASE kind = "header" /\ k = "cookie"
    BY <1>2, <1>7, <1>8, <1>9, <2>1, DefaultsNotReserved DEF SentInv, OwnValue
  <2>2. CASE ~(kind = "header" /\ k = "cookie")
    <3>1. k \in DOMAIN sent[kind] /\ sent'[kind][k] = sent[kind][k]
      BY <1>4, <1>7, <2>2
    <3>2. OwnKey(kind, k)' => OwnKey(kind, k)
      BY <1>6, <2>2
    <3> QED
      BY <1>2, <3>1, <3>2 DEF SentInv
  <2> QED
    BY <2>1, <2>2
<1>12. \A i \in DOMAIN given : plan[i].kind \in Keyed => \A k \in given[i] :
         sent'[plan[i].kind][k] = Unjarred(plan[i].kind, k, plan[i].override, <<"param", i>>)
  <2> SUFFICES ASSUME NEW i \in DOMAIN given, plan[i].kind \in Keyed, NEW k \in given[i]
               PROVE  sent'[plan[i].kind][k] = sent[plan[i].kind][k]
    BY <1>2 DEF SentInv
  <2>1. plan[i].kind = "header" => k # "cookie" /\ k \in DOMAIN sent["header"]
    BY <1>2, <1>8 DEF Disjoint, SentInv, GivenKeys, Kinds, Keyed
  <2> QED
    BY <1>4, <1>7, <2>1 DEF Kinds
<1>13. SentInv'
  <2>1. /\ \A kind, k, o, source : Unjarred(kind, k, o, source)' = Unjarred(kind, k, o, source)
        /\ \A kind : Defaults(config, kind)' = Defaults(config, kind)
        /\ \A kind, k : OwnValue(kind, k)' = OwnValue(kind, k)
    BY <1>1 DEF Unjarred, Defaults, OwnValue
  <2>2. /\ plan' = plan /\ given' = given /\ config' = config /\ over' = over
    BY <1>1
  <2>3. /\ config'.headers \subseteq Names /\ config'.cookies \subseteq Names
        /\ \A kind \in Keyed : over'[kind] = Defaults(config, kind)' \ GivenKeys(kind)'
    BY <1>2, <1>5, <2>1, <2>2 DEF SentInv
  <2>4. \A kind \in Kinds : \A k :
          k \in DOMAIN sent'[kind] <=>
            k \in Defaults(config, kind)' \/ k \in GivenKeys(kind)' \/ OwnKey(kind, k)'
    BY <1>5, <1>10, <2>1
  <2>5. \A kind \in Kinds : \A k \in DOMAIN sent'[kind] :
          /\ OwnKey(kind, k)' => sent'[kind][k] = OwnValue(kind, k)'
          /\ k \in Defaults(config, kind)' \ GivenKeys(kind)' =>
               sent'[kind][k] = Unjarred(kind, k, FALSE, <<"default">>)'
    BY <1>5, <1>11, <2>1
  <2>6. \A i \in DOMAIN given' : plan'[i].kind \in Keyed => \A k \in given'[i] :
          sent'[plan'[i].kind][k]
            = Unjarred(plan[i].kind, k, plan[i].override, <<"param", i>>)'
    BY <1>1, <1>12, <2>2 DEF Unjarred
  <2> QED
    BY <1>4, <1>5, <2>3, <2>4, <2>5, <2>6 DEF SentInv
<1> QED
  BY <1>1, <1>2, <1>3, <1>13 DEF BuildInv, RaisedInv

(* A call starts with nothing given; one whose configuration cannot be     *)
(* used raises at once.                                                    *)
LEMMA CallKeeps ==
  ASSUME BuildInv, Call
  PROVE  BuildInv'
<1>1. PlanInv /\ GivenInv /\ PlanInv'
  BY PlanStep DEF BuildInv, Next
<1>2. phase = "ready" /\ phase' \in {"bind", "raised"} /\ UNCHANGED <<declared, given>>
  BY DEF Call
<1>3. GivenInv'
  BY <1>1, <1>2 DEF GivenInv, declared
<1>4. CASE phase' = "bind"
  BY <1>1, <1>2, <1>3, <1>4, SeedSends DEF BuildInv, RaisedInv
<1>5. CASE phase' = "raised"
  <2>1. ~Resolvable(config)'
    BY <1>2, <1>5 DEF Call, Resolvable, Absolute, declared
  <2> QED
    BY <1>1, <1>3, <1>5, <2>1 DEF BuildInv, RaisedInv
<1> QED
  BY <1>2, <1>4, <1>5

(* Outside of a call nothing is given.                                     *)
LEMMA OutsideKeeps ==
  ASSUME BuildInv, Split \/ (\E p \in Params : Declare(p)) \/ Close \/ Return
  PROVE  BuildInv'
<1>1. PlanInv /\ GivenInv /\ PlanInv'
  BY PlanStep DEF BuildInv, Next
<1>2. given' = <<>> /\ phase' \notin {"bind", "built", "raised"}
  BY <1>1 DEF GivenInv, Split, Declare, Close, Return
<1>3. Len(plan') \in Nat
  BY <1>1 DEF PlanInv
<1>4. GivenInv'
  BY <1>2, <1>3 DEF GivenInv
<1> QED
  BY <1>1, <1>2, <1>4 DEF BuildInv, RaisedInv

(* The invariant behind the properties: a plan is well bound and a request *)
(* under construction is what it was given, in whatever order.             *)
THEOREM BuildingInvariant == Spec => []BuildInv
<1>1. Init => BuildInv
  <2> SUFFICES ASSUME Init PROVE BuildInv
    OBVIOUS
  <2>1. PlanInv /\ phase = "template" /\ given = <<>> /\ plan = <<>>
    BY PlanInit DEF Init
  <2>2. GivenInv
    BY <2>1 DEF GivenInv
  <2> QED
    BY <2>1, <2>2 DEF BuildInv, RaisedInv
<1>2. BuildInv /\ [Next]_vars => BuildInv'
  <2> SUFFICES ASSUME BuildInv, [Next]_vars PROVE BuildInv'
    OBVIOUS
  <2>1. CASE UNCHANGED vars
    <3>1. PlanInv' /\ GivenInv'
      BY <2>1, PlanStep DEF BuildInv, GivenInv, vars, declared
    <3>2. UNCHANGED <<template, endpoint, plan, phase, given, config, sent, over>>
      BY <2>1 DEF vars, declared
    <3>3. Resolvable(config)' = Resolvable(config)
      BY <3>2 DEF Resolvable, Absolute
    <3>4. RaisedInv' = RaisedInv
      BY <3>2, <3>3
      DEF RaisedInv, Ambiguous, ReservedInBag, Setters, StaticQuery
    <3>5. Disjoint' = Disjoint
      BY <3>2 DEF Disjoint, StaticQuery
    <3>6. SentInv' = SentInv
      BY <3>2, <3>3 DEF SentInv, Defaults, GivenKeys, OwnKey, StaticQuery, Typed, OwnValue, Unjarred
    <3> QED
      BY <3>1, <3>2, <3>4, <3>5, <3>6 DEF BuildInv
  <2> QED
    BY <2>1, CallKeeps, BindKeeps, FinishKeeps, OutsideKeeps DEF Next
<1> QED
  BY <1>1, <1>2, PTL DEF Spec

----------------------------------------------------------------------------
(* What a caller relies on.                                                *)

(* The sources of a key in a call that has not raised: one at most.        *)
LEMMA OneSetter ==
  ASSUME PlanInv, GivenInv, Disjoint, NEW kind \in Keyed, NEW k,
         NEW a \in Setters(kind, k), NEW b \in Setters(kind, k)
  PROVE  a = b
<1>1. \A s \in Setters(kind, k) :
        \/ \E i \in DOMAIN given : plan[i].kind = kind /\ k \in given[i] /\ s = <<"param", i>>
        \/ kind = "query" /\ k \in StaticQuery /\ s = <<"static">>
  BY DEF Setters
<1>2. \A i, j \in DOMAIN given :
        /\ plan[i].kind = kind /\ k \in given[i]
        /\ plan[j].kind = kind /\ k \in given[j]
        => i = j
  BY DEF Disjoint
<1>3. \A i \in DOMAIN given : plan[i].kind = kind /\ k \in given[i] =>
        ~(kind = "query" /\ k \in StaticQuery)
  BY DEF Disjoint
<1> QED
  BY <1>1, <1>2, <1>3

(* README.md:61, 329, 331, 349: a request carries under each key the value *)
(* of the source the rules name, whatever the order of the parameters.     *)
THEOREM RequestsAreAsDeclared == Spec => []BuiltAsDeclared
<1>1. BuildInv => BuiltAsDeclared
  <2> SUFFICES ASSUME BuildInv, phase = "built",
                      NEW kind \in Keyed, NEW k \in Names \ Reserved
               PROVE  Winners(kind, k) =
                        IF k \in DOMAIN sent[kind] THEN {sent[kind][k]} ELSE {}
    BY DEF BuiltAsDeclared
  <2>1. PlanInv /\ GivenInv /\ Disjoint /\ SentInv /\ kind \in Kinds
    BY DEF BuildInv, Kinds
  <2>2. k \in DOMAIN sent[kind] <=>
          \/ k \in Defaults(config, kind)
          \/ k \in GivenKeys(kind)
          \/ kind = "query" /\ k \in StaticQuery
    BY <2>1 DEF SentInv, OwnKey, Reserved
  <2>3. Winners(kind, k) =
          LET all == IF Setters(kind, k) # {} THEN Setters(kind, k)
                     ELSE IF k \in Defaults(config, kind) THEN {<<"default">>} ELSE {}
          IN  {IF kind = "cookie" /\ k \in config.jar /\ ~Overrides(w) THEN <<"jar">> ELSE w :
                 w \in all}
    BY DEF Winners
  <2>4. ASSUME NEW i \in DOMAIN given, plan[i].kind = kind, k \in given[i]
        PROVE  Winners(kind, k) = {sent[kind][k]} /\ k \in DOMAIN sent[kind]
    <3>1. <<"param", i>> \in Setters(kind, k)
      BY <2>4 DEF Setters
    <3>2. Setters(kind, k) = {<<"param", i>>}
      BY <2>1, <3>1, OneSetter
    <3>3. Overrides(<<"param", i>>) <=> plan[i].override
      BY DEF Overrides
    <3>4. sent[kind][k] = Unjarred(kind, k, plan[i].override, <<"param", i>>)
      BY <2>1, <2>4 DEF SentInv
    <3> QED
      BY <2>2, <2>3, <2>4, <3>2, <3>3, <3>4 DEF Unjarred, GivenKeys
  <2>5. ASSUME kind = "query", k \in StaticQuery
        PROVE  Winners(kind, k) = {sent[kind][k]} /\ k \in DOMAIN sent[kind]
    <3>1. <<"static">> \in Setters(kind, k)
      BY <2>5 DEF Setters
    <3>2. Setters(kind, k) = {<<"static">>}
      BY <2>1, <3>1, OneSetter
    <3>3. sent[kind][k] = <<"static">>
      BY <2>1, <2>2, <2>5 DEF SentInv, OwnKey, OwnValue
    <3> QED
      BY <2>2, <2>3, <2>5, <3>2, <3>3
  <2>6. ASSUME k \notin GivenKeys(kind), ~(kind = "query" /\ k \in StaticQuery)
        PROVE  Winners(kind, k) = IF k \in DOMAIN sent[kind] THEN {sent[kind][k]} ELSE {}
    <3>1. Setters(kind, k) = {}
      BY <2>6 DEF Setters, GivenKeys
    <3>2. ~Overrides(<<"default">>)
      BY DEF Overrides
    <3>3. k \in Defaults(config, kind) =>
            sent[kind][k] = Unjarred(kind, k, FALSE, <<"default">>)
      BY <2>1, <2>2, <2>6 DEF SentInv
    <3> QED
      BY <2>2, <2>3, <2>6, <3>1, <3>2, <3>3 DEF Unjarred
  <2> QED
    BY <2>4, <2>5, <2>6 DEF GivenKeys
<1> QED
  BY <1>1, BuildingInvariant, PTL

(* README.md:176: two sources of one key always raise, and nothing else    *)
(* does but a reserved name in a bag or an unusable configuration.         *)
THEOREM AmbiguityRaises == Spec => []RaisesIfAmbiguous
<1>1. BuildInv => RaisesIfAmbiguous
  <2> SUFFICES ASSUME BuildInv PROVE RaisesIfAmbiguous
    OBVIOUS
  <2>1. phase = "built" => ~Ambiguous
    BY OneSetter DEF BuildInv, Ambiguous
  <2>2. phase = "built" => ~ReservedInBag
    BY DEF BuildInv, ReservedInBag, Disjoint, Keyed
  <2> QED
    BY <2>1, <2>2 DEF BuildInv, RaisedInv, RaisesIfAmbiguous
<1> QED
  BY <1>1, BuildingInvariant, PTL

(* README.md:110, 115: without a bag, a method whose class body was        *)
(* accepted never raises for a clash.                                      *)
THEOREM OnlyBagsClash == Spec => []NamedNeverClash
<1>1. BuildInv => NamedNeverClash
  BY DEF BuildInv, RaisedInv, NamedNeverClash
<1> QED
  BY <1>1, BuildingInvariant, PTL

(* README.md:152: one body, or a form, and never both.                     *)
THEOREM RequestsHaveOneBody == Spec => []OneBody
<1>1. BuildInv => OneBody
  <2> SUFFICES ASSUME BuildInv, phase = "built"
               PROVE  /\ Cardinality(DOMAIN sent["body"]) <= 1
                      /\ DOMAIN sent["body"] # {} =>
                           DOMAIN sent["field"] = {} /\ DOMAIN sent["part"] = {}
    BY DEF OneBody
  <2>1. PlanInv /\ GivenInv /\ SentInv
    BY DEF BuildInv
  <2>2. \A kind \in Bodies : \A k \in DOMAIN sent[kind] :
          \E i \in DOMAIN given : plan[i].kind = kind /\ k \in given[i]
    BY <2>1, DefaultsAreKinds DEF SentInv, OwnKey, GivenKeys, Bodies, Kinds, Keyed
  <2>3. DOMAIN given \subseteq DOMAIN plan
    BY <2>1 DEF PlanInv, GivenInv
  <2>4. \A i \in DOMAIN given : plan[i].kind = "body" => given[i] \subseteq {plan[i].wire}
    <3> SUFFICES ASSUME NEW i \in DOMAIN given, plan[i].kind = "body"
                 PROVE  given[i] \subseteq {plan[i].wire}
      OBVIOUS
    <3>1. given[i] \in Given(plan[i]) /\ plan[i] \in Range(plan)
      BY <2>1, <2>3 DEF GivenInv, Range
    <3>2. ~plan[i].bag
      BY <2>1, <3>1 DEF PlanInv, WellBound, Keyed
    <3> QED
      BY <3>1, <3>2 DEF Given
  <2>5. \A i, j \in DOMAIN given : plan[i].kind = "body" /\ plan[j].kind \in Bodies => i = j
    BY <2>1, <2>3 DEF PlanInv, Apart
  <2>6. CASE DOMAIN sent["body"] = {}
    BY <2>6, FS_EmptySet
  <2>7. CASE DOMAIN sent["body"] # {}
    <3>1. PICK k : k \in DOMAIN sent["body"]
      BY <2>7
    <3>2. PICK i \in DOMAIN given : plan[i].kind = "body" /\ k \in given[i]
      BY <2>2, <3>1 DEF Bodies
    <3>3. DOMAIN sent["body"] = {k}
      BY <2>2, <2>4, <2>5, <3>1, <3>2 DEF Bodies
    <3>4. DOMAIN sent["field"] = {} /\ DOMAIN sent["part"] = {}
      BY <2>2, <2>5, <3>2 DEF Bodies
    <3> QED
      BY <3>3, <3>4, FS_Singleton
  <2> QED
    BY <2>6, <2>7
<1> QED
  BY <1>1, BuildingInvariant, PTL

(* README.md:114: a built request fills every field of the path, and each  *)
(* field of the query has one parameter.                                   *)
THEOREM TemplatesAreFilled == Spec => []TemplateFilled
<1>1. BuildInv => TemplateFilled
  <2> SUFFICES ASSUME BuildInv PROVE TemplateFilled
    OBVIOUS
  <2>1. PlanInv /\ GivenInv /\ Range(plan) = {plan[i] : i \in DOMAIN plan}
    BY DEF BuildInv, Range
  <2>2. ASSUME phase = "built" PROVE DOMAIN sent["path"] = template.path
    <3>1. SentInv /\ Covers /\ DOMAIN given = DOMAIN plan
      BY <2>1, <2>2 DEF BuildInv, PlanInv, GivenInv
    <3>2. \A k : k \in DOMAIN sent["path"] <=> k \in GivenKeys("path")
      BY <3>1, DefaultsAreKinds DEF SentInv, OwnKey, Kinds
    <3>3. \A i \in DOMAIN plan : plan[i].kind = "path" =>
            given[i] = {plan[i].wire} /\ plan[i].wire \in template.path
      BY <2>1, <3>1 DEF GivenInv, Given, PlanInv, WellBound, Keyed
    <3>4. \A k \in template.path : \E i \in DOMAIN plan : plan[i].kind = "path" /\ plan[i].wire = k
      BY <2>1, <3>1 DEF Covers, Bound
    <3>5. \A k : k \in GivenKeys("path") <=>
            \E i \in DOMAIN given : plan[i].kind = "path" /\ k \in given[i]
      BY DEF GivenKeys
    <3>6. \A k : k \in DOMAIN sent["path"] <=> k \in template.path
      BY <3>1, <3>2, <3>3, <3>4, <3>5
    <3>7. DOMAIN sent["path"] \subseteq template.path /\ template.path \subseteq DOMAIN sent["path"]
      BY <3>6
    <3> QED
      BY <3>7
  <2>3. ASSUME phase = "ready", NEW k \in InlineKeys
        PROVE  Cardinality({i \in DOMAIN plan : plan[i].kind = "query" /\ plan[i].wire = k}) = 1
    <3>1. PICK i \in DOMAIN plan : plan[i].kind = "query" /\ plan[i].wire = k
      BY <2>1, <2>3 DEF PlanInv, Covers, Bound
    <3>2. \A j \in DOMAIN plan : plan[j].kind = "query" /\ plan[j].wire = k => ~plan[j].bag
      BY <2>1, <2>3 DEF PlanInv, WellBound
    <3>3. \A j \in DOMAIN plan : plan[j].kind = "query" /\ plan[j].wire = k => j = i
      BY <2>1, <3>1, <3>2 DEF PlanInv, Apart, Keyed
    <3>4. {j \in DOMAIN plan : plan[j].kind = "query" /\ plan[j].wire = k} = {i}
      BY <3>1, <3>3
    <3> QED
      BY <3>4, FS_Singleton
  <2> QED
    BY <2>2, <2>3 DEF TemplateFilled
<1> QED
  BY <1>1, BuildingInvariant, PTL

(* README.md:70, 177, 266: the reserved headers, in any casing, are set by *)
(* their mechanisms only.                                                  *)
THEOREM MechanismsOwnReserved == Spec => []ReservedByMechanism
<1>1. BuildInv => ReservedByMechanism
  <2> SUFFICES ASSUME BuildInv, phase = "built",
                      NEW k \in DOMAIN sent["header"], Lower[k] \in Reserved
               PROVE  \/ /\ k = "content-type" /\ sent["header"][k] = <<"type">>
                         /\ "content" \in DOMAIN sent["body"]
                      \/ k = "cookie" /\ sent["header"][k] = <<"cookies">>
                      \/ /\ k = "idempotency-key" /\ sent["header"][k] = <<"key">>
                         /\ endpoint.method # "GET"
    BY DEF ReservedByMechanism
  <2>1. PlanInv /\ GivenInv /\ Disjoint /\ SentInv
    BY DEF BuildInv
  <2>2. k \notin Defaults(config, "header")
    BY <2>1, DefaultsNotReserved DEF SentInv
  <2>3. k \notin GivenKeys("header")
    BY <2>1 DEF Disjoint, GivenKeys, Keyed
  <2>4. OwnKey("header", k)
    BY <2>1, <2>2, <2>3 DEF SentInv, Kinds, Keyed
  <2>5. sent["header"][k] = OwnValue("header", k)
    BY <2>1, <2>4 DEF SentInv, Kinds, Keyed
  <2>6. k = "content-type" => "content" \in DOMAIN sent["body"]
    <3> SUFFICES ASSUME k = "content-type" PROVE "content" \in DOMAIN sent["body"]
      OBVIOUS
    <3>1. PICK i \in DOMAIN given : plan[i].typed /\ given[i] # {}
      BY <2>4 DEF OwnKey, Typed
    <3>2. plan[i] \in Range(plan) /\ given[i] \in Given(plan[i])
      BY <2>1, <3>1 DEF PlanInv, GivenInv, Range
    <3>3. plan[i].kind = "body" /\ plan[i].wire = "content" /\ ~plan[i].bag
      BY <2>1, <3>1, <3>2 DEF PlanInv, WellBound, Keyed
    <3>4. "content" \in GivenKeys("body")
      BY <3>1, <3>2, <3>3 DEF Given, GivenKeys
    <3> QED
      BY <2>1, <3>4 DEF SentInv, Kinds
  <2>7. k = "idempotency-key" => endpoint.method # "GET"
    BY <2>1, <2>4 DEF OwnKey, PlanInv, Valid
  <2> QED
    BY <2>4, <2>5, <2>6, <2>7 DEF OwnKey, OwnValue
<1> QED
  BY <1>1, BuildingInvariant, PTL
=============================================================================
