------------------------- MODULE MCRequestBuilding -------------------------
(* For TLC: paths, endpoints, parameters and configurations in which every *)
(* rule meets its exception.  `x` and `X` are one header, `R` is `cookie`  *)
(* in another casing, `p` and `q` are placeholders.                        *)
EXTENDS RequestBuilding

HeaderNames == {"x", "X", "R", "cookie", "content-type", "idempotency-key", "p", "q", "b", "bag"}
LowerCase == [n \in HeaderNames |-> CASE n = "X" -> "x" [] n = "R" -> "cookie" [] OTHER -> n]

Entry(key, field) == [key |-> key, field |-> field]
Template(host, path, query) == [host |-> host, path |-> path, query |-> query]

Paths ==
  {Template(None, {"p"}, <<Entry("x", "q")>>),
   Template(None, {}, <<Entry("x", "literal")>>),
   Template("there", {}, <<>>),
   Template(None, {"p"}, <<Entry("x", "p")>>),
   Template(None, {}, <<Entry("x", "q"), Entry("x", "literal")>>),
   Template(None, {}, <<Entry("x", "mixed")>>)}

HostPaths == {Template("p", {"p"}, <<>>)}

Plain == [method |-> "GET", returns |-> "decoded", coroutine |-> FALSE, resumable |-> FALSE,
          parts |-> FALSE, checksum |-> FALSE, idempotent |-> FALSE]

Methods ==
  {Plain, [Plain EXCEPT !.method = "POST", !.idempotent = TRUE],
   [Plain EXCEPT !.idempotent = TRUE],
   [Plain EXCEPT !.returns = "AsyncDownloader", !.parts = TRUE]}

Named(marker, target) ==
  [marker |-> marker, target |-> target, bag |-> FALSE, override |-> FALSE, typed |-> FALSE]

Bag(kind) == [Named(kind, "bag") EXCEPT !.bag = TRUE]

Parameters ==
  {Named("none", "p"), Named("none", "q"), Named("path", "p"), Named("query", "q"),
   Named("query", "x"), Named("query", "X"), Named("field", "x"), Named("header", "x"),
   Named("header", "R"), Named("cookie", "x"), Named("part", "x"), Named("body", "b"),
   Named("raw", "b"), [Named("raw", "b") EXCEPT !.typed = TRUE],
   [Named("cookie", "x") EXCEPT !.override = TRUE], [Bag("cookie") EXCEPT !.override = TRUE]}
  \cup {Bag(kind) : kind \in Keyed}

HeaderParameters == {Named("header", "x"), Named("header", "X")}
PartParameters == {Named("part", "x"), Named("none", "p")}

Choice(e, c) == [endpoint |-> e, class |-> c]

Configurations ==
  {[headers |-> h, cookies |-> k, base |-> b, instance |-> i] :
     h \in {Choice(Missing, {"x"}), Choice(None, {"x"}), Choice({"X"}, {"x"}),
            Choice({"R"}, None)},
     k \in {Choice(Missing, None), Choice({"x"}, None)},
     b \in {Choice(Missing, None), Choice(Missing, "class")},
     i \in {None, "instance"}}

CookieJars == {{}, {"x"}}
KeysOfBags == {"x", "R"}
=============================================================================
