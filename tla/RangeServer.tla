---------------------------- MODULE RangeServer ----------------------------
(***************************************************************************)
(* The HTTP server a download or a resumable stream reads from, as far as  *)
(* src/mxhttp sees it: a server that honours Range and If-Range.  A        *)
(* resource goes through revisions, published at any time.                 *)
(***************************************************************************)
EXTENDS Naturals

CONSTANTS
  Urls,            \* the resources the endpoint may be bound to
  MaxVersion,      \* BOUND: revisions a resource can go through
  Size,            \* Size[u][n]: length in bytes of revision n of resource u
  Tagged,          \* the server sends an ETag or a Last-Modified
  Rollback,        \* a resource may go back to an earlier revision
  MayIgnoreRange,  \* the server may answer 200 to any Range request
  MayEndShort      \* a body may end cleanly before its last byte: a 206 of less than was
                   \* asked for, or a body that the end of the connection delimits

Versions == 1..MaxVersion
NoTag == 0

ASSUME ServerAssumption ==
  /\ MaxVersion \in Nat \ {0}
  /\ Size \in [Urls -> [Versions -> Nat]]
  /\ {Tagged, Rollback, MayIgnoreRange, MayEndShort} \subseteq BOOLEAN

VARIABLE live     \* live[u]: the revision the server has now

(* The validator of a revision: `etag or last_modified`.                   *)
Tag(n) == IF Tagged THEN n ELSE NoTag

(* `at` counts the bytes of the revision that precede the next byte of the *)
(* body.                                                                   *)
NoResponse == [status |-> 0, ver |-> 1, at |-> 0]
Response == [status : {0, 200, 206, 416}, ver : Versions, at : Nat]

NextByte(r) == [status |-> r.status, ver |-> r.ver, at |-> r.at + 1]

Full(u) == [status |-> 200, ver |-> live[u], at |-> 0]
Partial(u, start) == [status |-> 206, ver |-> live[u], at |-> start]
Unsatisfiable(u) == [status |-> 416, ver |-> live[u], at |-> 0]

(* What resume_headers asks for: a Range once there are bytes, and with it *)
(* an If-Range once there is a validator.  An If-Range that no longer      *)
(* matches gets the whole body; a range that starts at or beyond the end   *)
(* gets a 416.                                                             *)
Responses(u, start, ifRange) ==
  IF start = 0 THEN {Full(u)}
  ELSE (IF MayIgnoreRange THEN {Full(u)} ELSE {})
       \cup (IF ifRange # NoTag /\ ifRange # Tag(live[u]) THEN {Full(u)}
             ELSE IF start < Size[u][live[u]] THEN {Partial(u, start)}
             ELSE {Unsatisfiable(u)})

(* Where a body may end cleanly: nothing in it says that bytes are missing. *)
MayEnd(u, r) == r.at = Size[u][r.ver] \/ MayEndShort

(* The resource is published again; the client learns nothing of it.       *)
Publish(u) ==
  \E n \in Versions \ {live[u]} :
    /\ Rollback \/ n > live[u]
    /\ live' = [live EXCEPT ![u] = n]
============================================================================
