------------------------- MODULE MCResumableStream -------------------------
(* Values for TLC: a plain and an encoded resource, of a few bytes.        *)
EXTENDS ResumableStream

Bodies == {"plain", "gzip"}
Packings == [u \in Urls |-> IF u = "gzip" THEN 2 ELSE 1]

Three == [u \in Urls |-> [n \in Versions |-> 3]]
Shrinking == [u \in Urls |-> [n \in Versions |-> IF n = 1 THEN 3 ELSE 2]]
=============================================================================
