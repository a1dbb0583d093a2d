--------------------------- MODULE MCSingleStream ---------------------------
(* Values for TLC: resource lengths of a few bytes, one of them empty.     *)
EXTENDS SingleStream

(* Two bytes at first, one byte after a new release.                       *)
Shrinking == [u \in Urls |-> [n \in Versions |-> IF n = 2 THEN 1 ELSE 2]]

(* Revision n has n - 1 bytes: the first one is empty.                     *)
Growing == [u \in Urls |-> [n \in Versions |-> n - 1]]

Three == [u \in Urls |-> [n \in Versions |-> 3]]
=============================================================================
