---------------------------- MODULE MCMultiPart ----------------------------
(* Values for TLC: two or three segments, of one or two bytes each.        *)
EXTENDS MultiPart

InParts(n) == [count |-> n, min_part_size |-> 1, max_parts |-> n]
TwoParts == {InParts(2)}
TwoOrThree == {InParts(2), InParts(3)}

Even == [u \in Urls |-> [n \in Versions |-> 2]]
Uneven == [u \in Urls |-> [n \in Versions |-> 3]]
(* The first revision is split, the second is too small to be.             *)
Shrinking == [u \in Urls |-> [n \in Versions |-> IF n = 2 THEN 1 ELSE 3]]
=============================================================================
