----------------------------- MODULE ByteRanges -----------------------------
(***************************************************************************)
(* How a multi-part download divides a file: Parts.resolve_count and       *)
(* compute_ranges of src/mxhttp/download.py.  Segments are numbered from 0 *)
(* and a range is inclusive, as in an HTTP Range header.                   *)
(***************************************************************************)
EXTENDS Integers

(* A Parts value that passed __post_init__.                                *)
PartsConfigs(N) ==
  {c \in [count : N, min_part_size : N, max_parts : N] :
     c.count >= 1 /\ c.min_part_size >= 1 /\ c.max_parts >= c.count}

AtMost(a, b) == IF a <= b THEN a ELSE b

(* The number of parts: `possible` is how many of the smallest allowed     *)
(* parts fit.  max(1, ...) never bites, because total > min_part_size.     *)
ResolveCount(c, total) ==
  IF total <= c.min_part_size THEN 1
  ELSE LET n == AtMost(AtMost(c.count, total \div c.min_part_size), c.max_parts)
       IN  IF n >= 1 THEN n ELSE 1

PartLength(total, n) == total \div n

RangeStart(total, n, i) == IF n <= 1 THEN 0 ELSE i * PartLength(total, n)

(* The last range takes the remainder of the division.                     *)
RangeEnd(total, n, i) ==
  IF n <= 1 \/ i >= n - 1 THEN total - 1 ELSE (i + 1) * PartLength(total, n) - 1

Needed(total, n, i) == RangeEnd(total, n, i) - RangeStart(total, n, i) + 1

(* The definition the code has to meet: each offset in exactly one range.  *)
Partition(total, n) ==
  \A offset \in 0..(total - 1) :
    \E i \in 0..(n - 1) :
      \A j \in 0..(n - 1) :
        offset \in RangeStart(total, n, j)..RangeEnd(total, n, j) <=> j = i

(* The same for a sequence of ranges: they follow each other and none is   *)
(* empty, which is what an assembly by concatenation relies on.            *)
Tiles(total, n) ==
  /\ RangeStart(total, n, 0) = 0
  /\ RangeEnd(total, n, n - 1) = total - 1
  /\ \A i \in 0..(n - 1) : RangeStart(total, n, i) <= RangeEnd(total, n, i)
  /\ \A i \in 0..(n - 2) : RangeEnd(total, n, i) + 1 = RangeStart(total, n, i + 1)
=============================================================================
