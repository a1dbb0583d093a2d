----------------------------- MODULE SseProofs -----------------------------
(***************************************************************************)
(* Proofs about Sse, for event streams of any length and fields of any     *)
(* values.                                                                 *)
(***************************************************************************)
EXTENDS Sse, FiniteSetTheorems, WellFoundedInduction, TLAPS

Value == Values \cup {Empty}

Event == [data : Seq(Value), event : Value \cup {Message}, id : Value \cup {None},
          retry : Value \cup {None}, line : Nat]

TypeOK ==
  /\ lines \in Seq(Line) /\ events \in Seq(Event)
  /\ data_lines \in Seq(Value) /\ event \in Value \cup {Message}
  /\ last_id \in Value \cup {None} /\ retry \in Value \cup {None}

(* The builder holds what a reading of the lines so far would give, were   *)
(* the block to end here.                                                  *)
BuilderInv ==
  /\ TypeOK
  /\ IsDataOf(data_lines, Len(lines) + 1)
  /\ last_id = LastOf("id", Len(lines) + 1)
  /\ retry = LastOf("retry", Len(lines) + 1)

(* The events are those of the blocks with data, and what a reading of the *)
(* lines up to the end of their block gives.                               *)
Ends == {p \in 1..Len(lines) : Blank(p) /\ DataLines(p) # {}}

IsEvent(e) ==
  /\ IsDataOf(e.data, e.line)
  /\ e.id = LastOf("id", e.line) /\ e.retry = LastOf("retry", e.line)

EventsInv ==
  /\ Len(events) = Cardinality(Ends)
  /\ \A i \in 1..Len(events) :
       /\ events[i].line \in Ends /\ IsEvent(events[i])
       /\ i > 1 => events[i - 1].line < events[i].line

SseInv == BuilderInv /\ EventsInv

----------------------------------------------------------------------------
(* The last of a set of lines.                                             *)

(* A set of numbers that is not empty has a least one.                     *)
LEMMA LeastNumber ==
  ASSUME NEW S \in SUBSET Nat, S # {}
  PROVE  \E m \in S : \A k \in S : m <= k
<1> DEFINE R == {ss \in Nat \X Nat : ss[1] < ss[2]}
<1>1. IsWellFoundedOn(R, Nat)
  BY NatLessThanWellFounded DEF OpToRel
<1>2. \A x, y \in Nat : y < x => <<y, x>> \in R
  <2> SUFFICES ASSUME NEW x \in Nat, NEW y \in Nat, y < x PROVE <<y, x>> \in R
    OBVIOUS
  <2>1. <<y, x>> \in Nat \X Nat /\ <<y, x>>[1] = y /\ <<y, x>>[2] = x
    OBVIOUS
  <2>2. <<y, x>>[1] < <<y, x>>[2]
    BY <2>1
  <2> QED
    BY <2>1, <2>2, Zenon
<1> HIDE DEF R
<1>3. PICK m \in S : \A k \in S : ~ (<<k, m>> \in R)
  BY <1>1, WFMin
<1>4. m \in Nat /\ \A k \in S : k \in Nat /\ ~(k < m)
  BY <1>2, <1>3
<1> QED
  BY <1>4

(* A set of numbers up to a bound has a greatest one.                      *)
LEMMA MaxOf ==
  ASSUME NEW S, NEW n \in Nat, S \subseteq 0..n, S # {}
  PROVE  Max(S) \in S /\ \A k \in S : Max(S) >= k
<1> DEFINE T == {n - k : k \in S}
<1>1. T \in SUBSET Nat /\ T # {}
  <2>1. \A k \in S : n - k \in Nat
    OBVIOUS
  <2>2. PICK k \in S : TRUE
    OBVIOUS
  <2>3. n - k \in T
    OBVIOUS
  <2> QED
    BY <2>1, <2>3
<1>2. PICK m \in T : \A k \in T : m <= k
  BY <1>1, LeastNumber
<1>3. PICK s \in S : m = n - s
  BY <1>2
<1>4. \A k \in S : n - s <= n - k
  BY <1>2, <1>3
<1>5. \A k \in S : s >= k
  BY <1>4
<1> QED
  BY <1>3, <1>5 DEF Max

(* The greatest member is the only one that bounds the others.             *)
LEMMA MaxIs ==
  ASSUME NEW S, NEW n \in Nat, S \subseteq 0..n, NEW m \in S, \A k \in S : m >= k
  PROVE  Max(S) = m
<1>1. Max(S) \in S /\ \A k \in S : Max(S) >= k
  BY MaxOf
<1>2. Max(S) >= m /\ m >= Max(S) /\ Max(S) \in 0..n /\ m \in 0..n
  BY <1>1
<1> QED
  BY <1>2

(* So what is read last is the greatest.                                   *)
LEMMA MaxAppended ==
  ASSUME NEW n \in Nat, NEW S, S \subseteq 1..n, NEW T, T = S \cup {n + 1}
  PROVE  Max(T) = n + 1
<1>1. /\ n + 1 \in Nat /\ T \subseteq 0..(n + 1) /\ n + 1 \in T
      /\ \A k \in T : n + 1 >= k
  OBVIOUS
<1>2. PICK m : m = n + 1
  OBVIOUS
<1>3. Max(T) = m
  BY <1>1, <1>2, MaxIs, Zenon
<1> QED
  BY <1>2, <1>3

----------------------------------------------------------------------------
(* Reading on does not change what has been read.                          *)

(* A block starts before the line that ends it.                            *)
LEMMA BlockStartBefore ==
  ASSUME NEW p \in Nat \ {0}
  PROVE  BlockStart(p) \in 0..(p - 1) /\ Blank(BlockStart(p))
<1> DEFINE S == {q \in 0..(p - 1) : Blank(q)}
<1>1. 0 \in S
  BY DEF Blank
<1>2. Max(S) \in S
  BY <1>1, MaxOf
<1> QED
  BY <1>2 DEF BlockStart

(* So its data lie between the two.                                        *)
LEMMA DataLinesBefore ==
  ASSUME NEW p \in Nat \ {0}
  PROVE  /\ DataLines(p) \subseteq 1..(p - 1) /\ IsFiniteSet(DataLines(p))
         /\ Cardinality(DataLines(p)) \in Nat
<1>1. DataLines(p) \subseteq 1..(p - 1)
  BY BlockStartBefore DEF DataLines, Of
<1>2. IsFiniteSet(1..(p - 1))
  BY FS_Interval
<1>3. IsFiniteSet(DataLines(p))
  BY <1>1, <1>2, FS_Subset
<1> QED
  BY <1>1, <1>3, FS_CardinalityType

(* What the next line leaves as it was.                                    *)
LEMMA ReadOn ==
  ASSUME lines \in Seq(Line), NEW l \in Line, lines' = Append(lines, l),
         NEW n \in Nat, n = Len(lines)
  PROVE  /\ lines' \in Seq(Line) /\ Len(lines') = n + 1 /\ lines'[n + 1] = l
         /\ \A q \in 1..n : lines'[q] = lines[q]
         /\ \A q \in 0..n : Blank(q)' <=> Blank(q)
         /\ \A kind, a, b : a \in Nat \ {0} /\ b \in 0..n => Of(kind, a, b)' = Of(kind, a, b)
         /\ \A p \in 1..(n + 1) : BlockStart(p)' = BlockStart(p)
         /\ \A p \in 1..(n + 1) : DataLines(p)' = DataLines(p)
<1>1. /\ lines' \in Seq(Line) /\ Len(lines') = n + 1 /\ lines'[n + 1] = l
      /\ \A q \in 1..n : lines'[q] = lines[q]
  OBVIOUS
<1>2. \A q \in 0..n : Blank(q)' <=> Blank(q)
  BY <1>1 DEF Blank
<1>3. \A kind, a, b : a \in Nat \ {0} /\ b \in 0..n => Of(kind, a, b)' = Of(kind, a, b)
  BY <1>1 DEF Of
<1>4. \A p \in 1..(n + 1) : BlockStart(p)' = BlockStart(p)
  <2> SUFFICES ASSUME NEW p \in 1..(n + 1) PROVE BlockStart(p)' = BlockStart(p)
    OBVIOUS
  <2>1. {q \in 0..(p - 1) : Blank(q)'} = {q \in 0..(p - 1) : Blank(q)}
    BY <1>2
  <2> QED
    BY <2>1 DEF BlockStart
<1>5. \A p \in 1..(n + 1) : DataLines(p)' = DataLines(p)
  <2> SUFFICES ASSUME NEW p \in 1..(n + 1) PROVE DataLines(p)' = DataLines(p)
    OBVIOUS
  <2>1. BlockStart(p) + 1 \in Nat \ {0} /\ p - 1 \in 0..n
    BY BlockStartBefore
  <2>2. DataLines(p)' = Of("data", BlockStart(p) + 1, p - 1)'
    BY DEF DataLines
  <2>3. DataLines(p)' = {q \in (BlockStart(p)' + 1)..(p - 1) : lines'[q].kind = "data"}
    BY <2>2 DEF Of
  <2>4. DataLines(p) = {q \in (BlockStart(p) + 1)..(p - 1) : lines[q].kind = "data"}
    BY DEF DataLines, Of
  <2> QED
    BY <1>1, <1>4, <2>1, <2>3, <2>4
<1> QED
  BY <1>1, <1>2, <1>3, <1>4, <1>5

(* Nor the data of a block, or the last values.                            *)
LEMMA ValuesStay ==
  ASSUME lines \in Seq(Line), NEW l \in Line, lines' = Append(lines, l),
         NEW n \in Nat, n = Len(lines)
  PROVE  /\ \A data : \A p \in 1..(n + 1) : IsDataOf(data, p)' <=> IsDataOf(data, p)
         /\ \A kind : \A p \in 1..(n + 1) : LastOf(kind, p)' = LastOf(kind, p)
<1>1. /\ \A q \in 1..n : lines'[q] = lines[q]
      /\ \A kind, a, b : a \in Nat \ {0} /\ b \in 0..n => Of(kind, a, b)' = Of(kind, a, b)
      /\ \A p \in 1..(n + 1) : DataLines(p)' = DataLines(p)
  BY ReadOn
<1>2. ASSUME NEW data, NEW p \in 1..(n + 1)
      PROVE  IsDataOf(data, p)' <=> IsDataOf(data, p)
  <2>1. DataLines(p)' = DataLines(p) /\ \A q \in DataLines(p) : lines'[q] = lines[q]
    BY <1>1, DataLinesBefore
  <2> QED
    BY <2>1 DEF IsDataOf
<1>3. ASSUME NEW kind, NEW a \in Nat \ {0}, NEW b \in 0..n, Of(kind, a, b) # {}
      PROVE  lines'[Max(Of(kind, a, b))] = lines[Max(Of(kind, a, b))]
  <2>1. Of(kind, a, b) \subseteq 1..n
    BY DEF Of
  <2>2. Max(Of(kind, a, b)) \in 1..n
    BY <1>3, <2>1, MaxOf
  <2> QED
    BY <1>1, <2>2
<1>4. ASSUME NEW kind, NEW p \in 1..(n + 1) PROVE LastOf(kind, p)' = LastOf(kind, p)
  <2>1. Of(kind, 1, p - 1)' = Of(kind, 1, p - 1)
    BY <1>1
  <2>2. Of(kind, 1, p - 1) # {} =>
          lines'[Max(Of(kind, 1, p - 1))] = lines[Max(Of(kind, 1, p - 1))]
    <3>1. 1 \in Nat \ {0} /\ p - 1 \in 0..n
      OBVIOUS
    <3> QED
      BY <1>3, <3>1, Zenon
  <2> QED
    BY <2>1, <2>2 DEF LastOf
<1> QED
  BY <1>2, <1>4

----------------------------------------------------------------------------
(* The lines one by one.                                                   *)

(* A line adds itself to the lines of its kind, and to no others.          *)
LEMMA NextOf ==
  ASSUME lines \in Seq(Line), NEW l \in Line, lines' = Append(lines, l),
         NEW n \in Nat, n = Len(lines)
  PROVE  \A kind : \A a \in 1..(n + 1) :
           /\ l.kind # kind => Of(kind, a, n + 1)' = Of(kind, a, n)
           /\ l.kind = kind => Of(kind, a, n + 1)' = Of(kind, a, n) \cup {n + 1}
<1>1. /\ lines'[n + 1] = l
      /\ \A q \in 1..n : lines'[q] = lines[q]
  BY ReadOn
<1> TAKE kind
<1> TAKE a \in 1..(n + 1)
<1>2. \A q : q \in a..(n + 1) <=> q \in a..n \/ q = n + 1
  OBVIOUS
<1>3. \A q : q \in Of(kind, a, n + 1)' <=> q \in Of(kind, a, n) \/ (q = n + 1 /\ l.kind = kind)
  <2>1. \A q : q \in Of(kind, a, n + 1)' <=> q \in a..(n + 1) /\ lines'[q].kind = kind
    BY DEF Of
  <2>2. \A q : q \in Of(kind, a, n) <=> q \in a..n /\ lines[q].kind = kind
    BY DEF Of
  <2>3. \A q \in a..n : lines'[q] = lines[q]
    BY <1>1
  <2> QED
    BY <1>1, <1>2, <2>1, <2>2, <2>3
<1> QED
  BY <1>3

(* The block goes on, or a new one begins.                                 *)
LEMMA NextBlock ==
  ASSUME lines \in Seq(Line), NEW l \in Line, lines' = Append(lines, l),
         NEW n \in Nat, n = Len(lines)
  PROVE  /\ l.kind = "blank" => DataLines(n + 2)' = {}
         /\ l.kind = "data" => DataLines(n + 2)' = DataLines(n + 1) \cup {n + 1}
         /\ l.kind \notin {"blank", "data"} => DataLines(n + 2)' = DataLines(n + 1)
<1>1. /\ \A q \in 0..n : Blank(q)' <=> Blank(q)
      /\ lines'[n + 1] = l
  BY ReadOn
<1>2. Blank(n + 1)' <=> l.kind = "blank"
  BY <1>1 DEF Blank
<1>0. n + 2 - 1 = n + 1 /\ (n + 1) - 1 = n /\ n + 1 \in Nat
  OBVIOUS
<1>3. BlockStart(n + 2)' = Max({q \in 0..(n + 1) : Blank(q)'})
  BY <1>0 DEF BlockStart
<1>4. DataLines(n + 2)' = {q \in (BlockStart(n + 2)' + 1)..(n + 1) : lines'[q].kind = "data"}
  <2>1. ASSUME NEW p, p = n + 2
        PROVE  DataLines(p)' = {q \in (BlockStart(p)' + 1)..(n + 1) : lines'[q].kind = "data"}
    <3>1. p - 1 = n + 1
      BY <2>1
    <3> QED
      BY <3>1, Zenon DEF DataLines, Of
  <2> QED
    BY <2>1, Zenon
<1>5. CASE l.kind = "blank"
  <2> DEFINE S == {q \in 0..(n + 1) : Blank(q)'}
  <2>1. n + 1 \in S /\ S \subseteq 0..(n + 1) /\ \A q \in S : n + 1 >= q
    BY <1>2, <1>5
  <2>2. BlockStart(n + 2)' = n + 1
    <3> HIDE DEF S
    <3>1. Max(S) = n + 1
      BY <1>0, <2>1, MaxIs, Zenon
    <3> QED
      BY <1>3, <3>1 DEF S
  <2> QED
    BY <1>4, <1>5, <2>2 DEF Of
<1>6. CASE l.kind # "blank"
  <2>1. {q \in 0..(n + 1) : Blank(q)'} = {q \in 0..n : Blank(q)}
    BY <1>1, <1>2, <1>6
  <2>2. BlockStart(n + 2)' = BlockStart(n + 1)
    BY <1>0, <1>3, <2>1 DEF BlockStart
  <2>3. PICK a \in 1..(n + 1) : a = BlockStart(n + 1) + 1
    BY BlockStartBefore
  <2>4. DataLines(n + 2)' = Of("data", a, n + 1)' /\ DataLines(n + 1) = Of("data", a, n)
    BY <1>0, <1>4, <2>2, <2>3 DEF DataLines, Of
  <2> QED
    BY <1>6, <2>4, NextOf
<1> QED
  BY <1>5, <1>6

(* The data of a block, and a line more.                                   *)
LEMMA DataAppended ==
  ASSUME lines \in Seq(Line), NEW l \in Line, lines' = Append(lines, l),
         NEW n \in Nat, n = Len(lines), l.kind = "data",
         NEW data \in Seq(Value), IsDataOf(data, n + 1)
  PROVE  IsDataOf(Append(data, l.value), n + 2)'
<1> DEFINE old == DataLines(n + 1)
           new == old \cup {n + 1}
           upto(S, q) == {r \in S : r <= q}
<1>1. DataLines(n + 2)' = new
  BY NextBlock
<1>2. old \subseteq 1..n /\ IsFiniteSet(old) /\ n + 1 \notin old /\ Cardinality(old) \in Nat
  BY DataLinesBefore
<1>3. Cardinality(new) = Cardinality(old) + 1
  BY <1>2, FS_AddElement
<1>4. Len(data) = Cardinality(old) /\ \A q \in old :
         data[Cardinality(upto(old, q))] = lines[q].value
  BY DEF IsDataOf
<1>5. Len(Append(data, l.value)) = Cardinality(new)
  BY <1>3, <1>4
<1>6. \A q \in new : Append(data, l.value)[Cardinality(upto(new, q))] = lines'[q].value
  <2>1. ASSUME NEW q \in old
        PROVE  Append(data, l.value)[Cardinality(upto(new, q))] = lines'[q].value
    <3>1. upto(new, q) = upto(old, q)
      BY <1>2
    <3>2. upto(old, q) \subseteq old /\ q \in upto(old, q) /\ IsFiniteSet(upto(old, q))
      BY <1>2, FS_Subset
    <3>3. Cardinality(upto(old, q)) \in 1..Cardinality(old)
      <4>1. Cardinality(upto(old, q)) <= Cardinality(old)
        BY <1>2, <3>2, FS_Subset
      <4>2. Cardinality(upto(old, q)) \in Nat /\ Cardinality(upto(old, q)) # 0
        BY <3>2, FS_CardinalityType, FS_EmptySet
      <4> QED
        BY <1>2, <4>1, <4>2
    <3>4. Append(data, l.value)[Cardinality(upto(old, q))] = data[Cardinality(upto(old, q))]
      BY <1>4, <3>3
    <3>5. lines'[q] = lines[q]
      BY <1>2, ReadOn
    <3> QED
      BY <1>4, <3>1, <3>4, <3>5
  <2>2. Append(data, l.value)[Cardinality(upto(new, n + 1))] = lines'[n + 1].value
    <3>1. upto(new, n + 1) = new
      BY <1>2
    <3>2. Append(data, l.value)[Len(data) + 1] = l.value
      OBVIOUS
    <3>3. lines'[n + 1] = l
      BY ReadOn
    <3> QED
      BY <1>3, <1>4, <3>1, <3>2, <3>3
  <2> QED
    BY <2>1, <2>2
<1> QED
  BY <1>1, <1>5, <1>6 DEF IsDataOf

----------------------------------------------------------------------------
(* The builder follows the reading of the stream as a whole.               *)

(* Before the first line.                                                  *)
LEMMA SseInit == Init => SseInv
<1> SUFFICES ASSUME Init PROVE SseInv
  OBVIOUS
<1>1. lines = <<>> /\ events = <<>> /\ data_lines = <<>> /\ Len(lines) = 0 /\ Len(events) = 0
  BY DEF Init
<1>2. TypeOK
  BY DEF Init, TypeOK
<1>3. DataLines(1) = {} /\ IsDataOf(data_lines, 1)
  <2>1. DataLines(1) = {}
    BY DataLinesBefore
  <2> QED
    BY <1>1, <2>1, FS_EmptySet DEF IsDataOf
<1>4. \A kind : Of(kind, 1, 0) = {}
  BY DEF Of
<1>5. last_id = LastOf("id", 1) /\ retry = LastOf("retry", 1)
  BY <1>4 DEF Init, LastOf
<1>6. BuilderInv
  BY <1>1, <1>2, <1>3, <1>5 DEF BuilderInv
<1>7. EventsInv
  <2>1. Ends = {}
    BY <1>1 DEF Ends
  <2> QED
    BY <1>1, <2>1, FS_EmptySet DEF EventsInv
<1> QED
  BY <1>6, <1>7 DEF SseInv

(* What the last line of some kind is, once a line more has been read.     *)
LEMMA LastNext ==
  ASSUME lines \in Seq(Line), NEW l \in Line, lines' = Append(lines, l),
         NEW n \in Nat, n = Len(lines)
  PROVE  \A kind :
           LastOf(kind, n + 2)' = IF l.kind = kind THEN l.value ELSE LastOf(kind, n + 1)
<1> DEFINE last(S, ls, default) == IF S = {} THEN default ELSE ls[Max(S)].value
<1>0. n + 2 - 1 = n + 1 /\ (n + 1) - 1 = n /\ lines'[n + 1] = l /\ 1 \in 1..(n + 1)
  BY ReadOn
<1>of. \A kind : \A a \in 1..(n + 1) :
        /\ l.kind # kind => Of(kind, a, n + 1)' = Of(kind, a, n)
        /\ l.kind = kind => Of(kind, a, n + 1)' = Of(kind, a, n) \cup {n + 1}
  BY NextOf
<1>1. ASSUME NEW kind, NEW a \in 1..(n + 1), NEW default
      PROVE  last(Of(kind, a, n + 1)', lines', default) =
               IF l.kind = kind THEN l.value ELSE last(Of(kind, a, n), lines, default)
  <2>1. CASE l.kind = kind
    <3>1. Of(kind, a, n + 1)' = Of(kind, a, n) \cup {n + 1}
      BY <1>of, <2>1, Zenon
    <3>2. Of(kind, a, n) \subseteq 1..n
      BY DEF Of
    <3>3. Max(Of(kind, a, n + 1)') = n + 1
      BY <3>1, <3>2, MaxAppended, Zenon
    <3>4. Of(kind, a, n + 1)' # {}
      BY <3>1
    <3> QED
      BY <1>0, <2>1, <3>3, <3>4, Zenon
  <2>2. CASE l.kind # kind
    <3>1. Of(kind, a, n + 1)' = Of(kind, a, n)
      BY <1>of, <2>2, Zenon
    <3>2. Of(kind, a, n) \subseteq 1..n
      BY DEF Of
    <3>3. Of(kind, a, n) # {} => lines'[Max(Of(kind, a, n))] = lines[Max(Of(kind, a, n))]
      <4> SUFFICES ASSUME Of(kind, a, n) # {}
                   PROVE  lines'[Max(Of(kind, a, n))] = lines[Max(Of(kind, a, n))]
        OBVIOUS
      <4>1. Max(Of(kind, a, n)) \in 1..n
        BY <3>2, MaxOf
      <4> QED
        BY <4>1, ReadOn
    <3> QED
      BY <2>2, <3>1, <3>3
  <2> QED
    BY <2>1, <2>2
<1>2. \A kind : /\ LastOf(kind, n + 2)' = last(Of(kind, 1, n + 1)', lines', None)
                /\ LastOf(kind, n + 1) = last(Of(kind, 1, n), lines, None)
  <2> SUFFICES ASSUME NEW kind
               PROVE  /\ LastOf(kind, n + 2)' = last(Of(kind, 1, n + 1)', lines', None)
                      /\ LastOf(kind, n + 1) = last(Of(kind, 1, n), lines, None)
    OBVIOUS
  <2>1. ASSUME NEW p, p = n + 2
        PROVE  LastOf(kind, p)' = last(Of(kind, 1, n + 1)', lines', None)
    <3>1. p - 1 = n + 1
      BY <2>1
    <3> QED
      BY <3>1, Zenon DEF LastOf
  <2>2. ASSUME NEW p, p = n + 1
        PROVE  LastOf(kind, p) = last(Of(kind, 1, n), lines, None)
    <3>1. p - 1 = n
      BY <2>2
    <3> QED
      BY <3>1, Zenon DEF LastOf
  <2> QED
    BY <2>1, <2>2, Zenon
<1> HIDE DEF last
<1> QED
  BY <1>0, <1>1, <1>2

(* What is an event stays one.                                             *)
LEMMA EventStays ==
  ASSUME lines \in Seq(Line), NEW l \in Line, lines' = Append(lines, l),
         NEW n \in Nat, n = Len(lines),
         NEW e, e.line \in 1..n
  PROVE  IsEvent(e)' <=> IsEvent(e)
<1>1. e.line \in 1..(n + 1)
  OBVIOUS
<1>2. /\ IsDataOf(e.data, e.line)' <=> IsDataOf(e.data, e.line)
      /\ LastOf("id", e.line)' = LastOf("id", e.line)
      /\ LastOf("retry", e.line)' = LastOf("retry", e.line)
  BY <1>1, ValuesStay
<1> QED
  BY <1>2, Zenon DEF IsEvent

(* An event ends at a line that has been read.                             *)
LEMMA EventLines ==
  ASSUME SseInv
  PROVE  /\ \A i \in 1..Len(events) : events[i].line \in 1..Len(lines)
         /\ Len(events) \in Nat /\ Len(lines) \in Nat
<1>1. Len(events) \in Nat /\ Len(lines) \in Nat
  BY DEF SseInv, BuilderInv, TypeOK
<1>2. \A i \in 1..Len(events) : events[i].line \in 1..Len(lines)
  BY DEF SseInv, EventsInv, Ends
<1> QED
  BY <1>1, <1>2

(* A line ends a block with data if it is blank and the builder holds      *)
(* data.                                                                   *)
LEMMA NextEnds ==
  ASSUME SseInv, NEW l \in Line, lines' = Append(lines, l),
         NEW n \in Nat, n = Len(lines)
  PROVE  Ends' = IF l.kind = "blank" /\ data_lines # <<>> THEN Ends \cup {n + 1} ELSE Ends
<1>1. lines \in Seq(Line) /\ data_lines \in Seq(Value) /\ IsDataOf(data_lines, n + 1)
  BY DEF SseInv, BuilderInv, TypeOK
<1>2. DataLines(n + 1) = {} <=> data_lines = <<>>
  <2>1. Len(data_lines) = Cardinality(DataLines(n + 1)) /\ IsFiniteSet(DataLines(n + 1))
    BY <1>1, DataLinesBefore DEF IsDataOf
  <2>2. Cardinality(DataLines(n + 1)) = 0 <=> DataLines(n + 1) = {}
    BY <2>1, FS_EmptySet
  <2>3. Len(data_lines) = 0 <=> data_lines = <<>>
    BY <1>1
  <2> QED
    BY <2>1, <2>2, <2>3
<1>3. /\ Len(lines') = n + 1 /\ lines'[n + 1] = l
      /\ \A q \in 0..n : Blank(q)' <=> Blank(q)
      /\ \A p \in 1..(n + 1) : DataLines(p)' = DataLines(p)
  BY <1>1, ReadOn
<1>4. Blank(n + 1)' <=> l.kind = "blank"
  BY <1>3 DEF Blank
<1>5. \A p : p \in Ends' <=> p \in 1..(n + 1) /\ Blank(p)' /\ DataLines(p)' # {}
  BY <1>3 DEF Ends
<1>6. \A p : p \in Ends <=> p \in 1..n /\ Blank(p) /\ DataLines(p) # {}
  BY DEF Ends
<1>7. \A p \in 1..n : p \in Ends' <=> p \in Ends
  BY <1>3, <1>5, <1>6
<1>8. n + 1 \in Ends' <=> l.kind = "blank" /\ data_lines # <<>>
  BY <1>2, <1>3, <1>4, <1>5
<1>9. Ends \subseteq 1..n /\ Ends' \subseteq 1..(n + 1)
  BY <1>5, <1>6
<1>10. \A p : p \in 1..(n + 1) <=> p \in 1..n \/ p = n + 1
  OBVIOUS
<1>11. n + 1 \notin Ends
  BY <1>9
<1> HIDE DEF Ends
<1>12. CASE l.kind = "blank" /\ data_lines # <<>>
  <2>1. \A p : p \in Ends' <=> p \in Ends \cup {n + 1}
    BY <1>7, <1>8, <1>9, <1>10, <1>12
  <2> QED
    BY <1>12, <2>1
<1>13. CASE ~(l.kind = "blank" /\ data_lines # <<>>)
  <2>1. \A p : p \in Ends' <=> p \in Ends
    BY <1>7, <1>8, <1>9, <1>10, <1>11, <1>13
  <2> QED
    BY <1>13, <2>1
<1> QED
  BY <1>12, <1>13

(* No event is added by a line that does not end such a block.             *)
LEMMA NoEvent ==
  ASSUME SseInv, NEW l \in Line, lines' = Append(lines, l), events' = events,
         l.kind = "blank" => data_lines = <<>>
  PROVE  EventsInv'
<1>0. PICK n \in Nat : n = Len(lines)
  BY EventLines
<1>1. Ends' = Ends
  BY <1>0, NextEnds
<1>2. ASSUME NEW i \in 1..Len(events) PROVE IsEvent(events[i])'
  <2>1. PICK e : e = events[i]
    OBVIOUS
  <2>2. IsEvent(e)
    BY <2>1 DEF SseInv, EventsInv
  <2>3. e.line \in 1..n
    BY <1>0, <2>1, EventLines
  <2>4. IsEvent(e)'
    BY <1>0, <2>2, <2>3, EventStays DEF SseInv, BuilderInv, TypeOK
  <2>5. e = events'[i]
    BY <2>1
  <2> QED
    BY <2>4, <2>5, Zenon
<1> QED
  BY <1>1, <1>2 DEF SseInv, EventsInv

(* A blank line after data adds the event that the builder holds.          *)
LEMMA NewEvent ==
  ASSUME SseInv, NEW l \in Line, lines' = Append(lines, l), l.kind = "blank",
         data_lines # <<>>, events' = Append(events, Built)
  PROVE  EventsInv'
<1>0. PICK n, m \in Nat : n = Len(lines) /\ m = Len(events)
  BY EventLines
<1>1. /\ lines \in Seq(Line) /\ events \in Seq(Event) /\ BuilderInv /\ EventsInv
      /\ \A i \in 1..m : events[i].line \in 1..n
  BY <1>0, EventLines DEF SseInv, BuilderInv, TypeOK
<1>2. PICK e : e = Built
  OBVIOUS
<1>3. /\ e.data = data_lines /\ e.id = last_id /\ e.retry = retry
      /\ e.line = n + 1
  BY <1>0, <1>2 DEF Built
<1>4. e \in Event
  BY <1>0, <1>2 DEF Built, Event, SseInv, BuilderInv, TypeOK
<1>5. /\ Len(events') = m + 1 /\ events'[m + 1] = e
      /\ \A i \in 1..m : events'[i] = events[i]
  BY <1>0, <1>1, <1>2, <1>4
<1>6. Ends' = Ends \cup {n + 1}
  BY <1>0, NextEnds
<1>7. Len(events') = Cardinality(Ends')
  <2>1. Ends \subseteq 1..n /\ n + 1 \notin Ends
    BY <1>0 DEF Ends
  <2>2. IsFiniteSet(1..n)
    BY FS_Interval
  <2>3. IsFiniteSet(Ends)
    BY <2>1, <2>2, FS_Subset
  <2>4. Cardinality(Ends \cup {n + 1}) = Cardinality(Ends) + 1
    BY <2>1, <2>3, FS_AddElement
  <2>5. m = Cardinality(Ends)
    BY <1>0, <1>1 DEF EventsInv
  <2> QED
    BY <1>5, <1>6, <2>4, <2>5
<1>9. ASSUME NEW i \in 1..m
      PROVE  (events[i].line \in Ends /\ IsEvent(events[i]))'
  <2>1. PICK d : d = events[i]
    OBVIOUS
  <2>2. IsEvent(d) /\ d.line \in Ends
    BY <1>0, <1>1, <2>1 DEF EventsInv
  <2>3. d.line \in 1..n
    BY <1>1, <2>1
  <2>4. IsEvent(d)'
    BY <1>0, <1>1, <2>2, <2>3, EventStays
  <2>5. d = events'[i]
    BY <1>5, <2>1
  <2> QED
    BY <1>6, <2>2, <2>4, <2>5, Zenon
<1>10. (events[m + 1].line \in Ends /\ IsEvent(events[m + 1]))'
  <2>2. n + 1 \in 1..(n + 1)
    OBVIOUS
  <2>3. IsDataOf(data_lines, n + 1)
        /\ last_id = LastOf("id", n + 1) /\ retry = LastOf("retry", n + 1)
    BY <1>0, <1>1 DEF BuilderInv
  <2>4. IsDataOf(e.data, n + 1)'
    <3>1. IsDataOf(e.data, n + 1)
      BY <1>3, <2>3
    <3> QED
      BY <1>0, <1>1, <2>2, <3>1, ValuesStay
  <2>5. e.id = LastOf("id", n + 1)' /\ e.retry = LastOf("retry", n + 1)'
    BY <1>0, <1>1, <1>3, <2>2, <2>3, ValuesStay
  <2>7. IsEvent(e)'
    BY <1>3, <2>4, <2>5, Zenon DEF IsEvent
  <2>8. e = events'[m + 1] /\ e.line \in Ends'
    BY <1>3, <1>5, <1>6
  <2> QED
    BY <2>7, <2>8, Zenon
<1>11. \A i \in 1..(m + 1) : i \in 1..m \/ i = m + 1
  OBVIOUS
<1>12. ASSUME NEW i \in 1..(m + 1), i > 1 PROVE events'[i - 1].line < events'[i].line
  <2>1. CASE i \in 1..m
    <3>1. i - 1 \in 1..m
      BY <1>12
    <3> QED
      BY <1>0, <1>1, <1>5, <1>12, <2>1, <3>1 DEF EventsInv
  <2>2. CASE i = m + 1
    <3>1. i - 1 \in 1..m /\ i - 1 = m
      BY <1>12, <2>2
    <3>2. events'[m] = events[m] /\ events[m].line \in 1..n
      BY <1>1, <1>5, <3>1
    <3> QED
      BY <1>3, <1>5, <2>2, <3>1, <3>2
  <2> QED
    BY <1>11, <2>1, <2>2
<1>13. \A i \in 1..(m + 1) : (events[i].line \in Ends /\ IsEvent(events[i]))'
  BY <1>9, <1>10, <1>11, Zenon
<1> QED
  BY <1>5, <1>7, <1>12, <1>13 DEF EventsInv

(* What the builder holds, after a line more.                              *)
LEMMA NextBuilder ==
  ASSUME SseInv, NEW l \in Line, feed(l)
  PROVE  BuilderInv'
<1>0. PICK n \in Nat : n = Len(lines)
  BY EventLines
<1>1. /\ lines \in Seq(Line) /\ data_lines \in Seq(Value) /\ events \in Seq(Event)
      /\ event \in Value \cup {Message}
      /\ last_id \in Value \cup {None} /\ retry \in Value \cup {None}
      /\ lines' = Append(lines, l)
  BY <1>0, EventLines DEF SseInv, BuilderInv, TypeOK, feed
<1>2. /\ IsDataOf(data_lines, n + 1)
      /\ last_id = LastOf("id", n + 1) /\ retry = LastOf("retry", n + 1)
  BY <1>0 DEF SseInv, BuilderInv
<1>3. PICK data : data = data_lines
  OBVIOUS
<1>4. Len(lines') = n + 1 /\ lines' \in Seq(Line)
  BY <1>0, <1>1
<1>5. \A kind : LastOf(kind, n + 2)' = IF l.kind = kind THEN l.value ELSE LastOf(kind, n + 1)
  BY <1>0, <1>1, LastNext
<1>7. (n + 1) + 1 = n + 2 /\ l.value \in Value /\ (l.kind = "retry" => l.value \in Values)
  BY DEF Line, Value
<1>8. SUFFICES /\ events' \in Seq(Event) /\ data_lines' \in Seq(Value)
               /\ event' \in Value \cup {Message}
               /\ last_id' \in Value \cup {None} /\ retry' \in Value \cup {None}
               /\ IsDataOf(data_lines, n + 2)'
               /\ last_id' = LastOf("id", n + 2)' /\ retry' = LastOf("retry", n + 2)'
  BY <1>4, <1>7, Zenon DEF BuilderInv, TypeOK
<1>10. CASE l.kind = "blank" /\ Dispatch
  <2>1. /\ data_lines' = <<>> /\ event' = Message /\ UNCHANGED <<last_id, retry>>
        /\ events' = Append(events, Built)
    BY <1>10 DEF Dispatch
  <2>2. PICK e : e = Built
    OBVIOUS
  <2>3. e \in Event /\ e.line = n + 1
    BY <1>0, <1>1, <2>2 DEF Built, Event
  <2>4. events' \in Seq(Event) /\ events' # <<>> /\ events'[Len(events')] = e
    <3>1. events \in Seq(Event) /\ events' = Append(events, e)
      BY <1>1, <2>1, <2>2, Zenon
    <3>2. ASSUME NEW es \in Seq(Event)
          PROVE  /\ Append(es, e) \in Seq(Event) /\ Append(es, e) # <<>>
                 /\ Append(es, e)[Len(Append(es, e))] = e
      BY <2>3
    <3> QED
      BY <3>1, <3>2, Zenon
  <2>6. DataLines(n + 2)' = {}
    BY <1>0, <1>1, <1>10, NextBlock
  <2>7. IsDataOf(data_lines, n + 2)'
    BY <2>1, <2>6, FS_EmptySet DEF IsDataOf
  <2>9. last_id' = LastOf("id", n + 2)' /\ retry' = LastOf("retry", n + 2)'
    BY <1>2, <1>5, <1>10, <2>1
  <2> QED
    BY <1>1, <2>1, <2>4, <2>7, <2>9
<1>11. CASE l.kind = "blank" /\ NothingToDispatch
  <2>1. data_lines = <<>> /\ UNCHANGED <<data_lines, event, last_id, retry, events>>
    BY <1>11 DEF NothingToDispatch
  <2>2. IsDataOf(data_lines, n + 2)'
    <3>1. DataLines(n + 2)' = {}
      BY <1>0, <1>1, <1>11, NextBlock
    <3> QED
      BY <2>1, <3>1, FS_EmptySet DEF IsDataOf
  <2>4. last_id' = LastOf("id", n + 2)' /\ retry' = LastOf("retry", n + 2)'
    BY <1>2, <1>5, <1>11, <2>1
  <2> QED
    BY <1>1, <2>1, <2>2, <2>4
<1>12. CASE l.kind # "blank" /\ Field(l)
  <2>1. /\ data_lines' = IF l.kind = "data" THEN Append(data_lines, l.value) ELSE data_lines
        /\ event' = IF l.kind = "event" THEN l.value ELSE event
        /\ last_id' = IF l.kind = "id" THEN l.value ELSE last_id
        /\ retry' = IF l.kind = "retry" THEN l.value ELSE retry
        /\ UNCHANGED events
    BY <1>12 DEF Field
  <2>2. IsDataOf(data_lines, n + 2)'
    <3>1. CASE l.kind = "data"
      <4>1. IsDataOf(Append(data, l.value), n + 2)'
        BY <1>0, <1>1, <1>2, <1>3, <3>1, DataAppended
      <4>2. data_lines' = Append(data, l.value)
        BY <1>3, <2>1, <3>1
      <4> QED
        BY <4>1, <4>2, Zenon DEF IsDataOf
    <3>2. CASE l.kind # "data"
      <4>1. DataLines(n + 2)' = DataLines(n + 1)
        BY <1>0, <1>1, <1>12, <3>2, NextBlock
      <4>2. \A q \in DataLines(n + 1) : lines'[q] = lines[q]
        BY <1>0, <1>1, DataLinesBefore, ReadOn
      <4>3. data_lines' = data_lines
        BY <2>1, <3>2
      <4> QED
        BY <1>2, <4>1, <4>2, <4>3 DEF IsDataOf
    <3> QED
      BY <3>1, <3>2
  <2>4. last_id' = LastOf("id", n + 2)' /\ retry' = LastOf("retry", n + 2)'
    BY <1>2, <1>5, <2>1
  <2>5. data_lines' \in Seq(Value)
    BY <1>1, <1>7, <2>1
  <2>6. /\ event' \in Value \cup {Message} /\ last_id' \in Value \cup {None}
        /\ retry' \in Value \cup {None}
    BY <1>1, <1>7, <2>1
  <2> QED
    BY <1>1, <2>1, <2>2, <2>4, <2>5, <2>6
<1> QED
  BY <1>10, <1>11, <1>12 DEF feed

----------------------------------------------------------------------------
(* The state is at all times what a reading of the lines so far gives.     *)
THEOREM SseInvariant == Spec => []SseInv
<1>1. ASSUME SseInv, NEW l \in Line, feed(l) PROVE SseInv'
  <2>1. BuilderInv'
    BY <1>1, NextBuilder
  <2>2. lines' = Append(lines, l)
    BY <1>1 DEF feed
  <2>3. CASE l.kind = "blank" /\ Dispatch
    <3>1. EventsInv'
      BY <1>1, <2>2, <2>3, NewEvent DEF Dispatch
    <3> QED
      BY <2>1, <3>1 DEF SseInv
  <2>4. CASE l.kind = "blank" /\ NothingToDispatch
    <3>1. EventsInv'
      BY <1>1, <2>2, <2>4, NoEvent DEF NothingToDispatch
    <3> QED
      BY <2>1, <3>1 DEF SseInv
  <2>5. CASE l.kind # "blank" /\ Field(l)
    <3>1. EventsInv'
      BY <1>1, <2>2, <2>5, NoEvent DEF Field
    <3> QED
      BY <2>1, <3>1 DEF SseInv
  <2> QED
    BY <1>1, <2>3, <2>4, <2>5 DEF feed
<1>2. SseInv /\ UNCHANGED vars => SseInv'
  <2> SUFFICES ASSUME SseInv, UNCHANGED vars PROVE SseInv'
    OBVIOUS
  <2>1. /\ data_lines' = data_lines /\ event' = event /\ last_id' = last_id
        /\ retry' = retry /\ lines' = lines /\ events' = events
    BY DEF vars
  <2>2. /\ \A p : Blank(p)' <=> Blank(p)
        /\ \A kind, a, b : Of(kind, a, b)' = Of(kind, a, b)
    BY <2>1 DEF Blank, Of
  <2>3. \A p : BlockStart(p)' = BlockStart(p)
    BY <2>2 DEF BlockStart
  <2>4. \A p : DataLines(p)' = DataLines(p)
    <3>1. ASSUME NEW p, NEW a, a = BlockStart(p) PROVE DataLines(p)' = DataLines(p)
      <4>1. a = BlockStart(p)'
        BY <2>3, <3>1
      <4> QED
        BY <2>2, <3>1, <4>1, Zenon DEF DataLines
    <3> QED
      BY <3>1
  <2>5. /\ \A data, p : IsDataOf(data, p)' <=> IsDataOf(data, p)
        /\ \A kind, p : LastOf(kind, p)' = LastOf(kind, p)
    BY <2>1, <2>2, <2>4 DEF IsDataOf, LastOf
  <2>6. BuilderInv'
    BY <2>1, <2>5 DEF SseInv, BuilderInv, TypeOK
  <2>7. EventsInv'
    BY <2>1, <2>2, <2>4, <2>5 DEF SseInv, EventsInv, Ends, IsEvent
  <2> QED
    BY <2>6, <2>7 DEF SseInv
<1>3. SseInv /\ [Next]_vars => SseInv'
  BY <1>1, <1>2 DEF Next
<1> QED
  BY <1>3, SseInit, PTL DEF Spec

(* Each block with data, and no other, becomes one event, in order and     *)
(* with its own lines of data: however feed resets the builder, nothing is *)
(* left over from an earlier block and none is lost.                       *)
THEOREM BlocksAreDispatched == Spec => []EveryBlockDispatched
<1>1. SseInv => EveryBlockDispatched
  BY DEF SseInv, EventsInv, EveryBlockDispatched, Ends, IsEvent
<1> QED
  BY <1>1, SseInvariant, PTL

(* An event has the last id and retry of the stream up to its line.        *)
THEOREM EventFieldsAreLast == Spec => []FieldsAreLast
<1>1. SseInv => FieldsAreLast
  BY DEF SseInv, EventsInv, FieldsAreLast, IsEvent
<1> QED
  BY <1>1, SseInvariant, PTL
=============================================================================
