-------------------------------- MODULE Sse --------------------------------
(***************************************************************************)
(* SseBuilder (src/mxhttp/sse.py): what feed makes of the lines of an      *)
(* event stream.  A line is its kind and its value: an empty line, a field *)
(* that feed knows, or one it skips (a comment, an unknown field, a retry  *)
(* that is not a number).                                                  *)
(***************************************************************************)
EXTENDS Naturals, Sequences, FiniteSets, FiniteSetsExt

CONSTANTS
  Values,     \* what a field may hold; an id or a data line may be empty too
  MaxLines    \* BOUND: lines of one stream

Empty == "empty"
Message == "message"
None == "none"

Line == [kind : {"data", "event", "id"}, value : Values \cup {Empty}]
        \cup [kind : {"retry"}, value : Values]
        \cup [kind : {"blank", "skipped"}, value : {Empty}]

VARIABLES
  data_lines, event, last_id, retry,   \* the builder
  lines,      \* the lines fed so far
  events      \* the events feed has returned, with the line each ended at

vars == <<data_lines, event, last_id, retry, lines, events>>

Init ==
  /\ data_lines = <<>> /\ event = Message /\ last_id = None /\ retry = None
  /\ lines = <<>> /\ events = <<>>

Built == [data |-> data_lines, event |-> event, id |-> last_id, retry |-> retry,
          line |-> Len(lines) + 1]

(* Mutant of Dispatch: data stays for the next block.                      *)
DispatchKeepingData ==
  /\ data_lines # <<>>
  /\ events' = Append(events, Built)
  /\ event' = Message
  /\ UNCHANGED <<data_lines, last_id, retry>>

(* Mutant of Dispatch: the id is forgotten with the rest.                  *)
DispatchForgettingId ==
  /\ data_lines # <<>>
  /\ events' = Append(events, Built)
  /\ data_lines' = <<>> /\ event' = Message /\ last_id' = None
  /\ UNCHANGED retry

(* A blank line ends a block that has data, and resets data and event.     *)
Dispatch ==
  /\ data_lines # <<>>
  /\ events' = Append(events, Built)
  /\ data_lines' = <<>> /\ event' = Message
  /\ UNCHANGED <<last_id, retry>>

(* A blank line after a block without data changes nothing.                *)
NothingToDispatch ==
  /\ data_lines = <<>>
  /\ UNCHANGED <<data_lines, event, last_id, retry, events>>

(* A line that is not blank sets one field.                                *)
Field(l) ==
  /\ data_lines' = IF l.kind = "data" THEN Append(data_lines, l.value) ELSE data_lines
  /\ event' = IF l.kind = "event" THEN l.value ELSE event
  /\ last_id' = IF l.kind = "id" THEN l.value ELSE last_id
  /\ retry' = IF l.kind = "retry" THEN l.value ELSE retry
  /\ UNCHANGED events

feed(l) ==
  /\ Len(lines) < MaxLines
  /\ lines' = Append(lines, l)
  /\ \/ l.kind = "blank" /\ (Dispatch \/ NothingToDispatch)
     \/ l.kind # "blank" /\ Field(l)

Next == \E l \in Line : feed(l)

Spec == Init /\ [][Next]_vars

----------------------------------------------------------------------------
(* The reference: an event stream read as a whole.  A block is what lies   *)
(* between two blank lines.                                                *)
Blank(p) == p = 0 \/ lines[p].kind = "blank"

BlockStart(p) == Max({q \in 0..(p - 1) : Blank(q)})

Of(kind, from, to) == {p \in from..to : lines[p].kind = kind}

DataLines(p) == Of("data", BlockStart(p) + 1, p - 1)

(* The values of the data lines of the block before p, in their order.     *)
IsDataOf(data, p) ==
  /\ Len(data) = Cardinality(DataLines(p))
  /\ \A q \in DataLines(p) :
       data[Cardinality({r \in DataLines(p) : r <= q})] = lines[q].value

(* The last value of a field before line p, from the first line on.        *)
LastOf(kind, p) ==
  IF Of(kind, 1, p - 1) = {} THEN None ELSE lines[Max(Of(kind, 1, p - 1))].value

(* Each block with data, and no other, has become one event, in order and  *)
(* with its own lines of data; nothing is left over from an earlier block. *)
EveryBlockDispatched ==
  LET ends == {p \in 1..Len(lines) : Blank(p) /\ DataLines(p) # {}}
  IN  /\ Len(events) = Cardinality(ends)
      /\ \A i \in 1..Len(events) :
           /\ events[i].line \in ends
           /\ IsDataOf(events[i].data, events[i].line)
           /\ i > 1 => events[i - 1].line < events[i].line

(* The id and the retry of an event are the last ones seen, in whatever    *)
(* block: the id is what a client reconnects with.                         *)
FieldsAreLast ==
  \A i \in 1..Len(events) :
    /\ events[i].id = LastOf("id", events[i].line)
    /\ events[i].retry = LastOf("retry", events[i].line)

(* sse.py:25 "Builds SSE field lines into `Event` objects, one per         *)
(* blank-line-terminated block": so the type of an event is one its own    *)
(* block has set.                                                          *)
TypeIsOfItsBlock ==
  \A i \in 1..Len(events) :
    LET p == events[i].line
        sets == Of("event", BlockStart(p) + 1, p)
    IN  events[i].event = IF sets = {} THEN Message ELSE lines[Max(sets)].value
=============================================================================
