-------------------------------- MODULE Page --------------------------------
(***************************************************************************)
(* database/page.go: SelectRowsPageable, called again and again on a table *)
(* that other transactions change.  A call runs two statements, the rows   *)
(* of the page and the count, and in a READ COMMITTED transaction each     *)
(* sees what is committed when it starts.                                  *)
(*                                                                         *)
(* A row is its key.  The caller's query selects the whole table, with     *)
(* Args placeholders of its own.  Of the sort commands only the first      *)
(* decides the order, since the key is unique.                             *)
(***************************************************************************)
EXTENDS Integers, Sequences, SequencesExt, FiniteSets

CONSTANTS
  Keys,         \* numbers, the rows there may be
  Pages, Sizes, \* integers, as requests have them
  Sorts,        \* sequences of "key", "key,desc" and ""
  Args,         \* numbers of arguments of the caller's query
  Width         \* bits of an int

ASSUME PageAssumption ==
  /\ Keys \subseteq Nat /\ IsFiniteSet(Keys) /\ Args \subseteq Nat
  /\ Pages \subseteq Int /\ Sizes \subseteq Int
  /\ Sorts \subseteq Seq({"key", "key,desc", ""})
  /\ Width \in Nat \ {0}

VARIABLES
  table,        \* the rows committed
  phase,        \* "idle", "query", "count"
  request,      \* [page, size, sort, args]
  page,         \* the Page being built, and at last returned
  outcome,      \* of the last call: "none", "ok", "error", "panic"
  walk          \* the rows of pages 0, 1, .. read one after another

vars == <<table, phase, request, page, outcome, walk>>

Requests == [page : Pages, size : Sizes, sort : Sorts, args : Args]
NoRequest == [page |-> 0, size |-> 0, sort |-> <<>>, args |-> 0]
NoPage == [content |-> <<>>, number |-> 0, size |-> 0,
           totalElements |-> 0, totalPages |-> 0, last |-> FALSE]
NoWalk == [size |-> 0, next |-> 0, sort |-> <<>>, rows |-> <<>>]

-----------------------------------------------------------------------------
(* The statement                                                            *)

Wrap(n) == ((n + 2 ^ (Width - 1)) % 2 ^ Width) - 2 ^ (Width - 1)

\* Mutation: the offset counts pages, not rows.
OffsetInPages(r) == Wrap(r.page)

Offset(r) == Wrap(r.page * r.size)

\* An empty command is skipped, and only the one in the first place brings the
\* words ORDER BY: without them the next command is one more table to select
\* from, which there is not.
Order(sort) ==
  IF \A i \in DOMAIN sort : sort[i] = "" THEN "any"
  ELSE IF sort[1] = "" THEN "broken" ELSE sort[1]

\* $1 and $2 are the limit and the offset only if the caller has no arguments:
\* with some, there are more arguments than placeholders.
Placeholders(r) == IF r.args > 2 THEN r.args ELSE 2
Refused(r) ==
  \/ r.args + 2 # Placeholders(r)
  \/ Order(r.sort) = "broken"
  \/ r.size < 0 \/ Offset(r) < 0

Ascends(s) == \A i, j \in DOMAIN s : i < j => s[i] < s[j]
Descends(s) == \A i, j \in DOMAIN s : i < j => s[i] > s[j]

\* The orders the rows may come in.
Orders(rows, sort) ==
  CASE Order(sort) = "key" -> {s \in SetToSeqs(rows) : Ascends(s)}
    [] Order(sort) = "key,desc" -> {s \in SetToSeqs(rows) : Descends(s)}
    [] Order(sort) = "any" -> SetToSeqs(rows)
    [] OTHER -> {}

\* LIMIT and OFFSET.
Window(s, r) ==
  LET end == Offset(r) + r.size
  IN  SubSeq(s, Offset(r) + 1, IF end < Len(s) THEN end ELSE Len(s))

-----------------------------------------------------------------------------
Init ==
  /\ table \in SUBSET Keys
  /\ phase = "idle" /\ outcome = "none"
  /\ request = NoRequest
  /\ page = NoPage /\ walk = NoWalk

Call(r) ==
  /\ phase = "idle"
  /\ phase' = "query" /\ request' = r
  /\ page' = NoPage /\ outcome' = "none"
  /\ UNCHANGED <<table, walk>>

Ordered(r) == Order(r.sort) \in {"key", "key,desc"}

\* The rows read so far, when r is the page after them or the first.
WalkOn(r, rows) ==
  LET next == [size |-> r.size, next |-> r.page + 1, sort |-> r.sort, rows |-> rows]
      wraps == r.page * r.size # Wrap(r.page * r.size)
  IN  IF ~Ordered(r) \/ r.size = 0 \/ wraps THEN NoWalk
      ELSE IF r.page = 0 THEN next
      ELSE IF walk.size = r.size /\ walk.next = r.page /\ walk.sort = r.sort
           THEN [next EXCEPT !.rows = walk.rows \o rows]
      ELSE NoWalk

RunQuery ==
  /\ phase = "query" /\ ~Refused(request)
  /\ \E s \in Orders(table, request.sort) :
       LET rows == Window(s, request)
       IN  /\ page' = [page EXCEPT !.content = rows,
                                   !.number = request.page, !.size = request.size]
           /\ walk' = WalkOn(request, rows)
  /\ phase' = "count"
  /\ UNCHANGED <<table, request, outcome>>

\* The server refuses the statement, or cannot be asked.
Fails ==
  /\ phase \in {"query", "count"}
  /\ phase' = "idle" /\ outcome' = "error"
  /\ UNCHANGED <<table, request, page, walk>>

\* What is counted is the statement with its LIMIT and OFFSET.
Total(r) == CHOOSE n \in 0 .. Cardinality(table) :
              \A s \in Orders(table, r.sort) : n = Len(Window(s, r))

RunCount ==
  /\ phase = "count" /\ request.size > 0
  /\ LET total == Total(request)
         pages == Wrap(total + request.size - 1) \div request.size
     IN  page' = [page EXCEPT !.totalElements = total, !.totalPages = pages,
                              !.last = page.number >= pages - 1]
  /\ phase' = "idle" /\ outcome' = "ok"
  /\ UNCHANGED <<table, request, walk>>

\* A division by a size of zero.
Divide ==
  /\ phase = "count" /\ request.size = 0
  /\ page' = [page EXCEPT !.totalElements = Total(request)]
  /\ phase' = "idle" /\ outcome' = "panic"
  /\ UNCHANGED <<table, request, walk>>

\* Another transaction commits.
Commit(rows) ==
  /\ rows # table
  /\ table' = rows /\ walk' = NoWalk
  /\ UNCHANGED <<phase, request, page, outcome>>

Next ==
  \/ \E r \in Requests : Call(r)
  \/ RunQuery \/ Fails \/ RunCount \/ Divide
  \/ \E rows \in SUBSET Keys : Commit(rows)

Spec == Init /\ [][Next]_vars

-----------------------------------------------------------------------------
\* Types, and a page is never longer than it says nor holds a row twice.
TypeOK ==
  /\ table \subseteq Keys
  /\ phase \in {"idle", "query", "count"}
  /\ request \in Requests \union {NoRequest}
  /\ outcome \in {"none", "ok", "error", "panic"}
  /\ page.content \in Seq(Keys)
  /\ IsInjective(page.content)
  /\ Len(page.content) <= (IF page.size < 0 THEN 0 ELSE page.size)
  /\ page.totalElements \in 0 .. Cardinality(Keys)

\* Pages 0, 1, .. of a table that does not change, sorted by its key, are its
\* rows one after another: none is skipped and none comes twice.
WalkIsComplete ==
  walk.size > 0 =>
    \E s \in Orders(table, walk.sort) :
      walk.rows = SubSeq(s, 1, IF walk.next * walk.size < Len(s)
                               THEN walk.next * walk.size ELSE Len(s))
=============================================================================
