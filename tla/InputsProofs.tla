---------------------------- MODULE InputsProofs ----------------------------
(***************************************************************************)
(* Proofs about Page, for any table of finitely many rows, any requests    *)
(* and any width of an int; about Binding and BindingDocs, for any types   *)
(* of request structs, however deep, and any requests; and about Config,   *)
(* for a scalar of any length with any placeholders in it.                 *)
(***************************************************************************)
EXTENDS Page, BindingDocs, Config, FiniteSetTheorems, SequenceTheorems, WellFoundedInduction, TLAPS

-----------------------------------------------------------------------------
(* Sequences of the rows                                                    *)

(* A sequence with all rows of a table and none twice.                      *)
LEMMA EnumerationProperties ==
  ASSUME NEW T, IsFiniteSet(T), NEW s \in SetToSeqs(T)
  PROVE  /\ Cardinality(T) \in Nat /\ s \in Seq(T)
         /\ Len(s) = Cardinality(T) /\ DOMAIN s = 1 .. Cardinality(T)
         /\ \A i, j \in 1 .. Cardinality(T) : i # j => s[i] # s[j]
         /\ \A x \in T : \E i \in 1 .. Cardinality(T) : s[i] = x
<1> DEFINE n == Cardinality(T)
<1>1. n \in Nat
  BY FS_CardinalityType
<1>2. s \in [1 .. n -> T] /\ \A i, j \in 1 .. n : i # j => s[i] # s[j]
  BY DEF SetToSeqs
<1> HIDE DEF n
<1>3. s \in Injection(1 .. n, T)
  BY <1>2 DEF Injection, IsInjective
<1>4. Cardinality(1 .. n) = n
  BY <1>1, FS_Interval, SMT
<1>5. s \in Surjection(1 .. n, T)
  BY <1>3, <1>4, FS_Injection DEF n
<1>6. \A x \in T : \E i \in 1 .. n : s[i] = x
  BY <1>5 DEF Surjection
<1>7. s \in Seq(T) /\ Len(s) = n /\ DOMAIN s = 1 .. n
  BY <1>1, <1>2, IsASeq
<1> QED
  BY <1>1, <1>2, <1>6, <1>7 DEF n

(* A set of numbers has a least element.                                    *)
LEMMA LeastNumber ==
  ASSUME NEW D \in SUBSET Nat, D # {}
  PROVE  \E x \in D : \A y \in D : x <= y
<1>1. PICK x \in D : \A y \in D : ~ (<<y, x>> \in OpToRel(<, Nat))
  BY WFMin, NatLessThanWellFounded
<1>2. ASSUME NEW y \in D PROVE x <= y
  <2>1. ~(y < x)
    BY <1>1 DEF OpToRel
  <2> QED
    BY <2>1
<1> QED
  BY <1>2

(* There is one way to put the rows in order, up or down.                   *)
LEMMA OneOrder ==
  ASSUME NEW T \in SUBSET Int, IsFiniteSet(T),
         NEW s \in SetToSeqs(T), NEW t \in SetToSeqs(T),
         (Ascends(s) /\ Ascends(t)) \/ (Descends(s) /\ Descends(t))
  PROVE  s = t
<1> DEFINE n == Cardinality(T)
           D == {i \in 1 .. n : s[i] # t[i]}
<1>1. /\ n \in Nat /\ s \in [1 .. n -> T] /\ t \in [1 .. n -> T]
      /\ DOMAIN s = 1 .. n /\ DOMAIN t = 1 .. n
      /\ \A i, j \in 1 .. n : i # j => s[i] # s[j] /\ t[i] # t[j]
      /\ \A x \in T : (\E i \in 1 .. n : s[i] = x) /\ (\E i \in 1 .. n : t[i] = x)
  <2>1. s \in [1 .. n -> T] /\ t \in [1 .. n -> T]
    BY DEF SetToSeqs
  <2>2. /\ n \in Nat /\ DOMAIN s = 1 .. n
        /\ \A i, j \in 1 .. n : i # j => s[i] # s[j]
        /\ \A x \in T : \E i \in 1 .. n : s[i] = x
    BY EnumerationProperties DEF n
  <2>3. /\ DOMAIN t = 1 .. n
        /\ \A i, j \in 1 .. n : i # j => t[i] # t[j]
        /\ \A x \in T : \E i \in 1 .. n : t[i] = x
    BY EnumerationProperties DEF n
  <2> QED
    BY <2>1, <2>2, <2>3
<1> HIDE DEF n
<1>2. SUFFICES ASSUME D # {} PROVE FALSE
  BY <1>1, SMT
<1>3. D \in SUBSET Nat
  BY <1>1
<1>4. PICK i \in D : \A k \in D : i <= k
  BY <1>2, <1>3, LeastNumber
<1>5. /\ i \in 1 .. n /\ s[i] # t[i] /\ s[i] \in Int /\ t[i] \in Int
      /\ \A k \in 1 .. n : k < i => s[k] = t[k]
  <2>1. i \in 1 .. n /\ s[i] # t[i] /\ s[i] \in T /\ t[i] \in T
    BY <1>1
  <2>2. ASSUME NEW k \in 1 .. n, k < i, s[k] # t[k] PROVE FALSE
    <3>1. k \in D
      BY <2>2
    <3> QED
      BY <1>1, <1>4, <2>1, <2>2, <3>1
  <2> QED
    BY <2>1, <2>2
<1>6. PICK j \in 1 .. n : t[j] = s[i]
  BY <1>1, <1>5
<1>7. PICK k \in 1 .. n : s[k] = t[i]
  BY <1>1, <1>5
<1>8. j > i /\ k > i
  BY <1>1, <1>5, <1>6, <1>7
<1>9. CASE Ascends(s) /\ Ascends(t)
  BY <1>1, <1>5, <1>6, <1>7, <1>8, <1>9 DEF Ascends
<1>10. CASE Descends(s) /\ Descends(t)
  BY <1>1, <1>5, <1>6, <1>7, <1>8, <1>10 DEF Descends
<1> QED
  BY <1>9, <1>10

-----------------------------------------------------------------------------
(* Statements                                                               *)

(* Two to the n counts the subsets of n things, so there is one at least.    *)
LEMMA PowerOfTwo ==
  ASSUME NEW n \in Nat
  PROVE  2 ^ n \in Nat \ {0}
<1>1. IsFiniteSet(1 .. n) /\ Cardinality(1 .. n) = n
  BY FS_Interval
<1>2. IsFiniteSet(SUBSET (1 .. n)) /\ Cardinality(SUBSET (1 .. n)) = 2 ^ n
  BY <1>1, FS_SUBSET
<1>3. {} \in SUBSET (1 .. n)
  OBVIOUS
<1> QED
  BY <1>2, <1>3, FS_EmptySet, FS_CardinalityType

(* An int is an integer, whatever was put into it.                          *)
LEMMA WrapType == \A n \in Int : Wrap(n) \in Int
<1> SUFFICES ASSUME NEW n \in Int PROVE Wrap(n) \in Int
  OBVIOUS
<1>1. 2 ^ Width \in Nat \ {0} /\ 2 ^ (Width - 1) \in Nat \ {0}
  <2>1. Width \in Nat \ {0}
    BY PageAssumption, Zenon DEF PageAssumption
  <2>2. Width \in Nat /\ Width - 1 \in Nat
    BY <2>1
  <2> QED
    BY <2>2, PowerOfTwo, Zenon
<1> DEFINE b == 2 ^ Width
           c == 2 ^ (Width - 1)
<1> HIDE DEF b, c
<1>2. ((n + c) % b) - c \in Int
  BY <1>1 DEF b, c
<1> QED
  BY <1>2 DEF b, c, Wrap

LEMMA RequestTypes ==
  ASSUME NEW r \in Requests
  PROVE  /\ r.page \in Int /\ r.size \in Int /\ Offset(r) \in Int
         /\ r.sort \in Sorts
<1>1. r.page \in Int /\ r.size \in Int /\ r.sort \in Sorts
  BY PageAssumption DEF PageAssumption, Requests
<1>2. r.page * r.size \in Int
  BY <1>1
<1> QED
  BY <1>1, <1>2, WrapType DEF Offset

(* The rows come in one of the orders the statement allows, each once.      *)
LEMMA OrdersAreEnumerations ==
  ASSUME NEW T, NEW sort
  PROVE  Orders(T, sort) \subseteq SetToSeqs(T)
BY DEF Orders

(* A page of rows has no row twice, and no more than were asked for.        *)
LEMMA WindowProperties ==
  ASSUME NEW T \in SUBSET Keys, NEW s \in SetToSeqs(T), NEW r \in Requests, ~Refused(r)
  PROVE  /\ Window(s, r) \in Seq(Keys)
         /\ IsInjective(Window(s, r))
         /\ Len(Window(s, r)) <= r.size
         /\ Len(Window(s, r)) =
              IF Offset(r) >= Cardinality(T) THEN 0
              ELSE IF Offset(r) + r.size < Cardinality(T) THEN r.size
              ELSE Cardinality(T) - Offset(r)
         /\ Len(Window(s, r)) \in 0 .. Cardinality(T)
<1> DEFINE n == Cardinality(T)
           o == Offset(r)
           e == IF o + r.size < n THEN o + r.size ELSE n
<1>1. IsFiniteSet(T)
  BY PageAssumption, FS_Subset DEF PageAssumption
<1>2. /\ n \in Nat /\ s \in Seq(T) /\ Len(s) = n /\ s \in [1 .. n -> Keys]
      /\ \A i, j \in 1 .. n : i # j => s[i] # s[j]
  BY <1>1, EnumerationProperties DEF n, SetToSeqs
<1>3. o \in Nat /\ r.size \in Nat
  BY RequestTypes DEF Refused
<1>4. Window(s, r) = SubSeq(s, o + 1, e)
  BY <1>2 DEF Window
<1> HIDE DEF n, o
<1>5. e \in Nat /\ e <= n /\ e <= o + r.size
  BY <1>2, <1>3
<1>6. \A i \in o + 1 .. e : s[i] \in Keys
  BY <1>2, <1>3, <1>5
<1>7. /\ SubSeq(s, o + 1, e) \in Seq(Keys)
      /\ Len(SubSeq(s, o + 1, e)) = IF o + 1 <= e THEN e - (o + 1) + 1 ELSE 0
      /\ \A i \in 1 .. e - (o + 1) + 1 : SubSeq(s, o + 1, e)[i] = s[o + 1 + i - 1]
  <2>1. o + 1 \in Int /\ e \in Int
    BY <1>3, <1>5
  <2> HIDE DEF e
  <2> QED
    BY <2>1, <1>6, SubSeqProperties
<1>8. IsInjective(SubSeq(s, o + 1, e))
  <2> SUFFICES ASSUME NEW i \in DOMAIN SubSeq(s, o + 1, e), NEW j \in DOMAIN SubSeq(s, o + 1, e),
                      i # j
               PROVE  SubSeq(s, o + 1, e)[i] # SubSeq(s, o + 1, e)[j]
    BY DEF IsInjective
  <2> HIDE DEF e
  <2>1. DOMAIN SubSeq(s, o + 1, e) = 1 .. Len(SubSeq(s, o + 1, e))
    BY <1>7
  <2>2. i \in 1 .. e - (o + 1) + 1 /\ j \in 1 .. e - (o + 1) + 1
    BY <1>3, <1>5, <1>7, <2>1
  <2>3. o + 1 + i - 1 \in 1 .. n /\ o + 1 + j - 1 \in 1 .. n
        /\ o + 1 + i - 1 # o + 1 + j - 1
    BY <1>2, <1>3, <1>5, <2>2
  <2> QED
    BY <1>2, <1>7, <2>2, <2>3
<1>9. /\ Len(SubSeq(s, o + 1, e)) <= r.size
      /\ Len(SubSeq(s, o + 1, e)) =
           IF o >= n THEN 0 ELSE IF o + r.size < n THEN r.size ELSE n - o
      /\ Len(SubSeq(s, o + 1, e)) \in 0 .. n
  BY <1>2, <1>3, <1>5, <1>7
<1> QED
  BY <1>4, <1>7, <1>8, <1>9 DEF n, o

(* The total is a number of rows: all orders have as many in the page.      *)
LEMMA TotalType ==
  ASSUME NEW r \in Requests, ~Refused(r), table \subseteq Keys
  PROVE  Total(r) \in 0 .. Cardinality(table)
<1>1. IsFiniteSet(table) /\ Cardinality(table) \in Nat
  BY PageAssumption, FS_Subset, FS_CardinalityType DEF PageAssumption
<1>2. \E n \in 0 .. Cardinality(table) :
        \A s \in Orders(table, r.sort) : n = Len(Window(s, r))
  <2>1. CASE Orders(table, r.sort) = {}
    BY <1>1, <2>1
  <2>2. CASE Orders(table, r.sort) # {}
    <3>1. PICK t \in Orders(table, r.sort) : TRUE
      BY <2>2
    <3>2. \A s \in Orders(table, r.sort) :
            Len(Window(s, r)) = Len(Window(t, r)) /\ Len(Window(s, r)) \in 0 .. Cardinality(table)
      BY <3>1, OrdersAreEnumerations, WindowProperties
    <3> QED
      BY <3>1, <3>2
  <2> QED
    BY <2>1, <2>2
<1> QED
  BY <1>2 DEF Total

-----------------------------------------------------------------------------
(* A page is a record, and a call has one request, which was not refused    *)
(* once its rows have been selected.                                        *)
PageTypes ==
  [content : Seq(Keys), number : Int, size : Int, totalElements : 0 .. Cardinality(Keys),
   totalPages : Int, last : BOOLEAN]

CallInv ==
  /\ page \in PageTypes
  /\ phase # "idle" => request \in Requests
  /\ phase = "count" => ~Refused(request)

LEMMA KeysAreFinite ==
  /\ Cardinality(Keys) \in Nat
  /\ table \subseteq Keys =>
       Cardinality(table) \in Nat /\ Cardinality(table) <= Cardinality(Keys)
<1>1. Cardinality(Keys) \in Nat
  BY PageAssumption, FS_CardinalityType DEF PageAssumption
<1>2. ASSUME table \subseteq Keys
      PROVE  Cardinality(table) \in Nat /\ Cardinality(table) <= Cardinality(Keys)
  BY <1>2, PageAssumption, FS_Subset, FS_CardinalityType DEF PageAssumption
<1> QED
  BY <1>1, <1>2

LEMMA NoPageTypes ==
  NoPage \in PageTypes /\ IsInjective(NoPage.content) /\ Len(NoPage.content) = 0
  /\ NoPage.size = 0
<1>1. 0 \in 0 .. Cardinality(Keys)
  BY KeysAreFinite
<1> QED
  BY <1>1 DEF NoPage, PageTypes, IsInjective

(* Every state of a sequence of calls has its type; in particular no page   *)
(* is longer than it says nor holds a row twice, whatever order the rows    *)
(* came in, and what is counted is one page.                                *)
THEOREM PageTypeCorrect == Spec => [](TypeOK /\ CallInv)
<1>1. Init => TypeOK /\ CallInv
  BY NoPageTypes DEF Init, TypeOK, CallInv, PageTypes
<1>2. TypeOK /\ CallInv /\ [Next]_vars => (TypeOK /\ CallInv)'
  <2> SUFFICES ASSUME TypeOK, CallInv, [Next]_vars PROVE TypeOK' /\ CallInv'
    OBVIOUS
  <2>1. ASSUME NEW r \in Requests, Call(r) PROVE TypeOK' /\ CallInv'
    BY <2>1, NoPageTypes DEF Call, TypeOK, CallInv, PageTypes
  <2>2. CASE RunQuery
    <3>1. request \in Requests /\ ~Refused(request)
      BY <2>2 DEF RunQuery, CallInv
    <3>2. PICK s \in Orders(table, request.sort) :
            page' = [page EXCEPT !.content = Window(s, request),
                                 !.number = request.page, !.size = request.size]
      BY <2>2 DEF RunQuery
    <3>3. /\ Window(s, request) \in Seq(Keys) /\ IsInjective(Window(s, request))
          /\ Len(Window(s, request)) <= request.size
      BY <3>1, <3>2, OrdersAreEnumerations, WindowProperties DEF TypeOK
    <3>4. request.page \in Int /\ request.size \in Int /\ ~(request.size < 0)
      BY <3>1, RequestTypes DEF Refused
    <3>5. /\ page'.content = Window(s, request) /\ page'.size = request.size
          /\ page'.totalElements = page.totalElements /\ page' \in PageTypes
      BY <3>2, <3>3, <3>4 DEF CallInv, PageTypes
    <3>6. TypeOK'
      BY <2>2, <3>3, <3>4, <3>5 DEF RunQuery, TypeOK
    <3> QED
      BY <2>2, <3>1, <3>5, <3>6 DEF RunQuery, CallInv, Refused, Offset, Order, Placeholders
  <2>3. CASE Fails
    BY <2>3 DEF Fails, TypeOK, CallInv
  <2>4. CASE RunCount \/ Divide
    <3>1. request \in Requests /\ ~Refused(request) /\ phase' = "idle"
          /\ UNCHANGED <<table, request, walk>> /\ outcome' \in {"ok", "panic"}
      BY <2>4 DEF RunCount, Divide, CallInv
    <3>2. Total(request) \in 0 .. Cardinality(Keys)
      BY <3>1, TotalType, KeysAreFinite DEF TypeOK
    <3>3. page' \in PageTypes /\ page'.content = page.content /\ page'.size = page.size
      <4>1. CASE Divide
        BY <3>2, <4>1 DEF Divide, CallInv, PageTypes
      <4>2. CASE RunCount
        <5> DEFINE total == Total(request)
                   pages == Wrap(total + request.size - 1) \div request.size
        <5>1. total + request.size - 1 \in Int /\ request.size \in Nat \ {0}
          BY <3>1, <3>2, <4>2, RequestTypes, KeysAreFinite DEF RunCount
        <5>2. Wrap(total + request.size - 1) \in Int
          BY <5>1, WrapType
        <5>3. pages \in Int
          <6> DEFINE w == Wrap(total + request.size - 1)
          <6> HIDE DEF w
          <6> QED
            BY <5>1, <5>2 DEF w
        <5>4. page' = [page EXCEPT !.totalElements = total, !.totalPages = pages,
                                   !.last = page.number >= pages - 1]
          BY <4>2 DEF RunCount
        <5> HIDE DEF total, pages
        <5>5. (page.number >= pages - 1) \in BOOLEAN
          OBVIOUS
        <5> QED
          BY <3>2, <5>3, <5>4, <5>5 DEF CallInv, PageTypes, total
      <4> QED
        BY <2>4, <4>1, <4>2
    <3> QED
      BY <3>1, <3>3 DEF TypeOK, CallInv, PageTypes
  <2>5. ASSUME NEW rows \in SUBSET Keys, Commit(rows) PROVE TypeOK' /\ CallInv'
    BY <2>5 DEF Commit, TypeOK, CallInv, Refused, Offset, Order, Placeholders
  <2>6. CASE UNCHANGED vars
    BY <2>6 DEF vars, TypeOK, CallInv, Refused, Offset, Order, Placeholders
  <2> QED
    BY <2>1, <2>2, <2>3, <2>4, <2>5, <2>6 DEF Next
<1> QED
  BY <1>1, <1>2, PTL DEF Spec

-----------------------------------------------------------------------------
(* A client that walks through the pages: what it has is a part from the    *)
(* start of the table, in the one order there is.                           *)
WalkInv ==
  walk # NoWalk =>
    /\ walk.size \in Nat \ {0} /\ walk.next \in Nat \ {0}
    /\ Order(walk.sort) \in {"key", "key,desc"}
    /\ WalkIsComplete

(* Where page p starts and the page after it.                               *)
LEMMA PageStarts ==
  ASSUME NEW p \in Int, NEW q \in Nat \ {0}, NEW o \in Nat, p * q = o
  PROVE  /\ p = 0 => o = 0 /\ 1 * q = o + q /\ o + 1 = 1
         /\ (p + 1) * q = o + q
<1>1. (p + 1) * q = p * q + q /\ 0 * q = 0 /\ 1 * q = q
  OBVIOUS
<1> QED
  BY <1>1

(* The rows up to a page and the rows of the page.                          *)
LEMMA PagesJoin ==
  ASSUME NEW S, NEW s \in Seq(S), NEW o \in Nat, NEW k \in Nat
  PROVE  SubSeq(s, 1, IF o < Len(s) THEN o ELSE Len(s))
           \o SubSeq(s, o + 1, IF o + k < Len(s) THEN o + k ELSE Len(s))
         = SubSeq(s, 1, IF o + k < Len(s) THEN o + k ELSE Len(s))
<1> DEFINE n == Len(s)
           e == IF o + k < n THEN o + k ELSE n
<1>1. n \in Nat /\ e \in Nat /\ e <= n
  BY LenProperties
<1> HIDE DEF n, e
<1>2. CASE o < n
  <2>1. /\ 1 \in 1 .. n + 1 /\ o \in 1 - 1 .. n /\ e \in o .. n
    BY <1>1, <1>2 DEF e
  <2>2. SubSeq(s, 1, o) \o SubSeq(s, o + 1, e) = SubSeq(s, 1, e)
    BY <2>1, ConcatAdjacentSubSeq DEF n
  <2> QED
    BY <1>2, <2>2 DEF n, e
<1>3. CASE ~(o < n)
  <2>1. e = n /\ n < o + 1 /\ o + 1 \in Int /\ n \in Int
    BY <1>1, <1>3 DEF e
  <2>2. SubSeq(s, o + 1, n) = <<>>
    BY <2>1, SubSeqEmpty
  <2>3. SubSeq(s, 1, n) = s
    BY SubSeqFull DEF n
  <2>4. s \o <<>> = s
    BY ConcatEmptySeq
  <2> QED
    BY <1>3, <2>1, <2>2, <2>3, <2>4 DEF n, e
<1> QED
  BY <1>2, <1>3

(* Pages 0, 1, .. of a sorted table that does not change are the rows one   *)
(* after another: for any table, any sort commands, and any pages and       *)
(* sizes, also negative ones and those whose offset wraps around, with      *)
(* which a walk is over.                                                    *)
THEOREM PagesAreComplete == Spec => []WalkIsComplete
<1>1. Init => WalkInv
  BY DEF Init, WalkInv
<1>2. TypeOK /\ CallInv /\ WalkInv /\ [Next]_vars => WalkInv'
  <2> SUFFICES ASSUME TypeOK, CallInv, WalkInv, [Next]_vars PROVE WalkInv'
    OBVIOUS
  <2>1. CASE UNCHANGED <<table, walk>>
    BY <2>1 DEF WalkInv, WalkIsComplete
  <2>2. CASE walk' = NoWalk
    BY <2>2 DEF WalkInv
  <2>3. CASE RunQuery /\ walk' # NoWalk
    <3> DEFINE r == request
               o == Offset(r)
               upTo(k, s) == IF k < Len(s) THEN k ELSE Len(s)
    <3>1. r \in Requests /\ ~Refused(r) /\ table' = table
      BY <2>3 DEF RunQuery, CallInv
    <3>2. PICK s \in Orders(table, r.sort) : walk' = WalkOn(r, Window(s, r))
      BY <2>3 DEF RunQuery
    <3>3. /\ Order(r.sort) \in {"key", "key,desc"} /\ r.size # 0
          /\ r.page * r.size = o
      BY <2>3, <3>2 DEF WalkOn, Ordered, Offset
    <3>4. /\ r.page \in Int /\ r.size \in Nat \ {0} /\ o \in Nat
      <4>1. /\ r.page \in Int /\ r.size \in Int /\ o \in Int
            /\ ~(r.size < 0) /\ ~(o < 0)
        BY <3>1, RequestTypes DEF Refused
      <4>2. r.size # 0
        BY <3>3
      <4> HIDE DEF o, r
      <4> QED
        BY <4>1, <4>2
    <3>5. IsFiniteSet(table) /\ table \in SUBSET Int
      <4>1. table \in SUBSET Keys /\ IsFiniteSet(Keys)
        BY PageAssumption DEF PageAssumption, TypeOK
      <4>2. Keys \subseteq Nat
        BY PageAssumption, Zenon DEF PageAssumption
      <4>3. IsFiniteSet(table)
        BY <4>1, FS_Subset
      <4> QED
        BY <4>1, <4>2, <4>3
    <3>6. s \in SetToSeqs(table) /\ s \in Seq(table)
      BY <3>5, OrdersAreEnumerations, EnumerationProperties
    <3>7. Window(s, r) = SubSeq(s, o + 1, upTo(o + r.size, s))
      BY DEF Window
    <3>8. CASE r.page = 0
      <4>1. walk' = [size |-> r.size, next |-> 1, sort |-> r.sort, rows |-> Window(s, r)]
        BY <2>3, <3>2, <3>8 DEF WalkOn
      <4>2. o = 0 /\ 1 * r.size = o + r.size /\ o + 1 = 1
        BY <3>3, <3>4, <3>8, PageStarts, Zenon
      <4>3. Window(s, r) = SubSeq(s, 1, upTo(1 * r.size, s))
        BY <3>7, <4>2
      <4>4. WalkIsComplete'
        BY <3>1, <4>1, <4>3 DEF WalkIsComplete
      <4> QED
        <5>1. walk'.size = r.size /\ walk'.next = 1 /\ walk'.sort = r.sort
          BY <4>1
        <5>2. walk'.size \in Nat \ {0} /\ walk'.next \in Nat \ {0}
          BY <3>4, <5>1
        <5>3. Order(walk'.sort) \in {"key", "key,desc"}
          BY <3>3, <5>1
        <5> QED
          BY <4>4, <5>2, <5>3 DEF WalkInv
    <3>9. CASE r.page # 0
      <4>1. /\ walk.size = r.size /\ walk.next = r.page /\ walk.sort = r.sort
            /\ walk' = [size |-> r.size, next |-> r.page + 1, sort |-> r.sort,
                        rows |-> walk.rows \o Window(s, r)]
        BY <2>3, <3>2, <3>9 DEF WalkOn
      <4>2. walk # NoWalk
        BY <3>4, <4>1 DEF NoWalk
      <4>3. PICK t \in Orders(table, r.sort) : walk.rows = SubSeq(t, 1, upTo(o, t))
        <5>1. walk.size > 0 /\ walk.next * walk.size = o
          <6>1. walk.size > 0
            BY <3>4, <4>1
          <6> QED
            BY <3>3, <4>1, <6>1, Zenon
        <5> QED
          BY <4>1, <4>2, <5>1 DEF WalkInv, WalkIsComplete
      <4>4. t = s
        <5>1. t \in SetToSeqs(table)
          BY OrdersAreEnumerations
        <5>2. (Ascends(s) /\ Ascends(t)) \/ (Descends(s) /\ Descends(t))
          BY <3>3 DEF Orders
        <5> QED
          BY <3>5, <3>6, <5>1, <5>2, OneOrder
      <4>5. walk.rows \o Window(s, r) = SubSeq(s, 1, upTo(o + r.size, s))
        <5>1. r.size \in Nat
          BY <3>4
        <5> QED
          BY <3>4, <3>6, <3>7, <4>3, <4>4, <5>1, PagesJoin
      <4>6. (r.page + 1) * r.size = o + r.size /\ r.page + 1 \in Nat \ {0}
        <5>1. r.page \in Nat \ {0}
          BY <4>1, <4>2 DEF WalkInv
        <5>2. r.page + 1 \in Nat \ {0}
          BY <5>1
        <5> QED
          BY <3>3, <3>4, <5>2, PageStarts, Zenon
      <4>7. WalkIsComplete'
        BY <3>1, <4>1, <4>5, <4>6 DEF WalkIsComplete
      <4> QED
        BY <3>3, <3>4, <4>1, <4>6, <4>7 DEF WalkInv
    <3> QED
      BY <3>8, <3>9
  <2>4. UNCHANGED <<table, walk>> \/ walk' = NoWalk \/ RunQuery
    BY DEF Next, Call, Fails, RunCount, Divide, Commit, vars
  <2> QED
    BY <2>1, <2>2, <2>3, <2>4
<1>3. WalkInv => WalkIsComplete
  <2>1. CASE walk = NoWalk
    BY <2>1 DEF WalkIsComplete, NoWalk
  <2> QED
    BY <2>1 DEF WalkInv
<1> QED
  BY <1>1, <1>2, <1>3, PageTypeCorrect, PTL DEF Spec

-----------------------------------------------------------------------------
(* Request structs                                                          *)

LEMMA StructTypes ==
  ASSUME struct \in Structs
  PROVE  /\ Len(struct) \in Nat /\ DOMAIN struct = 1 .. Len(struct)
         /\ \A i \in 1 .. Len(struct) :
              /\ struct[i] \in StructFields
              /\ struct[i].inner \in Nat /\ i + struct[i].inner <= Len(struct)
              /\ struct[i].inner > 0 => struct[i].kind = "struct"
              /\ \A j \in Inside(i) : j + struct[j].inner <= i + struct[i].inner
<1>1. struct \in Seq(StructFields) /\ Nested(struct)
  BY BindingAssumption DEF BindingAssumption
<1>2. Len(struct) \in Nat /\ DOMAIN struct = 1 .. Len(struct)
  BY <1>1, LenProperties
<1>3. \A i \in 1 .. Len(struct) : struct[i] \in StructFields
  BY <1>1, ElementOfSeq
<1>4. \A i \in 1 .. Len(struct) : struct[i].inner \in Nat
  BY <1>3 DEF StructFields
<1> QED
  BY <1>1, <1>2, <1>3, <1>4 DEF Nested, Inside

(* The next field of a round is reached too, and none between is.           *)
LEMMA NextIsReached ==
  ASSUME struct \in Structs, NEW i \in 1 .. Len(struct), Reached(i),
         NEW n, (n = i + 1 /\ Entered(i)) \/ (n = Behind(i) /\ ~Entered(i))
  PROVE  /\ n \in i + 1 .. Len(struct) + 1
         /\ n <= Len(struct) => Reached(n)
         /\ \A j \in i + 1 .. n - 1 : j \in Inside(i) /\ ~Reached(j)
<1>1. /\ Len(struct) \in Nat /\ DOMAIN struct = 1 .. Len(struct)
      /\ \A k \in 1 .. Len(struct) :
           struct[k].inner \in Nat /\ k + struct[k].inner <= Len(struct)
      /\ \A k \in 1 .. Len(struct) :
           \A j \in Inside(k) : j + struct[j].inner <= k + struct[k].inner
  BY StructTypes
<1>2. n \in i + 1 .. Len(struct) + 1
  BY <1>1 DEF Behind
<1>3. ASSUME n <= Len(struct), NEW k \in 1 .. Len(struct), n \in Inside(k)
      PROVE  Entered(k)
  <2>1. CASE k = i
    BY <1>1, <1>3, <2>1 DEF Inside, Behind
  <2>2. CASE i \in Inside(k)
    BY <1>1, <2>2 DEF Reached
  <2>3. CASE k # i /\ i \notin Inside(k)
    <3>1. k > i
      BY <1>1, <1>2, <1>3, <2>3 DEF Inside
    <3>2. n = Behind(i) /\ k \in Inside(i)
      BY <1>1, <1>2, <1>3, <3>1 DEF Inside, Behind
    <3>3. k + struct[k].inner <= i + struct[i].inner
      BY <1>1, <3>2
    <3> QED
      BY <1>1, <1>3, <3>2, <3>3 DEF Inside, Behind
  <2> QED
    BY <2>1, <2>2, <2>3
<1>4. ASSUME NEW j \in i + 1 .. n - 1 PROVE j \in Inside(i) /\ ~Reached(j)
  <2>1. n = Behind(i) /\ ~Entered(i)
    BY <1>1, <1>4
  <2>2. j \in Inside(i)
    BY <1>1, <1>4, <2>1 DEF Inside, Behind
  <2> QED
    BY <1>1, <2>1, <2>2 DEF Reached
<1> QED
  BY <1>1, <1>2, <1>3, <1>4 DEF Reached

(* How a round that does not fail ends.                                     *)
LEMMA ContinueEnds ==
  ASSUME struct \in Structs, NEW n \in 1 .. Len(struct) + 1, Continue(n)
  PROVE  /\ at' = n
         /\ \/ out' = "error"
            \/ out' = "running" /\ n <= Len(struct)
            \/ out' = "ok" /\ n = Len(struct) + 1 /\ Valid(vals', DOMAIN struct)
<1>1. Len(struct) \in Nat
  BY StructTypes
<1>2. n > Len(struct) => DOMAIN struct \in Ending(n)
  BY DEF Ending
<1> QED
  BY <1>1, <1>2 DEF Continue

-----------------------------------------------------------------------------
(* One field                                                                *)

(* What is read for a field without an error is what it should hold.        *)
LEMMA ReadIsBound ==
  ASSUME NEW f, f.src \in {"ctx", "header", "path", "query"}
  PROVE  /\ Read(f).out \in {"ok", "error", "panic"}
         /\ Read(f).out = "ok" => Bound(f, Read(f).val)
<1> DEFINE given == asked.given[f.name]
           or(text) == IF text = "" THEN f.default ELSE text
           one == or(First(given))
           parsed == Assign(f, ParseField(f, First(given)))
<1>0. \A v : Ok(v).out = "ok" /\ Ok(v).val = v
  BY DEF Ok
<1>1. /\ parsed.out \in {"ok", "error", "panic"}
      /\ parsed.out = "ok" => parsed.val = Holds(f, one)
  <2> DEFINE read == ParseField(f, First(given))
  <2>1. read = Error \/ read = Ok(Holds(f, one))
    BY DEF ParseField, RunParser, Holds
  <2>2. parsed \in {read, Panic}
    BY DEF Assign
  <2>3. Error.out = "error" /\ Panic.out = "panic"
    BY DEF Error, Panic
  <2>4. Ok(Holds(f, one)).out = "ok" /\ Ok(Holds(f, one)).val = Holds(f, one)
    BY <1>0, Zenon
  <2> HIDE DEF read, parsed
  <2>5. parsed \in {Error, Panic, Ok(Holds(f, one))}
    BY <2>1, <2>2
  <2> HIDE DEF one
  <2> QED
    BY <2>3, <2>4, <2>5
<1>2. CASE f.src = "ctx"
  BY <1>2 DEF Read, Ok, Panic, Bound
<1>3. CASE f.src \in {"header", "path"}
  <2>1. Read(f) = parsed
    BY <1>3 DEF Read
  <2> HIDE DEF parsed
  <2> QED
    BY <1>1, <1>3, <2>1 DEF Bound
<1>4. CASE f.src = "query"
  <2>1. Read(f) = ParseFields(f, given)
    BY <1>4 DEF Read
  <2>2. CASE given = <<>>
    <3>1. Read(f) = Ok(Nothing)
      BY <2>1, <2>2 DEF ParseFields
    <3>2. Read(f).out = "ok" /\ Read(f).val = Nothing
      BY <3>1 DEF Ok
    <3> QED
      BY <1>4, <2>2, <3>2 DEF Bound
  <2>3. CASE given # <<>> /\ f.kind = "strings" /\ ~f.ptr
    <3>1. Read(f) = Ok(Val([i \in DOMAIN given |-> or(given[i])]))
      BY <2>1, <2>3 DEF ParseFields
    <3>2. Read(f).out = "ok" /\ Read(f).val = Val([i \in DOMAIN given |-> or(given[i])])
      BY <1>0, <3>1, Zenon
    <3> QED
      BY <1>4, <2>3, <3>2 DEF Bound
  <2>4. CASE given # <<>> /\ f.kind = "ints" /\ ~f.ptr
    BY <1>4, <2>1, <2>4 DEF ParseFields, Panic
  <2>5. CASE given # <<>> /\ ~(f.kind \in {"strings", "ints"} /\ ~f.ptr)
    <3>1. Read(f) = parsed
      BY <2>1, <2>5 DEF ParseFields, First
    <3> HIDE DEF parsed
    <3> QED
      BY <1>1, <1>4, <2>5, <3>1 DEF Bound
  <2> QED
    BY <2>2, <2>3, <2>4, <2>5
<1> QED
  BY <1>2, <1>3, <1>4

-----------------------------------------------------------------------------
(* A field holds what it should, and so do those inside a body.             *)
Understood(i, v) ==
  /\ Bound(struct[i], v[i])
  /\ struct[i].src = "body" => \A j \in Inside(i) : v[j] = Decoded(i, j)

(* In every round the next field is one that is reached, and the fields     *)
(* behind it hold what they should.                                         *)
BoundInv ==
  /\ struct \in Structs
  /\ out \in {"none", "running", "ok", "error", "panic"}
  /\ at \in 1 .. Len(struct) + 1 /\ (out = "none" => at = 1)
  /\ out # "none" =>
       /\ asked \in Incoming[struct] /\ rest \in {asked.body.form, "none"}
       /\ DOMAIN vals = DOMAIN struct
  /\ out = "running" => at <= Len(struct) /\ Reached(at)
  /\ out \in {"running", "ok"} =>
       \A i \in 1 .. at - 1 : Reached(i) => Understood(i, vals)
  /\ out = "ok" => at = Len(struct) + 1 /\ Valid(vals, DOMAIN struct)

(* Which is a matter of the type and the request alone.                     *)
LEMMA SameRequest ==
  ASSUME UNCHANGED <<struct, asked>>
  PROVE  /\ \A i : Reached(i)' <=> Reached(i)
         /\ \A i, v : Understood(i, v)' <=> Understood(i, v)
         /\ \A v, fields : Valid(v, fields)' <=> Valid(v, fields)
<1>1. \A i : Reached(i)' <=> Reached(i)
  BY DEF Reached, Entered, Inside
<1>2. \A i, j : Decoded(i, j)' = Decoded(i, j)
  <2>1. \A i : Sent(i)' = Sent(i)
    BY DEF Sent, Inside
  <2>2. \A i, there, j : Zero(i, there, j)' = Zero(i, there, j)
    BY DEF Zero, Inside
  <2> QED
    BY <2>1, <2>2 DEF Decoded
<1>3. \A f, v : Bound(f, v)' <=> Bound(f, v)
  BY DEF Bound
<1>4. \A i, v : Understood(i, v)' <=> Understood(i, v)
  BY <1>2, <1>3 DEF Understood, Inside
<1>5. \A v, fields : Valid(v, fields)' <=> Valid(v, fields)
  BY DEF Valid
<1> QED
  BY <1>1, <1>4, <1>5

(* A round that does not fail, at a field that now holds what it should.    *)
LEMMA RoundKeepsBound ==
  ASSUME BoundInv, out = "running", NEW n, Continue(n),
         (n = at + 1 /\ Entered(at)) \/ (n = Behind(at) /\ ~Entered(at)),
         UNCHANGED <<struct, asked>>, rest' \in {rest, "none"}, DOMAIN vals' = DOMAIN struct,
         \A i \in 1 .. at - 1 : vals'[i] = vals[i],
         Understood(at, vals')
  PROVE  BoundInv'
<1>1. /\ at \in 1 .. Len(struct) /\ Len(struct) \in Nat
      /\ DOMAIN struct = 1 .. Len(struct) /\ struct \in Structs /\ Reached(at)
      /\ \A i \in 1 .. Len(struct) : struct[i].inner \in Nat
  BY StructTypes DEF BoundInv
<1>2. /\ n \in at + 1 .. Len(struct) + 1
      /\ n <= Len(struct) => Reached(n)
      /\ \A j \in at + 1 .. n - 1 : ~Reached(j)
  BY <1>1, NextIsReached
<1>3. n \in 1 .. Len(struct) + 1
  BY <1>1, <1>2
<1>4. /\ at' = n
      /\ \/ out' = "error"
         \/ out' = "running" /\ n <= Len(struct)
         \/ out' = "ok" /\ n = Len(struct) + 1 /\ Valid(vals', DOMAIN struct)
  BY <1>1, <1>3, ContinueEnds
<1>5. ASSUME NEW i \in 1 .. at - 1, Reached(i)
      PROVE  Understood(i, vals')
  <2>1. i \in 1 .. Len(struct) /\ i < at /\ Understood(i, vals) /\ vals'[i] = vals[i]
    BY <1>1, <1>5 DEF BoundInv
  <2>2. ASSUME struct[i].src = "body" PROVE Inside(i) \subseteq 1 .. at - 1
    <3>1. ~Entered(i)
      BY <2>2 DEF Entered
    <3>2. at \notin Inside(i)
      BY <1>1, <2>1, <3>1 DEF Reached
    <3> QED
      BY <1>1, <2>1, <3>2 DEF Inside
  <2> QED
    BY <2>1, <2>2 DEF Understood
<1>6. ASSUME NEW i \in 1 .. n - 1, Reached(i)
      PROVE  Understood(i, vals')
  <2>1. i \in 1 .. at - 1 \/ i = at
    BY <1>1, <1>2, <1>6
  <2> QED
    BY <1>5, <1>6, <2>1
<1>7. /\ \A i : Reached(i)' <=> Reached(i)
      /\ \A i : Understood(i, vals') => Understood(i, vals)'
      /\ Valid(vals', DOMAIN struct) => Valid(vals, DOMAIN struct)'
  BY SameRequest
<1> QED
  BY <1>1, <1>2, <1>3, <1>4, <1>6, <1>7 DEF BoundInv

LEMMA BoundIsKept == BindSpec => []BoundInv
<1>1. BindInit => BoundInv
  <2> SUFFICES ASSUME BindInit PROVE BoundInv
    OBVIOUS
  <2>1. struct \in Structs /\ out = "none" /\ at = 1
    BY DEF BindInit
  <2>2. at \in 1 .. Len(struct) + 1
    BY <2>1, StructTypes
  <2> QED
    BY <2>1, <2>2 DEF BoundInv
<1>2. BoundInv /\ [BindNext]_bindVars => BoundInv'
  <2> SUFFICES ASSUME BoundInv, [BindNext]_bindVars PROVE BoundInv'
    OBVIOUS
  <2>0. /\ struct \in Structs /\ Len(struct) \in Nat /\ DOMAIN struct = 1 .. Len(struct)
        /\ out \in {"none", "running", "ok", "error", "panic"}
        /\ at \in 1 .. Len(struct) + 1
        /\ out # "none" =>
             /\ asked \in Incoming[struct] /\ rest \in {asked.body.form, "none"}
             /\ DOMAIN vals = DOMAIN struct
        /\ out = "running" => at \in 1 .. Len(struct) /\ Reached(at)
    BY StructTypes DEF BoundInv
  <2>1. CASE ParseRequest
    <3>1. /\ struct' = struct /\ at' = 1 /\ at = 1 /\ DOMAIN vals' = DOMAIN struct
          /\ asked' \in Incoming[struct] /\ rest' = asked'.body.form
          /\ out' = IF struct = <<>> THEN "ok" ELSE "running"
      BY <2>1 DEF ParseRequest, BoundInv
    <3>2. CASE struct = <<>>
      <4>1. Len(struct) = 0 /\ DOMAIN struct = {} /\ out' = "ok"
        BY <3>1, <3>2, <2>0, EmptySeq
      <4> QED
        BY <2>0, <3>1, <4>1 DEF BoundInv, Valid
    <3>3. CASE struct # <<>>
      <4>1. Len(struct) # 0
        BY <3>3, EmptySeq, BindingAssumption DEF BindingAssumption, BoundInv
      <4>2. Reached(1)
        BY <2>0, StructTypes DEF Reached, Inside
      <4>3. Reached(1)'
        BY <3>1, <4>2 DEF Reached, Entered, Inside
      <4>4. out' = "running" /\ 1 <= Len(struct)
        BY <2>0, <3>1, <3>3, <4>1
      <4> QED
        BY <2>0, <3>1, <4>3, <4>4 DEF BoundInv
    <3> QED
      BY <3>2, <3>3
  <2>2. CASE Tagged
    <3> DEFINE r == Read(struct[at])
    <3>1. /\ out = "running" /\ at \in 1 .. Len(struct)
          /\ struct[at].src \in {"ctx", "header", "path", "query"}
          /\ UNCHANGED <<struct, asked, rest>> /\ ~Entered(at)
      BY <2>0, <2>2 DEF Tagged, Entered
    <3>2. /\ r.out \in {"ok", "error", "panic"}
          /\ r.out = "ok" => Bound(struct[at], r.val)
      BY <3>1, ReadIsBound
    <3> HIDE DEF r
    <3>3. CASE r.out = "ok"
      <4>1. vals' = [vals EXCEPT ![at] = r.val] /\ Continue(Behind(at))
        BY <2>2, <3>3 DEF Tagged, r
      <4>2. /\ DOMAIN vals' = DOMAIN struct /\ vals'[at] = r.val
            /\ \A i \in 1 .. at - 1 : vals'[i] = vals[i]
        BY <2>0, <3>1, <4>1
      <4>3. Understood(at, vals')
        BY <3>1, <3>2, <3>3, <4>2 DEF Understood
      <4> QED
        BY <3>1, <4>1, <4>2, <4>3, RoundKeepsBound
    <3>4. CASE r.out # "ok"
      <4>1. out' \in {"error", "panic"} /\ UNCHANGED <<at, vals>>
        BY <2>2, <3>2, <3>4 DEF Tagged, Fail, r
      <4> QED
        BY <2>0, <3>1, <4>1 DEF BoundInv
    <3> QED
      BY <3>3, <3>4
  <2>3. CASE Body
    <3>1. /\ out = "running" /\ at \in 1 .. Len(struct) /\ struct[at].src = "body"
          /\ UNCHANGED <<struct, asked>> /\ rest' = "none" /\ ~Entered(at)
      BY <2>0, <2>3 DEF Body, Entered
    <3>2. CASE rest \in {"null", "object"}
      <4>1. /\ vals' = [j \in DOMAIN struct |->
                          IF j \in {at} \cup Inside(at) THEN Decoded(at, j) ELSE vals[j]]
            /\ Continue(Behind(at))
        BY <2>3, <3>2 DEF Body
      <4>2. /\ at \notin Inside(at) /\ Inside(at) \subseteq DOMAIN struct
            /\ \A j \in 1 .. at - 1 : j # at /\ j \notin Inside(at) /\ j \in DOMAIN struct
        BY <2>0, <3>1, StructTypes DEF Inside
      <4>3. /\ asked.body.form \in {"null", "object"}
            /\ Decoded(at, at) = IF struct[at].ptr /\ asked.body.form = "null"
                                 THEN Nothing ELSE Struct
        <5>1. asked.body.form = rest
          BY <2>0, <3>1, <3>2
        <5>2. struct[at].kind = "struct"
          BY <2>0, <3>1, BindingAssumption DEF BindingAssumption
        <5>3. \A k \in DOMAIN struct : at \in Inside(k) => ~struct[k].ptr
          BY <2>0, <3>1 DEF Reached, Entered
        <5>4. Zero(0, {}, at) = IF struct[at].ptr THEN Nothing ELSE Struct
          BY <5>2, <5>3 DEF Zero
        <5> QED
          BY <3>2, <5>1, <5>2, <5>4 DEF Decoded
      <4>4. /\ DOMAIN vals' = DOMAIN struct /\ vals'[at] = Decoded(at, at)
            /\ \A j \in Inside(at) : vals'[j] = Decoded(at, j)
            /\ \A i \in 1 .. at - 1 : vals'[i] = vals[i]
        BY <2>0, <3>1, <4>1, <4>2
      <4>5. Understood(at, vals')
        BY <3>1, <4>3, <4>4 DEF Understood, Bound
      <4> QED
        BY <3>1, <4>1, <4>4, <4>5, RoundKeepsBound
    <3>3. CASE rest \notin {"null", "object"}
      <4>1. out' = "error" /\ UNCHANGED <<at, vals>>
        BY <2>3, <3>3 DEF Body, Fail
      <4> QED
        BY <2>0, <3>1, <4>1 DEF BoundInv
    <3> QED
      BY <3>2, <3>3
  <2>4. CASE Untagged
    <3>1. /\ out = "running" /\ at \in 1 .. Len(struct) /\ struct[at].src = ""
          /\ UNCHANGED <<struct, asked, rest, vals>> /\ Continue(NextField(at))
      BY <2>0, <2>4 DEF Untagged
    <3>2. Understood(at, vals')
      BY <3>1 DEF Understood, Bound
    <3>3. \/ NextField(at) = at + 1 /\ Entered(at)
          \/ NextField(at) = Behind(at) /\ ~Entered(at)
      BY DEF NextField
    <3> QED
      BY <2>0, <3>1, <3>2, <3>3, RoundKeepsBound
  <2>5. CASE UNCHANGED bindVars
    <3>1. UNCHANGED <<struct, asked, rest, at, vals, out>>
      BY <2>5 DEF bindVars
    <3>2. /\ \A i : Reached(i)' <=> Reached(i)
          /\ \A i : Understood(i, vals)' <=> Understood(i, vals)
          /\ Valid(vals, DOMAIN struct)' <=> Valid(vals, DOMAIN struct)
      BY <3>1, SameRequest
    <3> QED
      BY <3>1, <3>2 DEF BoundInv
  <2> QED
    BY <2>1, <2>2, <2>3, <2>4, <2>5 DEF BindNext
<1> QED
  BY <1>1, <1>2, PTL DEF BindSpec

(* Types: the request in hand stays the one that was asked, and the body is *)
(* either untouched or read.                                                *)
THEOREM BindTypeCorrect == BindSpec => []BindTypeOK
<1>1. BoundInv => BindTypeOK
  BY DEF BoundInv, BindTypeOK
<1> QED
  BY <1>1, BoundIsKept, PTL

(* After a nil error from ParseRequest every field with a tag holds what    *)
(* the client gave, or its default, every field of a body what the JSON has *)
(* for it, and what is required is there: for structs of any depth and any  *)
(* requests.                                                                *)
THEOREM NilIsUnderstood == BindSpec => []NilMeansBound
<1>1. BoundInv => NilMeansBound
  <2> SUFFICES ASSUME BoundInv, out = "ok", NEW i \in DOMAIN struct
               PROVE  /\ Reached(i) =>
                           /\ Bound(struct[i], vals[i])
                           /\ struct[i].src = "body" =>
                                \A j \in Inside(i) : vals[j] = Decoded(i, j)
                      /\ struct[i].required /\ struct[i].kind # "struct" => vals[i] # Nothing
    BY DEF NilMeansBound
  <2>1. i \in 1 .. at - 1
    BY StructTypes DEF BoundInv
  <2>2. MustBeThere(struct[i]) => vals[i].form # "zero"
    BY DEF BoundInv, Valid
  <2>3. vals[i] = Nothing => vals[i].form = "zero"
    BY DEF Nothing
  <2>4. Reached(i) => Understood(i, vals)
    BY <2>1 DEF BoundInv
  <2> QED
    BY <2>2, <2>3, <2>4 DEF MustBeThere, Understood
<1> QED
  BY <1>1, BoundIsKept, PTL

-----------------------------------------------------------------------------
(* Requests made from the document                                          *)

(* Around a field that is reached are fields that are reached.              *)
LEMMA ReachedAround ==
  ASSUME struct \in Structs, NEW i \in 1 .. Len(struct), Reached(i),
         NEW k \in 1 .. Len(struct), i \in Inside(k)
  PROVE  Reached(k) /\ Entered(k)
<1>1. /\ DOMAIN struct = 1 .. Len(struct) /\ Len(struct) \in Nat
      /\ \A j \in 1 .. Len(struct) : struct[j].inner \in Nat
      /\ \A j \in 1 .. Len(struct) :
           \A m \in Inside(j) : m + struct[m].inner <= j + struct[j].inner
  BY StructTypes
<1>2. ASSUME NEW j \in 1 .. Len(struct), k \in Inside(j) PROVE i \in Inside(j)
  BY <1>1, <1>2 DEF Inside
<1> QED
  BY <1>1, <1>2 DEF Reached

(* The document lists every field that is read from a request.              *)
LEMMA ReachedIsListed ==
  ASSUME struct \in Structs, Documentable, NEW i \in 1 .. Len(struct), Reached(i),
         struct[i].src # ""
  PROVE  i \in Listed
<1>1. DOMAIN struct = 1 .. Len(struct)
  BY StructTypes
<1>2. \A j \in 1 .. Len(struct) : Reached(j) => (struct[j].embedded <=> struct[j].src = "")
  BY <1>1 DEF Documentable
<1>3. ASSUME NEW k \in 1 .. Len(struct), i \in Inside(k)
      PROVE  struct[k].embedded /\ ~struct[k].ptr
  <2>1. Reached(k) /\ Entered(k)
    BY <1>3, ReachedAround
  <2> QED
    BY <1>2, <2>1 DEF Entered
<1> QED
  BY <1>1, <1>2, <1>3 DEF Listed

(* And no other: the outermost of the fields around one that is listed is   *)
(* embedded, hence entered, and so is the next.                             *)
LEMMA ListedIsReached ==
  ASSUME struct \in Structs, Documentable, NEW i \in Listed
  PROVE  i \in 1 .. Len(struct) /\ Reached(i)
<1>1. /\ DOMAIN struct = 1 .. Len(struct) /\ Len(struct) \in Nat
      /\ \A j \in 1 .. Len(struct) : struct[j].inner \in Nat
      /\ \A j \in 1 .. Len(struct) :
           \A m \in Inside(j) : m + struct[m].inner <= j + struct[j].inner
  BY StructTypes
<1>2. /\ i \in 1 .. Len(struct)
      /\ \A k \in 1 .. Len(struct) : i \in Inside(k) => struct[k].embedded /\ ~struct[k].ptr
  BY <1>1 DEF Listed
<1> DEFINE Locked == {k \in 1 .. Len(struct) : i \in Inside(k) /\ ~Entered(k)}
<1>3. ASSUME Locked # {} PROVE FALSE
  <2>1. Locked \subseteq Nat
    BY <1>1
  <2>2. PICK k \in Locked : \A m \in Locked : k <= m
    BY <1>3, <2>1, LeastNumber
  <2>3. k \in 1 .. Len(struct) /\ i \in Inside(k) /\ ~Entered(k)
    BY <2>2
  <2>4. ASSUME NEW m \in 1 .. Len(struct), k \in Inside(m) PROVE Entered(m)
    <3>1. i \in Inside(m) /\ m < k
      BY <1>1, <1>2, <2>3, <2>4 DEF Inside
    <3> QED
      BY <1>1, <2>2, <2>3, <3>1
  <2>5. Reached(k)
    BY <1>1, <2>4 DEF Reached
  <2>6. struct[k].embedded /\ ~struct[k].ptr
    BY <1>2, <2>3
  <2>7. struct[k].src = "" /\ struct[k].kind = "struct"
    BY <1>1, <2>3, <2>5, <2>6 DEF Documentable
  <2> QED
    BY <2>3, <2>6, <2>7 DEF Entered
<1> QED
  BY <1>1, <1>2, <1>3 DEF Reached

LEMMA RequestForm ==
  ASSUME struct \in Structs, asked \in Incoming[struct]
  PROVE  DOMAIN asked.given = Names /\ asked.body \in Bodies
<1> DEFINE R == [given : [Names -> Seq(STRING)], body : Bodies]
<1>1. Incoming \in [Structs -> SUBSET R]
  BY BindingAssumption DEF BindingAssumption
<1> HIDE DEF R
<1>2. asked \in R
  BY <1>1
<1> QED
  BY <1>2 DEF R

(* What is listed is there for it to be read, unless it is blank, or need   *)
(* not be.                                                                  *)
LEMMA ReadFollows ==
  ASSUME struct \in Structs, asked \in Incoming[struct],
         Documentable, Follows(asked, ExtractRequestInfo),
         NEW i \in 1 .. Len(struct), Reached(i),
         struct[i].src \in {"ctx", "header", "path", "query"}
  PROVE  /\ Read(struct[i]).out = "ok"
         /\ MustBeThere(struct[i]) /\ ~Blank(i) => Read(struct[i]).val.form # "zero"
         /\ struct[i].kind # "struct"
<1> DEFINE f == struct[i]
           given == asked.given[f.name]
           one == IF First(given) = "" THEN f.default ELSE First(given)
<1>0. \A v : Ok(v).out = "ok" /\ Ok(v).val = v
  BY DEF Ok
<1>1. DOMAIN struct = 1 .. Len(struct) /\ f \in StructFields
  BY StructTypes
<1>2. CASE f.src = "ctx"
  <2>1. f.kind = "ctx" /\ ~f.ptr
    BY <1>1, <1>2 DEF Documentable
  <2> QED
    BY <1>2, <2>1 DEF Read, Ok, Val
<1>3. CASE f.src \in {"header", "path", "query"}
  <2>1. \/ f.kind = "string"
        \/ f.kind = "int" /\ f.default \in Digits \cup {""}
        \/ f.kind = "strings" /\ f.src = "query" /\ ~f.ptr
    BY <1>1, <1>3 DEF Documentable
  <2>2. f.name \in DOMAIN asked.given
    <3>1. f.name \in Names
      BY <1>1 DEF StructFields
    <3> QED
      BY <3>1, RequestForm
  <2>3. PICK p \in ExtractRequestInfo.params :
          p.name = f.name /\ p.type = f.kind /\ p.required = IsRequired(f)
    <3>1. i \in Listed
      BY <1>3, ReachedIsListed
    <3>2. [in |-> f.src, name |-> f.name, type |-> f.kind, required |-> IsRequired(f)]
            \in ExtractRequestInfo.params
      BY <1>3, <3>1 DEF ExtractRequestInfo
    <3> QED
      BY <3>2
  <2>4. \/ given # <<>> /\ Conforms(given, f.kind)
        \/ given = <<>> /\ ~IsRequired(f)
    BY <2>2, <2>3 DEF Follows, Conforms
  <2>5. CASE given # <<>> /\ Conforms(given, f.kind)
    <3>1. CASE f.kind \in {"string", "int"}
      <4>1. First(given) = given[1] /\ (f.kind = "int" => First(given) \in Digits)
        BY <2>5, <3>1 DEF First, Conforms
      <4>2. f.kind = "int" => one \in Digits /\ First(given) # ""
        BY <4>1 DEF Digits
      <4>3. ParseField(f, First(given)) = Ok(Holds(f, one))
        BY <4>2 DEF ParseField, RunParser, Holds
      <4>4. Assign(f, ParseField(f, First(given))) = Ok(Holds(f, one))
        BY <3>1, <4>3 DEF Assign
      <4>5. Read(f) = Ok(Holds(f, one))
        BY <1>3, <2>5, <3>1, <4>1, <4>4 DEF Read, ParseFields
      <4>6. Read(f).out = "ok" /\ Read(f).val = Holds(f, one)
        BY <1>0, <4>5, Zenon
      <4>7. f.required /\ ~Blank(i) => Holds(f, one) # Nothing
        BY <1>3, <2>5, <3>1 DEF Blank
      <4>8. Holds(f, one) # Nothing => Holds(f, one).form # "zero"
        BY DEF Holds, Val
      <4> QED
        BY <3>1, <4>6, <4>7, <4>8 DEF MustBeThere
    <3>2. CASE f.kind = "strings" /\ f.src = "query" /\ ~f.ptr
      <4>1. \E t : Read(f) = Ok(Val(t))
        BY <2>5, <3>2 DEF Read, ParseFields
      <4> QED
        BY <1>0, <3>2, <4>1 DEF Val
    <3> QED
      BY <2>1, <3>1, <3>2
  <2>6. CASE given = <<>> /\ ~IsRequired(f)
    <3>1. /\ f.src \in {"header", "query"} /\ ~f.required /\ f.ptr
          /\ First(given) = "" /\ f.kind \in {"string", "int"}
      BY <1>3, <2>1, <2>6 DEF IsRequired, First
    <3>2. Assign(f, ParseField(f, "")).out = "ok"
      BY <2>1, <3>1 DEF Assign, ParseField, RunParser, Ok
    <3>3. Read(f).out = "ok"
      BY <2>6, <3>1, <3>2 DEF Read, ParseFields, Ok
    <3> QED
      BY <3>1, <3>3 DEF MustBeThere
  <2> QED
    BY <2>4, <2>5, <2>6
<1> QED
  BY <1>2, <1>3

(* A body is an object then, if there is one: no other is listed.           *)
LEMMA BodyFollows ==
  ASSUME struct \in Structs, NEW req, Documentable, Follows(req, ExtractRequestInfo),
         NEW i \in 1 .. Len(struct), Reached(i), struct[i].src = "body"
  PROVE  req.body.form \in {"none", "object"}
<1>1. Len(struct) \in Nat /\ DOMAIN struct = 1 .. Len(struct)
  BY StructTypes
<1>2. i \in Listed
  BY ReachedIsListed
<1>3. ASSUME NEW l \in Listed, struct[l].src = "body" PROVE l = i
  <2>1. l \in 1 .. Len(struct) /\ Reached(l)
    BY ListedIsReached
  <2> QED
    BY <1>1, <1>3, <2>1 DEF Documentable
<1>4. i <= i
  BY <1>1
<1>5. [field |-> i, required |-> struct[i].required] \in ExtractRequestInfo.body
  BY <1>2, <1>3, <1>4 DEF ExtractRequestInfo
<1> QED
  BY <1>5 DEF Follows

(* What is missing in an object is what has no value after it was read.     *)
LEMMA MissingIsZero ==
  ASSUME struct \in Structs, asked.body.form = "object",
         NEW i \in 1 .. Len(struct), NEW j \in Inside(i)
  PROVE  Missing(i, j) <=> MustBeThere(struct[j]) /\ Decoded(i, j).form = "zero"
<1>0. /\ Len(struct) \in Nat /\ DOMAIN struct = 1 .. Len(struct)
      /\ struct[i].inner \in Nat /\ i + struct[i].inner <= Len(struct)
  BY StructTypes
<1>1. j # i /\ j \in DOMAIN struct
  BY <1>0 DEF Inside
<1>2. /\ Nothing.form = "zero" /\ Struct.form = "struct" /\ Absent.form = "absent"
      /\ Val(<<"json">>).form = "value"
  BY DEF Nothing, Struct, Absent, Val
<1>3. CASE j \in Sent(i)
  <2>1. Decoded(i, j) = IF struct[j].kind = "struct" THEN Struct
                        ELSE IF Scalar(struct[j]) /\ j \in asked.body.zeros THEN Nothing
                        ELSE Val(<<"json">>)
    BY <1>3 DEF Decoded
  <2>2. Scalar(struct[j]) => struct[j].kind # "struct"
    BY DEF Scalar
  <2> QED
    BY <1>2, <1>3, <2>1, <2>2 DEF Missing
<1>4. CASE j \notin Sent(i)
  <2>1. Decoded(i, j) = Zero(i, Sent(i), j)
    BY <1>1, <1>4 DEF Decoded
  <2> DEFINE Cut == \E k \in DOMAIN struct \ Sent(i) : k > i /\ j \in Inside(k) /\ struct[k].ptr
  <2>2. Zero(i, Sent(i), j) =
          IF Cut THEN Absent
          ELSE IF struct[j].kind = "struct" /\ ~struct[j].ptr THEN Struct ELSE Nothing
    BY DEF Zero
  <2>3. Missing(i, j) <=> MustBeThere(struct[j]) /\ ~Cut
    BY <1>4 DEF Missing
  <2> HIDE DEF Cut
  <2> QED
    BY <1>2, <2>1, <2>2, <2>3 DEF MustBeThere
<1> QED
  BY <1>3, <1>4

-----------------------------------------------------------------------------
(* While ParseRequest runs for a request made from the document, that meets *)
(* with nothing the document does not say: whatever is required of the      *)
(* fields behind is there, those ahead are as they were, and the body is    *)
(* still there if a field ahead needs it.                                   *)
FromDocument == Documentable /\ Follows(asked, ExtractRequestInfo)

ThereBefore(v, n) == \A j \in 1 .. n - 1 : MustBeThere(struct[j]) => v[j].form # "zero"

DocsInv ==
  out # "none" /\ FromDocument =>
    /\ out # "panic"
    /\ ~Unsaid =>
         /\ out \in {"running", "ok"}
         /\ out = "running" =>
              /\ ThereBefore(vals, at)
              /\ \A j \in at .. Len(struct) : vals[j] = Zero(0, {}, j)
              /\ \A j \in at .. Len(struct) :
                   Reached(j) /\ struct[j].src = "body" => rest = "object"

(* If what is required is there, no struct is refused.                      *)
LEMMA ContinueThere ==
  ASSUME struct \in Structs, NEW n \in 1 .. Len(struct) + 1, Continue(n),
         ThereBefore(vals', n)
  PROVE  out' \in {"running", "ok"}
<1>1. /\ Len(struct) \in Nat /\ DOMAIN struct = 1 .. Len(struct)
      /\ \A i \in 1 .. Len(struct) : struct[i].inner \in Nat
  BY StructTypes
<1>2. ASSUME NEW fields \in Ending(n) PROVE fields \subseteq 1 .. n - 1
  BY <1>1, <1>2 DEF Ending, Inside, Behind
<1>3. \A fields \in Ending(n) : Valid(vals', fields)
  BY <1>2 DEF Valid, ThereBefore
<1> QED
  BY <1>3 DEF Continue

(* What is a matter of the type alone stays the same.                       *)
LEMMA SameStruct ==
  ASSUME UNCHANGED struct
  PROVE  /\ \A i : Reached(i)' <=> Reached(i)
         /\ \A j : Zero(0, {}, j)' = Zero(0, {}, j)
         /\ \A v, n : ThereBefore(v, n)' <=> ThereBefore(v, n)
         /\ Documentable' <=> Documentable
         /\ ExtractRequestInfo' = ExtractRequestInfo
         /\ \A req, doc : Follows(req, doc)' <=> Follows(req, doc)
<1>1. \A i : Reached(i)' <=> Reached(i)
  BY DEF Reached, Entered, Inside
<1>2. \A j : Zero(0, {}, j)' = Zero(0, {}, j)
  BY DEF Zero, Inside
<1>3. \A v, n : ThereBefore(v, n)' <=> ThereBefore(v, n)
  BY DEF ThereBefore
<1>4. Documentable' <=> Documentable
  BY <1>1 DEF Documentable, Inside
<1>5. Listed' = Listed
  BY DEF Listed, Inside
<1>6. ExtractRequestInfo' = ExtractRequestInfo
  BY <1>5 DEF ExtractRequestInfo
<1>7. \A req, doc : Follows(req, doc)' <=> Follows(req, doc)
  <2>1. \A i, body : Complete(i, body)' <=> Complete(i, body)
    BY DEF Complete, Inside
  <2> QED
    BY <2>1 DEF Follows
<1> QED
  BY <1>1, <1>2, <1>3, <1>4, <1>6, <1>7

LEMMA StillFromDocument ==
  ASSUME UNCHANGED <<struct, asked>>
  PROVE  (FromDocument' <=> FromDocument) /\ (Unsaid' <=> Unsaid)
<1>1. /\ Documentable' <=> Documentable
      /\ ExtractRequestInfo' = ExtractRequestInfo
      /\ \A req, doc : Follows(req, doc)' <=> Follows(req, doc)
      /\ \A i : Reached(i)' <=> Reached(i)
  BY SameStruct
<1>2. FromDocument' <=> FromDocument
  BY <1>1 DEF FromDocument
<1>3. \A i : Blank(i)' <=> Blank(i)
  BY DEF Blank
<1>4. \A i, j : Missing(i, j)' <=> Missing(i, j)
  <2>1. \A i : Sent(i)' = Sent(i) /\ Inside(i)' = Inside(i)
    BY DEF Sent, Inside
  <2> QED
    BY <2>1 DEF Missing
<1>5. Unsaid' <=> Unsaid
  <2>1. \A i : Inside(i)' = Inside(i)
    BY DEF Inside
  <2> QED
    BY <1>1, <1>3, <1>4, <2>1 DEF Unsaid
<1> QED
  BY <1>2, <1>5

(* A round at a field that was not refused.                                 *)
LEMMA RoundKeepsThere ==
  ASSUME BoundInv, DocsInv, FromDocument, ~Unsaid, out = "running", NEW n, Continue(n),
         (n = at + 1 /\ Entered(at)) \/ (n = Behind(at) /\ ~Entered(at)),
         UNCHANGED <<struct, asked>>,
         \A j \in 1 .. Len(struct) : j \notin at .. n - 1 => vals'[j] = vals[j],
         \A j \in at .. n - 1 : MustBeThere(struct[j]) => vals'[j].form # "zero",
         \A j \in n .. Len(struct) : Reached(j) /\ struct[j].src = "body" => rest' = "object"
  PROVE  DocsInv'
<1>1. /\ at \in 1 .. Len(struct) /\ Len(struct) \in Nat /\ struct \in Structs /\ Reached(at)
      /\ ThereBefore(vals, at)
      /\ \A j \in at .. Len(struct) : vals[j] = Zero(0, {}, j)
  BY StructTypes DEF BoundInv, DocsInv
<1>2. n \in at + 1 .. Len(struct) + 1
  BY <1>1, NextIsReached
<1>3. ThereBefore(vals', n)
  <2> SUFFICES ASSUME NEW j \in 1 .. n - 1, MustBeThere(struct[j])
               PROVE  vals'[j].form # "zero"
    BY DEF ThereBefore
  <2>1. CASE j \in at .. n - 1
    BY <2>1
  <2>2. CASE j \notin at .. n - 1
    <3>1. j \in 1 .. at - 1 /\ j \in 1 .. Len(struct)
      BY <1>1, <1>2, <2>2
    <3> QED
      BY <1>1, <2>2, <3>1 DEF ThereBefore
  <2> QED
    BY <2>1, <2>2
<1>4. n \in 1 .. Len(struct) + 1
  BY <1>1, <1>2
<1>5. out' \in {"running", "ok"} /\ at' = n
  BY <1>1, <1>3, <1>4, ContinueThere DEF Continue
<1>6. \A j \in n .. Len(struct) : vals'[j] = Zero(0, {}, j)
  BY <1>1, <1>2
<1> QED
  BY <1>1, <1>3, <1>5, <1>6, SameStruct DEF DocsInv

(* Nothing that follows the document makes reflection panic.                *)
LEMMA NoPanic ==
  ASSUME BoundInv, FromDocument, Tagged \/ Body \/ Untagged
  PROVE  out' # "panic"
<1>1. out = "running" /\ struct \in Structs /\ asked \in Incoming[struct]
  BY DEF BoundInv, Tagged, Body, Untagged
<1>2. at \in 1 .. Len(struct) /\ Reached(at)
  BY <1>1, StructTypes DEF BoundInv
<1>3. CASE Tagged
  <2>1. Read(struct[at]).out = "ok"
    BY <1>1, <1>2, <1>3, ReadFollows DEF Tagged, FromDocument
  <2> QED
    BY <1>3, <2>1 DEF Tagged, Continue
<1>4. CASE Body \/ Untagged
  BY <1>4 DEF Body, Untagged, Continue, Fail
<1> QED
  BY <1>3, <1>4

LEMMA DocsAreKept == BindSpec => []DocsInv
<1>1. BindInit => DocsInv
  BY DEF BindInit, DocsInv
<1>2. BoundInv /\ DocsInv /\ [BindNext]_bindVars => DocsInv'
  <2> SUFFICES ASSUME BoundInv, DocsInv, [BindNext]_bindVars PROVE DocsInv'
    OBVIOUS
  <2> DEFINE Smooth == FromDocument /\ ~Unsaid
  <2>0. /\ struct \in Structs /\ Len(struct) \in Nat /\ DOMAIN struct = 1 .. Len(struct)
        /\ out # "none" => DOMAIN vals = DOMAIN struct /\ asked \in Incoming[struct]
        /\ out = "running" => at \in 1 .. Len(struct) /\ Reached(at)
    BY StructTypes DEF BoundInv
  <2>1. CASE ParseRequest
    <3>1. /\ struct' = struct /\ at' = 1 /\ asked' \in Incoming[struct]
          /\ rest' = asked'.body.form /\ vals' = [i \in DOMAIN struct |-> Zero(0, {}, i)]
          /\ out' \in {"running", "ok"}
      BY <2>1 DEF ParseRequest, BoundInv
    <3>2. ASSUME FromDocument', ~Unsaid', NEW j \in 1 .. Len(struct), Reached(j)',
                 struct[j].src = "body"
          PROVE  rest' = "object"
      <4>1. Documentable /\ Reached(j) /\ Follows(asked', ExtractRequestInfo)
        BY <3>1, <3>2, SameStruct DEF FromDocument
      <4>2. asked'.body.form \in {"none", "object"}
        BY <2>0, <3>2, <4>1, BodyFollows
      <4>3. asked'.body.form # "none"
        BY <2>0, <3>1, <3>2 DEF Unsaid
      <4> QED
        BY <3>1, <4>2, <4>3
    <3>3. \A j : Zero(0, {}, j)' = Zero(0, {}, j)
      BY <3>1, SameStruct
    <3>4. ThereBefore(vals, at)'
      BY <3>1 DEF ThereBefore
    <3> QED
      BY <2>0, <3>1, <3>2, <3>3, <3>4 DEF DocsInv
  <2>2. CASE (Tagged \/ Body \/ Untagged) /\ ~Smooth
    <3>1. UNCHANGED <<struct, asked>>
      BY <2>2 DEF Tagged, Body, Untagged
    <3>2. (FromDocument' <=> FromDocument) /\ (Unsaid' <=> Unsaid)
      BY <3>1, StillFromDocument
    <3>3. FromDocument => out' # "panic"
      BY <2>2, NoPanic
    <3> QED
      BY <2>2, <3>2, <3>3 DEF DocsInv
  <2>3. CASE Tagged /\ Smooth
    <3> DEFINE r == Read(struct[at])
    <3>1. /\ out = "running" /\ at \in 1 .. Len(struct) /\ Reached(at) /\ ~Entered(at)
          /\ struct[at].src \in {"ctx", "header", "path", "query"}
          /\ UNCHANGED <<struct, asked, rest>> /\ asked \in Incoming[struct]
      BY <2>0, <2>3 DEF Tagged, Entered
    <3>2. /\ r.out = "ok" /\ (MustBeThere(struct[at]) => r.val.form # "zero")
          /\ struct[at].kind # "struct"
      <4>1. ~Blank(at)
        BY <2>0, <2>3, <3>1 DEF Unsaid
      <4> QED
        BY <2>0, <2>3, <3>1, <4>1, ReadFollows DEF FromDocument
    <3>3. vals' = [vals EXCEPT ![at] = r.val] /\ Continue(Behind(at))
      BY <2>3, <3>2 DEF Tagged
    <3> HIDE DEF r
    <3>4. Behind(at) = at + 1
      BY <2>0, <3>1, <3>2, StructTypes DEF Behind
    <3>5. \A j \in 1 .. Len(struct) : j \notin at .. Behind(at) - 1 => vals'[j] = vals[j]
      BY <2>0, <3>1, <3>3, <3>4
    <3>6. \A j \in at .. Behind(at) - 1 : MustBeThere(struct[j]) => vals'[j].form # "zero"
      BY <2>0, <3>1, <3>2, <3>3, <3>4
    <3>7. \A j \in Behind(at) .. Len(struct) :
            Reached(j) /\ struct[j].src = "body" => rest' = "object"
      BY <2>0, <2>3, <3>1, <3>4 DEF DocsInv
    <3> QED
      BY <2>3, <3>1, <3>3, <3>5, <3>6, <3>7, RoundKeepsThere
  <2>4. CASE Body /\ Smooth
    <3>1. /\ out = "running" /\ at \in 1 .. Len(struct) /\ Reached(at) /\ ~Entered(at)
          /\ struct[at].src = "body" /\ UNCHANGED <<struct, asked>>
      BY <2>0, <2>4 DEF Body, Entered
    <3>2. rest = "object" /\ asked.body.form = "object"
      <4>1. rest = "object"
        BY <2>0, <2>4, <3>1 DEF DocsInv
      <4> QED
        BY <3>1, <4>1 DEF BoundInv
    <3>3. /\ vals' = [j \in DOMAIN struct |->
                        IF j \in {at} \cup Inside(at) THEN Decoded(at, j) ELSE vals[j]]
          /\ Continue(Behind(at))
      BY <2>4, <3>2 DEF Body
    <3>4. ASSUME NEW j \in 1 .. Len(struct), j \notin at .. Behind(at) - 1
          PROVE  vals'[j] = vals[j]
      <4>1. j # at /\ j \notin Inside(at)
        BY <2>0, <3>1, <3>4, StructTypes DEF Behind, Inside
      <4> QED
        BY <2>0, <3>3, <3>4, <4>1
    <3>5. ASSUME NEW j \in at .. Behind(at) - 1, MustBeThere(struct[j])
          PROVE  vals'[j].form # "zero"
      <4>1. j \in 1 .. Len(struct) /\ (j = at \/ j \in Inside(at))
        BY <2>0, <3>1, <3>5, StructTypes DEF Behind, Inside
      <4>2. vals'[j] = Decoded(at, j)
        BY <2>0, <3>3, <4>1
      <4>3. CASE j = at
        <5>1. struct[at].kind = "struct"
          BY <2>0, <3>1, BindingAssumption DEF BindingAssumption
        <5>2. Decoded(at, at) = Struct
          BY <3>2, <5>1 DEF Decoded
        <5> QED
          BY <4>2, <4>3, <5>2 DEF Struct
      <4>4. CASE j \in Inside(at)
        <5>1. ~Missing(at, j)
          BY <2>0, <2>4, <3>1, <4>4 DEF Unsaid
        <5> QED
          BY <2>0, <3>1, <3>2, <3>5, <4>2, <4>4, <5>1, MissingIsZero
      <4> QED
        BY <4>1, <4>3, <4>4
    <3>6. ASSUME NEW j \in Behind(at) .. Len(struct), Reached(j), struct[j].src = "body"
          PROVE  FALSE
      <4>1. j \in 1 .. Len(struct) /\ j # at
        BY <2>0, <3>1, <3>6, StructTypes DEF Behind
      <4> QED
        BY <2>0, <2>4, <3>1, <3>6, <4>1 DEF FromDocument, Documentable
    <3> QED
      BY <2>4, <3>1, <3>3, <3>4, <3>5, <3>6, RoundKeepsThere
  <2>5. CASE Untagged /\ Smooth
    <3>1. /\ out = "running" /\ at \in 1 .. Len(struct) /\ Reached(at)
          /\ struct[at].src = "" /\ UNCHANGED <<struct, asked, rest, vals>>
          /\ Continue(NextField(at))
      BY <2>0, <2>5 DEF Untagged
    <3>2. PICK n : /\ n = NextField(at)
                   /\ \/ n = at + 1 /\ Entered(at)
                      \/ n = Behind(at) /\ ~Entered(at)
      BY DEF NextField
    <3>3. struct[at].kind = "struct" /\ ~(struct[at].ptr /\ struct[at].required)
      BY <2>0, <2>5, <3>1 DEF FromDocument, Documentable
    <3>4. n \in at + 1 .. Len(struct) + 1 /\ \A j \in at + 1 .. n - 1 : j \in Inside(at)
      BY <2>0, <3>1, <3>2, NextIsReached
    <3>0. at \in Nat /\ at > 0 /\ n \in Nat /\ n > at /\ Len(struct) \in Nat
          /\ n <= Len(struct) + 1
      <4>1. at \in 1 .. Len(struct) /\ Len(struct) \in Nat
        BY <2>0, <3>1
      <4> QED
        BY <3>4, <4>1
    <3>5. ASSUME NEW j \in at .. n - 1, MustBeThere(struct[j])
          PROVE  vals'[j].form # "zero"
      <4>1. j # at
        BY <3>3, <3>5 DEF MustBeThere
      <4>2. j \in at + 1 .. n - 1 /\ j \in at .. Len(struct) /\ n # at + 1
        BY <3>0, <3>5, <4>1
      <4>3. j \in Inside(at) /\ ~Entered(at)
        BY <3>2, <3>4, <4>2
      <4>4. struct[at].ptr
        BY <3>1, <3>3, <4>3 DEF Entered
      <4>5. at \in DOMAIN struct \ {} /\ at > 0
        BY <2>0, <3>1, <3>0
      <4>6. Zero(0, {}, j) = Absent
        BY <4>3, <4>4, <4>5, Zenon DEF Zero
      <4>7. vals[j] = Absent
        BY <2>5, <3>1, <4>2, <4>6 DEF DocsInv
      <4>8. vals'[j] = Absent
        BY <3>1, <4>7
      <4> QED
        BY <4>8 DEF Absent
    <3>6. ASSUME NEW j \in n .. Len(struct), Reached(j), struct[j].src = "body"
          PROVE  rest' = "object"
      <4>1. j \in at .. Len(struct)
        BY <3>0, <3>6
      <4> QED
        BY <2>5, <3>1, <3>6, <4>1 DEF DocsInv
    <3>7. Continue(n) /\ \A j \in 1 .. Len(struct) : j \notin at .. n - 1 => vals'[j] = vals[j]
      BY <3>1, <3>2
    <3> QED
      BY <2>5, <3>1, <3>2, <3>5, <3>6, <3>7, RoundKeepsThere
  <2>6. CASE UNCHANGED bindVars
    <3>1. UNCHANGED <<struct, asked, rest, at, vals, out>>
      BY <2>6 DEF bindVars
    <3> QED
      BY <3>1, SameStruct, StillFromDocument DEF DocsInv
  <2> QED
    BY <2>1, <2>2, <2>3, <2>4, <2>5, <2>6 DEF BindNext
<1> QED
  BY <1>1, <1>2, BoundIsKept, PTL DEF BindSpec

(* A request made from the document is refused, for structs of any depth,   *)
(* exactly if it comes upon one of the three things the document does not   *)
(* say: a required parameter with the zero value of its type, a body that   *)
(* is optional and not there, a field required in a body and without a      *)
(* value.  None makes reflection panic.                                     *)
THEOREM RefusedForTheUnsaid == BindSpec => []DocsMatchBinding
<1>1. BoundInv /\ DocsInv => DocsMatchBinding
  <2> SUFFICES ASSUME BoundInv, DocsInv, FromDocument, out = "ok", Unsaid
               PROVE  FALSE
    BY DEF DocsInv, DocsMatchBinding, FromDocument
  <2>1. /\ struct \in Structs /\ DOMAIN struct = 1 .. Len(struct)
        /\ \A j \in DOMAIN struct : MustBeThere(struct[j]) => vals[j].form # "zero"
    BY StructTypes DEF BoundInv, Valid
  <2>2. PICK i \in 1 .. Len(struct) :
          /\ Reached(i)
          /\ \/ Blank(i)
             \/ struct[i].src = "body" /\ asked.body.form = "none"
             \/ struct[i].src = "body" /\ \E j \in Inside(i) : Missing(i, j)
    BY <2>1 DEF Unsaid
  <2>3. Understood(i, vals)
    BY <2>1, <2>2 DEF BoundInv
  <2>4. CASE Blank(i)
    <3>1. /\ struct[i].src \in {"header", "path", "query"} /\ struct[i].kind # "strings"
          /\ struct[i].required /\ vals[i] = Nothing
      BY <2>3, <2>4 DEF Blank, Understood, Bound
    <3>2. struct[i].kind # "struct"
      BY <2>1, <2>2, <3>1 DEF FromDocument, Documentable
    <3> QED
      BY <2>1, <3>1, <3>2 DEF MustBeThere, Nothing
  <2>5. CASE struct[i].src = "body" /\ asked.body.form = "none"
    BY <2>3, <2>5 DEF Understood, Bound
  <2>6. ASSUME struct[i].src = "body", NEW j \in Inside(i), Missing(i, j) PROVE FALSE
    <3>1. asked.body.form = "object"
      <4>1. asked.body.form \in {"none", "object"}
        BY <2>1, <2>2, <2>6, BodyFollows DEF FromDocument
      <4> QED
        BY <2>3, <2>6, <4>1 DEF Understood, Bound
    <3>2. vals[j] = Decoded(i, j)
      BY <2>3, <2>6 DEF Understood
    <3>3. j \in DOMAIN struct
      BY <2>1, <2>2, StructTypes DEF Inside
    <3> QED
      BY <2>1, <2>2, <2>6, <3>1, <3>2, <3>3, MissingIsZero
  <2> QED
    BY <2>2, <2>4, <2>5, <2>6
<1> QED
  BY <1>1, BoundIsKept, DocsAreKept, PTL

-----------------------------------------------------------------------------
(* Texts, and functions on their positions                                  *)

(* Induction over the numbers up to n, of a set instead of a formula.       *)
LEMMA UpTo ==
  ASSUME NEW n \in Nat, NEW S, 0 \in S,
         \A k \in 0 .. n - 1 : k \in S => k + 1 \in S
  PROVE  \A k \in 0 .. n : k \in S
<1> DEFINE D == {k \in 0 .. n : k \notin S}
<1>1. SUFFICES ASSUME D # {} PROVE FALSE
  OBVIOUS
<1>2. PICK x \in D : \A y \in D : x <= y
  <2>1. D \in SUBSET Nat
    OBVIOUS
  <2> HIDE DEF D
  <2> QED BY <1>1, <2>1, LeastNumber
<1>3. x # 0 /\ x - 1 \in 0 .. n - 1
  BY <1>2
<1>4. x - 1 \in S
  BY <1>2, <1>3
<1>5. x - 1 + 1 \in S
  BY <1>3, <1>4
<1> QED
  BY <1>2, <1>5

(* What a text is made of.                                                  *)
Token == STRING \cup {"$", ":", Opening, Closing}
Texts == Seq(Token)

(* The recursive function that puts texts together is there: some function  *)
(* is what its definition says.                                             *)
LEMMA FlattenIsThere ==
  ASSUME NEW n \in Nat, NEW c
  PROVE  \E f : f = [i \in 1 .. n |-> IF i = 1 THEN c[i] ELSE f[i - 1] \o c[i]]
<1> DEFINE Good(f, k) == \A i \in 1 .. k : f[i] = IF i = 1 THEN c[i] ELSE f[i - 1] \o c[i]
           S == {k \in 0 .. n : \E f : Good(f, k)}
<1>1. 0 \in S
  OBVIOUS
<1>2. ASSUME NEW k \in 0 .. n - 1, k \in S PROVE k + 1 \in S
  <2>1. PICK f : Good(f, k)
    BY <1>2
  <2> DEFINE g == [i \in 1 .. k + 1 |->
                    IF i \in 1 .. k THEN f[i]
                    ELSE IF i = 1 THEN c[i] ELSE f[i - 1] \o c[i]]
  <2>2. ASSUME NEW i \in 1 .. k + 1
        PROVE  g[i] = IF i = 1 THEN c[i] ELSE g[i - 1] \o c[i]
    <3>1. i # 1 => i - 1 \in 1 .. k /\ i - 1 \in 1 .. k + 1
      OBVIOUS
    <3>2. CASE i \in 1 .. k
      <4>1. f[i] = IF i = 1 THEN c[i] ELSE f[i - 1] \o c[i]
        BY <2>1, <3>2
      <4> QED BY <3>1, <3>2, <4>1
    <3>3. CASE i \notin 1 .. k
      BY <3>1, <3>3
    <3> QED BY <3>2, <3>3
  <2> HIDE DEF g
  <2>3. Good(g, k + 1)
    BY <2>2
  <2> QED BY <2>3
<1>3. n \in S
  <2>0. n \in 0 .. n
    OBVIOUS
  <2> HIDE DEF S
  <2> QED BY <1>1, <1>2, <2>0, UpTo
<1>4. PICK f : Good(f, n)
  BY <1>3
<1> DEFINE h == [i \in 1 .. n |-> f[i]]
<1>5. ASSUME NEW i \in 1 .. n PROVE h[i] = IF i = 1 THEN c[i] ELSE h[i - 1] \o c[i]
  <2>1. i # 1 => i - 1 \in 1 .. n
    OBVIOUS
  <2> QED BY <1>4, <2>1
<1>6. h = [i \in 1 .. n |-> IF i = 1 THEN c[i] ELSE h[i - 1] \o c[i]]
  <2>1. h = [i \in 1 .. n |-> h[i]]
    OBVIOUS
  <2> HIDE DEF h
  <2> QED BY <1>5, <2>1
<1> QED BY <1>6

(* The texts of a sequence one after another, from the first on.            *)
LEMMA FlattenSteps ==
  ASSUME NEW c \in Seq(Texts)
  PROVE  \E F \in [0 .. Len(c) -> Texts] :
           /\ F[0] = <<>> /\ F[Len(c)] = FlattenSeq(c)
           /\ \A i \in 1 .. Len(c) : F[i] = F[i - 1] \o c[i]
<1>0. Len(c) \in Nat /\ \A i \in 1 .. Len(c) : c[i] \in Texts
  BY LenProperties
<1>e. <<>> \in Texts /\ \A s, t \in Texts : <<>> \o s = s /\ s \o t \in Texts
  BY EmptySeq, ConcatEmptySeq, ConcatProperties DEF Texts
<1>1. CASE Len(c) = 0
  <2>1. c = <<>> /\ FlattenSeq(c) = <<>>
    BY <1>1, EmptySeq DEF FlattenSeq
  <2> DEFINE F == [i \in 0 .. Len(c) |-> <<>>]
  <2>2. F \in [0 .. Len(c) -> Texts] /\ F[0] = <<>> /\ F[Len(c)] = <<>>
    BY <1>1, <1>e
  <2>3. 1 .. Len(c) = {}
    BY <1>1
  <2> HIDE DEF F
  <2> QED BY <2>1, <2>2, <2>3
<1>2. CASE Len(c) # 0
  <2> DEFINE Flat(g) == g = [i \in 1 .. Len(c) |-> IF i = 1 THEN c[i] ELSE g[i - 1] \o c[i]]
             f == CHOOSE g : Flat(g)
  <2>1. FlattenSeq(c) = f[Len(c)]
    BY <1>2, Zenon DEF FlattenSeq
  <2>2. \E g : Flat(g)
    BY <1>0, FlattenIsThere
  <2>3. Flat(f)
    <3> HIDE DEF Flat
    <3> QED BY <2>2
  <2> HIDE DEF f
  <2>4. \A i \in 1 .. Len(c) : f[i] = IF i = 1 THEN c[i] ELSE f[i - 1] \o c[i]
    BY <2>3
  <2> DEFINE F == [i \in 0 .. Len(c) |-> IF i = 0 THEN <<>> ELSE f[i]]
  <2>5. F[0] = <<>> /\ F[Len(c)] = f[Len(c)] /\ DOMAIN F = 0 .. Len(c)
    BY <1>0, <1>2
  <2>5a. F = [i \in 0 .. Len(c) |-> F[i]]
    OBVIOUS
  <2>6. ASSUME NEW i \in 1 .. Len(c)
        PROVE  F[i] = IF i = 1 THEN c[1] ELSE F[i - 1] \o c[i]
    <3>1. i \in 0 .. Len(c) /\ i # 0 /\ (i # 1 => i - 1 \in 0 .. Len(c) /\ i - 1 # 0)
      BY <1>0
    <3> QED BY <2>4, <3>1
  <2> HIDE DEF F
  <2>7. \A i \in 1 .. Len(c) : F[i - 1] \in Texts => F[i] = F[i - 1] \o c[i]
    <3> TAKE i \in 1 .. Len(c)
    <3>1. CASE i = 1
      <4>1. i - 1 = 0
        BY <3>1
      <4>2. F[i] = c[i] /\ c[i] \in Texts
        BY <1>0, <2>6, <3>1
      <4> QED BY <1>e, <2>5, <4>1, <4>2
    <3>2. CASE i # 1
      BY <2>6, <3>2
    <3> QED BY <3>1, <3>2
  <2> DEFINE S == {k \in 0 .. Len(c) : F[k] \in Texts}
  <2>8. 0 \in S
    BY <1>0, <1>e, <2>5
  <2>9. ASSUME NEW k \in 0 .. Len(c) - 1, k \in S PROVE k + 1 \in S
    <3>1. k + 1 \in 1 .. Len(c) /\ k + 1 \in 0 .. Len(c) /\ k + 1 - 1 = k
      BY <1>0
    <3>2. c[k + 1] \in Texts /\ F[k] \in Texts
      BY <1>0, <2>9, <3>1
    <3>3. F[k + 1] = F[k] \o c[k + 1]
      <4>1. PICK m \in 1 .. Len(c) : m = k + 1 /\ m - 1 = k
        BY <3>1
      <4>2. F[m - 1] \in Texts => F[m] = F[m - 1] \o c[m]
        BY <2>7
      <4> QED BY <3>2, <4>1, <4>2
    <3>4. F[k + 1] \in Texts
      BY <1>e, <3>2, <3>3
    <3> QED BY <3>1, <3>4
  <2>10. \A k \in 0 .. Len(c) : F[k] \in Texts
    <3>1. \A k \in 0 .. Len(c) : k \in S
      <4> HIDE DEF S
      <4> QED BY <1>0, <2>8, <2>9, UpTo
    <3> QED BY <3>1
  <2>11. F \in [0 .. Len(c) -> Texts]
    BY <2>5a, <2>10
  <2>12. ASSUME NEW i \in 1 .. Len(c) PROVE F[i] = F[i - 1] \o c[i]
    <3>1. i - 1 \in 0 .. Len(c)
      BY <1>0
    <3> QED BY <2>7, <2>10, <3>1
  <2> QED BY <2>1, <2>5, <2>11, <2>12
<1> QED BY <1>1, <1>2

(* Induction from the last position down to the first.                      *)
LEMMA DownTo ==
  ASSUME NEW n \in Nat, NEW S, n + 1 \in S,
         \A k \in 1 .. n : (\A j \in k + 1 .. n + 1 : j \in S) => k \in S
  PROVE  \A k \in 1 .. n + 1 : k \in S
<1> DEFINE D == {k \in 0 .. n : n + 1 - k \notin S}
<1>1. SUFFICES ASSUME D # {} PROVE FALSE
  <2>1. ASSUME NEW k \in 1 .. n + 1, k \notin S PROVE D # {}
    <3>1. n + 1 - k \in 0 .. n /\ n + 1 - (n + 1 - k) = k
      OBVIOUS
    <3>2. n + 1 - k \in D
      BY <2>1, <3>1
    <3> QED BY <3>2
  <2> QED BY <2>1
<1>2. PICK x \in D : \A y \in D : x <= y
  <2>1. D \in SUBSET Nat
    OBVIOUS
  <2> HIDE DEF D
  <2> QED BY <1>1, <2>1, LeastNumber
<1>3. x \in 0 .. n /\ n + 1 - x \notin S /\ x # 0
  OBVIOUS
<1>4. n + 1 - x \in 1 .. n
  BY <1>3
<1>5. ASSUME NEW j \in (n + 1 - x) + 1 .. n + 1 PROVE j \in S
  <2>1. n + 1 - j \in 0 .. n /\ n + 1 - j < x /\ n + 1 - (n + 1 - j) = j
    BY <1>3
  <2>2. n + 1 - j \notin D
    BY <1>2, <2>1
  <2> QED BY <2>1, <2>2
<1> QED BY <1>3, <1>4, <1>5

(* A function that looks ahead: at a position it has what that adds, and    *)
(* then what it is at a later one.  There is one.                           *)
Forward(next, n) ==
  next \in [1 .. n -> 1 .. n + 1] /\ \A i \in 1 .. n : next[i] > i

BackFrom(f, n, X, p, next) ==
  /\ f \in [1 .. n + 1 -> Seq(X)]
  /\ f[n + 1] = <<>>
  /\ \A i \in 1 .. n : f[i] = p[i] \o f[next[i]]

LEMMA FromBehind ==
  ASSUME NEW n \in Nat, NEW X, NEW p \in [1 .. n -> Seq(X)],
         NEW next, Forward(next, n)
  PROVE  \E f : BackFrom(f, n, X, p, next)
<1>0. next \in [1 .. n -> 1 .. n + 1] /\ \A i \in 1 .. n : next[i] > i
  BY DEF Forward
<1> DEFINE Good(f, k) == /\ f[n + 1] = <<>>
                         /\ \A i \in k .. n : f[i] = p[i] \o f[next[i]]
           S == {k \in 1 .. n + 1 : \E f \in [k .. n + 1 -> Seq(X)] : Good(f, k)}
<1>1. n + 1 \in S
  <2> DEFINE f == [i \in n + 1 .. n + 1 |-> <<>>]
  <2>1. f \in [n + 1 .. n + 1 -> Seq(X)]
    BY EmptySeq
  <2>2. f[n + 1] = <<>> /\ n + 1 .. n = {} /\ n + 1 \in 1 .. n + 1
    OBVIOUS
  <2> HIDE DEF f
  <2> QED BY <2>1, <2>2
<1>2. ASSUME NEW k \in 1 .. n, k + 1 \in S PROVE k \in S
  <2>1. PICK f \in [k + 1 .. n + 1 -> Seq(X)] : Good(f, k + 1)
    BY <1>2
  <2>2. next[k] \in k + 1 .. n + 1 /\ p[k] \in Seq(X)
    BY <1>0
  <2> DEFINE g == [i \in k .. n + 1 |-> IF i = k THEN p[k] \o f[next[k]] ELSE f[i]]
  <2>3. g[k] = p[k] \o f[next[k]] /\ \A i \in k + 1 .. n + 1 : g[i] = f[i]
    <3>1. k \in k .. n + 1 /\ \A i \in k + 1 .. n + 1 : i \in k .. n + 1 /\ i # k
      OBVIOUS
    <3> QED BY <3>1
  <2>4. g \in [k .. n + 1 -> Seq(X)]
    <3>1. p[k] \o f[next[k]] \in Seq(X)
      BY <2>2, ConcatProperties
    <3>2. \A i \in k .. n + 1 : i # k => i \in k + 1 .. n + 1
      OBVIOUS
    <3> QED BY <3>1, <3>2
  <2> HIDE DEF g
  <2>5. g[n + 1] = <<>>
    <3>1. n + 1 \in k + 1 .. n + 1
      OBVIOUS
    <3> QED BY <2>1, <2>3, <3>1
  <2>6. ASSUME NEW i \in k .. n PROVE g[i] = p[i] \o g[next[i]]
    <3>1. i \in 1 .. n /\ next[i] \in k + 1 .. n + 1
      BY <1>0
    <3>2. g[next[i]] = f[next[i]]
      BY <2>3, <3>1
    <3>3. CASE i = k
      BY <2>3, <3>2, <3>3
    <3>4. CASE i # k
      <4>1. i \in k + 1 .. n /\ i \in k + 1 .. n + 1
        BY <3>4
      <4>2. f[i] = p[i] \o f[next[i]]
        BY <2>1, <4>1
      <4> QED BY <2>3, <3>2, <4>1, <4>2
    <3> QED BY <3>3, <3>4
  <2>7. Good(g, k)
    BY <2>5, <2>6, Zenon
  <2>8. k \in 1 .. n + 1
    OBVIOUS
  <2> HIDE DEF Good
  <2> QED BY <2>4, <2>7, <2>8
<1>3. \A k \in 1 .. n + 1 : k \in S
  <2>1. ASSUME NEW k \in 1 .. n, \A j \in k + 1 .. n + 1 : j \in S PROVE k \in S
    <3>1. k + 1 \in k + 1 .. n + 1
      OBVIOUS
    <3> HIDE DEF S
    <3> QED BY <1>2, <2>1, <3>1
  <2> HIDE DEF S
  <2> QED BY <1>1, <2>1, DownTo
<1>4. 1 \in S
  <2>1. 1 \in 1 .. n + 1
    OBVIOUS
  <2> HIDE DEF S
  <2> QED BY <1>3, <2>1
<1> QED BY <1>4 DEF BackFrom

(* What is behind the k-th text of a sequence: the texts from k on.         *)
Tails(c, R) ==
  /\ R \in [1 .. Len(c) + 1 -> Texts]
  /\ R[Len(c) + 1] = <<>>
  /\ \A k \in 1 .. Len(c) : R[k] = c[k] \o R[k + 1]

LEMMA TailsAreThere ==
  ASSUME NEW c \in Seq(Texts)
  PROVE  \E R : Tails(c, R)
<1>0. PICK n \in Nat : n = Len(c)
  BY LenProperties
<1>1. c \in [1 .. n -> Seq(Token)]
  BY <1>0, LenProperties DEF Texts
<1> DEFINE next == [i \in 1 .. n |-> i + 1]
<1>2. next \in [1 .. n -> 1 .. n + 1] /\ \A i \in 1 .. n : next[i] = i + 1
  OBVIOUS
<1>2a. Forward(next, n)
  BY DEF Forward
<1> HIDE DEF next
<1>3. PICK R : BackFrom(R, n, Token, c, next)
  BY <1>0, <1>1, <1>2a, FromBehind, Zenon
<1>4. /\ R \in [1 .. n + 1 -> Texts] /\ R[n + 1] = <<>>
      /\ \A k \in 1 .. n : R[k] = c[k] \o R[next[k]] /\ next[k] = k + 1
  BY <1>2, <1>3 DEF BackFrom, Texts
<1> QED BY <1>0, <1>4 DEF Tails

(* Putting texts together needs no brackets.                                *)
LEMMA Associative ==
  \A s, t, u \in Texts : (s \o t) \o u = s \o (t \o u)
BY ConcatAssociative DEF Texts

(* All texts together are those before one and those from it on.            *)
LEMMA FlattenIsTails ==
  ASSUME NEW c \in Seq(Texts), NEW R, Tails(c, R)
  PROVE  R[1] = FlattenSeq(c)
<1>0. PICK n \in Nat : n = Len(c)
  BY LenProperties
<1>1. PICK F \in [0 .. n -> Texts] :
        /\ F[0] = <<>> /\ F[n] = FlattenSeq(c)
        /\ \A i \in 1 .. n : F[i] = F[i - 1] \o c[i]
  BY <1>0, FlattenSteps
<1>2. /\ R \in [1 .. n + 1 -> Texts] /\ R[n + 1] = <<>>
      /\ \A k \in 1 .. n : R[k] = c[k] \o R[k + 1] /\ c[k] \in Texts
  BY <1>0, LenProperties DEF Tails
<1> DEFINE S == {k \in 0 .. n : F[k] \o R[k + 1] = R[1]}
<1>3. 0 \in S
  <2>1. 1 \in 1 .. n + 1 /\ 0 + 1 = 1 /\ R[1] \in Texts
    BY <1>2
  <2>2. <<>> \o R[1] = R[1]
    BY <2>1, ConcatEmptySeq DEF Texts
  <2>3. 0 \in 0 .. n /\ F[0] = <<>>
    BY <1>1
  <2> QED BY <2>1, <2>2, <2>3
<1>4. ASSUME NEW k \in 0 .. n - 1, k \in S PROVE k + 1 \in S
  <2>1. PICK m \in 1 .. n : m = k + 1 /\ m - 1 = k
    OBVIOUS
  <2>1a. k \in 0 .. n /\ m + 1 \in 1 .. n + 1
    OBVIOUS
  <2>2. F[m] = F[k] \o c[m] /\ R[m] = c[m] \o R[m + 1]
    BY <1>1, <1>2, <2>1
  <2>3. F[k] \in Texts /\ c[m] \in Texts /\ R[m + 1] \in Texts
    BY <1>1, <1>2, <2>1a
  <2>4. F[m] \o R[m + 1] = F[k] \o (c[m] \o R[m + 1])
    <3>1. (F[k] \o c[m]) \o R[m + 1] = F[k] \o (c[m] \o R[m + 1])
      BY <2>3, Associative
    <3> QED BY <2>2, <3>1
  <2>5. F[k] \o R[m] = R[1]
    BY <1>4, <2>1
  <2>6. F[m] \o R[m + 1] = R[1] /\ m \in 0 .. n
    BY <2>2, <2>4, <2>5
  <2> QED BY <2>1, <2>6
<1>5. n \in S
  <2>1. n \in 0 .. n
    OBVIOUS
  <2> HIDE DEF S
  <2> QED BY <1>3, <1>4, <2>1, UpTo
<1> QED
  <2>1. F[n] \in Texts /\ F[n] \o <<>> = R[1]
    BY <1>1, <1>2, <1>5
  <2> QED BY <1>1, <2>1, ConcatEmptySeq DEF Texts

(* Where the texts of a sequence are in all of them together.               *)
Laid(t, c, pos) ==
  /\ t \in Texts
  /\ pos \in [1 .. Len(c) + 1 -> Nat \ {0}]
  /\ pos[1] = 1 /\ pos[Len(c) + 1] = Len(t) + 1
  /\ \A k \in 1 .. Len(c) :
       /\ pos[k + 1] = pos[k] + Len(c[k]) /\ pos[k + 1] <= Len(t) + 1
       /\ \A j \in 1 .. Len(c[k]) : t[pos[k] + j - 1] = c[k][j]

LEMMA Layout ==
  ASSUME NEW c \in Seq(Texts)
  PROVE  \E pos : Laid(FlattenSeq(c), c, pos)
<1>0. PICK n \in Nat : n = Len(c)
  BY LenProperties
<1>1. PICK F \in [0 .. n -> Texts] :
        /\ F[0] = <<>> /\ F[n] = FlattenSeq(c)
        /\ \A i \in 1 .. n : F[i] = F[i - 1] \o c[i]
  BY <1>0, FlattenSteps
<1> DEFINE pos == [k \in 1 .. n + 1 |-> Len(F[k - 1]) + 1]
<1>2. ASSUME NEW k \in 0 .. n PROVE Len(F[k]) \in Nat /\ pos[k + 1] = Len(F[k]) + 1
  <2>1. F[k] \in Texts /\ k + 1 \in 1 .. n + 1 /\ k + 1 - 1 = k
    BY <1>1
  <2> QED BY <2>1, LenProperties DEF Texts
<1>3. pos \in [1 .. n + 1 -> Nat \ {0}]
  <2>1. ASSUME NEW k \in 1 .. n + 1 PROVE Len(F[k - 1]) + 1 \in Nat \ {0}
    <3>1. k - 1 \in 0 .. n
      OBVIOUS
    <3> QED BY <1>2, <3>1
  <2> QED BY <2>1
<1>4. pos[1] = 1
  <2>1. 1 \in 1 .. n + 1 /\ 1 - 1 = 0 /\ Len(F[0]) = 0
    BY <1>1, EmptySeq
  <2> QED BY <2>1
<1> HIDE DEF pos
<1>5. \A k \in 1 .. n : c[k] \in Texts /\ Len(c[k]) \in Nat
  BY <1>0, LenProperties DEF Texts
<1> DEFINE t == F[n]
           S == {k \in 0 .. n : /\ \A j \in 1 .. Len(F[n - k]) : t[j] = F[n - k][j]
                                /\ Len(F[n - k]) <= Len(t)}
<1>6. 0 \in S
  BY <1>1, <1>2
<1>7. ASSUME NEW k \in 0 .. n - 1, k \in S PROVE k + 1 \in S
  <2>1. PICK m \in 1 .. n, q \in 0 .. n : m = n - k /\ q = n - (k + 1) /\ q = m - 1
    OBVIOUS
  <2>2. F[m] = F[q] \o c[m] /\ F[q] \in Texts /\ c[m] \in Texts
    BY <1>1, <1>5, <2>1
  <2>3. Len(c[m]) \in Nat /\ Len(F[q]) \in Nat
    BY <2>2, LenProperties DEF Texts
  <2>4. /\ Len(F[m]) = Len(F[q]) + Len(c[m])
        /\ \A j \in 1 .. Len(F[q]) + Len(c[m]) :
             F[m][j] = IF j <= Len(F[q]) THEN F[q][j] ELSE c[m][j - Len(F[q])]
    BY <2>2, ConcatProperties DEF Texts
  <2>5. /\ \A j \in 1 .. Len(F[m]) : t[j] = F[m][j]
        /\ Len(F[m]) <= Len(t)
    BY <1>7, <2>1
  <2>6. Len(t) \in Nat
    <3>1. n \in 0 .. n
      OBVIOUS
    <3> QED BY <1>2, <3>1
  <2> HIDE DEF t
  <2>7. ASSUME NEW j \in 1 .. Len(F[q]) PROVE t[j] = F[q][j]
    <3>1. j \in 1 .. Len(F[m]) /\ j \in 1 .. Len(F[q]) + Len(c[m]) /\ j <= Len(F[q])
      BY <2>3, <2>4
    <3> QED BY <2>4, <2>5, <3>1
  <2>8. Len(F[q]) <= Len(t)
    BY <2>3, <2>4, <2>5, <2>6
  <2>9. k + 1 \in 0 .. n
    OBVIOUS
  <2> QED BY <2>1, <2>7, <2>8, <2>9
<1>8. \A k \in 0 .. n : k \in S
  <2> HIDE DEF S
  <2> QED BY <1>6, <1>7, UpTo
<1>9. ASSUME NEW k \in 0 .. n
      PROVE  /\ \A j \in 1 .. Len(F[k]) : t[j] = F[k][j]
             /\ Len(F[k]) <= Len(t)
  <2>1. PICK m \in 0 .. n : m = n - k /\ n - m = k
    OBVIOUS
  <2>2. m \in S
    BY <1>8
  <2> QED BY <2>1, <2>2
<1>10. t \in Texts /\ pos[n + 1] = Len(t) + 1
  BY <1>1, <1>2
<1> HIDE DEF t, S
<1>11. ASSUME NEW k \in 1 .. n
       PROVE  /\ pos[k + 1] = pos[k] + Len(c[k]) /\ pos[k + 1] <= Len(t) + 1
              /\ \A j \in 1 .. Len(c[k]) : t[pos[k] + j - 1] = c[k][j]
  <2>1. PICK m \in 0 .. n : m = k - 1 /\ m + 1 = k /\ k \in 0 .. n
    OBVIOUS
  <2>2. F[k] = F[m] \o c[k] /\ F[m] \in Texts /\ c[k] \in Texts
    BY <1>1, <1>5, <2>1
  <2>3. /\ Len(F[k]) = Len(F[m]) + Len(c[k])
        /\ \A j \in 1 .. Len(c[k]) : F[k][Len(F[m]) + j] = c[k][j]
        /\ Len(c[k]) \in Nat /\ Len(F[m]) \in Nat /\ Len(F[k]) \in Nat
    <3>1. Len(c[k]) \in Nat /\ Len(F[m]) \in Nat /\ Len(F[k]) \in Nat
      BY <1>1, <2>1, <2>2, LenProperties DEF Texts
    <3>2. Len(F[k]) = Len(F[m]) + Len(c[k])
      BY <2>2, ConcatProperties DEF Texts
    <3>3. \A i \in 1 .. Len(F[m]) + Len(c[k]) :
            F[k][i] = IF i <= Len(F[m]) THEN F[m][i] ELSE c[k][i - Len(F[m])]
      BY <2>2, ConcatProperties DEF Texts
    <3>4. ASSUME NEW j \in 1 .. Len(c[k]) PROVE F[k][Len(F[m]) + j] = c[k][j]
      <4>1. PICK i \in 1 .. Len(F[m]) + Len(c[k]) :
              i = Len(F[m]) + j /\ ~(i <= Len(F[m])) /\ i - Len(F[m]) = j
        BY <3>1
      <4> QED BY <3>3, <4>1
    <3> QED BY <3>1, <3>2, <3>4
  <2>4. pos[k + 1] = Len(F[k]) + 1 /\ pos[k] = Len(F[m]) + 1
    BY <1>2, <2>1
  <2>5. /\ \A j \in 1 .. Len(F[k]) : t[j] = F[k][j]
        /\ Len(F[k]) <= Len(t)
    BY <1>9, <2>1
  <2>6. Len(t) \in Nat
    BY <1>10, LenProperties DEF Texts
  <2>7. ASSUME NEW j \in 1 .. Len(c[k]) PROVE t[pos[k] + j - 1] = c[k][j]
    <3>1. PICK i \in 1 .. Len(F[k]) : i = Len(F[m]) + j /\ i = pos[k] + j - 1
      BY <2>3, <2>4
    <3>2. t[i] = F[k][i] /\ F[k][i] = c[k][j]
      BY <2>3, <2>5, <3>1
    <3> QED BY <3>1, <3>2
  <2>8. pos[k + 1] = pos[k] + Len(c[k]) /\ pos[k + 1] <= Len(t) + 1
    <3>1. PICK x \in Nat, y \in Nat, z \in Nat, w \in Nat :
            /\ x = Len(F[m]) /\ y = Len(c[k]) /\ z = Len(F[k]) /\ w = Len(t)
            /\ z = x + y /\ z <= w
      BY <2>3, <2>5, <2>6
    <3>2. pos[k + 1] = z + 1 /\ pos[k] = x + 1
      BY <2>4, <3>1
    <3>3. z + 1 = x + 1 + y /\ z + 1 <= w + 1
      BY <3>1
    <3> QED BY <3>1, <3>2, <3>3
  <2> QED BY <2>7, <2>8
<1>12. t = FlattenSeq(c)
  BY <1>1 DEF t
<1>13. Laid(t, c, pos)
  BY <1>0, <1>3, <1>4, <1>10, <1>11, Zenon DEF Laid
<1> QED BY <1>12, <1>13

-----------------------------------------------------------------------------
(* Where the placeholders of a text are                                     *)

(* A text that the expression matches, from end to end.                     *)
IsPlaceholder(s) ==
  /\ s \in Texts /\ Len(s) >= 6
  /\ s[1] = "$" /\ s[2] = Opening /\ s[3] \in Vars /\ s[4] = ":" /\ s[Len(s)] = Closing
  /\ \A j \in 5 .. Len(s) - 1 : s[j] # Closing

(* The texts of a file: those in H are placeholders, and nothing else opens  *)
(* one.                                                                     *)
Pieces(c, H) ==
  /\ c \in Seq(Texts) /\ H \subseteq 1 .. Len(c)
  /\ \A k \in 1 .. Len(c) :
       /\ c[k] # <<>> /\ c[k][1] # Opening
       /\ \A j \in DOMAIN c[k] : Opens(c[k], j) => k \in H /\ j = 1
  /\ \A k \in H : IsPlaceholder(c[k])

(* The lengths and places of the texts are numbers.                         *)
LEMMA Lengths ==
  ASSUME NEW c \in Seq(Texts), NEW t, NEW pos, Laid(t, c, pos)
  PROVE  /\ Len(c) \in Nat /\ Len(t) \in Nat /\ DOMAIN t = 1 .. Len(t)
         /\ \A k \in 1 .. Len(c) + 1 : pos[k] \in Nat \ {0}
         /\ \A k \in 1 .. Len(c) :
              c[k] \in Texts /\ Len(c[k]) \in Nat /\ DOMAIN c[k] = 1 .. Len(c[k])
<1>1. t \in Texts /\ pos \in [1 .. Len(c) + 1 -> Nat \ {0}]
  BY DEF Laid
<1>2. \A k \in 1 .. Len(c) : c[k] \in Texts
  BY LenProperties
<1> QED BY <1>1, <1>2, LenProperties DEF Texts

(* The texts stand one behind the other.                                    *)
LEMMA Apart ==
  ASSUME NEW c \in Seq(Texts), NEW t, NEW pos, Laid(t, c, pos),
         NEW k \in 1 .. Len(c), NEW m \in k + 1 .. Len(c) + 1
  PROVE  pos[k + 1] <= pos[m]
<1>1. PICK n \in Nat : n = Len(c)
  BY Lengths
<1>2. /\ \A i \in 1 .. n + 1 : pos[i] \in Nat
      /\ \A i \in 1 .. n : Len(c[i]) \in Nat /\ pos[i + 1] = pos[i] + Len(c[i])
  <2>1. \A i \in 1 .. Len(c) : pos[i + 1] = pos[i] + Len(c[i])
    BY DEF Laid
  <2> QED BY <1>1, <2>1, Lengths
<1> DEFINE S == {i \in 0 .. n - k : pos[k + 1] <= pos[k + 1 + i]}
<1>3. 0 \in S
  <2>1. PICK q \in 1 .. n + 1 : q = k + 1 /\ k + 1 + 0 = q /\ 0 \in 0 .. n - k
    BY <1>1
  <2>2. pos[q] \in Nat
    BY <1>2
  <2> QED BY <2>1, <2>2
<1>4. ASSUME NEW i \in 0 .. (n - k) - 1, i \in S PROVE i + 1 \in S
  <2>1. PICK q \in 1 .. n, r \in 1 .. n + 1, f \in 1 .. n + 1 :
          q = k + 1 + i /\ r = k + 1 + (i + 1) /\ r = q + 1 /\ f = k + 1
    BY <1>1
  <2>2. pos[r] = pos[q] + Len(c[q]) /\ pos[q] \in Nat /\ pos[r] \in Nat /\ Len(c[q]) \in Nat
    BY <1>2, <2>1
  <2>3. pos[f] <= pos[q] /\ pos[f] \in Nat /\ i + 1 \in 0 .. n - k
    BY <1>1, <1>2, <1>4, <2>1
  <2>4. pos[f] <= pos[r]
    BY <2>2, <2>3
  <2> QED BY <2>1, <2>3, <2>4
<1>5. m - (k + 1) \in 0 .. n - k /\ k + 1 + (m - (k + 1)) = m /\ n - k \in Nat
  BY <1>1
<1>6. \A i \in 0 .. n - k : i \in S
  <2> HIDE DEF S
  <2> QED BY <1>3, <1>4, <1>5, UpTo
<1>7. m - (k + 1) \in S
  BY <1>5, <1>6
<1> QED BY <1>5, <1>7

(* Every position is in one of the texts.                                   *)
LEMMA InOne ==
  ASSUME NEW c \in Seq(Texts), NEW t, NEW pos, Laid(t, c, pos), NEW i \in 1 .. Len(t)
  PROVE  \E k \in 1 .. Len(c) : \E j \in 1 .. Len(c[k]) : i = pos[k] + j - 1
<1>1. PICK n \in Nat, w \in Nat : n = Len(c) /\ w = Len(t)
  BY Lengths
<1>2. /\ \A k \in 1 .. n + 1 : pos[k] \in Nat
      /\ \A k \in 1 .. n : Len(c[k]) \in Nat /\ pos[k + 1] = pos[k] + Len(c[k])
      /\ pos[1] = 1 /\ pos[n + 1] = w + 1 /\ i \in 1 .. w
  <2>1. /\ \A k \in 1 .. Len(c) : pos[k + 1] = pos[k] + Len(c[k])
        /\ pos[1] = 1 /\ pos[Len(c) + 1] = Len(t) + 1
    BY DEF Laid
  <2> QED BY <1>1, <2>1, Lengths
<1> DEFINE D == {k \in 1 .. n + 1 : pos[k] > i}
<1>3. n + 1 \in D
  BY <1>2
<1>4. PICK k \in D : \A m \in D : k <= m
  <2>1. D \in SUBSET Nat /\ D # {}
    BY <1>3
  <2> HIDE DEF D
  <2> QED BY <2>1, LeastNumber
<1>5. PICK q \in 1 .. n : q = k - 1 /\ k = q + 1
  <2>1. k \in 1 .. n + 1 /\ pos[k] > i
    OBVIOUS
  <2>2. k # 1
    BY <1>2, <2>1
  <2> QED BY <2>1, <2>2
<1>6. pos[q] <= i /\ i < pos[q + 1]
  <2>1. q \notin D /\ q \in 1 .. n + 1
    BY <1>4, <1>5
  <2>2. pos[q] \in Nat /\ ~(pos[q] > i)
    BY <1>2, <2>1
  <2>3. pos[k] > i /\ pos[k] \in Nat
    BY <1>2
  <2> QED BY <1>2, <1>5, <2>2, <2>3
<1>7. PICK x \in Nat, y \in Nat : x = pos[q] /\ y = Len(c[q]) /\ pos[q + 1] = x + y
  <2>1. q \in 1 .. n + 1
    BY <1>5
  <2> QED BY <1>2, <1>5, <2>1
<1>8. i - x + 1 \in 1 .. y /\ i = x + (i - x + 1) - 1
  <2>1. x <= i /\ i < x + y
    BY <1>6, <1>7
  <2>2. i \in Nat
    BY <1>1
  <2>3. x \in Nat /\ y \in Nat
    BY <1>7
  <2>4. i - x + 1 \in 1 .. y
    BY ONLY <2>1, <2>2, <2>3
  <2>5. i = x + (i - x + 1) - 1
    BY ONLY <2>2, <2>3
  <2> QED BY <2>4, <2>5
<1> QED BY <1>1, <1>5, <1>7, <1>8

(* Each text is in its place.                                               *)
LEMMA PieceIsThere ==
  ASSUME NEW c \in Seq(Texts), NEW t, NEW pos, Laid(t, c, pos), NEW k \in 1 .. Len(c)
  PROVE  SubSeq(t, pos[k], pos[k + 1] - 1) = c[k]
<1>1. PICK x \in Nat \ {0}, y \in Nat, w \in Nat : x = pos[k] /\ y = Len(c[k]) /\ w = Len(t)
  <2>1. k \in 1 .. Len(c) + 1
    BY Lengths
  <2> QED BY <2>1, Lengths
<1>2. /\ pos[k + 1] - 1 = x + y - 1 /\ x + y <= w + 1
      /\ \A j \in 1 .. y : t[x + j - 1] = c[k][j]
  BY <1>1, Lengths DEF Laid
<1>3. t \in Seq(Token) /\ c[k] \in Seq(Token)
  BY Lengths DEF Texts, Laid
<1> DEFINE s == SubSeq(t, x, x + y - 1)
<1>4. /\ s \in Seq(Token) /\ Len(s) = y
      /\ \A j \in 1 .. y : s[j] = t[x + j - 1]
  <2>1. \A i \in x .. x + y - 1 : t[i] \in Token
    <3>1. \A i \in x .. x + y - 1 : i \in 1 .. w
      BY <1>1, <1>2
    <3> QED BY <1>1, <1>3, <3>1, ElementOfSeq
  <2>2. x \in Int /\ x + y - 1 \in Int
    BY <1>1
  <2>3. /\ s \in Seq(Token)
        /\ Len(s) = IF x <= x + y - 1 THEN (x + y - 1) - x + 1 ELSE 0
        /\ \A j \in 1 .. (x + y - 1) - x + 1 : s[j] = t[x + j - 1]
    BY <2>1, <2>2, SubSeqProperties
  <2>4. (x + y - 1) - x + 1 = y
    BY <1>1
  <2>5. Len(s) = y
    <3> HIDE DEF s
    <3> QED BY <1>1, <2>3
  <2> QED BY <2>3, <2>4, <2>5
<1> HIDE DEF s
<1>5. Len(s) = Len(c[k]) /\ \A j \in 1 .. Len(s) : s[j] = c[k][j]
  BY <1>1, <1>2, <1>4
<1>6. s = c[k]
  BY <1>3, <1>4, <1>5, SeqEqual
<1> QED BY <1>1, <1>2, <1>6 DEF s

(* A placeholder is opened where one of the file begins, and nowhere else.  *)
LEMMA OpensOnlyThere ==
  ASSUME NEW c \in Seq(Texts), NEW H, Pieces(c, H), NEW t, NEW pos, Laid(t, c, pos),
         NEW i, Opens(t, i), i \in 1 .. Len(t)
  PROVE  \E k \in H : i = pos[k]
<1>1. t[i] = "$" /\ t[i + 1] = Opening /\ i + 1 \in DOMAIN t
  BY DEF Opens
<1>1a. PICK k \in 1 .. Len(c) : \E j \in 1 .. Len(c[k]) : i = pos[k] + j - 1
  BY InOne
<1>2. PICK j \in 1 .. Len(c[k]) : i = pos[k] + j - 1
  BY <1>1a
<1>3. PICK n \in Nat, x \in Nat, y \in Nat, w \in Nat :
        n = Len(c) /\ x = pos[k] /\ y = Len(c[k]) /\ w = Len(t)
  <2>1. k \in 1 .. Len(c) + 1
    BY Lengths
  <2> QED BY <2>1, Lengths
<1>4. /\ pos[k + 1] = x + y /\ pos[n + 1] = w + 1
      /\ \A h \in 1 .. y : t[x + h - 1] = c[k][h]
  BY <1>3 DEF Laid
<1>5. i = x + j - 1 /\ j \in 1 .. y /\ k \in 1 .. n /\ i + 1 \in 1 .. w
  <2>1. DOMAIN t = 1 .. w
    BY <1>3, Lengths
  <2> QED BY <1>1, <1>2, <1>3, <2>1
<1>6. CASE j < y
  <2>1. PICK h \in 1 .. y : h = j + 1 /\ x + h - 1 = i + 1
    BY <1>3, <1>5, <1>6
  <2>2. c[k][j] = "$" /\ c[k][h] = Opening
    BY <1>1, <1>4, <1>5, <2>1
  <2>3. DOMAIN c[k] = 1 .. y
    BY <1>3, Lengths
  <2>4. Opens(c[k], j) /\ j \in DOMAIN c[k]
    BY <1>5, <2>1, <2>2, <2>3 DEF Opens
  <2>5. k \in H /\ j = 1
    BY <2>4 DEF Pieces
  <2> QED BY <1>2, <1>3, <1>5, <2>5
<1>7. CASE ~(j < y)
  <2>1. j = y /\ i + 1 = x + y
    BY <1>3, <1>5, <1>7
  <2>2. k # n
    BY <1>3, <1>4, <1>5, <2>1
  <2>3. PICK m \in 1 .. n : m = k + 1
    BY <1>3, <1>5, <2>2
  <2>4. c[m] # <<>> /\ c[m][1] # Opening /\ c[m] \in Texts
    BY <1>3, Lengths DEF Pieces
  <2>5. Len(c[m]) \in Nat \ {0}
    BY <2>4, EmptySeq DEF Texts
  <2>6. pos[m] = i + 1 /\ 1 \in 1 .. Len(c[m]) /\ pos[m] + 1 - 1 = pos[m]
    BY <1>3, <1>4, <1>5, <2>1, <2>3, <2>5
  <2>7. t[pos[m] + 1 - 1] = c[m][1]
    BY <1>3, <2>6 DEF Laid
  <2> QED BY <1>1, <2>4, <2>6, <2>7
<1> QED BY <1>6, <1>7

(* What the expression matches: the placeholders of the file, each from end *)
(* to end.                                                                  *)
LEMMA MatchElsewhere ==
  ASSUME NEW c \in Seq(Texts), NEW H, Pieces(c, H), NEW t, NEW pos, Laid(t, c, pos),
         NEW i \in 1 .. Len(t), ~ \E k \in H : i = pos[k]
  PROVE  MatchEnd(t, i) = 0
<1>1. ~Opens(t, i)
  BY OpensOnlyThere
<1>2. DOMAIN t = 1 .. Len(t) /\ Len(t) \in Nat
  BY Lengths
<1> DEFINE ends == {j \in i + 5 .. Len(t) :
                      t[j] = Closing /\ \A k \in i + 4 .. j - 1 : t[k] # Closing}
<1>3. SUFFICES ASSUME ends # {}, t[i] = "$", t[i + 1] = Opening PROVE FALSE
  BY DEF MatchEnd
<1>4. i + 1 \in 1 .. Len(t)
  <2>1. PICK j \in ends : TRUE
    BY <1>3
  <2>2. j \in i + 5 .. Len(t)
    BY <2>1
  <2> QED BY <1>2, <2>2
<1> QED BY <1>1, <1>2, <1>3, <1>4 DEF Opens

LEMMA MatchThere ==
  ASSUME NEW c \in Seq(Texts), NEW H, Pieces(c, H), NEW t, NEW pos, Laid(t, c, pos),
         NEW k \in H
  PROVE  MatchEnd(t, pos[k]) = pos[k + 1] - 1
<1>0. IsPlaceholder(c[k]) /\ k \in 1 .. Len(c)
  BY DEF Pieces
<1>1. PICK x \in Nat \ {0}, y \in Nat, w \in Nat :
        x = pos[k] /\ y = Len(c[k]) /\ w = Len(t)
  <2>1. k \in 1 .. Len(c) + 1
    BY <1>0, Lengths
  <2> QED BY <1>0, <2>1, Lengths
<1>2. /\ pos[k + 1] = x + y /\ x + y <= w + 1
      /\ \A j \in 1 .. y : t[x + j - 1] = c[k][j]
  <2>1. /\ pos[k + 1] = pos[k] + Len(c[k]) /\ pos[k + 1] <= Len(t) + 1
        /\ \A j \in 1 .. Len(c[k]) : t[pos[k] + j - 1] = c[k][j]
    BY <1>0 DEF Laid
  <2> QED BY <1>1, <2>1
<1>3. /\ y >= 6 /\ c[k][1] = "$" /\ c[k][2] = Opening /\ c[k][3] \in Vars /\ c[k][4] = ":"
      /\ c[k][y] = Closing /\ \A j \in 5 .. y - 1 : c[k][j] # Closing
  BY <1>0, <1>1 DEF IsPlaceholder
<1>a. x \in Nat /\ x >= 1 /\ y \in Nat /\ w \in Nat
  BY <1>1
<1>b. y >= 6 /\ x + y <= w + 1
  BY <1>2, <1>3
<1>4. \A p \in Nat, j \in 1 .. y : p = x + j - 1 => t[p] = c[k][j]
  BY <1>2
<1>5. /\ t[x] = c[k][1] /\ t[x + 1] = c[k][2] /\ t[x + 2] = c[k][3]
      /\ t[x + 3] = c[k][4] /\ t[x + y - 1] = c[k][y]
  <2>1. /\ x \in Nat /\ x + 1 \in Nat /\ x + 2 \in Nat /\ x + 3 \in Nat /\ x + y - 1 \in Nat
        /\ 1 \in 1 .. y /\ 2 \in 1 .. y /\ 3 \in 1 .. y /\ 4 \in 1 .. y /\ y \in 1 .. y
    BY <1>a, <1>b
  <2>2. /\ x = x + 1 - 1 /\ x + 1 = x + 2 - 1 /\ x + 2 = x + 3 - 1 /\ x + 3 = x + 4 - 1
    BY <1>a
  <2>3. t[x] = c[k][1] /\ t[x + 1] = c[k][2]
    BY <1>4, <2>1, <2>2
  <2>4. t[x + 2] = c[k][3] /\ t[x + 3] = c[k][4]
    BY <1>4, <2>1, <2>2
  <2>5. t[x + y - 1] = c[k][y]
    BY <1>4, <2>1
  <2> QED BY <2>3, <2>4, <2>5
<1> DEFINE last == x + y - 1
           ends == {j \in x + 5 .. w : t[j] = Closing /\ \A i \in x + 4 .. j - 1 : t[i] # Closing}
<1>6. last \in x + 5 .. w /\ t[last] = Closing
  BY <1>a, <1>b, <1>3, <1>5
<1>7. \A i \in x + 4 .. last - 1 : t[i] # Closing
  <2> TAKE i \in x + 4 .. last - 1
  <2>1. i \in Nat /\ i >= x + 4 /\ i <= x + y - 2
    BY <1>a, <1>b
  <2>2. PICK j \in 5 .. y - 1 : j = i - x + 1
    BY <1>a, <1>b, <2>1
  <2>3. i = x + j - 1 /\ j \in 1 .. y
    BY <1>a, <1>b, <2>1, <2>2
  <2> QED BY <1>3, <1>4, <2>1, <2>2, <2>3
<1> HIDE DEF last
<1>8. ends = {last}
  <2>1. last \in ends
    BY <1>6, <1>7
  <2>2. ASSUME NEW j \in ends PROVE j = last
    <3>0. j \in x + 5 .. w /\ t[j] = Closing /\ \A i \in x + 4 .. j - 1 : t[i] # Closing
      OBVIOUS
    <3>1. j \in Nat /\ j >= x + 5 /\ last \in Nat /\ last >= x + 5
      BY <1>a, <1>6, <3>0
    <3>2. CASE j < last
      <4>1. j \in x + 4 .. last - 1
        BY <1>a, <1>b, <3>1, <3>2
      <4> QED BY <1>7, <3>0, <4>1
    <3>3. CASE j > last
      <4>1. last \in x + 4 .. j - 1
        BY <1>a, <1>b, <3>1, <3>3
      <4> QED BY <1>6, <3>0, <4>1
    <3> QED BY <3>1, <3>2, <3>3
  <2> HIDE DEF ends
  <2> QED BY <2>1, <2>2
<1>9. MatchEnd(t, x) = CHOOSE j \in ends : TRUE
  BY <1>1, <1>3, <1>5, <1>8 DEF MatchEnd
<1>10. pos[k + 1] - 1 = last
  BY <1>a, <1>2 DEF last
<1> HIDE DEF ends
<1> QED BY <1>1, <1>8, <1>9, <1>10

(* The matches, found from each position on.                                *)
LEMMA FindSteps ==
  ASSUME NEW t \in Texts,
         \A i \in 1 .. Len(t) : MatchEnd(t, i) = 0 \/ MatchEnd(t, i) \in i .. Len(t)
  PROVE  \E f \in [1 .. Len(t) + 1 -> Seq(Texts)] :
           /\ FindAll(t) = f[1] /\ f[Len(t) + 1] = <<>>
           /\ \A i \in 1 .. Len(t) :
                f[i] = IF MatchEnd(t, i) = 0 THEN f[i + 1]
                       ELSE <<SubSeq(t, i, MatchEnd(t, i))>> \o f[MatchEnd(t, i) + 1]
<1> DEFINE found(i) == <<SubSeq(t, i, MatchEnd(t, i))>>
           p == [i \in 1 .. Len(t) |-> IF MatchEnd(t, i) = 0 THEN <<>> ELSE found(i)]
           next == [i \in 1 .. Len(t) |->
                      IF MatchEnd(t, i) = 0 THEN i + 1 ELSE MatchEnd(t, i) + 1]
           Find(g) == g = [i \in 1 .. Len(t) + 1 |->
                             IF i > Len(t) THEN <<>>
                             ELSE IF MatchEnd(t, i) = 0 THEN g[i + 1]
                             ELSE <<SubSeq(t, i, MatchEnd(t, i))>> \o g[MatchEnd(t, i) + 1]]
           find == CHOOSE g : Find(g)
<1>0. Len(t) \in Nat /\ t \in [1 .. Len(t) -> Token]
  BY LenProperties DEF Texts
<1>1. FindAll(t) = find[1]
  BY Zenon DEF FindAll
<1> HIDE DEF find
<1>2. p \in [1 .. Len(t) -> Seq(Texts)]
  <2>1. ASSUME NEW i \in 1 .. Len(t), MatchEnd(t, i) # 0 PROVE found(i) \in Seq(Texts)
    <3>1. MatchEnd(t, i) \in i .. Len(t) /\ MatchEnd(t, i) \in Int /\ i \in Int
      BY <1>0, <2>1
    <3>2. \A j \in i .. MatchEnd(t, i) : t[j] \in Token
      BY <1>0, <3>1
    <3>3. SubSeq(t, i, MatchEnd(t, i)) \in Texts
      BY <3>1, <3>2, SubSeqProperties DEF Texts
    <3> QED BY <3>3
  <2> HIDE DEF found
  <2>2. <<>> \in Seq(Texts)
    BY EmptySeq
  <2> QED BY <2>1, <2>2
<1>3. Forward(next, Len(t))
  <2>1. ASSUME NEW i \in 1 .. Len(t)
        PROVE  next[i] \in 1 .. Len(t) + 1 /\ next[i] > i
    BY <1>0
  <2>2. next = [i \in 1 .. Len(t) |-> next[i]]
    OBVIOUS
  <2> HIDE DEF next
  <2> QED BY <2>1, <2>2 DEF Forward
<1>4. PICK f : BackFrom(f, Len(t), Texts, p, next)
  <2> HIDE DEF p, next
  <2> QED BY <1>0, <1>2, <1>3, FromBehind, Zenon
<1>5. /\ f \in [1 .. Len(t) + 1 -> Seq(Texts)] /\ f[Len(t) + 1] = <<>>
      /\ \A i \in 1 .. Len(t) : f[i] = p[i] \o f[next[i]]
  <2> HIDE DEF p, next
  <2> QED BY <1>4 DEF BackFrom
<1>6. ASSUME NEW i \in 1 .. Len(t)
      PROVE  f[i] = IF MatchEnd(t, i) = 0 THEN f[i + 1]
                    ELSE <<SubSeq(t, i, MatchEnd(t, i))>> \o f[MatchEnd(t, i) + 1]
  <2>1. CASE MatchEnd(t, i) = 0
    <3>1. p[i] = <<>> /\ next[i] = i + 1 /\ i + 1 \in 1 .. Len(t) + 1
      BY <1>0, <2>1
    <3>2. f[i + 1] \in Seq(Texts)
      BY <1>5, <3>1
    <3>3. <<>> \o f[i + 1] = f[i + 1]
      BY <3>2, ConcatEmptySeq
    <3>4. f[i] = <<>> \o f[i + 1]
      <4> HIDE DEF p, next
      <4> QED BY <1>5, <3>1
    <3> QED BY <2>1, <3>3, <3>4
  <2>2. CASE MatchEnd(t, i) # 0
    <3>1. p[i] = found(i) /\ next[i] = MatchEnd(t, i) + 1
      BY <2>2
    <3>2. f[i] = p[i] \o f[next[i]]
      <4> HIDE DEF p, next
      <4> QED BY <1>5
    <3> QED BY <2>2, <3>1, <3>2
  <2> QED BY <2>1, <2>2
<1>7. Find(f)
  <2> DEFINE g == [i \in 1 .. Len(t) + 1 |->
                     IF i > Len(t) THEN <<>>
                     ELSE IF MatchEnd(t, i) = 0 THEN f[i + 1]
                     ELSE <<SubSeq(t, i, MatchEnd(t, i))>> \o f[MatchEnd(t, i) + 1]]
  <2>1. ASSUME NEW i \in 1 .. Len(t) + 1 PROVE g[i] = f[i]
    <3>1. CASE i = Len(t) + 1
      BY <1>0, <1>5, <3>1
    <3>2. CASE i # Len(t) + 1
      <4>1. i \in 1 .. Len(t) /\ ~(i > Len(t))
        BY <1>0, <3>2
      <4> QED BY <1>6, <4>1, Zenon
    <3> QED BY <3>1, <3>2
  <2>2. g = [i \in 1 .. Len(t) + 1 |-> g[i]] /\ f = [i \in 1 .. Len(t) + 1 |-> f[i]]
    BY <1>5
  <2>3. f = g
    <3> HIDE DEF g
    <3> QED BY <2>1, <2>2
  <2> QED BY <2>3
<1>8. Find(find)
  <2> HIDE DEF Find
  <2> QED BY <1>7 DEF find
<1>9. ASSUME NEW i \in 1 .. Len(t) + 1
      PROVE  find[i] = IF i > Len(t) THEN <<>>
                       ELSE IF MatchEnd(t, i) = 0 THEN find[i + 1]
                       ELSE <<SubSeq(t, i, MatchEnd(t, i))>> \o find[MatchEnd(t, i) + 1]
  BY <1>8, Zenon
<1> HIDE DEF Find
<1> DEFINE S == {i \in 1 .. Len(t) + 1 : find[i] = f[i]}
<1>10. Len(t) + 1 \in S
  <2>1. Len(t) + 1 > Len(t) /\ Len(t) + 1 \in 1 .. Len(t) + 1
    BY <1>0
  <2> QED BY <1>5, <1>9, <2>1
<1>11. ASSUME NEW i \in 1 .. Len(t), \A j \in i + 1 .. Len(t) + 1 : j \in S PROVE i \in S
  <2>1. ~(i > Len(t)) /\ i \in 1 .. Len(t) + 1 /\ i + 1 \in i + 1 .. Len(t) + 1
    BY <1>0
  <2>2. find[i + 1] = f[i + 1]
    BY <1>11, <2>1
  <2>3. MatchEnd(t, i) # 0 => find[MatchEnd(t, i) + 1] = f[MatchEnd(t, i) + 1]
    <3>1. MatchEnd(t, i) # 0 => MatchEnd(t, i) + 1 \in i + 1 .. Len(t) + 1
      BY <1>0
    <3> QED BY <1>11, <3>1
  <2>4. find[i] = f[i]
    BY <1>6, <1>9, <2>1, <2>2, <2>3, Zenon
  <2> QED BY <2>1, <2>4
<1>12. find[1] = f[1]
  <2>1. \A i \in 1 .. Len(t) + 1 : i \in S
    <3> HIDE DEF S
    <3> QED BY <1>0, <1>10, <1>11, DownTo
  <2>2. 1 \in 1 .. Len(t) + 1
    BY <1>0
  <2> QED BY <2>1, <2>2
<1> QED
  BY <1>1, <1>5, <1>6, <1>12

(* The texts in a sequence with one more in front.                          *)
LEMMA OneMore ==
  ASSUME NEW x \in Texts, NEW s \in Seq(Texts)
  PROVE  <<x>> \o s \in Seq(Texts) /\ ToSet(<<x>> \o s) = {x} \cup ToSet(s)
<1> DEFINE r == <<x>> \o s
<1>1. <<x>> \in Seq(Texts) /\ Len(<<x>>) = 1 /\ <<x>>[1] = x
  OBVIOUS
<1>2. Len(s) \in Nat /\ DOMAIN s = 1 .. Len(s)
  BY LenProperties
<1>3. /\ r \in Seq(Texts) /\ Len(r) = 1 + Len(s)
      /\ \A i \in 1 .. 1 + Len(s) : r[i] = IF i <= 1 THEN <<x>>[i] ELSE s[i - 1]
  <2>1. /\ r \in Seq(Texts) /\ Len(r) = Len(<<x>>) + Len(s)
        /\ \A i \in 1 .. Len(<<x>>) + Len(s) :
             r[i] = IF i <= Len(<<x>>) THEN <<x>>[i] ELSE s[i - Len(<<x>>)]
    BY <1>1, ConcatProperties
  <2> HIDE DEF r
  <2> QED BY <1>1, <2>1
<1> HIDE DEF r
<1>4. DOMAIN r = 1 .. 1 + Len(s)
  BY <1>3, LenProperties
<1>5. ASSUME NEW i \in DOMAIN r PROVE r[i] \in {x} \cup ToSet(s)
  <2>1. CASE i <= 1
    <3>1. i = 1
      BY <1>2, <1>4, <2>1
    <3> QED BY <1>1, <1>3, <1>4, <3>1
  <2>2. CASE ~(i <= 1)
    <3>1. PICK j \in 1 .. Len(s) : j = i - 1
      BY <1>2, <1>4, <2>2
    <3>2. r[i] = s[j]
      BY <1>3, <1>4, <2>2, <3>1
    <3> QED BY <1>2, <3>2 DEF ToSet
  <2> QED BY <2>1, <2>2
<1>6. x \in ToSet(r)
  <2>1. 1 \in 1 .. 1 + Len(s)
    BY <1>2
  <2>2. r[1] = x
    BY <1>1, <1>3, <2>1
  <2> QED BY <1>4, <2>1, <2>2 DEF ToSet
<1>7. ASSUME NEW j \in DOMAIN s PROVE s[j] \in ToSet(r)
  <2>1. PICK i \in 1 .. 1 + Len(s) : i = j + 1 /\ i - 1 = j /\ ~(i <= 1)
    BY <1>2
  <2>2. r[i] = s[j]
    BY <1>3, <2>1
  <2> QED BY <1>4, <2>2 DEF ToSet
<1>8. ToSet(r) = {x} \cup ToSet(s)
  BY <1>5, <1>6, <1>7, Zenon DEF ToSet
<1> QED BY <1>3, <1>8 DEF r

(* The matches are the placeholders of the file.                            *)
LEMMA FindsThem ==
  ASSUME NEW c, NEW H, Pieces(c, H), NEW t, NEW pos, Laid(t, c, pos)
  PROVE  FindAll(t) \in Seq(Texts) /\ ToSet(FindAll(t)) = {c[h] : h \in H}
<1>0. c \in Seq(Texts) /\ H \subseteq 1 .. Len(c) /\ t \in Texts
  BY DEF Pieces, Laid
<1>a. PICK n \in Nat, w \in Nat : n = Len(c) /\ w = Len(t)
  BY <1>0, Lengths
<1>b. ASSUME NEW h \in H
      PROVE  /\ pos[h] \in 1 .. w /\ pos[h + 1] \in 1 .. w + 1 /\ pos[h] < pos[h + 1]
             /\ MatchEnd(t, pos[h]) = pos[h + 1] - 1
             /\ SubSeq(t, pos[h], pos[h + 1] - 1) = c[h] /\ c[h] \in Texts
  <2>1. h \in 1 .. n /\ h \in 1 .. n + 1 /\ h + 1 \in 1 .. n + 1
    BY <1>0, <1>a
  <2>2. pos[h] \in Nat \ {0} /\ pos[h + 1] \in Nat \ {0} /\ c[h] \in Texts /\ Len(c[h]) \in Nat
    BY <1>0, <1>a, <2>1, Lengths
  <2>3. pos[h + 1] = pos[h] + Len(c[h]) /\ pos[h + 1] <= w + 1
    BY <1>a, <2>1 DEF Laid
  <2>4. Len(c[h]) >= 6
    BY DEF Pieces, IsPlaceholder
  <2>5. MatchEnd(t, pos[h]) = pos[h + 1] - 1
    BY <1>0, MatchThere
  <2>6. SubSeq(t, pos[h], pos[h + 1] - 1) = c[h]
    BY <1>0, <1>a, <2>1, PieceIsThere
  <2>7. pos[h] \in 1 .. w /\ pos[h + 1] \in 1 .. w + 1 /\ pos[h] < pos[h + 1]
    BY <1>a, <2>2, <2>3, <2>4
  <2> QED BY <2>2, <2>5, <2>6, <2>7
<1>c. ASSUME NEW i \in 1 .. w, ~ \E h \in H : i = pos[h] PROVE MatchEnd(t, i) = 0
  <2>1. i \in 1 .. Len(t)
    BY <1>a
  <2>2. c \in Seq(Texts) /\ Pieces(c, H) /\ Laid(t, c, pos)
    BY <1>0
  <2>3. ~ \E k \in H : i = pos[k]
    BY <1>c
  <2> QED BY ONLY <2>1, <2>2, <2>3, MatchElsewhere
<1>d. ASSUME NEW h \in H, NEW g \in H PROVE g = h \/ pos[g + 1] <= pos[h] \/ pos[h + 1] <= pos[g]
  <2>1. g \in 1 .. n /\ h \in 1 .. n
    BY <1>0, <1>a
  <2>2. CASE g < h
    <3>1. h \in g + 1 .. n + 1
      BY <1>a, <2>1, <2>2
    <3> QED BY <1>0, <1>a, <2>1, <3>1, Apart
  <2>3. CASE h < g
    <3>1. g \in h + 1 .. n + 1
      BY <1>a, <2>1, <2>3
    <3> QED BY <1>0, <1>a, <2>1, <3>1, Apart
  <2> QED BY <2>1, <2>2, <2>3
<1>1. \A i \in 1 .. w : MatchEnd(t, i) = 0 \/ MatchEnd(t, i) \in i .. w
  <2> TAKE i \in 1 .. w
  <2>1. CASE \E h \in H : i = pos[h]
    <3>1. PICK h \in H : i = pos[h]
      BY <2>1
    <3> QED BY <1>a, <1>b, <3>1
  <2>2. CASE ~ \E h \in H : i = pos[h]
    BY <1>c, <2>2
  <2> QED BY <2>1, <2>2
<1>2. PICK f \in [1 .. w + 1 -> Seq(Texts)] :
        /\ FindAll(t) = f[1] /\ f[w + 1] = <<>>
        /\ \A i \in 1 .. w :
             f[i] = IF MatchEnd(t, i) = 0 THEN f[i + 1]
                    ELSE <<SubSeq(t, i, MatchEnd(t, i))>> \o f[MatchEnd(t, i) + 1]
  BY <1>0, <1>a, <1>1, FindSteps
(* A position that is in none of the placeholders, or is where one begins.  *)
<1> DEFINE clear(i) == \A h \in H : i <= pos[h] \/ pos[h + 1] <= i
           from(i) == {c[h] : h \in {g \in H : i <= pos[g]}}
           S == {i \in 1 .. w + 1 : clear(i) => ToSet(f[i]) = from(i)}
<1>3. w + 1 \in S
  <2>1. ToSet(<<>>) = {}
    BY DEF ToSet
  <2>2. from(w + 1) = {}
    BY <1>a, <1>b
  <2>3. w + 1 \in 1 .. w + 1
    BY <1>a
  <2> HIDE DEF from
  <2> QED BY <1>2, <2>1, <2>2, <2>3
<1>4. ASSUME NEW i \in 1 .. w, \A j \in i + 1 .. w + 1 : j \in S PROVE i \in S
  <2>1. SUFFICES ASSUME clear(i) PROVE ToSet(f[i]) = from(i)
    BY <1>a
  <2>2. CASE \E h \in H : i = pos[h]
    <3>1. PICK h \in H : i = pos[h]
      BY <2>2
    <3>2. PICK j \in 1 .. w + 1 : j = pos[h + 1] /\ j - 1 + 1 = j
      BY <1>a, <1>b
    <3>2a. j \in i + 1 .. w + 1
      BY <1>a, <1>b, <3>1, <3>2
    <3>3. MatchEnd(t, i) = j - 1 /\ j - 1 # 0 /\ SubSeq(t, i, j - 1) = c[h]
      <4>1. MatchEnd(t, i) = j - 1 /\ SubSeq(t, i, j - 1) = c[h]
        BY <1>b, <3>1, <3>2
      <4>2. j - 1 # 0
        BY <1>a, <3>2a
      <4> QED BY <4>1, <4>2
    <3>4. f[i] = <<c[h]>> \o f[j] /\ f[j] \in Seq(Texts)
      BY <1>2, <3>2, <3>3
    <3>5. clear(j)
      <4> TAKE g \in H
      <4>1. g = h \/ pos[g + 1] <= pos[h] \/ j <= pos[g]
        BY <1>d, <3>2
      <4>2. pos[g + 1] \in Nat /\ pos[h] \in Nat /\ j \in Nat /\ pos[h] < j
        BY <1>a, <1>b, <3>2
      <4> QED BY <3>2, <4>1, <4>2
    <3>6. ToSet(f[j]) = from(j)
      <4> HIDE DEF clear, from
      <4> QED BY <1>4, <3>2a, <3>5
    <3>7. \A g \in H : i <= pos[g] <=> g = h \/ j <= pos[g]
      <4> TAKE g \in H
      <4>1. g = h \/ pos[g + 1] <= pos[h] \/ j <= pos[g]
        BY <1>d, <3>2
      <4>2. /\ pos[g + 1] \in Nat /\ pos[g] \in Nat /\ pos[h] \in Nat /\ j \in Nat
            /\ pos[h] < j /\ pos[g] < pos[g + 1]
        <5>1. pos[g + 1] \in Nat /\ pos[g] \in Nat /\ pos[g] < pos[g + 1]
          BY <1>a, <1>b
        <5>2. pos[h] \in Nat /\ j \in Nat /\ pos[h] < j
          BY <1>a, <1>b, <3>2
        <5> QED BY <5>1, <5>2
      <4> QED BY <3>1, <4>1, <4>2
    <3>8. from(i) = {c[h]} \cup from(j)
      BY <3>7
    <3>9. ToSet(f[i]) = {c[h]} \cup ToSet(f[j])
      BY <1>b, <3>4, OneMore
    <3> HIDE DEF from
    <3> QED BY <3>6, <3>8, <3>9
  <2>3. CASE ~ \E h \in H : i = pos[h]
    <3>1. MatchEnd(t, i) = 0
      BY <1>c, <2>3
    <3>2. i + 1 \in i + 1 .. w + 1 /\ i \in Nat
      BY <1>a
    <3>3. \A h \in H : pos[h] \in Nat /\ pos[h + 1] \in Nat
      BY <1>b
    <3>4. ASSUME NEW h \in H
          PROVE  /\ i + 1 <= pos[h] \/ pos[h + 1] <= i + 1
                 /\ i <= pos[h] <=> i + 1 <= pos[h]
      <4>1. (i <= pos[h] \/ pos[h + 1] <= i) /\ i # pos[h]
        BY <2>1, <2>3
      <4>2. pos[h] \in Nat /\ pos[h + 1] \in Nat /\ i \in Nat
        BY <3>2, <3>3
      <4> QED BY <4>1, <4>2
    <3>4a. clear(i + 1)
      BY <3>4
    <3>5. from(i) = from(i + 1)
      BY <3>4
    <3>6. ToSet(f[i + 1]) = from(i + 1)
      <4> HIDE DEF clear, from
      <4> QED BY <1>4, <3>2, <3>4a
    <3>7. f[i] = f[i + 1]
      BY <1>2, <3>1
    <3> HIDE DEF from
    <3> QED BY <3>5, <3>6, <3>7
  <2> QED BY <2>2, <2>3
<1>5. 1 \in S /\ 1 \in 1 .. w + 1
  <2>1. 1 \in 1 .. w + 1
    BY <1>a
  <2> HIDE DEF S
  <2> QED BY <1>a, <1>3, <1>4, <2>1, DownTo
<1>6. clear(1) /\ from(1) = {c[h] : h \in H}
  <2>1. \A h \in H : 1 <= pos[h]
    BY <1>b
  <2> QED BY <2>1
<1>7. ToSet(f[1]) = from(1)
  <2> HIDE DEF clear, from
  <2> QED BY <1>5, <1>6
<1> QED BY <1>2, <1>5, <1>6, <1>7

-----------------------------------------------------------------------------
(* What takes the place of a placeholder                                    *)

(* The text old is at position i.                                           *)
Hits(t, old, i) == i + Len(old) - 1 <= Len(t) /\ SubSeq(t, i, i + Len(old) - 1) = old

(* ReplaceText goes over the positions of a text, from each to the next.    *)
LEMMA ReplaceSteps ==
  ASSUME NEW t \in Texts, NEW old \in Texts, NEW new \in Texts, Len(old) # 0
  PROVE  \E f \in [1 .. Len(t) + 1 -> Texts] :
           /\ ReplaceText(t, old, new) = f[1] /\ f[Len(t) + 1] = <<>>
           /\ \A i \in 1 .. Len(t) :
                f[i] = IF Hits(t, old, i) THEN new \o f[i + Len(old)]
                       ELSE <<t[i]>> \o f[i + 1]
<1> DEFINE pos(i) == i + Len(old) - 1 <= Len(t) /\ SubSeq(t, i, i + Len(old) - 1) = old
           p == [i \in 1 .. Len(t) |-> IF pos(i) THEN new ELSE <<t[i]>>]
           next == [i \in 1 .. Len(t) |-> IF pos(i) THEN i + Len(old) ELSE i + 1]
           Replace(g) == g = [i \in 1 .. Len(t) + 1 |->
                                IF i > Len(t) THEN <<>>
                                ELSE IF pos(i) THEN new \o g[i + Len(old)]
                                ELSE <<t[i]>> \o g[i + 1]]
           replace == CHOOSE g : Replace(g)
<1>0. Len(t) \in Nat /\ Len(old) \in Nat \ {0} /\ t \in [1 .. Len(t) -> Token]
  BY LenProperties DEF Texts
<1>1. ReplaceText(t, old, new) = replace[1]
  BY Zenon DEF ReplaceText
<1> HIDE DEF replace
<1>2. p \in [1 .. Len(t) -> Seq(Token)]
  <2>1. \A i \in 1 .. Len(t) : <<t[i]>> \in Seq(Token)
    BY <1>0
  <2>2. new \in Seq(Token)
    BY DEF Texts
  <2> HIDE DEF pos
  <2> QED BY <2>1, <2>2
<1>3. Forward(next, Len(t))
  <2>1. ASSUME NEW i \in 1 .. Len(t)
        PROVE  next[i] \in 1 .. Len(t) + 1 /\ next[i] > i
    <3>1. CASE pos(i)
      <4>1. i + Len(old) - 1 <= Len(t) /\ next[i] = i + Len(old)
        BY <3>1
      <4> HIDE DEF next
      <4> QED BY <1>0, <4>1
    <3>2. CASE ~pos(i)
      <4>1. next[i] = i + 1
        BY <3>2
      <4> HIDE DEF next
      <4> QED BY <1>0, <4>1
    <3> QED BY <3>1, <3>2
  <2>2. next = [i \in 1 .. Len(t) |-> next[i]]
    OBVIOUS
  <2> HIDE DEF next
  <2> QED BY <2>1, <2>2 DEF Forward
<1>4. PICK f : BackFrom(f, Len(t), Token, p, next)
  <2> HIDE DEF p, next
  <2> QED BY <1>0, <1>2, <1>3, FromBehind, Zenon
<1>5. /\ f \in [1 .. Len(t) + 1 -> Seq(Token)] /\ f[Len(t) + 1] = <<>>
      /\ \A i \in 1 .. Len(t) : f[i] = p[i] \o f[next[i]]
  <2> HIDE DEF p, next
  <2> QED BY <1>4 DEF BackFrom
<1>6. ASSUME NEW i \in 1 .. Len(t)
      PROVE  f[i] = IF pos(i) THEN new \o f[i + Len(old)] ELSE <<t[i]>> \o f[i + 1]
  <2>1. /\ p[i] = IF pos(i) THEN new ELSE <<t[i]>>
        /\ next[i] = IF pos(i) THEN i + Len(old) ELSE i + 1
    <3> HIDE DEF pos
    <3> QED OBVIOUS
  <2>2. f[i] = p[i] \o f[next[i]]
    <3> HIDE DEF p, next
    <3> QED BY <1>5
  <2> HIDE DEF pos, p, next
  <2> QED BY <2>1, <2>2, Zenon
<1>7. Replace(f)
  <2> HIDE DEF pos
  <2> DEFINE g == [i \in 1 .. Len(t) + 1 |->
                     IF i > Len(t) THEN <<>>
                     ELSE IF pos(i) THEN new \o f[i + Len(old)]
                     ELSE <<t[i]>> \o f[i + 1]]
  <2>1. ASSUME NEW i \in 1 .. Len(t) + 1 PROVE g[i] = f[i]
    <3>1. CASE i = Len(t) + 1
      BY <1>0, <1>5, <3>1
    <3>2. CASE i # Len(t) + 1
      <4>1. i \in 1 .. Len(t) /\ ~(i > Len(t))
        BY <1>0, <3>2
      <4> QED BY <1>6, <4>1, Zenon
    <3> QED BY <3>1, <3>2
  <2>2. g = [i \in 1 .. Len(t) + 1 |-> g[i]] /\ f = [i \in 1 .. Len(t) + 1 |-> f[i]]
    BY <1>5
  <2>3. f = g
    <3> HIDE DEF g
    <3> QED BY <2>1, <2>2
  <2> QED BY <2>3
<1>8. Replace(replace)
  <2> HIDE DEF Replace
  <2> QED BY <1>7 DEF replace
<1> HIDE DEF pos
<1>9. ASSUME NEW i \in 1 .. Len(t) + 1
      PROVE  replace[i] = IF i > Len(t) THEN <<>>
                          ELSE IF pos(i) THEN new \o replace[i + Len(old)]
                          ELSE <<t[i]>> \o replace[i + 1]
  BY <1>8, Zenon
<1> HIDE DEF Replace
<1> DEFINE S == {i \in 1 .. Len(t) + 1 : replace[i] = f[i]}
<1>10. Len(t) + 1 \in S
  <2>1. Len(t) + 1 > Len(t) /\ Len(t) + 1 \in 1 .. Len(t) + 1
    BY <1>0
  <2> QED BY <1>5, <1>9, <2>1
<1>11. ASSUME NEW i \in 1 .. Len(t), \A j \in i + 1 .. Len(t) + 1 : j \in S PROVE i \in S
  <2>1. ~(i > Len(t)) /\ i \in 1 .. Len(t) + 1 /\ i + 1 \in i + 1 .. Len(t) + 1
    BY <1>0
  <2>2. replace[i + 1] = f[i + 1]
    BY <1>11, <2>1
  <2>3. pos(i) => replace[i + Len(old)] = f[i + Len(old)]
    <3>1. pos(i) => i + Len(old) \in i + 1 .. Len(t) + 1
      BY <1>0 DEF pos
    <3> QED BY <1>11, <3>1
  <2>4. replace[i] = f[i]
    BY <1>6, <1>9, <2>1, <2>2, <2>3, Zenon
  <2> QED BY <2>1, <2>4
<1>12. replace[1] = f[1]
  <2>1. \A i \in 1 .. Len(t) + 1 : i \in S
    <3> HIDE DEF S
    <3> QED BY <1>0, <1>10, <1>11, DownTo
  <2>2. 1 \in 1 .. Len(t) + 1
    BY <1>0
  <2> QED BY <2>1, <2>2
<1>13. \A i : Hits(t, old, i) <=> pos(i)
  BY DEF pos, Hits
<1>14. f \in [1 .. Len(t) + 1 -> Texts]
  BY <1>5 DEF Texts
<1> HIDE DEF p, next
<1>15. /\ ReplaceText(t, old, new) = f[1]
       /\ \A i \in 1 .. Len(t) :
            f[i] = IF Hits(t, old, i) THEN new \o f[i + Len(old)] ELSE <<t[i]>> \o f[i + 1]
  BY <1>1, <1>6, <1>12, <1>13, Zenon
<1> QED
  BY <1>5, <1>14, <1>15

(* A text that is taken over token by token.                                *)
LEMMA CopyRun ==
  ASSUME NEW t \in Texts, NEW a \in 1 .. Len(t) + 1, NEW b \in a .. Len(t) + 1,
         NEW f \in [1 .. Len(t) + 1 -> Texts],
         \A i \in a .. b - 1 : f[i] = <<t[i]>> \o f[i + 1]
  PROVE  f[a] = SubSeq(t, a, b - 1) \o f[b]
<1>0. Len(t) \in Nat /\ t \in Seq(Token)
  BY LenProperties DEF Texts
<1> DEFINE S == {k \in 0 .. b - a : f[b - k] = SubSeq(t, b - k, b - 1) \o f[b]}
<1>1. 0 \in S
  <2>1. SubSeq(t, b, b - 1) = <<>>
    <3>1. b \in Int /\ b - 1 \in Int /\ b - 1 < b
      BY <1>0
    <3> QED BY <3>1, SubSeqEmpty
  <2>2. f[b] \in Texts /\ b - 0 = b /\ 0 \in 0 .. b - a
    BY <1>0
  <2>3. <<>> \o f[b] = f[b]
    BY <2>2, ConcatEmptySeq DEF Texts
  <2> QED BY <2>1, <2>2, <2>3
<1>2. ASSUME NEW k \in 0 .. (b - a) - 1, k \in S PROVE k + 1 \in S
  <2>1. PICK i \in a .. b - 1, j \in a .. b : i = b - (k + 1) /\ j = b - k /\ j = i + 1
    BY <1>0
  <2>2. /\ i \in 1 .. Len(t) /\ b - 1 \in i .. Len(t) /\ k + 1 \in 0 .. b - a
        /\ j \in 1 .. Len(t) + 1 /\ b \in 1 .. Len(t) + 1
    BY <1>0, <2>1
  <2>3. SubSeq(t, i, b - 1) = <<t[i]>> \o SubSeq(t, j, b - 1)
    BY <1>0, <2>1, <2>2, SubSeqRecursiveFirst
  <2>4. f[i] = <<t[i]>> \o f[j] /\ f[j] = SubSeq(t, j, b - 1) \o f[b]
    BY <1>2, <2>1
  <2>5. <<t[i]>> \in Texts /\ f[b] \in Texts
    BY <1>0, <2>2, ElementOfSeq DEF Texts
  <2>6. SubSeq(t, j, b - 1) \in Texts
    <3>1. j \in Int /\ b - 1 \in Int
      BY <1>0, <2>1
    <3>2. \A m \in j .. b - 1 : t[m] \in Token
      <4>1. \A m \in j .. b - 1 : m \in 1 .. Len(t)
        BY <1>0, <2>2
      <4> QED BY <1>0, <4>1, ElementOfSeq
    <3> QED BY <3>1, <3>2, SubSeqProperties DEF Texts
  <2>7. f[i] = SubSeq(t, i, b - 1) \o f[b]
    <3>1. (<<t[i]>> \o SubSeq(t, j, b - 1)) \o f[b] = <<t[i]>> \o (SubSeq(t, j, b - 1) \o f[b])
      BY ONLY <2>5, <2>6, Associative
    <3> QED BY <2>3, <2>4, <3>1, Zenon
  <2> QED BY <2>1, <2>2, <2>7
<1>3. b - a \in S
  <2>1. b - a \in Nat /\ b - a \in 0 .. b - a
    BY <1>0
  <2> HIDE DEF S
  <2> QED BY <1>1, <1>2, <2>1, UpTo
<1>4. b - (b - a) = a
  BY <1>0
<1> QED BY <1>3, <1>4

(* A placeholder is found in the places where it is written.                *)
LEMMA HitsThere ==
  ASSUME NEW c, NEW H, Pieces(c, H), NEW t, NEW pos, Laid(t, c, pos),
         NEW old, IsPlaceholder(old), NEW i \in 1 .. Len(t)
  PROVE  Hits(t, old, i) <=> \E k \in H : i = pos[k] /\ c[k] = old
<1>0. c \in Seq(Texts) /\ H \subseteq 1 .. Len(c) /\ t \in Texts
  BY DEF Pieces, Laid
<1>1. ASSUME NEW k \in H
      PROVE  /\ pos[k] \in Nat \ {0} /\ c[k] \in Texts /\ Len(c[k]) \in Nat /\ Len(c[k]) >= 6
             /\ c[k][1] = "$" /\ c[k][2] = Opening /\ c[k][Len(c[k])] = Closing
             /\ \A j \in 5 .. Len(c[k]) - 1 : c[k][j] # Closing
             /\ pos[k] + Len(c[k]) - 1 <= Len(t)
             /\ SubSeq(t, pos[k], pos[k] + Len(c[k]) - 1) = c[k]
             /\ \A j \in 1 .. Len(c[k]) : t[pos[k] + j - 1] = c[k][j]
  <2>0. IsPlaceholder(c[k]) /\ k \in 1 .. Len(c) /\ k \in 1 .. Len(c) + 1
    BY <1>0, Lengths DEF Pieces
  <2>1. /\ c[k] \in Texts /\ Len(c[k]) >= 6
        /\ c[k][1] = "$" /\ c[k][2] = Opening /\ c[k][Len(c[k])] = Closing
        /\ \A j \in 5 .. Len(c[k]) - 1 : c[k][j] # Closing
    BY <2>0 DEF IsPlaceholder
  <2>2. PICK x \in Nat \ {0}, y \in Nat, w \in Nat :
          x = pos[k] /\ y = Len(c[k]) /\ w = Len(t)
    BY <1>0, <2>0, Lengths
  <2>3. pos[k + 1] = x + y /\ x + y <= w + 1
    BY <2>0, <2>2 DEF Laid
  <2>4. SubSeq(t, pos[k], pos[k + 1] - 1) = c[k]
    BY <1>0, <2>0, PieceIsThere
  <2>5. x + y - 1 <= w /\ pos[k + 1] - 1 = x + y - 1
    BY ONLY <2>3, x \in Nat, y \in Nat, w \in Nat
  <2>6. \A j \in 1 .. y : t[x + j - 1] = c[k][j]
    BY <2>0, <2>2 DEF Laid
  <2> QED BY <2>1, <2>2, <2>4, <2>5, <2>6
<1>2. ASSUME NEW k \in H, i = pos[k], c[k] = old PROVE Hits(t, old, i)
  BY <1>1, <1>2 DEF Hits
<1>3. ASSUME Hits(t, old, i) PROVE \E k \in H : i = pos[k] /\ c[k] = old
  <2>1. PICK L \in Nat, w \in Nat : L = Len(old) /\ w = Len(t)
    BY <1>0, Lengths, LenProperties DEF IsPlaceholder, Texts
  <2>2. /\ L >= 6 /\ old[1] = "$" /\ old[2] = Opening /\ old[L] = Closing
        /\ old \in Texts /\ \A j \in 5 .. L - 1 : old[j] # Closing
    BY <2>1 DEF IsPlaceholder
  <2>3. i + L - 1 <= w /\ SubSeq(t, i, i + L - 1) = old
    BY <1>3, <2>1 DEF Hits
  <2>4. \A j \in 1 .. L : old[j] = t[i + j - 1]
    <3>1. \A j \in i .. i + L - 1 : t[j] \in Token
      <4>1. \A j \in i .. i + L - 1 : j \in 1 .. Len(t)
        BY <2>1, <2>3
      <4> QED BY <1>0, <4>1, ElementOfSeq DEF Texts
    <3>2. i \in Int /\ i + L - 1 \in Int
      BY <2>1
    <3>3. \A j \in 1 .. (i + L - 1) - i + 1 : SubSeq(t, i, i + L - 1)[j] = t[i + j - 1]
      BY <3>1, <3>2, SubSeqProperties
    <3>4. (i + L - 1) - i + 1 = L
      BY <2>1
    <3> QED BY <2>3, <3>3, <3>4
  <2>a. i \in Nat /\ L \in Nat /\ w \in Nat /\ L >= 6
    BY <2>1, <2>2
  <2>5. Opens(t, i)
    <3>1. 1 \in 1 .. L /\ 2 \in 1 .. L /\ i + 1 - 1 = i /\ i + 2 - 1 = i + 1
      BY <2>a
    <3>2. t[i] = old[1] /\ t[i + 1] = old[2]
      BY <2>4, <3>1
    <3>3. i + 1 \in 1 .. w /\ DOMAIN t = 1 .. w
      BY <1>0, <2>1, <2>3, <2>a, Lengths
    <3> QED BY <2>2, <3>2, <3>3 DEF Opens
  <2>6. PICK k \in H : i = pos[k]
    <3>1. c \in Seq(Texts) /\ Pieces(c, H) /\ Laid(t, c, pos) /\ i \in 1 .. Len(t)
      BY <1>0
    <3> QED BY ONLY <2>5, <3>1, OpensOnlyThere
  <2>7. PICK y \in Nat : y = Len(c[k])
    BY <1>1
  <2>8. /\ y >= 6 /\ c[k] \in Texts /\ c[k][y] = Closing
        /\ \A j \in 5 .. y - 1 : c[k][j] # Closing
        /\ \A j \in 1 .. y : t[i + j - 1] = c[k][j]
    BY <1>1, <2>6, <2>7
  <2>9. y = L
    <3>1. CASE y < L
      <4>1. y \in 1 .. L /\ y \in 5 .. L - 1 /\ y \in 1 .. y
        BY <2>7, <2>8, <2>a, <3>1
      <4>2. old[y] = t[i + y - 1] /\ t[i + y - 1] = c[k][y]
        BY <2>4, <2>8, <4>1
      <4> QED BY <2>2, <2>8, <4>1, <4>2
    <3>2. CASE L < y
      <4>1. L \in 1 .. L /\ L \in 5 .. y - 1 /\ L \in 1 .. y
        BY <2>7, <2>a, <3>2
      <4>2. old[L] = t[i + L - 1] /\ t[i + L - 1] = c[k][L]
        BY <2>4, <2>8, <4>1
      <4> QED BY <2>2, <2>8, <4>1, <4>2
    <3> QED BY <2>7, <2>a, <3>1, <3>2
  <2>10. c[k] = old
    <3>1. Len(c[k]) = Len(old) /\ \A j \in 1 .. Len(c[k]) : c[k][j] = old[j]
      BY <2>1, <2>4, <2>7, <2>8, <2>9
    <3> QED BY <2>2, <2>8, <3>1, SeqEqual DEF Texts
  <2> QED BY <2>6, <2>10
<1> QED BY <1>2, <1>3

(* Replacing a placeholder replaces the texts that are it, and no others.   *)
LEMMA ReplacesThem ==
  ASSUME NEW c, NEW H, Pieces(c, H), NEW old, IsPlaceholder(old),
         NEW new \in Texts
  PROVE  ReplaceText(FlattenSeq(c), old, new) =
           FlattenSeq([k \in 1 .. Len(c) |-> IF k \in H /\ c[k] = old THEN new ELSE c[k]])
<1>0. c \in Seq(Texts) /\ H \subseteq 1 .. Len(c)
  BY DEF Pieces
<1> DEFINE t == FlattenSeq(c)
           other(k) == k \in H /\ c[k] = old
           d == [k \in 1 .. Len(c) |-> IF other(k) THEN new ELSE c[k]]
<1>1. PICK pos : Laid(t, c, pos)
  BY <1>0, Layout
<1>a. PICK n \in Nat, w \in Nat : n = Len(c) /\ w = Len(t)
  <2> HIDE DEF t
  <2> QED BY <1>0, <1>1, Lengths
<1>2. d \in Seq(Texts) /\ Len(d) = n
  <2>1. \A k \in 1 .. n : c[k] \in Texts
    BY <1>0, <1>a, LenProperties
  <2>2. d \in [1 .. n -> Texts]
    <3> HIDE DEF other
    <3> QED BY <1>a, <2>1
  <2> HIDE DEF d
  <2> QED BY <1>a, <2>2
<1>3. PICK R : Tails(d, R)
  <2> HIDE DEF d
  <2> QED BY <1>2, TailsAreThere
<1>4. R[1] = FlattenSeq(d)
  <2> HIDE DEF d
  <2> QED BY <1>2, <1>3, FlattenIsTails
<1>5. /\ R \in [1 .. n + 1 -> Texts] /\ R[n + 1] = <<>>
      /\ \A k \in 1 .. n : R[k] = (IF other(k) THEN new ELSE c[k]) \o R[k + 1]
  <2>1. \A k \in 1 .. n : d[k] = IF other(k) THEN new ELSE c[k]
    <3> HIDE DEF other
    <3> QED BY <1>a
  <2> HIDE DEF d, other
  <2> QED BY <1>2, <1>3, <2>1 DEF Tails
<1> HIDE DEF d
<1>6. /\ t \in Texts /\ old \in Texts /\ Len(old) \in Nat /\ Len(old) # 0
      /\ \A i \in 1 .. w : Hits(t, old, i) <=> \E k \in H : i = pos[k] /\ c[k] = old
  <2>1. t \in Texts
    <3> HIDE DEF t
    <3> QED BY <1>1 DEF Laid
  <2>2. old \in Texts /\ Len(old) >= 6
    BY DEF IsPlaceholder
  <2>3. Len(old) \in Nat /\ Len(old) # 0
    BY <2>2, LenProperties DEF Texts
  <2>4. \A i \in 1 .. w : Hits(t, old, i) <=> \E k \in H : i = pos[k] /\ c[k] = old
    <3> HIDE DEF t
    <3> QED BY <1>1, <1>a, HitsThere
  <2> QED BY <2>1, <2>2, <2>3, <2>4
<1> HIDE DEF t
<1>7. PICK f \in [1 .. w + 1 -> Texts] :
        /\ ReplaceText(t, old, new) = f[1] /\ f[w + 1] = <<>>
        /\ \A i \in 1 .. w :
             f[i] = IF Hits(t, old, i) THEN new \o f[i + Len(old)]
                    ELSE <<t[i]>> \o f[i + 1]
  BY <1>6, <1>a, ReplaceSteps
<1>b. ASSUME NEW k \in 1 .. n
      PROVE  /\ pos[k] \in 1 .. w + 1 /\ pos[k + 1] \in 1 .. w + 1
             /\ pos[k + 1] = pos[k] + Len(c[k])
             /\ Len(c[k]) \in Nat \ {0} /\ pos[k] <= w
  <2>1. pos[k] \in Nat \ {0} /\ pos[k + 1] \in Nat \ {0} /\ Len(c[k]) \in Nat /\ c[k] \in Texts
    <3>1. k \in 1 .. n + 1 /\ k + 1 \in 1 .. n + 1
      BY <1>a
    <3> QED BY <1>0, <1>1, <1>a, <3>1, Lengths
  <2>2. c[k] # <<>>
    BY <1>a DEF Pieces
  <2>3. Len(c[k]) # 0
    BY <2>1, <2>2, EmptySeq DEF Texts
  <2>4. pos[k + 1] = pos[k] + Len(c[k]) /\ pos[k + 1] <= w + 1
    BY <1>1, <1>a DEF Laid
  <2> QED BY <1>a, <2>1, <2>3, <2>4
<1>8. pos[1] = 1 /\ pos[n + 1] = w + 1
  BY <1>1, <1>a DEF Laid
<1> DEFINE S == {k \in 1 .. n + 1 : f[pos[k]] = R[k]}
<1>9. n + 1 \in S
  BY <1>5, <1>7, <1>8, <1>a
<1>10. ASSUME NEW k \in 1 .. n, \A j \in k + 1 .. n + 1 : j \in S PROVE k \in S
  <2>0. k + 1 \in k + 1 .. n + 1 /\ k \in 1 .. n + 1
    BY <1>a
  <2>1. f[pos[k + 1]] = R[k + 1]
    BY <1>10, <2>0
  <2>2. pos[k] \in 1 .. w
    BY <1>a, <1>b
  <2>3. CASE other(k)
    <3>1. Hits(t, old, pos[k])
      BY <1>6, <2>2, <2>3
    <3>2. f[pos[k]] = new \o f[pos[k] + Len(old)]
      BY <1>7, <2>2, <3>1
    <3>3. pos[k] + Len(old) = pos[k + 1]
      BY <1>b, <2>3
    <3>4. R[k] = new \o R[k + 1]
      BY <1>5, <2>3
    <3> QED BY <2>0, <2>1, <3>2, <3>3, <3>4
  <2>4. CASE ~other(k)
    <3>1. ASSUME NEW i \in pos[k] .. pos[k + 1] - 1 PROVE ~Hits(t, old, i) /\ i \in 1 .. w
      <4>1. i \in 1 .. w /\ pos[k] <= i /\ i < pos[k + 1]
        BY <1>a, <1>b
      <4>2. SUFFICES ASSUME NEW m \in H, i = pos[m], c[m] = old PROVE FALSE
        BY <1>6, <4>1
      <4>3. m \in 1 .. n
        BY <1>0, <1>a
      <4>4. pos[m] \in Nat /\ pos[m] < pos[m + 1] /\ pos[m + 1] \in Nat
        BY <1>a, <1>b, <4>3
      <4>5. pos[k] \in Nat /\ pos[k + 1] \in Nat
        BY <1>a, <1>b
      <4>6. CASE m < k
        <5>1. k \in m + 1 .. n + 1
          BY <1>a, <4>3, <4>6
        <5>2. pos[m + 1] <= pos[k]
          BY <1>0, <1>1, <1>a, <4>3, <5>1, Apart
        <5> QED BY <4>1, <4>2, <4>4, <4>5, <5>2
      <4>7. CASE k < m
        <5>1. m \in k + 1 .. n + 1
          BY <1>a, <4>3, <4>7
        <5>2. pos[k + 1] <= pos[m]
          BY <1>0, <1>1, <1>a, <5>1, Apart
        <5> QED BY <4>1, <4>2, <4>4, <4>5, <5>2
      <4>8. CASE m = k
        BY <2>4, <4>2, <4>8
      <4> QED BY <4>3, <4>6, <4>7, <4>8
    <3>2. \A i \in pos[k] .. pos[k + 1] - 1 : f[i] = <<t[i]>> \o f[i + 1]
      BY <1>7, <3>1
    <3>3. pos[k] \in 1 .. Len(t) + 1 /\ pos[k + 1] \in pos[k] .. Len(t) + 1
      BY <1>a, <1>b
    <3>4. f[pos[k]] = SubSeq(t, pos[k], pos[k + 1] - 1) \o f[pos[k + 1]]
      <4>1. t \in Texts /\ f \in [1 .. Len(t) + 1 -> Texts]
        BY <1>6, <1>a
      <4> QED BY ONLY <3>2, <3>3, <4>1, CopyRun
    <3>5. SubSeq(t, pos[k], pos[k + 1] - 1) = c[k]
      BY <1>0, <1>1, <1>a, PieceIsThere
    <3>6. R[k] = c[k] \o R[k + 1]
      BY <1>5, <2>4
    <3> QED BY <2>0, <2>1, <3>4, <3>5, <3>6
  <2> QED BY <2>3, <2>4
<1>11. f[pos[1]] = R[1]
  <2>1. \A k \in 1 .. n + 1 : k \in S
    <3> HIDE DEF S
    <3> QED BY <1>9, <1>10, <1>a, DownTo
  <2>2. 1 \in 1 .. n + 1
    BY <1>a
  <2> QED BY <2>1, <2>2
<1> QED BY <1>4, <1>7, <1>8, <1>11 DEF t, d

-----------------------------------------------------------------------------
(* All of them, one after the other                                         *)

\* What the code puts in the place of a match.
ValueOf(match) == Getenv(match[3], SubSeq(match, 5, Len(match) - 1))

(* One after another, the placeholders are replaced by their values, and the*)
(* rest of the file stays as it is.                                         *)
LEMMA ExpandsAll ==
  ASSUME NEW c, NEW H, Pieces(c, H), NEW e \in Seq(Texts), Len(e) = Len(c),
         \A k \in 1 .. Len(c) :
           /\ e[k] # <<>> /\ e[k][1] # Opening
           /\ \A j \in DOMAIN e[k] : ~Opens(e[k], j)
           /\ e[k] = IF k \in H THEN ValueOf(c[k]) ELSE c[k]
  PROVE  ExpandEnvVars(FlattenSeq(c)) = FlattenSeq(e)
<1>0. /\ c \in Seq(Texts) /\ H \subseteq 1 .. Len(c) /\ Len(c) \in Nat
      /\ \A k \in 1 .. Len(c) : c[k] \in Texts /\ e[k] \in Texts
      /\ \A k \in H : IsPlaceholder(c[k])
  <2>1. c \in Seq(Texts) /\ H \subseteq 1 .. Len(c) /\ \A k \in H : IsPlaceholder(c[k])
    BY DEF Pieces
  <2> QED BY <2>1, LenProperties, ElementOfSeq
<1> DEFINE t == FlattenSeq(c)
           matches == FindAll(t)
<1>1. matches \in Seq(Texts) /\ ToSet(matches) = {c[h] : h \in H}
  <2>1. PICK pos : Laid(t, c, pos)
    BY <1>0, Layout
  <2> HIDE DEF t
  <2> QED BY <2>1, FindsThem
<1>2. PICK n \in Nat : n = Len(matches) /\ DOMAIN matches = 1 .. n
  BY <1>1, LenProperties
<1> HIDE DEF matches, t
<1>3. \A m \in 1 .. n : \E h \in H : matches[m] = c[h]
  <2> TAKE m \in 1 .. n
  <2>1. matches[m] \in ToSet(matches)
    BY <1>2 DEF ToSet
  <2> QED BY <1>1, <2>1
<1>4. \A h \in H : \E m \in 1 .. n : matches[m] = c[h]
  <2> TAKE h \in H
  <2>1. c[h] \in ToSet(matches)
    BY <1>1
  <2> QED BY <1>2, <2>1 DEF ToSet
(* The texts when m of the matches are through, and what is then left.      *)
<1> DEFINE done(m, k) == k \in H /\ \E q \in 1 .. m : matches[q] = c[k]
           left(m) == {k \in H : ~done(m, k)}
           now(m) == [k \in 1 .. Len(c) |-> IF done(m, k) THEN e[k] ELSE c[k]]
<1>5. ASSUME NEW m \in 0 .. n PROVE Pieces(now(m), left(m))
  <2> HIDE DEF done
  <2>1. now(m) \in Seq(Texts) /\ Len(now(m)) = Len(c)
    <3>1. now(m) \in [1 .. Len(c) -> Texts]
      BY <1>0
    <3> HIDE DEF now
    <3> QED BY <1>0, <3>1
  <2>2. left(m) \subseteq 1 .. Len(c)
    BY <1>0
  <2>3. ASSUME NEW k \in 1 .. Len(c)
        PROVE  /\ now(m)[k] # <<>> /\ now(m)[k][1] # Opening
               /\ \A j \in DOMAIN now(m)[k] : Opens(now(m)[k], j) => k \in left(m) /\ j = 1
    <3>1. now(m)[k] = IF done(m, k) THEN e[k] ELSE c[k]
      OBVIOUS
    <3>2. done(m, k) => k \in H
      BY DEF done
    <3>3. k \in left(m) <=> k \in H /\ ~done(m, k)
      OBVIOUS
    <3> HIDE DEF now, left
    <3>4. CASE done(m, k)
      BY <3>1, <3>4
    <3>5. CASE ~done(m, k)
      <4>1. /\ c[k] # <<>> /\ c[k][1] # Opening
            /\ \A j \in DOMAIN c[k] : Opens(c[k], j) => k \in H /\ j = 1
        BY DEF Pieces
      <4> QED BY <3>1, <3>3, <3>5, <4>1
    <3> QED BY <3>4, <3>5
  <2>4. ASSUME NEW k \in left(m) PROVE IsPlaceholder(now(m)[k])
    <3>1. k \in H /\ k \in 1 .. Len(c) /\ now(m)[k] = c[k]
      BY <1>0
    <3> HIDE DEF now, left
    <3> QED BY <1>0, <3>1
  <2> HIDE DEF now, left
  <2> QED BY <2>1, <2>2, <2>3, <2>4 DEF Pieces
<1>6. now(0) = c
  <2>1. \A k \in 1 .. Len(c) : ~done(0, k)
    OBVIOUS
  <2>2. now(0) = [k \in 1 .. Len(c) |-> c[k]]
    <3> HIDE DEF done
    <3> QED BY <2>1
  <2>3. c = [k \in 1 .. Len(c) |-> c[k]]
    BY <1>0, LenProperties
  <2> HIDE DEF now
  <2> QED BY <2>2, <2>3
<1>7. now(n) = e
  <2>1. \A k \in 1 .. Len(c) : done(n, k) <=> k \in H
    BY <1>4
  <2>2. \A k \in 1 .. Len(c) : (IF done(n, k) THEN e[k] ELSE c[k]) = e[k]
    <3> HIDE DEF done
    <3> QED BY <2>1
  <2>3. now(n) = [k \in 1 .. Len(c) |-> e[k]]
    <3> HIDE DEF done
    <3> QED BY <2>2
  <2>4. e = [k \in 1 .. Len(c) |-> e[k]]
    BY LenProperties
  <2> HIDE DEF now
  <2> QED BY <2>3, <2>4
<1>8. ASSUME NEW m \in 0 .. n - 1
      PROVE  ReplaceText(FlattenSeq(now(m)), matches[m + 1], ValueOf(matches[m + 1])) =
               FlattenSeq(now(m + 1))
  <2>1. m \in 0 .. n /\ m + 1 \in 1 .. n /\ 1 .. m + 1 = (1 .. m) \cup {m + 1}
    BY <1>2
  <2>2. PICK h \in H : matches[m + 1] = c[h]
    BY <1>3, <2>1
  <2> DEFINE old == matches[m + 1]
             new == ValueOf(old)
  <2>3. IsPlaceholder(old)
    BY <1>0, <2>2
  <2>4. new \in Texts
    <3>1. h \in 1 .. Len(c) /\ e[h] \in Texts
      BY <1>0
    <3>2. new = e[h]
      BY <2>2, <3>1
    <3> HIDE DEF new
    <3> QED BY <3>1, <3>2
  <2>5. \A k \in H : c[k] = old => e[k] = new
    BY <1>0
  <2> HIDE DEF new, old
  <2>6. Len(now(m)) = Len(c) /\ \A k \in 1 .. Len(c) : now(m)[k] = IF done(m, k) THEN e[k] ELSE c[k]
    <3> HIDE DEF done
    <3>1. DOMAIN now(m) = 1 .. Len(c)
      OBVIOUS
    <3>2. \A k \in 1 .. Len(c) : now(m)[k] = IF done(m, k) THEN e[k] ELSE c[k]
      OBVIOUS
    <3>3. now(m) \in Seq(Texts)
      BY <1>5, <2>1 DEF Pieces
    <3> HIDE DEF now
    <3>4. Len(now(m)) = Len(c)
      BY <1>0, <3>1, <3>3, LenProperties
    <3> QED BY <3>2, <3>4
  <2>7. ASSUME NEW k \in 1 .. Len(c)
        PROVE  (IF k \in left(m) /\ now(m)[k] = old THEN new ELSE now(m)[k]) =
                 IF done(m + 1, k) THEN e[k] ELSE c[k]
    <3>1. done(m + 1, k) <=> done(m, k) \/ (k \in H /\ old = c[k])
      BY <2>1 DEF old
    <3>2. k \in left(m) <=> k \in H /\ ~done(m, k)
      OBVIOUS
    <3>3. done(m, k) => k \in H
      OBVIOUS
    <3>4. now(m)[k] = IF done(m, k) THEN e[k] ELSE c[k]
      BY <2>6
    <3> HIDE DEF done, now, left
    <3> QED BY <2>5, <3>1, <3>2, <3>3, <3>4
  <2>8. [k \in 1 .. Len(now(m)) |-> IF k \in left(m) /\ now(m)[k] = old THEN new ELSE now(m)[k]]
          = now(m + 1)
    <3>1. [k \in 1 .. Len(c) |-> IF k \in left(m) /\ now(m)[k] = old THEN new ELSE now(m)[k]]
            = [k \in 1 .. Len(c) |-> IF done(m + 1, k) THEN e[k] ELSE c[k]]
      <4> HIDE DEF done, now, left
      <4> QED BY <2>7
    <3>2. Len(now(m)) = Len(c)
      BY <2>6
    <3> HIDE DEF left, done
    <3> QED BY <3>1, <3>2
  <2>9. Pieces(now(m), left(m))
    BY <1>5, <2>1
  <2> HIDE DEF now, left
  <2>10. ReplaceText(FlattenSeq(now(m)), old, new) =
           FlattenSeq([k \in 1 .. Len(now(m)) |->
                         IF k \in left(m) /\ now(m)[k] = old THEN new ELSE now(m)[k]])
    BY <2>3, <2>4, <2>9, ReplacesThem
  <2> QED BY <2>8, <2>10 DEF old, new
<1> HIDE DEF now, left, done
<1> DEFINE Expand(g) == g = [k \in 0 .. n |->
                               IF k = 0 THEN t
                               ELSE ReplaceText(g[k - 1], matches[k],
                                      Getenv(matches[k][3],
                                             SubSeq(matches[k], 5, Len(matches[k]) - 1)))]
           expanded == CHOOSE g : Expand(g)
<1>9. ExpandEnvVars(t) = expanded[n]
  BY <1>2, Zenon DEF ExpandEnvVars, matches
<1>10. \E g : Expand(g)
  <2> DEFINE g == [k \in 0 .. n |-> FlattenSeq(now(k))]
  <2>1. ASSUME NEW k \in 0 .. n
        PROVE  g[k] = IF k = 0 THEN t
                      ELSE ReplaceText(g[k - 1], matches[k], ValueOf(matches[k]))
    <3>1. CASE k = 0
      BY <1>6, <3>1 DEF t
    <3>2. CASE k # 0
      <4>1. PICK m \in 0 .. n - 1 : m = k - 1 /\ k = m + 1 /\ m \in 0 .. n
        BY <1>2, <3>2
      <4>2. g[m] = FlattenSeq(now(m)) /\ g[k] = FlattenSeq(now(k))
        BY <4>1
      <4> HIDE DEF g
      <4>3. ReplaceText(FlattenSeq(now(m)), matches[k], ValueOf(matches[k])) = FlattenSeq(now(k))
        BY <1>8, <4>1
      <4> QED BY <3>2, <4>1, <4>2, <4>3
    <3> QED BY <3>1, <3>2
  <2>2. g = [k \in 0 .. n |-> g[k]]
    OBVIOUS
  <2> HIDE DEF g
  <2>3. g = [k \in 0 .. n |-> IF k = 0 THEN t
                              ELSE ReplaceText(g[k - 1], matches[k], ValueOf(matches[k]))]
    BY <2>1, <2>2
  <2>4. Expand(g)
    BY <2>3 DEF ValueOf
  <2> QED BY <2>4
<1>11. Expand(expanded)
  <2> HIDE DEF Expand
  <2> QED BY <1>10
<1> HIDE DEF expanded
<1>12. \A k \in 0 .. n : expanded[k] = IF k = 0 THEN t
                                       ELSE ReplaceText(expanded[k - 1], matches[k], ValueOf(matches[k]))
  BY <1>11, Zenon DEF ValueOf
<1> HIDE DEF Expand
<1> DEFINE S == {k \in 0 .. n : expanded[k] = FlattenSeq(now(k))}
<1>13. 0 \in S
  BY <1>2, <1>6, <1>12 DEF t
<1>14. ASSUME NEW m \in 0 .. n - 1, m \in S PROVE m + 1 \in S
  <2>1. PICK k \in 0 .. n : k = m + 1 /\ k # 0 /\ k - 1 = m
    BY <1>2
  <2>2. expanded[k] = ReplaceText(expanded[m], matches[k], ValueOf(matches[k]))
    BY <1>12, <2>1
  <2>3. expanded[m] = FlattenSeq(now(m))
    BY <1>14
  <2>4. ReplaceText(FlattenSeq(now(m)), matches[k], ValueOf(matches[k])) = FlattenSeq(now(k))
    BY <1>8, <2>1
  <2> QED BY <2>1, <2>2, <2>3, <2>4
<1>15. n \in S
  <2>1. n \in 0 .. n
    BY <1>2
  <2> HIDE DEF S
  <2> QED BY <1>2, <1>13, <1>14, <2>1, UpTo
<1> QED
  BY <1>7, <1>9, <1>15 DEF t

-----------------------------------------------------------------------------
(* The file                                                                 *)

(* The signs of a placeholder that differ.                                  *)
LEMMA Marks == "$" # Opening /\ ":" # Opening /\ Closing # Opening /\ ":" # "$"
BY Zenon DEF Opening, Closing

(* The text of a placeholder.                                               *)
Joined(r, s, t, m, n) ==
  /\ r \in Texts /\ Len(r) = m + n
  /\ \A i \in 1 .. m + n : r[i] = IF i <= m THEN s[i] ELSE t[i - m]

LEMMA Together ==
  ASSUME NEW s \in Texts, NEW t \in Texts, NEW m, NEW n, Len(s) = m, Len(t) = n
  PROVE  Joined(s \o t, s, t, m, n)
BY ConcatProperties DEF Texts, Joined

LEMMA PlaceholderText ==
  ASSUME NEW p \in Parts, p.var # PlainText, Closing \notin ToSet(p.text),
         \A j \in DOMAIN p.text : ~Opens(p.text, j), ConfigAssumption
  PROVE  /\ IsPlaceholder(Text(p))
         /\ \A j \in DOMAIN Text(p) : Opens(Text(p), j) => j = 1
         /\ ValueOf(Text(p)) = Meaning(p)
<1> DEFINE u == p.text
           a == <<"$", Opening, p.var, ":">>
           z == <<Closing>>
<1>0. /\ p.var \in Vars /\ p.var \in Token /\ u \in Texts /\ u # <<>>
      /\ Opening \in Token /\ Closing \in Token /\ "$" \in Token /\ ":" \in Token
  <2>1. p.var \in Vars /\ u \in Seq(STRING) /\ u # <<>>
    BY DEF ConfigAssumption
  <2>1a. u \in Texts
    BY <2>1, SeqMonotonic DEF Texts, Token
  <2>2. Opening \in Token /\ Closing \in Token /\ "$" \in Token /\ ":" \in Token
    BY DEF Token
  <2> QED BY <2>1, <2>1a, <2>2 DEF ConfigAssumption, Token
<1>1. PICK L \in Nat : L = Len(u) /\ L >= 1 /\ DOMAIN u = 1 .. L
  BY <1>0, EmptySeq, LenProperties DEF Texts
<1>2. /\ a \in Texts /\ Len(a) = 4
      /\ a[1] = "$" /\ a[2] = Opening /\ a[3] = p.var /\ a[4] = ":"
  BY <1>0 DEF Texts
<1>3. z \in Texts /\ Len(z) = 1 /\ z[1] = Closing
  BY <1>0 DEF Texts
<1>4. Text(p) = a \o u \o z
  BY DEF Text
<1> HIDE DEF a, u, z
<1>5. /\ a \o u \in Texts /\ Len(a \o u) = 4 + L
      /\ \A i \in 1 .. 4 + L : (a \o u)[i] = IF i <= 4 THEN a[i] ELSE u[i - 4]
  <2>1. a \in Texts /\ u \in Texts /\ 4 \in Nat /\ L \in Nat /\ Len(a) = 4 /\ Len(u) = L
    BY <1>0, <1>1, <1>2
  <2>2. Joined(a \o u, a, u, 4, L)
    BY ONLY <2>1, Together
  <2> QED BY <2>2 DEF Joined
<1> DEFINE b == a \o u
           s == b \o z
<1>6. b \in Texts /\ Len(b) = 4 + L
      /\ \A i \in 1 .. 4 + L : b[i] = IF i <= 4 THEN a[i] ELSE u[i - 4]
  BY <1>5
<1> HIDE DEF b
<1>7. /\ s \in Texts /\ Len(s) = 5 + L
      /\ \A i \in 1 .. 5 + L : s[i] = IF i <= 4 + L THEN b[i] ELSE z[i - (4 + L)]
  <2>1. PICK m \in Nat : m = 4 + L
    BY <1>1
  <2>2. /\ s \in Texts /\ Len(s) = m + 1
        /\ \A i \in 1 .. m + 1 : s[i] = IF i <= m THEN b[i] ELSE z[i - m]
    <3>1. b \in Texts /\ z \in Texts /\ 1 \in Nat /\ Len(b) = m /\ Len(z) = 1
      BY <1>3, <1>6, <2>1
    <3>2. Joined(s, b, z, m, 1)
      BY ONLY <2>1, <3>1, Together DEF s
    <3> HIDE DEF s
    <3> QED BY <3>2 DEF Joined
  <2>3. m + 1 = 5 + L
    BY <1>1, <2>1
  <2> HIDE DEF s
  <2> QED BY <2>1, <2>2, <2>3
<1>8. Text(p) = s
  BY <1>4 DEF b
<1> HIDE DEF s
<1>9. DOMAIN s = 1 .. 5 + L
  BY <1>7, LenProperties DEF Texts
<1>10. s[1] = "$" /\ s[2] = Opening /\ s[3] = p.var /\ s[4] = ":" /\ s[5 + L] = Closing
  <2>1. \A i \in 1 .. 4 : s[i] = a[i]
    <3> TAKE i \in 1 .. 4
    <3>1. i \in 1 .. 5 + L /\ i \in 1 .. 4 + L /\ i <= 4 + L /\ i <= 4
      BY <1>1
    <3> QED BY <1>6, <1>7, <3>1
  <2>2. s[5 + L] = z[1]
    <3>1. PICK i \in 1 .. 5 + L : i = 5 + L /\ ~(i <= 4 + L) /\ i - (4 + L) = 1
      BY <1>1
    <3> QED BY <1>7, <3>1
  <2>3. 1 \in 1 .. 4 /\ 2 \in 1 .. 4 /\ 3 \in 1 .. 4 /\ 4 \in 1 .. 4
    OBVIOUS
  <2> QED BY <1>2, <1>3, <2>1, <2>2, <2>3
<1>11. \A i \in 1 .. 5 + L, j \in 1 .. L : i = 4 + j => s[i] = u[j]
  <2> TAKE i \in 1 .. 5 + L, j \in 1 .. L
  <2> HAVE i = 4 + j
  <2>1. i \in 1 .. 4 + L /\ i <= 4 + L /\ ~(i <= 4) /\ i - 4 = j
    BY <1>1
  <2>2. s[i] = b[i]
    BY <1>7, <2>1
  <2>3. b[i] = u[i - 4]
    BY <1>6, <2>1
  <2> QED BY <2>1, <2>2, <2>3
<1>12. \A j \in 1 .. L : u[j] # Closing
  BY <1>1 DEF ToSet, u
<1>13. IsPlaceholder(s)
  <2>1. ASSUME NEW i \in 5 .. Len(s) - 1 PROVE s[i] # Closing
    <3>1. PICK j \in 1 .. L : i = 4 + j /\ i \in 1 .. 5 + L
      BY <1>1, <1>7
    <3> QED BY <1>11, <1>12, <3>1
  <2>2. Len(s) >= 6 /\ s[Len(s)] = Closing
    BY <1>1, <1>7, <1>10
  <2> QED BY <1>0, <1>7, <1>10, <2>1, <2>2 DEF IsPlaceholder
<1>14. ASSUME NEW i \in DOMAIN s, Opens(s, i), i # 1 PROVE FALSE
  <2>1. i + 1 \in 1 .. 5 + L /\ s[i] = "$" /\ s[i + 1] = Opening /\ i \in 1 .. 5 + L
    BY <1>9, <1>14 DEF Opens
  <2>2. i # 2
    BY <1>10, <2>1, Marks
  <2>3. i # 3
    BY <1>10, <2>1, Marks
  <2>4. i # 4
    BY <1>10, <2>1, Marks
  <2>5. PICK j \in 1 .. L : i = 4 + j
    <3>1. i \in Nat /\ i >= 5 /\ i <= 4 + L
      BY <1>1, <1>14, <2>1, <2>2, <2>3, <2>4
    <3>2. i - 4 \in 1 .. L /\ i = 4 + (i - 4)
      BY <1>1, <3>1
    <3> QED BY <3>2
  <2>6. CASE j = L
    <3>1. i + 1 = 5 + L
      BY <1>1, <2>5, <2>6
    <3> QED BY <1>10, <2>1, <3>1, Marks
  <2>7. CASE j # L
    <3>1. PICK g \in 1 .. L : g = j + 1 /\ i + 1 = 4 + g
      BY <1>1, <2>5, <2>7
    <3>2. u[j] = "$" /\ u[g] = Opening
      BY <1>11, <2>1, <2>5, <3>1
    <3>3. Opens(u, j) /\ j \in DOMAIN u
      BY <1>1, <3>1, <3>2 DEF Opens
    <3> QED BY <3>3 DEF u
  <2> QED BY <2>6, <2>7
<1>15. ValueOf(s) = Meaning(p)
  <2>1. SubSeq(s, 5, Len(s) - 1) = u
    <3>0. Len(s) - 1 = 4 + L
      BY <1>1, <1>7
    <3>1. \A i \in 5 .. 4 + L : s[i] \in Token
      <4>1. \A i \in 5 .. 4 + L : i \in 1 .. Len(s)
        BY <1>1, <1>7
      <4> QED BY <1>7, <4>1, ElementOfSeq DEF Texts
    <3>2. 5 \in Int /\ 4 + L \in Int
      BY <1>1
    <3> DEFINE r == SubSeq(s, 5, 4 + L)
    <3>3. /\ r \in Seq(Token) /\ Len(r) = IF 5 <= 4 + L THEN (4 + L) - 5 + 1 ELSE 0
          /\ \A i \in 1 .. (4 + L) - 5 + 1 : r[i] = s[5 + i - 1]
      BY <3>1, <3>2, SubSeqProperties
    <3> HIDE DEF r
    <3>4. Len(r) = L /\ (4 + L) - 5 + 1 = L
      BY <1>1, <3>3
    <3>5. ASSUME NEW j \in 1 .. L PROVE r[j] = u[j]
      <4>1. PICK i \in 1 .. 5 + L : i = 4 + j /\ i = 5 + j - 1
        BY <1>1
      <4>2. r[j] = s[5 + j - 1]
        BY <3>3, <3>4
      <4> QED BY <1>11, <4>1, <4>2
    <3>6. r = u
      BY <1>0, <1>1, <3>3, <3>4, <3>5, SeqEqual DEF Texts
    <3> QED BY <3>0, <3>6 DEF r
  <2> QED BY <1>10, <2>1 DEF ValueOf, Meaning, u
<1> QED BY <1>8, <1>9, <1>13, <1>14, <1>15

(* The scalar with the values written in it.                                *)
MeantText == FlattenSeq([i \in DOMAIN written |-> Meaning(written[i])])

(* The parts of the file, as the lemmas above want them.                    *)
LEMMA FileExpands ==
  ASSUME ConfigAssumption, env \in [Vars -> Values], written \in Seq(Parts), PlainValues
  PROVE  /\ ExpandEnvVars(FileText) = MeantText
         /\ FileText = <<"null">> \/ (\A i \in DOMAIN FileText : FileText[i] = "8")
              => FileText = MeantText
<1> DEFINE c == [i \in DOMAIN written |-> Text(written[i])]
           e == [i \in DOMAIN written |-> Meaning(written[i])]
           H == {i \in DOMAIN written : written[i].var # PlainText}
<1>1. PICK n \in Nat : n = Len(written) /\ DOMAIN written = 1 .. n
  BY LenProperties
<1>2. ASSUME NEW k \in 1 .. n
      PROVE  /\ Text(written[k]) \in Texts /\ Meaning(written[k]) \in Texts
             /\ \A s \in {Text(written[k]), Meaning(written[k])} : s # <<>> /\ s[1] # Opening
             /\ \A j \in DOMAIN Meaning(written[k]) : ~Opens(Meaning(written[k]), j)
             /\ \A j \in DOMAIN Text(written[k]) :
                  Opens(Text(written[k]), j) => written[k].var # PlainText /\ j = 1
             /\ written[k].var # PlainText =>
                  /\ IsPlaceholder(Text(written[k]))
                  /\ ValueOf(Text(written[k])) = Meaning(written[k])
             /\ written[k].var = PlainText => Text(written[k]) = Meaning(written[k])
  <2> DEFINE p == written[k]
  <2>1. p \in Parts
    BY <1>1, ElementOfSeq
  <2>2. /\ \A s \in {p.text, Meaning(p)} : \A j \in DOMAIN s : ~Opens(s, j)
        /\ Meaning(p)[1] # Opening
        /\ p.var # PlainText => Closing \notin ToSet(p.text)
    BY <1>1 DEF PlainValues
  <2> HIDE DEF p
  <2>3. p.var \in Vars \cup {PlainText} /\ p.text \in Seq(STRING) /\ p.text # <<>>
    BY <2>1 DEF ConfigAssumption
  <2>4. p.text \in Texts
    BY <2>3, SeqMonotonic DEF Texts, Token
  <2>5. CASE p.var = PlainText
    <3>1. Text(p) = p.text /\ Meaning(p) = p.text
      BY <2>5 DEF Text, Meaning
    <3>2. \A j \in DOMAIN Text(p) : ~Opens(Text(p), j)
      BY <2>2, <3>1
    <3> QED BY <2>2, <2>3, <2>4, <2>5, <3>1, <3>2 DEF p
  <2>6. CASE p.var # PlainText
    <3>1. /\ IsPlaceholder(Text(p)) /\ ValueOf(Text(p)) = Meaning(p)
          /\ \A j \in DOMAIN Text(p) : Opens(Text(p), j) => j = 1
      BY <2>1, <2>2, <2>6, PlaceholderText
    <3>2. Text(p) \in Texts /\ Text(p)[1] = "$" /\ Text(p) # <<>>
      BY <3>1, EmptySeq DEF IsPlaceholder
    <3>3. p.var \in Vars /\ env[p.var] \in Seq(STRING)
      BY <2>3, <2>6 DEF ConfigAssumption
    <3>4. Meaning(p) \in Texts /\ Meaning(p) # <<>>
      <4>1. Meaning(p) = IF env[p.var] = <<>> THEN p.text ELSE env[p.var]
        BY <2>6 DEF Meaning, Getenv
      <4>2. env[p.var] \in Texts
        BY <3>3, SeqMonotonic DEF Texts, Token
      <4> QED BY <2>3, <2>4, <4>1, <4>2
    <3>5. Text(p)[1] # Opening
      BY <3>2, Marks
    <3> QED BY <2>2, <2>6, <3>1, <3>2, <3>4, <3>5 DEF p
  <2> QED BY <2>5, <2>6
<1>3. /\ c \in Seq(Texts) /\ Len(c) = n /\ \A k \in 1 .. n : c[k] = Text(written[k])
      /\ e \in Seq(Texts) /\ Len(e) = n /\ \A k \in 1 .. n : e[k] = Meaning(written[k])
  <2>1. c \in [1 .. n -> Texts] /\ \A k \in 1 .. n : c[k] = Text(written[k])
    BY <1>1, <1>2
  <2>2. e \in [1 .. n -> Texts] /\ \A k \in 1 .. n : e[k] = Meaning(written[k])
    BY <1>1, <1>2
  <2> HIDE DEF c, e
  <2>0. n \in Nat
    BY <1>1
  <2>3. c \in Seq(Texts) /\ Len(c) = n
    BY ONLY <2>0, <2>1
  <2>4. e \in Seq(Texts) /\ Len(e) = n
    BY ONLY <2>0, <2>2
  <2> QED BY <2>1, <2>2, <2>3, <2>4
<1>4. H \subseteq 1 .. n /\ \A k \in 1 .. n : k \in H <=> written[k].var # PlainText
  BY <1>1
<1>5. FileText = FlattenSeq(c) /\ MeantText = FlattenSeq(e)
  BY DEF FileText, MeantText
<1> HIDE DEF c, e, H
<1>6. Pieces(c, H)
  <2>1. ASSUME NEW k \in 1 .. n
        PROVE  /\ c[k] # <<>> /\ c[k][1] # Opening
               /\ \A j \in DOMAIN c[k] : Opens(c[k], j) => k \in H /\ j = 1
               /\ k \in H => IsPlaceholder(c[k])
    BY <1>2, <1>3, <1>4
  <2>2. \A k \in H : IsPlaceholder(c[k])
    BY <1>4, <2>1
  <2> QED BY <1>3, <1>4, <2>1, <2>2 DEF Pieces
<1>7. ASSUME NEW k \in 1 .. n
      PROVE  /\ e[k] # <<>> /\ e[k][1] # Opening
             /\ \A j \in DOMAIN e[k] : ~Opens(e[k], j)
             /\ e[k] = IF k \in H THEN ValueOf(c[k]) ELSE c[k]
  BY <1>2, <1>3, <1>4
<1>8. ExpandEnvVars(FlattenSeq(c)) = FlattenSeq(e)
  <2>1. e \in Seq(Texts) /\ Len(e) = Len(c)
    BY <1>3
  <2>2. \A k \in 1 .. Len(c) :
           /\ e[k] # <<>> /\ e[k][1] # Opening
           /\ \A j \in DOMAIN e[k] : ~Opens(e[k], j)
           /\ e[k] = IF k \in H THEN ValueOf(c[k]) ELSE c[k]
    BY <1>3, <1>7
  <2> QED BY ONLY <1>6, <2>1, <2>2, ExpandsAll
<1>9. ASSUME FileText = <<"null">> \/ \A i \in DOMAIN FileText : FileText[i] = "8"
      PROVE  FileText = MeantText
  <2> DEFINE t == FlattenSeq(c)
  <2>1. PICK pos : Laid(t, c, pos)
    BY <1>3, Layout
  <2>2. ASSUME NEW h \in H PROVE FALSE
    <3>0. h \in 1 .. Len(c) /\ h \in 1 .. Len(c) + 1 /\ IsPlaceholder(c[h])
      BY <1>1, <1>3, <1>4, <1>6 DEF Pieces
    <3> HIDE DEF t
    <3>1. PICK x \in Nat \ {0}, y \in Nat, w \in Nat :
            x = pos[h] /\ y = Len(c[h]) /\ w = Len(t) /\ DOMAIN t = 1 .. w
      BY <1>3, <2>1, <3>0, Lengths
    <3>2. y >= 6 /\ c[h][1] = "$"
      BY <3>0, <3>1 DEF IsPlaceholder
    <3>3. pos[h + 1] = x + y /\ x + y <= w + 1 /\ \A j \in 1 .. y : t[x + j - 1] = c[h][j]
      BY <2>1, <3>0, <3>1 DEF Laid
    <3>4. x \in 1 .. w /\ w >= 6
      BY <3>1, <3>2, <3>3
    <3>5. t[x] = "$"
      <4>1. 1 \in 1 .. y /\ x + 1 - 1 = x
        BY <3>1, <3>2
      <4> QED BY <3>2, <3>3, <4>1
    <3>6. t = FileText
      BY <1>5 DEF t
    <3>7. t # <<"null">>
      <4>1. Len(<<"null">>) = 1
        OBVIOUS
      <4>2. w # 1
        BY <3>4
      <4> QED BY <3>1, <4>1, <4>2
    <3>8. t[x] = "8"
      BY <1>9, <3>1, <3>4, <3>6, <3>7
    <3> QED BY <3>5, <3>8
  <2>3. \A k \in 1 .. n : e[k] = c[k]
    BY <1>7, <2>2
  <2>4. e = c
    BY <1>3, <2>3, SeqEqual
  <2> QED BY <1>5, <2>4
<1> QED BY <1>5, <1>8, <1>9

(* Whether the scalar has quotes when the document is written again.        *)
StillQuoted(q, tag, v) == q \/ (tag = "!!str" /\ Resolve(FALSE, v) # "!!str")

LEMMA Remarshalled ==
  ASSUME NEW q, NEW tag, NEW v
  PROVE  /\ Remarshal([quoted |-> q, tag |-> tag, value |-> v]).value = v
         /\ Remarshal([quoted |-> q, tag |-> tag, value |-> v]).quoted
              = StillQuoted(q, tag, v)
<1> DEFINE node == [quoted |-> q, tag |-> tag, value |-> v]
           Q == node.quoted \/ (node.tag = "!!str" /\ Resolve(FALSE, node.value) # "!!str")
<1>1. Remarshal(node) = [node EXCEPT !.quoted = Q]
  BY Zenon DEF Remarshal
<1>2. node.quoted = q /\ node.tag = tag /\ node.value = v
  OBVIOUS
<1>3. Q = StillQuoted(q, tag, v)
  <2> HIDE DEF node
  <2> QED BY <1>2, Zenon DEF StillQuoted
<1> HIDE DEF Q
<1>4. Remarshal(node).value = v /\ Remarshal(node).quoted = Q
  BY <1>1
<1> HIDE DEF node
<1> QED BY <1>3, <1>4, Zenon DEF node

(* What a placeholder stands for might as well have been written.           *)
LEMMA LoadsAsMeant ==
  ASSUME ConfigAssumption, env \in [Vars -> Values], written \in Seq(Parts), PlainValues,
         NEW quoted \in BOOLEAN, NEW kind
  PROVE  Load(quoted, kind, FileText) = Decode(Resolve(quoted, MeantText), kind, MeantText)
<1> DEFINE t == FileText
           m == MeantText
           tag == Resolve(quoted, t)
           node == [quoted |-> quoted, tag |-> tag, value |-> t]
           new == Remarshal(ProcessNode(node))
<1>1. ExpandEnvVars(t) = m /\ (t = <<"null">> \/ (\A i \in DOMAIN t : t[i] = "8") => t = m)
  BY FileExpands
<1> HIDE DEF t, m
<1>2. quoted => \A s : Resolve(quoted, s) = "!!str"
  BY DEF Resolve
<1>3. Load(quoted, kind, FileText) = Decode(Resolve(new.quoted, new.value), kind, new.value)
  BY DEF Load, t
<1>4. CASE tag # "!!str"
  <2>1. ~quoted
    BY <1>2, <1>4
  <2>2. t = <<"null">> \/ \A i \in DOMAIN t : t[i] = "8"
    BY <1>4, <2>1 DEF Resolve
  <2>3. t = m
    BY <1>1, <2>2
  <2>4. ProcessNode(node) = node
    BY <1>4 DEF ProcessNode
  <2> HIDE DEF tag
  <2>4a. new = Remarshal([quoted |-> quoted, tag |-> tag, value |-> t])
    BY <2>4
  <2> HIDE DEF new
  <2>5. /\ new.quoted = StillQuoted(quoted, tag, t)
        /\ new.value = t
    BY <2>4a, Remarshalled
  <2>6. new.quoted = quoted
    BY <1>4, <2>5, Zenon DEF StillQuoted
  <2> QED BY <1>3, <2>3, <2>5, <2>6 DEF m
<1>5. CASE tag = "!!str"
  <2>1. ProcessNode(node) = [node EXCEPT !.value = m, !.tag = IF m # t THEN "" ELSE tag]
    BY <1>1, <1>5 DEF ProcessNode
  <2>2. CASE m # t
    <3> DEFINE none == IF m # t THEN "" ELSE tag
    <3>1. ProcessNode(node) = [node EXCEPT !.value = m, !.tag = none]
      BY <2>1
    <3>2. none # "!!str"
      BY <2>2, Zenon
    <3> HIDE DEF tag, none
    <3>3. new = Remarshal([quoted |-> quoted, tag |-> none, value |-> m])
      BY <3>1
    <3> HIDE DEF new
    <3>4. new.quoted = StillQuoted(quoted, none, m) /\ new.value = m
      BY <3>3, Remarshalled
    <3>5. new.quoted = quoted
      BY <3>2, <3>4, Zenon DEF StillQuoted
    <3> QED BY <1>3, <3>4, <3>5 DEF m
  <2>3. CASE m = t
    <3>0. ~quoted => Resolve(FALSE, m) = "!!str"
      BY <1>5, <2>3
    <3> HIDE DEF tag
    <3>1. ProcessNode(node) = [quoted |-> quoted, tag |-> "!!str", value |-> m]
      BY <1>5, <2>1, <2>3
    <3>1a. new = Remarshal([quoted |-> quoted, tag |-> "!!str", value |-> m])
      BY <3>1
    <3> HIDE DEF new
    <3>2. /\ new.quoted = StillQuoted(quoted, "!!str", m)
          /\ new.value = m
      BY <3>1a, Remarshalled
    <3>3. new.quoted = quoted
      BY <3>0, <3>2, Zenon DEF StillQuoted
    <3> QED BY <1>3, <3>2, <3>3 DEF m
  <2> QED BY <2>2, <2>3
<1> QED BY <1>4, <1>5

-----------------------------------------------------------------------------
(* What LoadConfig promises                                                 *)

(* What was loaded is what Load makes of the scalar and of the environment, *)
(* neither of which has changed since.                                      *)
ConfigInv ==
  /\ env \in [Vars -> Values]
  /\ written \in Seq(Parts)
  /\ loaded.done =>
       /\ written # <<>>
       /\ \E quoted \in BOOLEAN, kind \in Kinds :
            /\ loaded.quoted = quoted /\ loaded.kind = kind
            /\ loaded.err = Load(quoted, kind, FileText).err
            /\ loaded.value = Load(quoted, kind, FileText).value

LEMMA ConfigInvInit == ASSUME ConfigAssumption, ConfigInit PROVE ConfigInv
<1>1. env \in [Vars -> Values] /\ written \in Seq(Parts) /\ ~loaded.done
  BY EmptySeq DEF ConfigInit, ConfigAssumption, NotLoaded
<1> QED BY <1>1 DEF ConfigInv

(* Load reads the environment and the file, and nothing else.               *)
LEMMA SameLoad ==
  ASSUME NEW quoted, NEW kind, env' = env, written' = written
  PROVE  Load(quoted, kind, FileText)' = Load(quoted, kind, FileText)
BY DEF Load, FileText, Text, Remarshal, ProcessNode, ExpandEnvVars, Getenv

LEMMA ConfigInvStep == ASSUME ConfigInv, [ConfigNext]_configVars PROVE ConfigInv'
<1>1. ASSUME NEW v \in Vars, NEW value \in Values, Setenv(v, value) PROVE ConfigInv'
  <2>1. env' \in [Vars -> Values]
    BY <1>1 DEF ConfigInv, Setenv
  <2>2. written' = written /\ loaded' = loaded /\ ~loaded.done
    BY <1>1 DEF ConfigInv, Setenv
  <2> QED BY <2>1, <2>2 DEF ConfigInv
<1>2. ASSUME NEW p \in Parts, Write(p) PROVE ConfigInv'
  <2>1. written' \in Seq(Parts) /\ env' = env /\ loaded' = loaded /\ ~loaded.done
    BY <1>2, AppendProperties DEF ConfigInv, Write
  <2> QED BY <2>1 DEF ConfigInv
<1>3. ASSUME NEW quoted \in BOOLEAN, NEW kind \in Kinds, LoadConfig(quoted, kind) PROVE ConfigInv'
  <2> DEFINE new == Load(quoted, kind, FileText)
  <2>1. env' = env /\ written' = written /\ written # <<>>
    BY <1>3 DEF LoadConfig
  <2>2. /\ loaded'.quoted = quoted /\ loaded'.kind = kind
        /\ loaded'.err = new.err /\ loaded'.value = new.value
    BY <1>3 DEF LoadConfig
  <2>3. Load(quoted, kind, FileText)' = Load(quoted, kind, FileText)
    BY <2>1, SameLoad
  <2>4. (/\ loaded.quoted = quoted /\ loaded.kind = kind
         /\ loaded.err = Load(quoted, kind, FileText).err
         /\ loaded.value = Load(quoted, kind, FileText).value)'
    BY <2>2, <2>3
  <2>5. (env \in [Vars -> Values] /\ written \in Seq(Parts) /\ written # <<>>)'
    BY <2>1 DEF ConfigInv
  <2> QED BY <1>3, <2>4, <2>5, Zenon DEF ConfigInv
<1>4. ASSUME UNCHANGED configVars PROVE ConfigInv'
  <2>1. env' = env /\ written' = written /\ loaded' = loaded
    BY <1>4 DEF configVars
  <2>2. (env \in [Vars -> Values] /\ written \in Seq(Parts))'
    BY <2>1 DEF ConfigInv
  <2>3. CASE loaded.done
    <3>1. PICK quoted \in BOOLEAN, kind \in Kinds :
            /\ loaded.quoted = quoted /\ loaded.kind = kind
            /\ loaded.err = Load(quoted, kind, FileText).err
            /\ loaded.value = Load(quoted, kind, FileText).value
      BY <2>3 DEF ConfigInv
    <3>2. (/\ loaded.quoted = quoted /\ loaded.kind = kind
           /\ loaded.err = Load(quoted, kind, FileText).err
           /\ loaded.value = Load(quoted, kind, FileText).value)'
      BY <2>1, <3>1, SameLoad
    <3>3. (written # <<>>)'
      BY <2>1, <2>3 DEF ConfigInv
    <3> QED BY <2>2, <3>1, <3>2, <3>3, Zenon DEF ConfigInv
  <2>4. CASE ~loaded.done
    BY <2>1, <2>2, <2>4 DEF ConfigInv
  <2> QED BY <2>3, <2>4
<1> QED BY <1>1, <1>2, <1>3, <1>4 DEF ConfigNext

LEMMA ConfigInvLoads ==
  ASSUME ConfigAssumption, ConfigInv PROVE ConfigLoadsAsWritten
<1>1. SUFFICES ASSUME loaded.done, PlainValues
               PROVE  LET direct == Decode(Resolve(loaded.quoted, MeantText), loaded.kind,
                                           MeantText)
                      IN  loaded.err = direct.err /\ loaded.value = direct.value
  BY DEF ConfigLoadsAsWritten, MeantText
<1> QED BY <1>1, LoadsAsMeant DEF ConfigInv

(* A scalar with placeholders loads as if their values had been written in  *)
(* their places, however many there are and whatever is around them, as long*)
(* as neither values nor plain text open a placeholder.                     *)
THEOREM ConfigLoadsAsMeant == ConfigSpec => []ConfigLoadsAsWritten
<1> USE ConfigAssumption
<1>1. ConfigInit => ConfigInv
  BY ConfigInvInit
<1>2. ConfigInv /\ [ConfigNext]_configVars => ConfigInv'
  BY ConfigInvStep
<1>3. ConfigInv => ConfigLoadsAsWritten
  BY ConfigInvLoads
<1> QED BY <1>1, <1>2, <1>3, PTL DEF ConfigSpec
=============================================================================
