------------------------------ MODULE Binding ------------------------------
(***************************************************************************)
(* server/parser.go, parser_fields.go and validator.go: ParseRequest fills *)
(* a struct from a request, one field after another.  A struct is the      *)
(* sequence of its fields, each followed by the fields inside it:          *)
(*                                                                         *)
(*   src       "ctx", "header", "path", "query", "body", or "" for no tag  *)
(*   name      the name in the tag                                         *)
(*   kind      "string", "int", "named" (a string type of its own, which   *)
(*             the registry of parsers does not know), "strings", "ints"   *)
(*             (slices), "struct", "ctx" (an interface contexts implement) *)
(*   ptr       a pointer to that                                           *)
(*   default   the default tag, "" for none                                *)
(*   required  the validate tag has the word required                      *)
(*   embedded  in the struct around it                                     *)
(*   inner     the number of fields inside it, at any depth                *)
(*                                                                         *)
(* The other types of the registry parse or fail as int does.  A value has *)
(* a form and what it holds, with which values of one field are compared.  *)
(* Of a JSON object are kept the fields of the struct for which it has a   *)
(* value, and for which of these that is the zero value.                   *)
(***************************************************************************)
EXTENDS Naturals, Sequences

CONSTANTS
  Structs,      \* types of request structs
  Names,        \* the names in tags
  Incoming      \* the requests for each type: what is given under each name,
                \* values in order, and the body

Digits == {"0", "7", "9"}   \* the texts that are numbers, false and true
Zeroes == {"0"}             \* those that are the zero value of their type

StructFields ==
  [src : {"ctx", "header", "path", "query", "body", ""}, name : Names,
   kind : {"ctx", "string", "int", "named", "strings", "ints", "struct"},
   ptr : BOOLEAN, default : STRING, required : BOOLEAN, embedded : BOOLEAN, inner : Nat]

\* Only a struct has fields inside it, and so does the struct inside another.
Nested(s) ==
  \A i \in DOMAIN s :
    /\ i + s[i].inner <= Len(s) /\ (s[i].inner > 0 => s[i].kind = "struct")
    /\ \A j \in i + 1 .. i + s[i].inner : j + s[j].inner <= i + s[i].inner

Bodies == [form : {"none", "malformed", "null", "object"}, sent : SUBSET Nat, zeros : SUBSET Nat]
NoBody == [form |-> "none", sent |-> {}, zeros |-> {}]

ASSUME BindingAssumption ==
  /\ Structs \subseteq {s \in Seq(StructFields) : Nested(s)}
  /\ \A s \in Structs : \A i \in DOMAIN s : s[i].src = "body" => s[i].kind = "struct"
  /\ Incoming \in [Structs -> SUBSET [given : [Names -> Seq(STRING)], body : Bodies]]

VARIABLES
  struct,       \* the type of the struct
  asked,        \* the request
  rest,         \* what is left of the body
  at,           \* the field of the next round
  vals,         \* the value of each field
  out           \* of ParseRequest: "none", "running", "ok", "error", "panic"

bindVars == <<struct, asked, rest, at, vals, out>>

Inside(i) == i + 1 .. i + struct[i].inner
Behind(i) == i + struct[i].inner + 1

\* Parsed by a call of its own, from the same request and the same body.
Entered(i) == struct[i].src = "" /\ struct[i].kind = "struct" /\ ~struct[i].ptr

\* Fields for which the request is read.
Reached(i) == \A k \in DOMAIN struct : i \in Inside(k) => Entered(k)

Nothing == [form |-> "zero", holds |-> <<>>]
Absent == [form |-> "absent", holds |-> <<>>]
Struct == [form |-> "struct", holds |-> <<>>]
Val(texts) == [form |-> "value", holds |-> texts]

Ok(v) == [out |-> "ok", val |-> v]
Error == [out |-> "error", val |-> Nothing]
Panic == [out |-> "panic", val |-> Nothing]

\* A field of the struct at i, 0 for the whole one, in which nothing was set
\* but the structs in there: a pointer that is nil has no fields.
Zero(i, there, j) ==
  IF \E k \in DOMAIN struct \ there : k > i /\ j \in Inside(k) /\ struct[k].ptr THEN Absent
  ELSE IF struct[j].kind = "struct" /\ ~struct[j].ptr THEN Struct ELSE Nothing

-----------------------------------------------------------------------------
(* parser_fields.go                                                         *)

\* The value of a field that was given a text, or none: 0 is the zero value of
\* a number, and not of a pointer to one.
Holds(f, text) ==
  IF text = "" \/ (f.kind = "int" /\ ~f.ptr /\ text \in Zeroes)
  THEN Nothing ELSE Val(<<text>>)

\* The type parser of the registry, on the text that is to be parsed: "int"
\* knows numbers, and any type it does not have is parsed as a string.
RunParser(f, text) ==
  IF f.kind = "int" /\ text \notin Digits THEN Error ELSE Ok(Holds(f, text))

ParseField(f, text) ==
  IF text = "" /\ f.default = "" /\ f.ptr THEN Ok(Nothing)
  ELSE RunParser(f, IF text = "" THEN f.default ELSE text)

\* reflect's Set: a parsed string does not go into another type.
Assign(f, r) ==
  IF r.out = "ok" /\ f.kind \notin {"string", "int"} /\ ~(f.ptr /\ r.val = Nothing)
  THEN Panic ELSE r

\* The elements of a slice are parsed as strings, and converted one by one.
\* No value at all leaves the field alone, whatever its default.
ParseFields(f, texts) ==
  CASE texts = <<>> -> Ok(Nothing)
    [] texts # <<>> /\ f.kind = "strings" /\ ~f.ptr ->
         Ok(Val([i \in DOMAIN texts |-> IF texts[i] = "" THEN f.default ELSE texts[i]]))
    [] texts # <<>> /\ f.kind = "ints" /\ ~f.ptr -> Panic
    [] OTHER -> Assign(f, ParseField(f, texts[1]))

-----------------------------------------------------------------------------
(* parser.go and validator.go                                               *)

First(texts) == IF texts = <<>> THEN "" ELSE texts[1]

\* What is read for a field with one of four tags.  The context goes into no
\* field of another type: reflect's Set panics.
Read(f) ==
  CASE f.src = "ctx" -> IF f.kind = "ctx" /\ ~f.ptr THEN Ok(Val(<<"ctx">>)) ELSE Panic
    [] f.src \in {"header", "path"} -> Assign(f, ParseField(f, First(asked.given[f.name])))
    [] f.src = "query" -> ParseFields(f, asked.given[f.name])

\* A required struct is always there, unless it is a pointer.
MustBeThere(f) == f.required /\ (f.kind = "struct" => f.ptr)

\* ValidateStruct, which goes into the structs inside.
Valid(v, fields) == \A i \in fields : MustBeThere(struct[i]) => v[i].form # "zero"

\* The fields of each struct whose last field is before n: its ParseRequest ends
\* there, and validates it.
Ending(n) ==
  {Inside(i) : i \in {k \in DOMAIN struct : Reached(k) /\ Entered(k) /\ Behind(k) = n}}
  \cup (IF n > Len(struct) THEN {DOMAIN struct} ELSE {})

\* The next round is that of field n, if there is one.
Continue(n) ==
  /\ at' = n
  /\ out' = IF \E fields \in Ending(n) : ~Valid(vals', fields) THEN "error"
            ELSE IF n > Len(struct) THEN "ok" ELSE "running"

Fail(how) == out' = how /\ UNCHANGED <<at, vals>>

\* Mutation: a struct without a tag is passed over.
NextFieldBehind(i) == Behind(i)

\* The round after that of a field without a tag.
NextField(i) == IF Entered(i) THEN i + 1 ELSE Behind(i)

\* The fields inside i for which the object has a value.
Sent(i) ==
  {j \in Inside(i) :
     \A k \in Inside(i) : j = k \/ j \in Inside(k) => k \in asked.body.sent}

\* A value that is zero when JSON says so: of a pointer or a slice only null is.
Scalar(f) == ~f.ptr /\ f.kind \notin {"struct", "strings", "ints"}

\* json.Decoder, for the field i or one inside it.  null leaves all as it was.
Decoded(i, j) ==
  CASE asked.body.form = "null" -> Zero(0, {}, j)
    [] asked.body.form = "object" /\ j \in {i} \cup Sent(i) ->
         IF struct[j].kind = "struct" THEN Struct
         ELSE IF Scalar(struct[j]) /\ j \in asked.body.zeros THEN Nothing
         ELSE Val(<<"json">>)
    [] OTHER -> Zero(i, Sent(i), j)

-----------------------------------------------------------------------------
BindInit ==
  /\ struct \in Structs
  /\ asked = [given |-> <<>>, body |-> NoBody] /\ rest = "none"
  /\ at = 1 /\ vals = <<>> /\ out = "none"

ParseRequest ==
  /\ out = "none"
  /\ asked' \in Incoming[struct] /\ rest' = asked'.body.form
  /\ vals' = [i \in DOMAIN struct |-> Zero(0, {}, i)]
  /\ out' = IF struct = <<>> THEN "ok" ELSE "running"
  /\ UNCHANGED <<struct, at>>

Tagged ==
  /\ out = "running" /\ struct[at].src \in {"ctx", "header", "path", "query"}
  /\ LET r == Read(struct[at])
     IN  \/ /\ r.out = "ok"
            /\ vals' = [vals EXCEPT ![at] = r.val]
            /\ Continue(Behind(at))
         \/ r.out # "ok" /\ Fail(r.out)
  /\ UNCHANGED <<struct, asked, rest>>

\* Of the body nothing is left then.
Body ==
  /\ out = "running" /\ struct[at].src = "body"
  /\ \/ /\ rest \in {"null", "object"}
        /\ vals' = [j \in DOMAIN struct |->
                       IF j \in {at} \cup Inside(at) THEN Decoded(at, j) ELSE vals[j]]
        /\ Continue(Behind(at))
     \/ rest \notin {"null", "object"} /\ Fail("error")
  /\ rest' = "none"
  /\ UNCHANGED <<struct, asked>>

Untagged ==
  /\ out = "running" /\ struct[at].src = ""
  /\ UNCHANGED <<struct, asked, rest, vals>>
  /\ Continue(NextField(at))

BindNext == ParseRequest \/ Tagged \/ Body \/ Untagged

BindSpec == BindInit /\ [][BindNext]_bindVars

-----------------------------------------------------------------------------
\* What the value of a field should be: what the client gave, all of it if the
\* field is a slice; if the client gave nothing, the default, or else nothing.
\* What is asked for in a query and not there stays empty even with a default.
Bound(f, v) ==
  LET given == asked.given[f.name]
      or(text) == IF text = "" THEN f.default ELSE text
      one == or(First(given))
  IN  /\ f.src = "body" =>
           /\ asked.body.form \in {"null", "object"}
           /\ v = IF f.ptr /\ asked.body.form = "null" THEN Nothing ELSE Struct
      /\ f.src \in {"header", "path", "query"} =>
           CASE f.src = "query" /\ given = <<>> -> v = Nothing
             [] f.src = "query" /\ given # <<>> /\ f.kind = "strings" /\ ~f.ptr ->
                  v = Val([i \in DOMAIN given |-> or(given[i])])
             [] OTHER -> v = Holds(f, one)

\* Types.
BindTypeOK ==
  /\ struct \in Structs /\ at \in 1 .. Len(struct) + 1
  /\ out \in {"none", "running", "ok", "error", "panic"}
  /\ out # "none" =>
       /\ asked \in Incoming[struct] /\ rest \in {asked.body.form, "none"}
       /\ DOMAIN vals = DOMAIN struct

\* A client that was not refused was understood.  After a nil error every field
\* with a tag, in every struct however deep, has the value the client gave or
\* its default, and so has every field of a body what the JSON has for it, which
\* is no other body field's; what is required, in a body too, has a value.
NilMeansBound ==
  out = "ok" =>
    \A i \in DOMAIN struct :
      /\ Reached(i) =>
           /\ Bound(struct[i], vals[i])
           /\ struct[i].src = "body" => \A j \in Inside(i) : vals[j] = Decoded(i, j)
      /\ struct[i].required /\ struct[i].kind # "struct" => vals[i] # Nothing
=============================================================================
