-------------------------------- MODULE Gen --------------------------------
(***************************************************************************)
(* server/gen/gen.go: the OpenAPI document of the calls of AddHandler.     *)
(*                                                                         *)
(* A type is [kind, name, names, types]: of a "basic" type or a "param" of *)
(* a generic one the name; of a "named" type the name and the types it is  *)
(* instantiated with; of a "ptr", "slice" or "map" the type of what it     *)
(* holds; of a "struct" the json names of its fields, "-" for none, and    *)
(* their types.  A schema has the same form, with "ref" for the name of    *)
(* another, "object" for a struct and "any" for what has no type.          *)
(*                                                                         *)
(* Defs are the named types, each with its parameters and the type under   *)
(* it.  Depth bounds the recursion: more is a stack that overflows.        *)
(***************************************************************************)
EXTENDS Naturals, Sequences, SequencesExt, FiniteSetsExt, TLC

CONSTANTS
  Defs,         \* [params, under] of each name of a type
  Calls,        \* calls of AddHandler, see ProcessAddHandler
  Depth,        \* bound on the recursion
  Levels        \* how deep schemas are compared with types

ASSUME GenAssumption == Depth \in Nat /\ Levels \in Nat

VARIABLES
  seen,         \* the calls processed
  generated,    \* generatedTypes: names that have a reference
  schemas,      \* Components.Schemas
  operations    \* of each call, the schemas of parameters, body and responses

genVars == <<seen, generated, schemas, operations>>

NoType == [kind |-> "none", name |-> "", names |-> <<>>, types |-> <<>>,
           required |-> {}]
Of(kind, types) == [NoType EXCEPT !.kind = kind, !.types = types]
Ref(name) == [NoType EXCEPT !.kind = "ref", !.name = name]

Basic(name) == [NoType EXCEPT !.kind = "basic", !.name = name]

ErrorResponse ==
  [Of("object", <<Basic("string")>>) EXCEPT !.names = <<"error">>]

customTypeSchemas == {"UUID", "Time", "RawMessage"}

\* Basic types in title case.
Title == [string |-> "String", bool |-> "Bool", int |-> "Int", byte |-> "Byte"]

-----------------------------------------------------------------------------
(* Schemas                                                                  *)

\* Mutation: the arguments of a generic type do not count.
GenerateTypeNameOfBase(t) == t.name

\* A type as Go writes it, in title case.  That changes other letters of a name
\* too: no two types of Defs differ in the case of letters alone.
RECURSIVE TypeString(_)
TypeString(t) ==
  LET args == FoldLeft(LAMBDA n, arg : n \o "," \o TypeString(arg), "", t.types)
  IN  CASE t.kind = "named" -> t.name \o (IF t.types = <<>> THEN "" ELSE "[" \o args \o "]")
        [] t.kind = "ptr" -> "*" \o TypeString(t.types[1])
        [] t.kind = "slice" -> "[]" \o TypeString(t.types[1])
        [] t.kind = "map" -> "Map[String]" \o TypeString(t.types[1])
        [] t.kind = "param" -> "T"
        [] t.kind = "basic" -> Title[t.name]
        [] OTHER -> t.name

\* A parameter is called after its constraint, any.
RECURSIVE GenerateTypeName(_)
GenerateTypeName(t) ==
  CASE t.kind = "named" /\ t.types = <<>> -> t.name
    [] t.kind = "named" /\ t.types # <<>> ->
         t.name \o "Of" \o FoldLeft(LAMBDA n, arg : n \o GenerateTypeName(arg), "", t.types)
    [] t.kind = "ptr" -> GenerateTypeName(t.types[1])
    [] t.kind = "param" -> "Any"
    [] OTHER -> TypeString(t)

\* The fields a client can rely on are those that are not pointers.
RequiredFields(t) ==
  {t.names[i] : i \in {j \in DOMAIN t.names : t.names[j] # "-" /\ t.types[j].kind # "ptr"}}

\* What the parameters of a generic type stand for, besides those outside it.
Substituted(t, outer) ==
  [p \in ToSet(Defs[t.name].params) |->
     t.types[CHOOSE i \in DOMAIN t.types : Defs[t.name].params[i] = p]] @@ outer

\* goTypeToSchemaRefInternal, with what it does to the generator: the schema of
\* t is .schema of the result.  The name of a type is cached before its schema
\* is made.
RECURSIVE SchemaRef(_, _, _, _)
SchemaRef(g, t, substitutions, depth) ==
  LET with(schema) == [g EXCEPT !.schema = schema]
      inner(u) == SchemaRef(g, u, substitutions, depth - 1)
      named(name, u, subst) ==
        LET cached == [g EXCEPT !.generated = @ \cup {name}]
            made == SchemaRef(cached, u, subst, depth - 1)
        IN  IF name \in g.generated THEN with(Ref(name))
            ELSE [made EXCEPT !.schema = Ref(name),
                              !.schemas = (name :> made.schema) @@ @]
      field(acc, i) ==
        IF t.names[i] = "-" THEN acc
        ELSE LET r == SchemaRef(acc, t.types[i], substitutions, depth - 1)
             IN  [r EXCEPT !.schema =
                    [acc.schema EXCEPT !.names = Append(@, t.names[i]),
                                       !.types = Append(@, r.schema)]]
      around(kind, r) == [r EXCEPT !.schema = Of(kind, <<r.schema>>)]
  IN  CASE depth = 0 -> with(Of("overflow", <<>>))
        [] depth > 0 /\ t.kind = "param" /\ t.name \in DOMAIN substitutions ->
             inner(substitutions[t.name])
        [] depth > 0 /\ t.kind = "named" /\ t.types # <<>> ->
             named(GenerateTypeName(t), Defs[t.name].under, Substituted(t, substitutions))
        [] depth > 0 /\ t.kind = "named" /\ t.types = <<>> ->
             IF t.name \in customTypeSchemas THEN with(t)
             ELSE named(t.name, Defs[t.name].under, substitutions)
        [] depth > 0 /\ t.kind = "ptr" -> inner(t.types[1])
        [] depth > 0 /\ t.kind = "basic" -> with(t)
        [] depth > 0 /\ t.kind \in {"slice", "map"} -> around(t.kind, inner(t.types[1]))
        [] depth > 0 /\ t.kind = "struct" ->
             FoldLeft(field,
                      with([Of("object", <<>>) EXCEPT !.required = RequiredFields(t)]),
                      [i \in DOMAIN t.names |-> i])
        [] OTHER -> with(Of("any", <<>>))

-----------------------------------------------------------------------------
(* Handlers                                                                 *)

\* findRequestAndResponseTypes: the type last written with each status that
\* resolveStatusCode knows.  WriteError has none.
Responses(writes) ==
  LET known == {i \in DOMAIN writes : writes[i].status # 0}
      last(s) == Max({i \in known : writes[i].status = s})
  IN  [s \in {writes[i].status : i \in known} |-> writes[last(s)].type]

\* extractRequestInfo, one field with a tag after another: of two bodies the last
\* is documented.
AddField(g, field) ==
  LET r == SchemaRef(g, field.type, <<>>, Depth)
  IN  IF field.in = "body" THEN [r EXCEPT !.body = r.schema]
      ELSE [r EXCEPT !.params = Append(@, r.schema)]

\* One status after another.
AddResponse(g, types, status) ==
  LET r == IF types[status] = NoType THEN [g EXCEPT !.schema = NoType]
           ELSE SchemaRef(g, types[status], <<>>, Depth)
      schema == IF status >= 400 THEN Ref("ErrorResponse") ELSE r.schema
  IN  [(IF status >= 400 THEN g ELSE r) EXCEPT !.responses = (status :> schema) @@ @]

\* A call is [route, ignored, fields, writes]: the comment above it, the fields of
\* its request, each [in, type], and what the handler writes.  The responses are
\* those of a map, which come in any order.
ProcessAddHandler(call) ==
  /\ call \in Calls \ seen
  /\ seen' = seen \cup {call}
  /\ IF call.ignored THEN UNCHANGED <<generated, schemas, operations>>
     ELSE \E order \in SetToSeqs(DOMAIN Responses(call.writes)) :
       LET start == [generated |-> generated, schemas |-> schemas, schema |-> NoType,
                     params |-> <<>>, body |-> NoType, responses |-> <<>>]
           end == FoldLeft(LAMBDA g, status : AddResponse(g, Responses(call.writes), status),
                           FoldLeft(AddField, start, call.fields), order)
       IN  /\ generated' = end.generated /\ schemas' = end.schemas
           /\ operations' = (call :> [params |-> end.params, body |-> end.body,
                                      responses |-> end.responses]) @@ operations

GenInit ==
  /\ seen = {} /\ generated = {}
  /\ schemas = ("ErrorResponse" :> ErrorResponse)
  /\ operations = <<>>

GenNext == \E call \in Calls : ProcessAddHandler(call)

GenSpec == GenInit /\ [][GenNext]_genVars

-----------------------------------------------------------------------------
(* What a type is, with no names but its own                                *)

RECURSIVE Close(_, _), Shape(_, _), Unfold(_, _)

\* t with its parameters replaced.
Close(t, args) ==
  IF t.kind = "param" THEN args[t.name]
  ELSE [t EXCEPT !.types = [i \in DOMAIN t.types |-> Close(t.types[i], args)]]

Plain(of, name) == [of |-> of, name |-> name, required |-> {}, holds |-> <<>>]
Around(of, shape) == [Plain(of, "") EXCEPT !.holds = [n \in {""} |-> shape]]
Object(required, holds) ==
  [Plain("object", "") EXCEPT !.required = required, !.holds = holds]

\* The type down to so many names, and a schema down to so many references.
Shape(t, depth) ==
  CASE t.kind = "named" /\ t.name \notin customTypeSchemas ->
         IF depth = 0 THEN Plain("cut", "")
         ELSE Shape(Close(Defs[t.name].under, Substituted(t, <<>>)), depth - 1)
    [] t.kind = "ptr" -> Shape(t.types[1], depth)
    [] t.kind = "struct" ->
         LET shown == {i \in DOMAIN t.names : t.names[i] # "-"}
         IN  Object(RequiredFields(t),
               [n \in {t.names[i] : i \in shown} |->
                  Shape(t.types[CHOOSE i \in shown : t.names[i] = n], depth)])
    [] t.kind \in {"slice", "map"} -> Around(t.kind, Shape(t.types[1], depth))
    [] OTHER -> Plain(t.kind, t.name)

Unfold(s, depth) ==
  CASE s.kind = "ref" ->
         IF depth = 0 THEN Plain("cut", "")
         ELSE IF s.name \in DOMAIN schemas THEN Unfold(schemas[s.name], depth - 1)
         ELSE Plain("dangling", s.name)
    [] s.kind = "object" ->
         Object(s.required,
           [n \in ToSet(s.names) |->
              Unfold(s.types[CHOOSE i \in DOMAIN s.names : s.names[i] = n], depth)])
    [] s.kind \in {"slice", "map"} -> Around(s.kind, Unfold(s.types[1], depth))
    [] OTHER -> Plain(s.kind, s.name)

Describes(schema, t) ==
  IF t = NoType THEN schema = NoType ELSE Unfold(schema, Levels) = Shape(t, Levels)

\* The schema of each operation says what its handler takes and writes, down
\* through all references and none of them dangling: whatever types were seen
\* before, in whichever order calls and statuses came, and although types hold
\* each other and generic ones go by a name made of their arguments.
SchemasDescribeTypes ==
  \A call \in DOMAIN operations :
    LET op == operations[call]
        types == Responses(call.writes)
        bodies == SelectSeq(call.fields, LAMBDA f : f.in = "body")
        params == SelectSeq(call.fields, LAMBDA f : f.in # "body")
    IN  /\ Describes(op.body, IF bodies = <<>> THEN NoType ELSE bodies[Len(bodies)].type)
        /\ Len(op.params) = Len(params)
        /\ \A i \in DOMAIN params : Describes(op.params[i], params[i].type)
        /\ DOMAIN op.responses = DOMAIN types
        /\ \A status \in DOMAIN types :
             IF status >= 400
             THEN Unfold(op.responses[status], Levels) = Unfold(ErrorResponse, Levels)
             ELSE Describes(op.responses[status], types[status])
=============================================================================
