---------------------------- MODULE BindingDocs ----------------------------
(***************************************************************************)
(* server/gen/gen.go, extractRequestInfo: the parameters and the body that *)
(* the OpenAPI document has for a request struct, beside what ParseRequest *)
(* reads and the validator asks for.                                       *)
(***************************************************************************)
EXTENDS Binding

\* Mutation: what the validator asks for is not looked at.
IsRequiredByType(f) == f.src = "path" \/ ~f.ptr

IsRequired(f) == f.src = "path" \/ f.required \/ ~f.ptr

\* The fields with a tag, also those of the structs embedded, where a pointer
\* is not followed.
Listed ==
  {i \in DOMAIN struct :
     /\ ~struct[i].embedded
     /\ \A k \in DOMAIN struct :
          i \in Inside(k) => struct[k].embedded /\ ~struct[k].ptr}

\* The parameters, and the body of the last field that has one.
ExtractRequestInfo ==
  [params |-> {[in |-> struct[i].src, name |-> struct[i].name, type |-> struct[i].kind,
                required |-> IsRequired(struct[i])] :
                 i \in {k \in Listed : struct[k].src \in {"path", "query", "header"}}},
   body |-> {[field |-> i, required |-> struct[i].required] :
               i \in {k \in Listed :
                        /\ struct[k].src = "body"
                        /\ \A l \in Listed : struct[l].src = "body" => l <= k}}]

\* The properties the document requires of an object for the body at i: those
\* that are not pointers, in every object that is there.
Complete(i, body) ==
  \A j \in Inside(i) \ body.sent :
    \/ struct[j].ptr
    \/ \E k \in Inside(i) \ body.sent : j \in Inside(k) /\ struct[k].ptr

-----------------------------------------------------------------------------
\* Structs that the binder and the generator both know: a context for a context,
\* types of the registry with defaults that can be parsed, one body, whose fields
\* all have a name in JSON, and no field without a tag but an embedded struct, in
\* which the generator looks; if that is a pointer it is not required, as nobody
\* fills it.
Documentable ==
  \A i \in DOMAIN struct :
    Reached(i) =>
      LET f == struct[i]
      IN  /\ f.src = "ctx" => f.kind = "ctx" /\ ~f.ptr
          /\ f.src \in {"header", "path", "query"} =>
               \/ f.kind = "string"
               \/ f.kind = "int" /\ f.default \in Digits \cup {""}
               \/ f.kind = "strings" /\ f.src = "query" /\ ~f.ptr
          /\ f.src = "body" =>
               /\ \A j \in DOMAIN struct : Reached(j) /\ struct[j].src = "body" => i = j
               /\ \A j \in Inside(i) : ~struct[j].embedded
          /\ f.embedded <=> f.src = ""
          /\ f.src = "" => f.kind = "struct" /\ ~(f.ptr /\ f.required)

\* The schemas say no more than a type: an array of strings, one string, or one
\* number, of any length and size.
Conforms(texts, type) ==
  texts # <<>> /\ (type # "strings" => Len(texts) = 1 /\ (type = "int" => texts[1] \in Digits))

\* A request made from the document: what is required is there, what is optional
\* may be, all of it of its type, and there is nothing else.
Follows(request, doc) ==
  LET named(n) == {p \in doc.params : p.name = n}
  IN  /\ \A n \in DOMAIN request.given :
           \/ request.given[n] = <<>> /\ \A p \in named(n) : ~p.required
           \/ named(n) # {} /\ \A p \in named(n) : Conforms(request.given[n], p.type)
      /\ \A b \in doc.body :
           \/ request.body.form = "none" /\ ~b.required
           \/ request.body.form = "object" /\ Complete(b.field, request.body)

(* What the document does not say.                                          *)

\* The validator takes the zero value of a required parameter for none.
Blank(i) ==
  LET f == struct[i]
      text == First(asked.given[f.name])
  IN  /\ f.src \in {"header", "path", "query"} /\ f.kind # "strings"
      /\ f.required /\ asked.given[f.name] # <<>>
      /\ Holds(f, IF text = "" THEN f.default ELSE text) = Nothing

\* So it does in a body, where a field that is a pointer is documented as
\* optional, required or not.
Missing(i, j) ==
  /\ MustBeThere(struct[j])
  /\ IF j \in Sent(i) THEN Scalar(struct[j]) /\ j \in asked.body.zeros
     ELSE \A k \in DOMAIN struct :
            k > i /\ j \in Inside(k) /\ struct[k].ptr => k \in Sent(i)

\* And the parser asks for a body, required or not.
Unsaid ==
  \E i \in DOMAIN struct :
    /\ Reached(i)
    /\ \/ Blank(i)
       \/ struct[i].src = "body" /\ asked.body.form = "none"
       \/ struct[i].src = "body" /\ \E j \in Inside(i) : Missing(i, j)

\* What the generator documents is what ParseRequest reads and checks, but for
\* these three things.  A request that a client makes from the document, leaving
\* out what is optional, is refused exactly if it comes upon one of them: it has
\* the zero value of a required parameter, no body where that is optional, or a
\* body without a value for a required field.  None makes reflection panic.
DocsMatchBinding ==
  Documentable /\ Follows(asked, ExtractRequestInfo) =>
    /\ out # "panic"
    /\ out = "error" => Unsaid
    /\ out = "ok" => ~Unsaid
=============================================================================
