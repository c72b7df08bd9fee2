------------------------------ MODULE MCInputs ------------------------------
(* Instances of Inputs for TLC. *)
EXTENDS Inputs, MCGen

(* Pages                                                                    *)
AllPages == -1 .. 4
AllSizes == -1 .. 2 \union {4}
AllSorts == {<<>>, <<"key">>, <<"key,desc", "key">>, <<"", "key">>}

(* Configuration                                                            *)
AllValues == {<<>>, <<"8">>, <<"$", "{", "B", ":", "x", "}">>, <<"{", "B", ":", "x">>}
AllParts == [var : {PlainText}, text : {<<"8">>, <<"$">>, <<"}">>}] \union
            {[var |-> "A", text |-> <<"8">>], [var |-> "B", text |-> <<"x">>],
             [var |-> "B", text |-> <<"null">>]}

(* Requests: a field, here, is followed by what is inside it.               *)
Field(src, name, kind) ==
  <<[src |-> src, name |-> name, kind |-> kind, ptr |-> FALSE, default |-> "",
     required |-> FALSE, embedded |-> FALSE, inner |-> 0]>>
Pointer(s) == [s EXCEPT ![1].ptr = TRUE]
Needed(s) == [s EXCEPT ![1].required = TRUE]
Default(s) == [s EXCEPT ![1].default = "9"]
Embedded(s) == [s EXCEPT ![1].embedded = TRUE]
Holding(s, fields) == [s EXCEPT ![1].inner = Len(fields)] \o fields
Inner(fields) == Holding(Field("", "h", "struct"), fields)

Id == Field("path", "id", "int")
HeaderText == Field("header", "h", "string")
HeaderInt == Field("header", "h", "int")
QueryText == Field("query", "q", "string")
QueryInt == Field("query", "q", "int")
Json == Holding(Field("body", "h", "struct"),
                Needed(Field("", "h", "string")) \o
                Pointer(Inner(Needed(Pointer(Field("", "h", "int"))))))

OneField ==
  {Field("ctx", "h", "ctx"), Field("ctx", "h", "int"), Id, Pointer(Id), Field("path", "id", "named"),
   HeaderText, Needed(HeaderText), Pointer(HeaderText),
   Default(HeaderInt), Pointer(HeaderInt), Pointer(Default(HeaderInt)),
   Pointer(Field("header", "h", "named")),
   QueryText, Needed(Pointer(QueryText)), QueryInt, Default(QueryInt), Pointer(QueryInt),
   Field("query", "r", "strings"), Default(Field("query", "r", "strings")),
   Needed(Field("query", "r", "strings")), Field("query", "r", "ints"),
   Json, Needed(Json), Field("", "h", "int"),
   Embedded(Inner(Id \o Needed(QueryInt))), Inner(Pointer(HeaderInt) \o Json),
   Inner(Inner(QueryInt) \o HeaderText),
   Pointer(Embedded(Inner(Id)))}

AllStructs == OneField \cup {s \o t : s, t \in OneField}

\* Under the names of a struct, and nothing under others.  Of an object for a
\* struct: everything is sent, with or without zero values, all but the pointers,
\* all but those that are required, and nothing.
AllIncoming ==
  LET used(s) == {s[i].name : i \in {k \in DOMAIN s : s[k].src \in {"header", "path", "query"}}}
      values == [id |-> {<<>>, <<"7">>, <<"0">>, <<"x">>}, h |-> {<<>>, <<"7">>, <<"0">>, <<"x">>},
                 q |-> {<<>>, <<"">>, <<"7">>, <<"0">>, <<"x">>}, r |-> {<<>>, <<"7">>, <<"", "x">>}]
      under(n, s) == IF n \in used(s) THEN values[n] ELSE {<<>>}
      without(form) == [form |-> form, sent |-> {}, zeros |-> {}]
      object(sent, zeros) == [form |-> "object", sent |-> sent, zeros |-> zeros]
      bodies(s) ==
        IF \A i \in DOMAIN s : s[i].src # "body" THEN {NoBody}
        ELSE {NoBody, without("malformed"), without("null"), without("object"),
              object(DOMAIN s, {}), object(DOMAIN s, DOMAIN s),
              object({j \in DOMAIN s : ~s[j].ptr}, {}),
              object({j \in DOMAIN s : ~(s[j].ptr /\ s[j].required)}, {})}
  IN  [s \in AllStructs |->
        [given : {[n \in {"id", "h", "q", "r"} |->
                     CASE n = "id" -> id [] n = "h" -> h [] n = "q" -> q [] n = "r" -> r] :
                    id \in under("id", s), h \in under("h", s),
                    q \in under("q", s), r \in under("r", s)},
         body : bodies(s)]]

(* Types                                                                    *)
UUID == Type("UUID", <<>>)
String_ == Basic("string")
Book == Type("Book", <<>>)
Author == Type("Author", <<>>)

AllDefs ==
  [n \in {"Book", "Author", "Page", "UUID", "Title"} |->
     CASE n = "UUID" -> [params |-> <<>>, under |-> Of("slice", <<Basic("byte")>>)]
       [] n = "Title" -> [params |-> <<>>, under |-> String_]
       [] n = "Book" ->
            [params |-> <<>>,
             under |-> Fields(<<"id", "title", "author", "-">>,
                              <<UUID, Type("Title", <<>>), Of("ptr", <<Author>>), String_>>)]
       [] n = "Author" ->
            [params |-> <<>>,
             under |-> Fields(<<"name", "books", "awards">>,
                              <<String_, Of("slice", <<Book>>), Of("map", <<Basic("int")>>)>>)]
       [] n = "Page" ->
            [params |-> <<"Page.T">>,
             under |-> Fields(<<"content", "size">>,
                              <<Of("slice", <<Param("Page.T")>>), Basic("int")>>)]]

Handler(route, fields, writes) ==
  [route |-> route, ignored |-> FALSE, fields |-> fields, writes |-> writes]
Written(status, type) == [status |-> status, type |-> type]
Sends(type) == [in |-> "body", type |-> type]
Under(in, type) == [in |-> in, type |-> type]

AllCalls ==
  {Handler("GET /books", <<Under("query", Basic("int"))>>,
           <<Written(400, NoType), Written(200, Type("Page", <<Book>>)), Written(500, NoType)>>),
   Handler("GET /authors", <<Under("query", Of("slice", <<Type("Title", <<>>)>>))>>,
           <<Written(200, Type("Page", <<Author>>)), Written(0, Book)>>),
   Handler("GET /shelves", <<>>,
           <<Written(200, Type("Page", <<Type("Page", <<Of("ptr", <<Book>>)>>)>>)),
             Written(201, Type("Page", <<Of("slice", <<Book>>)>>)), Written(206, Author)>>),
   Handler("POST /books", <<Under("header", Type("Title", <<>>)), Sends(Book)>>,
           <<Written(201, String_), Written(201, Of("ptr", <<Book>>)),
             Written(202, Of("any", <<>>))>>),
   Handler("DELETE /books/{id}", <<Under("path", UUID)>>, <<Written(204, NoType)>>),
   [Handler("GET /ui", <<Sends(Author)>>, <<Written(200, String_)>>) EXCEPT !.ignored = TRUE]}
=============================================================================
