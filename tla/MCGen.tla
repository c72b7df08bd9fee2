------------------------------- MODULE MCGen --------------------------------
(* An instance of Gen for TLC: a generic type that holds another one.       *)
EXTENDS Gen

Type(name, args) == [Of("named", args) EXCEPT !.name = name]
Param(name) == [NoType EXCEPT !.kind = "param", !.name = name]
Fields(names, types) == [Of("struct", types) EXCEPT !.names = names]

NestedDefs ==
  [n \in {"Book", "Author", "Page", "Shelf"} |->
     CASE n = "Book" -> [params |-> <<>>, under |-> Fields(<<"title">>, <<Basic("string")>>)]
       [] n = "Author" -> [params |-> <<>>, under |-> Fields(<<"name">>, <<Basic("string")>>)]
       [] n = "Page" ->
            [params |-> <<"Page.T">>,
             under |-> Fields(<<"content">>, <<Of("slice", <<Param("Page.T")>>)>>)]
       [] n = "Shelf" ->
            [params |-> <<"Shelf.T">>,
             under |-> Fields(<<"page">>, <<Type("Page", <<Param("Shelf.T")>>)>>)]]

NestedCalls ==
  {[route |-> route, ignored |-> FALSE, fields |-> <<>>,
    writes |-> <<[status |-> 200, type |-> Type("Shelf", <<Type(of, <<>>)>>)]>>] :
     <<route, of>> \in {<<"GET /books", "Book">>, <<"GET /authors", "Author">>}}
=============================================================================
