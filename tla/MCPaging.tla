------------------------------- MODULE MCPaging -------------------------------
(***************************************************************************)
(* The classes and calls Paging is checked with.                           *)
(***************************************************************************)
EXTENDS Paging

Class(shape, sortAt) ==
    [shape |-> shape, sortAt |-> sortAt, ofMirror |-> FALSE, key |-> "text"]
Numbered(shape, sortAt) == [Class(shape, sortAt) EXCEPT !.key = "number"]
Call(method, by, order) == [method |-> method, by |-> by, order |-> order]

Setup(class, call) ==
    [shape |-> class.shape, sortAt |-> class.sortAt, ofMirror |-> class.ofMirror,
     key |-> class.key, method |-> call.method, by |-> call.by, order |-> call.order]

Classes ==
    {Class("public", "public"), Class("segregated", "private"),
     Class("mixed", "public"), Class("mixed", "private")}

Calls ==
    {Call("paginateBy", "value", "asc"), Call("paginateBy", "value", "desc"),
     Call("page", "value", "asc")}

MCSetups ==
    {Setup(class, call) : class \in Classes, call \in Calls}
        \cup {Setup(Numbered("segregated", "private"), Call("paginateBy", "value", "asc")),
              Setup(Numbered("segregated", "private"), Call("paginateBy", "value", "desc")),
              Setup(Numbered("segregated", "private"), Call("paginateBy", "id", "desc")),
              Setup(Class("public", "public"), Call("range", "id", "asc")),
              Setup(Class("mixed", "public"), Call("rangeList", "id", "asc")),
              Setup(Class("mixed", "public"), Call("list", "value", "desc")),
              Setup(Class("mixed", "private"), Call("aggregate", "value", "asc")),
              Setup(Class("mixed", "public"), Call("raw", "value", "desc")),
              Setup(Class("segregated", "private"), Call("raw", "value", "asc")),
              Setup(Class("public", "public"), Call("view", "value", "asc")),
              Setup([Class("mixed", "public") EXCEPT !.ofMirror = TRUE],
                    Call("paginateBy", "value", "asc")),
              Setup(Class("public", "public"), Call("find", "value", "asc"))}

MCAttrs == <<"name", "code">>
MCMatches == [name |-> {1, 2}, code |-> Ids]
=============================================================================
