------------------------------ MODULE MCSyntax ------------------------------
(***************************************************************************)
(* All sentences with up to three subscripts along a chain and in an       *)
(* index, and documents that nest objects and arrays.                      *)
(***************************************************************************)
EXTENDS SyntaxProperties

T(t) == [op |-> "token", of |-> t]
Plus(l, r) == [op |-> "plus", left |-> l, right |-> r]
AtOf(e, i, field, grouped) ==
    [op |-> "at", of |-> e, index |-> i, field |-> field, grouped |-> grouped]

MCIndexOf == [t \in {"#0", "#1"} |-> IF t = "#0" THEN "indices.0" ELSE "indices.1"]
MCFields == {".name"}
MCOneLetter == {"x"}

NoField == << >>
Tokens == {T("foo"), T("#0")}
Subscripts(of, indices) ==
    {AtOf(e, i, f, g) : e \in of, i \in indices, f \in {NoField, <<".name">>}, g \in BOOLEAN}

Once   == Subscripts({T("foo")}, Tokens)
Sums   == {Plus(l, r) : l \in Once \cup Tokens, r \in Once \cup Tokens}
Inner  == Subscripts({T("bar")}, Once \cup Sums)
Twice  == Subscripts(Once, {T("#1")} \cup {AtOf(T("bar"), T("#1"), f, FALSE) : f \in {NoField, <<".name">>}})
Thrice == Subscripts(Twice, {T("#0")})
MCSentences == Tokens \cup {T("x")} \cup Once \cup Sums \cup Inner \cup Twice \cup Thrice

Expr(e) == [tokens |-> Source(e)]
Text(t) == [text |-> t]
String(q) == [kind |-> "string", of |-> q]
Object(q) == [kind |-> "object", of |-> q]
Array(q)  == [kind |-> "array", of |-> q]
Other     == [kind |-> "other"]

Path(e) == String(<<Text("coil/"), Expr(e), Text("/r")>>)
Field   == AtOf(T("foo"), T("#0"), <<".name">>, FALSE)
Nested  == Object(<<Path(T("#0")), Object(<<Path(Field), Other>>), Array(<<Path(T("#1"))>>),
                    Object(<<Object(<<Path(T("#1"))>>)>>), String(<<Expr(Field), Expr(T("#1"))>>)>>)

Mappings(n) == [from |-> "mappings", node |-> n]
MCDocuments ==
    {Mappings(String(<<Expr(e)>>)) : e \in MCSentences}
    \cup {Mappings(n) : n \in {Nested, Other, Array(<<Path(Field)>>),
                               String(<<Text("@"), Expr(Field)>>), String(<< >>)}}
    \cup {[from |-> "globals", node |-> Nested]}
=============================================================================
