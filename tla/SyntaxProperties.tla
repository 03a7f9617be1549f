-------------------------- MODULE SyntaxProperties --------------------------
(***************************************************************************)
(* What the sugar means.  A sentence is an expression as a tree:           *)
(*   [op |-> "token", of]             a name, a number or #N               *)
(*   [op |-> "plus", left, right]                                          *)
(*   [op |-> "at", of, index, field, grouped]   of[index].field, and       *)
(*                                    (of)[index].field if grouped         *)
(* with an empty sequence for no field.                                    *)
(***************************************************************************)
EXTENDS SyntaxParser

CONSTANT Sentences

ASSUME SyntaxAssumption == \A t \in DOMAIN IndexOf : IndexOf[t] \notin DOMAIN IndexOf

\* How a sentence is written, and what it is to become.
RECURSIVE Source(_)
Source(e) ==
    CASE e.op = "token" -> <<e.of>>
      [] e.op = "plus"  -> Source(e.left) \o <<"+">> \o Source(e.right)
      [] e.op = "at"    -> (IF e.grouped THEN <<"(">> \o Source(e.of) \o <<")">> ELSE Source(e.of))
                           \o <<"[">> \o Source(e.index) \o <<"]">> \o e.field

RECURSIVE Meaning(_)
Meaning(e) ==
    CASE e.op = "token" -> <<IF e.of \in DOMAIN IndexOf THEN IndexOf[e.of] ELSE e.of>>
      [] e.op = "plus"  -> Meaning(e.left) \o <<"+">> \o Meaning(e.right)
      [] e.op = "at"    -> <<"at(">> \o Meaning(e.of) \o <<",">> \o Meaning(e.index) \o <<")">>
                           \o e.field

\* What a subscript is applied to: names and subscripts of them, grouped once at
\* most, and only after a field, as in (a[#0].b)[#1].
RECURSIVE Operand(_, _)
Operand(e, grouped) ==
    \/ e.op = "token"
    \/ e.op = "at" /\ (e.grouped => ~grouped /\ e.of.op = "at" /\ e.of.field # << >>)
                   /\ Operand(e.of, grouped \/ e.grouped)

\* Sentences with subscripts where the code finds them: in front, be it of the
\* sentence or of an index.
RECURSIVE Supported(_)
Supported(e) ==
    CASE e.op = "token" -> e.of \notin OneLetter
      [] e.op = "plus"  -> Supported(e.left) /\ e.right.op = "token"
      [] e.op = "at"    -> /\ Operand(e, FALSE) /\ Supported(e.index)
                           /\ e.of.op = "at" => Supported(e.of)

\* The supported sentences, each with the tokens it is written with.
Supporting == {e \in Sentences : Supported(e)}
SourceOf   == [e \in Supporting |-> Source(e)]

\* The strings that are to be rewritten: those in the document itself and in
\* objects nested in objects.
RECURSIVE StringsAt(_)
StringsAt(path) ==
    UNION {IF Node(p).kind = "string" THEN {p}
           ELSE IF Node(p).kind = "object" /\ from = "mappings" THEN StringsAt(p) ELSE {} :
           p \in Range(Elements(path))}

\* Type invariant; what waits to be visited are objects, what is written so far is
\* the beginning of the string at hand.
SyntaxTypeOK ==
    /\ pc \in {"walk", "string", "indices", "arrays", "done"}
    /\ \A p \in Range(stack) : p = << >> \/ Node(p).kind = "object"
    /\ \A p \in DOMAIN values : Len(values[p]) = Len(Node(p).of)
    /\ pc \in {"string", "indices", "arrays"} =>
          /\ IsString /\ Len(written) + Len(segments) = Len(Node(Head(todo)).of)
          /\ pc # "string" => segments # << >>

\* An expression in one of the supported forms becomes what it means, whatever it
\* nests and wherever it stands (syntax_parser_test.cpp, "walk for strings").
RewritesAsWritten ==
    \A p \in DOMAIN values : \A i \in DOMAIN values[p] :
        LET before == Node(p).of[i]
            after  == values[p][i]
        IN  IF "text" \in DOMAIN before THEN after = before
            ELSE \A e \in Supporting :
                    SourceOf[e] = before.tokens => after = [tokens |-> Meaning(e)]

NoSugar(segment) ==
    "tokens" \in DOMAIN segment =>
        \A t \in Range(segment.tokens) : t \notin DOMAIN IndexOf \cup {"[", "]"}

\* Rewriting ends, and no index and no subscript is left in any string a mapping
\* or a global has, also where it means something else than was written.
EveryStringRewritten ==
    <>(/\ pc = "done" /\ DOMAIN values = StringsAt(<< >>)
       /\ \A p \in DOMAIN values : \A i \in DOMAIN values[p] : NoSugar(values[p][i]))
=============================================================================
