---------------------------- MODULE SyntaxParser ----------------------------
(***************************************************************************)
(* expand_syntactic_sugar and process_string_node: before a mapping or the *)
(* globals are used, #N becomes indices.N and a[b].c becomes at(a, b).c in *)
(* the {{ }} expressions of their strings.                                 *)
(*                                                                         *)
(* A JSON node is [kind |-> "object" or "array", of |-> nodes],            *)
(* [kind |-> "string", of |-> segments] or [kind |-> "other"]; a segment is *)
(* the tokens of one expression, or a text that is left as it is.          *)
(***************************************************************************)
EXTENDS Naturals, Sequences, SequencesExt

CONSTANTS
    Documents,   \* nodes, and whether they are mappings or globals
    IndexOf,     \* [tokens "#N" -> tokens "indices.N"]
    Fields,      \* tokens ".name"
    OneLetter    \* tokens of one character

VARIABLES
    document, from,
    stack,       \* objects to be visited, as paths
    todo,        \* paths of the elements left in the object that is visited
    segments,    \* of the string, not processed yet
    expression,  \* tokens of the expression that is rewritten
    written,     \* the string's new segments
    values,      \* [paths of strings -> their new segments]
    pc

syntaxVars == <<document, from, stack, todo, segments, expression, written, values, pc>>

Node(path) == FoldLeft(LAMBDA node, i : node.of[i], document, path)
Elements(path) == [i \in DOMAIN Node(path).of |-> Append(path, i)]

\* A string or a number is a VALUE, a string that starts with @ a FORWARD.
TypeName(name) == [kind |-> "string", of |-> <<[text |-> name]>>]
Wrapped(node) ==
    IF node.kind \in {"object", "array"} THEN node
    ELSE IF node.kind = "string" /\ node.of # << >> /\ node.of[1] = [text |-> "@"]
         THEN [kind |-> "object", of |-> <<TypeName("FORWARD"), [node EXCEPT !.of = Tail(@)]>>]
         ELSE [kind |-> "object", of |-> <<TypeName("VALUE"), node>>]

SyntaxInit ==
    /\ \E d \in Documents :
          /\ from = d.from
          /\ document = IF from = "mappings" THEN Wrapped(d.node) ELSE d.node
    /\ stack = << << >> >> /\ todo = << >> /\ values = << >>
    /\ segments = << >> /\ expression = << >> /\ written = << >> /\ pc = "walk"

(***************************************************************************)
(* walk_json, and parse_globals, which stays at the top                    *)
(***************************************************************************)
Visit ==
    /\ pc = "walk" /\ todo = << >> /\ stack # << >>
    /\ todo' = Elements(Last(stack)) /\ stack' = Front(stack)
    /\ UNCHANGED <<document, from, segments, expression, written, values, pc>>

IsString == Node(Head(todo)).kind = "string"
\* Mutant: arrays are looked into.
IsNestedAny == Node(Head(todo)).kind \in {"object", "array"} /\ from = "mappings"

IsNested == Node(Head(todo)).kind = "object" /\ from = "mappings"

StartString ==
    /\ pc = "walk" /\ todo # << >> /\ IsString
    /\ segments' = Node(Head(todo)).of /\ written' = << >> /\ pc' = "string"
    /\ UNCHANGED <<document, from, stack, todo, expression, values>>

\* Mutant: the object replaces the ones that wait.
PushObjectOnly ==
    /\ pc = "walk" /\ todo # << >> /\ IsNested
    /\ stack' = <<Head(todo)>> /\ todo' = Tail(todo)
    /\ UNCHANGED <<document, from, segments, expression, written, values, pc>>

PushObject ==
    /\ pc = "walk" /\ todo # << >> /\ IsNested
    /\ stack' = Append(stack, Head(todo)) /\ todo' = Tail(todo)
    /\ UNCHANGED <<document, from, segments, expression, written, values, pc>>

\* Arrays inside the document are not looked into.
PassOver ==
    /\ pc = "walk" /\ todo # << >> /\ ~IsString /\ ~IsNested
    /\ todo' = Tail(todo)
    /\ UNCHANGED <<document, from, stack, segments, expression, written, values, pc>>

EndWalk ==
    /\ pc = "walk" /\ todo = << >> /\ stack = << >>
    /\ pc' = "done"
    /\ UNCHANGED <<document, from, stack, todo, segments, expression, written, values>>

(***************************************************************************)
(* process_string_node                                                     *)
(***************************************************************************)
CopyText ==
    /\ pc = "string" /\ segments # << >> /\ "text" \in DOMAIN Head(segments)
    /\ written' = Append(written, Head(segments)) /\ segments' = Tail(segments)
    /\ UNCHANGED <<document, from, stack, todo, expression, values, pc>>

\* trim() returns nothing when the first character is also the last.
Trimmed(q) == IF Len(q) = 1 /\ q[1] \in OneLetter THEN << >> ELSE q

StartExpression ==
    /\ pc = "string" /\ segments # << >> /\ "tokens" \in DOMAIN Head(segments)
    /\ expression' = Trimmed(Head(segments).tokens) /\ pc' = "indices"
    /\ UNCHANGED <<document, from, stack, todo, segments, written, values>>

Indices == {i \in DOMAIN expression : expression[i] \in DOMAIN IndexOf}

\* (.*)#(\d+)(.*): the last of them.
ExpandIndex ==
    /\ pc = "indices" /\ Indices # {}
    /\ \E i \in Indices :
          /\ \A j \in Indices : j <= i
          /\ expression' = [expression EXCEPT ![i] = IndexOf[@]]
    /\ UNCHANGED <<document, from, stack, todo, segments, written, values, pc>>

EndIndices ==
    /\ pc = "indices" /\ Indices = {}
    /\ pc' = "arrays"
    /\ UNCHANGED <<document, from, stack, todo, segments, expression, written, values>>

(***************************************************************************)
(* expand_array                                                            *)
(***************************************************************************)
Brackets == {i \in DOMAIN expression : expression[i] \in {"[", "]"}}
Between(i, j) == SubSeq(expression, i, j)

\* The bracket before position i, or 0; the one after it, or the end.
Before(i) == Max({b \in Brackets \cup {0} : b < i})
After(i)  == Min({b \in Brackets \cup {Len(expression) + 1} : b > i})

\* Opening brackets that the next bracket closes, the first of them.
Pairs ==
    {i \in Brackets : expression[i] = "[" /\ \E j \in Brackets : expression[j] = "]" /\ After(i) = j}

\* Mutant: the name keeps its parenthesis.
UnopenedKeeping(q) == q

Unopened(q) == IF q # << >> /\ q[1] = "(" THEN Tail(q) ELSE q
Unclosed(q) == IF q # << >> /\ Last(q) = ")" THEN Front(q) ELSE q

\* What follows the closing bracket c belongs to it if it starts with a field.
PostEnd(c) == IF c < Len(expression) /\ expression[c + 1] \in Fields THEN After(c) - 1 ELSE c

\* name[index]post, from start + 1 to end, becomes at(name, index)post.
Replaced(start, open, close, end) ==
    Between(1, start)
    \o <<"at(">> \o Unopened(Between(start + 1, open - 1)) \o <<",">>
    \o Between(open + 1, close - 1) \o <<")">>
    \o Unclosed(Between(close + 1, end)) \o Between(end + 1, Len(expression))

ExpandArray ==
    /\ pc = "arrays"
    /\ \E open \in Pairs :
          /\ \A other \in Pairs : open <= other
          /\ expression' = Replaced(Before(open), open, After(open), PostEnd(After(open)))
    /\ UNCHANGED <<document, from, stack, todo, segments, written, values, pc>>

EndExpression ==
    /\ pc = "arrays" /\ Pairs = {}
    /\ written' = Append(written, [tokens |-> expression])
    /\ segments' = Tail(segments) /\ pc' = "string"
    /\ UNCHANGED <<document, from, stack, todo, expression, values>>

EndString ==
    /\ pc = "string" /\ segments = << >>
    /\ values' = [p \in DOMAIN values \cup {Head(todo)} |->
                     IF p = Head(todo) THEN written ELSE values[p]]
    /\ todo' = Tail(todo) /\ pc' = "walk"
    /\ UNCHANGED <<document, from, stack, segments, expression, written>>

Expanded == pc = "done" /\ UNCHANGED syntaxVars

Walk == Visit \/ StartString \/ PushObject \/ PassOver \/ EndWalk
Rewrite ==
    \/ CopyText \/ StartExpression \/ ExpandIndex \/ EndIndices
    \/ ExpandArray \/ EndExpression \/ EndString

SyntaxSpec ==
    /\ SyntaxInit /\ [][Walk \/ Rewrite \/ Expanded]_syntaxVars
    /\ WF_syntaxVars(Walk \/ Rewrite)
=============================================================================
