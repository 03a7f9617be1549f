--------------------------- MODULE ValueDeduction ---------------------------
(***************************************************************************)
(* ValueMapping::map: the array a JSON value stands for.  The first        *)
(* element of a list decides the type of all of it; a string becomes       *)
(* numbers if it spells what the request asks for, else it stays a text.   *)
(*                                                                         *)
(* A number is an integer, in units of 1 / Unit, that a double holds; a    *)
(* float holds those of Floats.  A definition is one of                    *)
(*   [form |-> "list", of]     a JSON array                                *)
(*   [form |-> "scalar", of]   a JSON primitive                            *)
(*   [form |-> "string", of, bracketed]   the tokens of a rendered string  *)
(*   [form |-> "array", of]    not a VALUE: an array from a data source    *)
(* with elements [v, kind], which are no numbers if they are Text or Huge.  *)
(***************************************************************************)
EXTENDS Integers, Sequences

CONSTANTS
    NaN,
    Unit,
    Floats, \* the numbers that are floats
    Half    \* an int is one of -Half .. Half - 1, an unsigned int of 0 .. 2 * Half - 1

ASSUME ValueAssumption ==
    /\ NaN \notin Int /\ Unit \in Nat \ {0} /\ Half \in Nat \ {0}
    /\ Floats \subseteq Int /\ Floats # {}

NumberKinds == {"float", "integer", "unsigned"}   \* integer: negative
Elements == [v: Int, kind: NumberKinds \cup {"text", "huge", "bool", "null"}]
Types    == {"float", "double", "int", "uint", "bool", "text", "other", "unknown",
             "thrown", "undefined"}
Arrays   == [type: Types, rank: Nat, values: Seq(Int \cup {NaN})]
Definitions ==
    [form: {"list"}, of: Seq(Elements)] \cup [form: {"scalar"}, of: Elements]
    \cup [form: {"string"}, of: Seq(Elements), bracketed: BOOLEAN]
    \cup [form: {"array"}, of: Arrays]

Text == [v |-> 0, kind |-> "text"]
Huge == [v |-> 0, kind |-> "huge"]      \* digits no int, float or double holds
Bool == [v |-> 0, kind |-> "bool"]
Null == [v |-> 0, kind |-> "null"]

IsNumber(e) == e.kind \in NumberKinds

\* An evaluation that ends without an array.
Ends(how) == [type |-> how, rank |-> 0, values |-> << >>]
Thrown    == Ends("thrown")
Undefined == Ends("undefined")
Nothing   == Ends("unknown")           \* TypedDataArray{}
Words     == Ends("text")              \* Int8; its contents are not told apart

Vector(type, values) == [type |-> type, rank |-> 1, values |-> values]

\* get<int>, get<unsigned int>: the fraction goes, the width wraps.
Trunc(v)    == IF v >= 0 THEN v \div Unit ELSE -((-v) \div Unit)
Unsigned(v) == Unit * (Trunc(v) % (2 * Half))
Signed(v)   == LET u == Trunc(v) % (2 * Half)
               IN  Unit * (IF u >= Half THEN u - 2 * Half ELSE u)

\* get<float>, stof: the nearest float, whichever way a tie goes.
Distance(v, w) == IF v <= w THEN w - v ELSE v - w
Single(v) == CHOOSE f \in Floats : \A g \in Floats : Distance(v, f) <= Distance(v, g)

Written(q) == [i \in DOMAIN q |-> q[i].v]
AllSingle(q)   == [i \in DOMAIN q |-> Single(q[i].v)]
AllSigned(q)   == [i \in DOMAIN q |-> Signed(q[i].v)]
AllUnsigned(q) == [i \in DOMAIN q |-> Unsigned(q[i].v)]

\* Mutant: integers in a list are always signed.
DeduceArraySigned(q) ==
    CASE q[1].kind = "float"    -> Vector("float", AllSingle(q))
      [] q[1].kind = "integer"  -> Vector("int", AllSigned(q))
      [] q[1].kind = "unsigned" -> Vector("uint", AllSigned(q))

\* type_deduce_array: front() of an empty list is undefined.
DeduceArray(q) ==
    CASE q[1].kind = "float"    -> Vector("float", AllSingle(q))
      [] q[1].kind = "integer"  -> Vector("int", AllSigned(q))
      [] q[1].kind = "unsigned" -> Vector("uint", AllUnsigned(q))

ListValue(q) ==
    IF q = << >> THEN Undefined
    ELSE IF \A i \in DOMAIN q : IsNumber(q[i]) THEN DeduceArray(q) ELSE Nothing

ScalarValue(e) ==
    CASE IsNumber(e)     -> [DeduceArray(<<e>>) EXCEPT !.rank = 0]
      [] e.kind = "bool" -> [type |-> "bool", rank |-> 0, values |-> <<e.v>>]
      [] OTHER           -> Thrown

\* try_convert: a token is a number of the requested type, or is none
\* (invalid_argument, caught), or is too large (out_of_range, not caught).
Spells(type, e) == IsNumber(e) /\ (type = "int" => e.kind # "float")

Stored(type, q) == IF type = "float" THEN AllSingle(q) ELSE Written(q)

\* The first token that is no number decides.
Converted(type, q) ==
    IF \A i \in DOMAIN q : Spells(type, q[i])
    THEN IF q = << >> THEN Words ELSE Vector(type, Stored(type, q))
    ELSE LET bad == CHOOSE i \in DOMAIN q : /\ ~Spells(type, q[i])
                                            /\ \A j \in 1..(i - 1) : Spells(type, q[j])
         IN  IF q[bad].kind = "huge" THEN Thrown ELSE Words

\* A list is converted for a request of rank 1 and more, a lone number for
\* one of rank 0.
StringValue(q, bracketed, type, rank) ==
    IF type = "other" \/ bracketed = (rank = 0) THEN Words
    ELSE IF rank = 0 THEN [Converted(type, q) EXCEPT !.rank = 0]
    ELSE Converted(type, q)

Evaluated(d, type, rank) ==
    CASE d.form = "list"   -> ListValue(d.of)
      [] d.form = "scalar" -> ScalarValue(d.of)
      [] d.form = "string" -> StringValue(d.of, d.bracketed, type, rank)
      [] d.form = "array"  -> d.of
=============================================================================
