------------------------------ MODULE MCInterp ------------------------------
(***************************************************************************)
(* Half units, ints of three bits, floats further apart as they grow:      *)
(* arrays with a NaN anywhere, and VALUE definitions of each form, among   *)
(* them a base that increases as it is written and not as floats.          *)
(***************************************************************************)
EXTENDS InterpProperties

F(v) == [v |-> v, kind |-> "float"]
I(v) == [v |-> 2 * v, kind |-> IF v < 0 THEN "integer" ELSE "unsigned"]
List(q) == [form |-> "list", of |-> q]
Quoted(q, bracketed) == [form |-> "string", of |-> q, bracketed |-> bracketed]
Scalar(e) == [form |-> "scalar", of |-> e]
Fetched(q) == [form |-> "array", of |-> Vector("double", q)]

MCFloats == -8..4 \cup {8, 12, 16}

Strings == {Quoted(<<F(1), F(3)>>, TRUE), Quoted(<<I(1), I(3)>>, TRUE),
            Quoted(<<I(1), Huge>>, TRUE), Quoted(<<Text, Huge>>, TRUE), Quoted(<<I(1)>>, FALSE)}
Scalars == {Scalar(F(1)), Scalar(I(1)), Scalar(Bool), Scalar(Null)}

MCInputs ==
    {Fetched(<<4, 0, -2>>), Fetched(<<1, NaN, 3>>), Fetched(<<6, 1, 1, 8>>),
     List(<<F(3), I(-1), F(5)>>), List(<<I(-1), I(6), F(3)>>), List(<< >>)}
     \cup Strings

Numbers == {0, 1, 4, NaN}
MCBases ==
    {Fetched(q) : q \in [1..3 -> Numbers]}
    \cup {Fetched(<<0, 1, 3, 5>>), Fetched(<<-3, -2, 0, 4>>), Fetched(<<1>>),
          List(<<F(0), I(1), F(3)>>), List(<<F(1), F(7), F(8)>>), List(<<F(3), F(9), F(16)>>),
          List(<<I(7), I(-1), F(1)>>), List(<<F(0), F(1), Text>>)}
    \cup Strings

Points == {-4, 0, 1, 2, 3, 5, NaN}
MCTargets ==
    {Fetched(<<x, y>>) : x \in {2, 5}, y \in Points}
    \cup {List(<<F(3), I(0)>>)} \cup Scalars
=============================================================================
