-------------------------- MODULE InterpProperties --------------------------
(***************************************************************************)
(* What INTERP promises of its result, and VALUE of the arrays it makes.   *)
(***************************************************************************)
EXTENDS Interpolation

Ending == {"returned", "thrown", "undefined"}

\* Type invariant; the part of the base that is searched lies inside it.
InterpTypeOK ==
    /\ pc \in {"arguments", "check", "point", "bisect"} \cup Ending
    /\ {input, base, target} \subseteq Arrays
    /\ result \in Seq((Int \cup {NaN}) \X Int)
    /\ lo \in Nat \ {0} /\ len \in Nat
    /\ pc \in {"point", "bisect"} => Acceptable
    /\ pc = "bisect" => lo + len <= N + 1
    /\ Len(result) <= Len(target.values) /\ (pc = "bisect" => Len(result) < Len(target.values))

\* The integers a list whose first element has this kind can hold.
Holds(kind, v) ==
    /\ v % Unit = 0
    /\ IF kind = "unsigned" THEN v \div Unit \in 0..(2 * Half - 1)
                            ELSE v \div Unit \in -Half..(Half - 1)

\* f is v, or a float next to it: no float lies between the two.
Rounds(v, f) ==
    f \in Floats /\ \A g \in Floats : (g <= v => g <= f) /\ (v <= g => f <= g)

KeptAs(type, e, value) == IF type = "float" THEN Rounds(e.v, value) ELSE value = e.v

KeptIn(d, a) ==
    a.values # << >> /\ d.form \in {"list", "string"} =>
        /\ Len(a.values) = Len(d.of)
        /\ \A i \in DOMAIN d.of :
              \/ KeptAs(a.type, d.of[i], a.values[i])
              \/ d.form = "list" /\ d.of[1].kind # "float" /\ ~Holds(d.of[1].kind, d.of[i].v)

\* A VALUE is the numbers that are written, all of them and in their order, rounded
\* where they are stored as floats, except those an integer in front of a list forces
\* into a type that cannot hold them (value_mapping.cpp, type_deduce_array, try_convert).
ValuesKept ==
    pc = "check" => /\ KeptIn(arguments.input, input) /\ KeptIn(arguments.base, base)
                    /\ KeptIn(arguments.target, target)

FloatList(d) ==
    /\ d.form = "list" /\ d.of # << >> /\ d.of[1].kind = "float"
    /\ \A i \in DOMAIN d.of : IsNumber(d.of[i])

\* There are two floats from v to w, so that no rounding brings the two together.
ToldApart(v, w) == \E f, g \in Floats : v <= f /\ f < g /\ g <= w

\* Lists of numbers that each start with a float are interpolated, and no check refuses
\* them, when the base has two points or more that increase and that floats can tell
\* apart: check_increasing reads the base after get<float> has rounded it.
WrittenAsFloatAccepted ==
    LET y == arguments.input
        b == arguments.base
    IN  /\ FloatList(y) /\ FloatList(b) /\ FloatList(arguments.target)
        /\ Len(y.of) = Len(b.of) /\ Len(b.of) >= 2
        /\ \A i, j \in DOMAIN b.of : i < j => ToldApart(b.of[i].v, b.of[j].v)
        => pc \notin {"thrown", "undefined"}

\* The two base points a target is interpolated between enclose it, wherever
\* the bisection started and ended (bracket: "either side of the given point").
Encloses ==
    pc = "bisect" /\ len = 0 /\ lo <= N =>
        /\ lo >= 2
        /\ ~Less(Point, base.values[lo - 1]) /\ Less(Point, base.values[lo])

\* A look-up leaves the base only for a target point that is not a number, or a
\* base that does not end with one: check_increasing accepts a NaN.
OutsideOnlyForNaN ==
    pc = "undefined" /\ base # Nothing =>
        Point = NaN \/ base.values[N] = NaN

\* The straight line through the base points i and i + 1, at x, is num / den.
OnLine(i, x, num, den) ==
    LET b == base.values
        y == input.values
    IN  num * (b[i + 1] - b[i]) = den * (y[i] * (b[i + 1] - x) + y[i + 1] * (x - b[i]))

\* What a caller expects at x: the value of the nearer end outside of the base,
\* and inside of it every line whose two points enclose x goes through the result.
Expected(x, num, den) ==
    LET b == base.values
        y == input.values
    IN  /\ x <= b[1] => num = den * y[1]
        /\ x >= b[N] => num = den * y[N]
        /\ \A i \in 1..(N - 1) : b[i] <= x /\ x <= b[i + 1] => OnLine(i, x, num, den)

\* Each value returned is the piecewise linear interpolation at its own target
\* point, in the order of the targets, which need not be sorted.
Interpolates ==
    \A i \in DOMAIN result :
        LET numbers == {target.values[i]} \cup {base.values[j] : j \in 1..N}
                                          \cup {input.values[j] : j \in 1..N}
        IN  NaN \notin numbers => Expected(target.values[i], result[i][1], result[i][2])
=============================================================================
