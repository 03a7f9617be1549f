---------------------------- MODULE Interpolation ----------------------------
(***************************************************************************)
(* InterpMapping::map: the three arguments are evaluated and checked, then *)
(* each target point is looked up in the base by bisection and the input   *)
(* is interpolated between the two points found.  Indices start at 1; a    *)
(* NaN is in no relation to any number.  A result is a fraction.           *)
(***************************************************************************)
EXTENDS ValueDeduction

CONSTANTS
    Inputs, Bases, Targets,  \* definitions of the arguments
    DataTypes, Ranks         \* what the request asks for

ASSUME InterpolationAssumption ==
    /\ Inputs \subseteq Definitions /\ Bases \subseteq Definitions
    /\ Targets \subseteq Definitions /\ Ranks \subseteq Nat
    /\ DataTypes \subseteq {"int", "float", "double", "other"}

VARIABLES
    arguments,          \* the definitions, and the request
    input, base, target,
    pc,
    lo, len,            \* upper_bound: what is left to search
    result              \* one value per target point so far

interpVars == <<arguments, input, base, target, pc, lo, len, result>>

InterpInit ==
    /\ arguments \in [input: Inputs, base: Bases, target: Targets, type: DataTypes, rank: Ranks]
    /\ input = Nothing /\ base = Nothing /\ target = Nothing
    /\ pc = "arguments" /\ lo = 1 /\ len = 0 /\ result = << >>

Arg(d) == Evaluated(d, arguments.type, arguments.rank)

\* The first argument that does not return ends the call.
Arguments ==
    /\ pc = "arguments"
    /\ LET got == <<Arg(arguments.input), Arg(arguments.base), Arg(arguments.target)>>
           Fails(i) == got[i].type \in {"thrown", "undefined"}
       IN  IF \E i \in 1..3 : Fails(i)
           THEN /\ \E i \in 1..3 : /\ Fails(i) /\ \A j \in 1..(i - 1) : ~Fails(j)
                                   /\ pc' = got[i].type
                /\ UNCHANGED <<input, base, target>>
           ELSE /\ input' = got[1] /\ base' = got[2] /\ target' = got[3]
                /\ pc' = "check"
    /\ UNCHANGED <<arguments, lo, len, result>>

Less(x, y)      == x # NaN /\ y # NaN /\ x < y
LessOrEqual(x, y) == x # NaN /\ y # NaN /\ x <= y

\* Mutant: only double is accepted.
FloatingDouble(a) == a.type = "double"

Floating(a) == a.type \in {"float", "double"}
Falls(q) == \E i \in 2..Len(q) : LessOrEqual(q[i], q[i - 1])

\* Not empty, of rank 1, of the same size, two points at least, floating point,
\* and a base that does not fall.
Acceptable ==
    /\ \A a \in {input, base, target} : a.values # << >> /\ a.rank = 1 /\ Floating(a)
    /\ Len(input.values) = Len(base.values) /\ Len(base.values) >= 2
    /\ ~Falls(base.values)

Check ==
    /\ pc = "check"
    /\ pc' = IF Acceptable THEN "point" ELSE "thrown"
    /\ UNCHANGED <<arguments, input, base, target, lo, len, result>>

N == Len(base.values)
Point == target.values[Len(result) + 1]

\* Mutant: a point above the base is not clamped.
ClampedLow(x) == IF LessOrEqual(x, base.values[1]) THEN {1} ELSE {}

\* Points beyond either end take the value at that end.
Clamped(x) ==
    IF LessOrEqual(x, base.values[1]) THEN {1}
    ELSE IF LessOrEqual(base.values[N], x) THEN {N} ELSE {}

StartPoint ==
    /\ pc = "point" /\ Len(result) < Len(target.values)
    /\ IF Clamped(Point) # {}
       THEN /\ \E i \in Clamped(Point) : result' = Append(result, <<input.values[i], 1>>)
            /\ UNCHANGED <<pc, lo, len>>
       ELSE pc' = "bisect" /\ lo' = 1 /\ len' = N /\ UNCHANGED result
    /\ UNCHANGED <<arguments, input, base, target>>

\* Mutant: the element before the middle is left out.
BisectShort ==
    /\ pc = "bisect" /\ len > 0
    /\ LET half == len \div 2
           mid  == lo + half
       IN  IF Less(Point, base.values[mid])
           THEN len' = (IF half = 0 THEN 0 ELSE half - 1) /\ UNCHANGED lo
           ELSE lo' = mid + 1 /\ len' = len - half - 1
    /\ UNCHANGED <<arguments, input, base, target, pc, result>>

\* Mutant: the middle is counted twice.
BisectAgain ==
    /\ pc = "bisect" /\ len > 0
    /\ LET half == len \div 2
           mid  == lo + half
       IN  IF Less(Point, base.values[mid])
           THEN len' = half /\ UNCHANGED lo
           ELSE lo' = mid + 1 /\ len' = len - half
    /\ UNCHANGED <<arguments, input, base, target, pc, result>>

\* One round of std::ranges::upper_bound.
Bisect ==
    /\ pc = "bisect" /\ len > 0
    /\ LET half == len \div 2
           mid  == lo + half
       IN  IF Less(Point, base.values[mid])
           THEN len' = half /\ UNCHANGED lo
           ELSE lo' = mid + 1 /\ len' = len - half - 1
    /\ UNCHANGED <<arguments, input, base, target, pc, result>>

\* Mutant: the fraction is taken from the other end.
LerpBackwards(y, b, x, i) ==
    <<y[i - 1] * (x - b[i - 1]) + y[i] * (b[i] - x), b[i] - b[i - 1]>>

\* The line through the base points i - 1 and i, at x.
Lerp(y, b, x, i) ==
    <<y[i - 1] * (b[i] - x) + y[i] * (x - b[i - 1]), b[i] - b[i - 1]>>

\* Nothing is known of a value computed from a NaN, nor of a read past the end.
Interpolate ==
    /\ pc = "bisect" /\ len = 0
    /\ IF lo > N THEN pc' = "undefined" /\ UNCHANGED result
       ELSE LET b == base.values
                y == input.values
            IN  /\ pc' = "point"
                /\ result' = Append(result,
                       IF NaN \in {b[lo - 1], b[lo], y[lo - 1], y[lo]} THEN <<NaN, 1>>
                                                                    ELSE Lerp(y, b, Point, lo))
    /\ UNCHANGED <<arguments, input, base, target, lo, len>>

Return ==
    /\ pc = "point" /\ Len(result) = Len(target.values)
    /\ pc' = "returned"
    /\ UNCHANGED <<arguments, input, base, target, lo, len, result>>

Ended == pc \in {"returned", "thrown", "undefined"} /\ UNCHANGED interpVars

InterpNext ==
    Arguments \/ Check \/ StartPoint \/ Bisect \/ Interpolate \/ Return \/ Ended

InterpSpec == InterpInit /\ [][InterpNext]_interpVars
=============================================================================
