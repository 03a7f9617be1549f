---------------------------- MODULE InterpProofs ----------------------------
(***************************************************************************)
(* Proof, for arrays of every length and definitions of every form, that a *)
(* look-up encloses its target point, and leaves the base only because of  *)
(* a NaN.  The argument is the bisection's: what lies before the part that *)
(* is left to search is not above the point, what lies after it is.  Only  *)
(* the two neighbours of that part matter, so the order of the base is not *)
(* used, and a NaN inside the base does no harm.  Then: what is returned   *)
(* is the interpolation, arguments hold what is written, and well-formed   *)
(* requests are accepted.                                                  *)
(***************************************************************************)
EXTENDS InterpProperties, SequenceTheorems, WellFoundedInduction, TLAPS

Value == Int \cup {NaN}

\* The neighbours of the part of the base that is left to search.
Searching ==
    /\ ~LessOrEqual(Point, base.values[1]) /\ ~LessOrEqual(base.values[N], Point)
    /\ lo > 1 => ~Less(Point, base.values[lo - 1])
    /\ lo + len <= N => Less(Point, base.values[lo + len])

IInv ==
    /\ InterpTypeOK
    /\ arguments \in [input: Inputs, base: Bases, target: Targets, type: DataTypes, rank: Ranks]
    /\ pc = "arguments" => base = Nothing /\ result = << >>
    /\ pc = "bisect" => Searching
    /\ OutsideOnlyForNaN

(***************************************************************************)
(* Rounding                                                                *)
(***************************************************************************)
\* A set of natural numbers that is not empty has a least element: induction, in
\* the form in which it can be cited.
LEMMA LeastNumber ==
    ASSUME NEW S \in SUBSET Nat, S # {}
    PROVE  \E m \in S : \A n \in S : m <= n
<1>1. IsWellFoundedOn(OpToRel(<, Nat), Nat)
  BY NatLessThanWellFounded
<1>2. PICK m \in S : \A n \in S : ~(<<n, m>> \in OpToRel(<, Nat))
  BY <1>1, WFMin
<1>3. \A n \in S : ~(n < m)
  BY <1>2 DEF OpToRel
<1> QED BY <1>3

\* A number has a nearest float: the least of the distances to them is taken.
LEMMA SingleNearest ==
    ASSUME NEW v \in Int
    PROVE  /\ Single(v) \in Floats
           /\ \A g \in Floats : Distance(v, Single(v)) <= Distance(v, g)
<1> DEFINE D == {Distance(v, g) : g \in Floats}
<1>1. Floats \subseteq Int /\ Floats # {}
  BY ValueAssumption
<1>2. \A g \in Floats : Distance(v, g) \in Nat
  BY <1>1 DEF Distance
<1>3. D \in SUBSET Nat /\ D # {}
  BY <1>1, <1>2
<1>4. PICK m \in D : \A n \in D : m <= n
  BY <1>3, LeastNumber
<1>5. PICK f \in Floats : m = Distance(v, f)
  BY <1>4
<1>6. \A g \in Floats : Distance(v, f) <= Distance(v, g)
  BY <1>4, <1>5
<1> QED BY <1>5, <1>6 DEF Single

\* The nearest float is the number itself, or a float next to it.
LEMMA SingleRounds ==
    ASSUME NEW v \in Int
    PROVE  Rounds(v, Single(v)) /\ Single(v) \in Int
<1> DEFINE f == Single(v)
<1>1. f \in Floats /\ \A g \in Floats : Distance(v, f) <= Distance(v, g)
  BY SingleNearest
<1>2. f \in Int /\ Floats \subseteq Int
  BY <1>1, ValueAssumption
<1> HIDE DEF f
<1>3. ASSUME NEW g \in Floats
      PROVE  (g <= v => g <= f) /\ (v <= g => f <= g)
  <2>1. g \in Int /\ Distance(v, f) <= Distance(v, g)
    BY <1>1, <1>2
  <2> QED BY <1>2, <2>1 DEF Distance
<1> QED BY <1>1, <1>2, <1>3 DEF Rounds, f

\* Numbers that floats tell apart are stored as different floats, in their order.
LEMMA RoundedApart ==
    ASSUME NEW v \in Int, NEW w \in Int, ToldApart(v, w)
    PROVE  Single(v) < Single(w)
<1>1. PICK f \in Floats, g \in Floats : v <= f /\ f < g /\ g <= w
  BY DEF ToldApart
<1>2. Single(v) <= f /\ g <= Single(w)
  BY <1>1, SingleRounds DEF Rounds
<1>3. Single(v) \in Int /\ Single(w) \in Int /\ f \in Int /\ g \in Int
  BY <1>1, SingleRounds, ValueAssumption
<1> QED BY <1>1, <1>2, <1>3

(***************************************************************************)
(* What VALUE makes                                                        *)
(***************************************************************************)
\* Narrowing to an int or an unsigned int yields a number.
LEMMA NarrowType ==
    ASSUME NEW v \in Int
    PROVE  Unsigned(v) \in Int /\ Signed(v) \in Int
<1> DEFINE t == Trunc(v)
           u == t % (2 * Half)
<1>1. t \in Int
  BY ValueAssumption DEF Trunc
<1> HIDE DEF t
<1>2. u \in Int
  BY <1>1, ValueAssumption
<1> HIDE DEF u
<1>3. Unit * u \in Int /\ Unit * (u - 2 * Half) \in Int
  BY <1>2, ValueAssumption
<1> QED BY <1>3 DEF Unsigned, Signed, u, t

\* A sequence of numbers, one for each element, is the values of an array.
LEMMA VectorType ==
    ASSUME NEW q \in Seq(Elements), NEW f, DOMAIN f = DOMAIN q, f = [i \in DOMAIN q |-> f[i]],
           \A i \in DOMAIN q : f[i] \in Int, NEW type \in Types
    PROVE  Vector(type, f) \in Arrays
<1>1. Len(q) \in Nat /\ DOMAIN q = 1..Len(q)
  BY LenProperties
<1>2. f \in [1..Len(q) -> Int \cup {NaN}]
  BY <1>1
<1>3. f \in Seq(Int \cup {NaN})
  BY <1>1, <1>2, SeqDef
<1> QED BY <1>3 DEF Vector, Arrays

\* The numbers of a list or a string, as written and narrowed.
LEMMA ListType ==
    ASSUME NEW q \in Seq(Elements), NEW type \in Types
    PROVE  /\ Vector(type, Written(q)) \in Arrays
           /\ Vector(type, AllSingle(q)) \in Arrays
           /\ Vector(type, AllSigned(q)) \in Arrays
           /\ Vector(type, AllUnsigned(q)) \in Arrays
<1>1. \A i \in DOMAIN q : q[i].v \in Int
  <2> TAKE i \in DOMAIN q
  <2>1. q[i] \in Elements
    BY ElementOfSeq, LenProperties
  <2> QED BY <2>1 DEF Elements
<1>2. \A i \in DOMAIN q : Signed(q[i].v) \in Int /\ Unsigned(q[i].v) \in Int
  BY <1>1, NarrowType
<1>3. Vector(type, Written(q)) \in Arrays
  BY <1>1, VectorType DEF Written
<1>4. Vector(type, AllSigned(q)) \in Arrays
  BY <1>2, VectorType DEF AllSigned
<1>5. Vector(type, AllUnsigned(q)) \in Arrays
  BY <1>2, VectorType DEF AllUnsigned
<1>6. Vector(type, AllSingle(q)) \in Arrays
  <2>1. \A i \in DOMAIN q : Single(q[i].v) \in Int
    BY <1>1, SingleRounds
  <2> QED BY <2>1, VectorType DEF AllSingle
<1> QED BY <1>3, <1>4, <1>5, <1>6

\* An evaluation that ends without an array counts as an empty one.
LEMMA EndsType == \A how \in Types : Ends(how) \in Arrays
<1>1. << >> \in Seq(Int \cup {NaN})
  OBVIOUS
<1> QED BY <1>1 DEF Ends, Arrays

\* type_deduce_array returns an array when the first element is a number.
LEMMA DeduceType ==
    ASSUME NEW q \in Seq(Elements), q # << >>, IsNumber(q[1])
    PROVE  DeduceArray(q) \in Arrays
<1>1. q[1].kind \in NumberKinds
  BY DEF IsNumber
<1>2. CASE q[1].kind = "float"
  BY <1>2, ListType DEF DeduceArray, Types
<1>3. CASE q[1].kind = "integer"
  BY <1>3, ListType DEF DeduceArray, Types
<1>4. CASE q[1].kind = "unsigned"
  BY <1>4, ListType DEF DeduceArray, Types
<1> QED BY <1>1, <1>2, <1>3, <1>4 DEF NumberKinds

\* try_convert returns numbers or a text, or throws.
LEMMA ConvertedType ==
    ASSUME NEW q \in Seq(Elements), NEW type \in Types
    PROVE  Converted(type, q) \in Arrays
<1>1. Vector(type, Stored(type, q)) \in Arrays
  BY ListType DEF Stored
<1>2. Words \in Arrays /\ Thrown \in Arrays
  BY EndsType DEF Words, Thrown, Types
<1> QED BY <1>1, <1>2 DEF Converted

\* ValueMapping::map returns an array of a known type, or ends without one.
LEMMA EvaluatedType ==
    ASSUME NEW d \in Definitions, NEW type \in {"int", "float", "double", "other"}, NEW rank \in Nat
    PROVE  Evaluated(d, type, rank) \in Arrays
<1>0. /\ Thrown \in Arrays /\ Undefined \in Arrays /\ Nothing \in Arrays /\ Words \in Arrays
      /\ type \in Types
  BY EndsType DEF Thrown, Undefined, Nothing, Words, Types
<1>1. CASE d \in [form: {"list"}, of: Seq(Elements)]
  <2>1. d.of \in Seq(Elements) /\ Evaluated(d, type, rank) = ListValue(d.of)
    BY <1>1 DEF Evaluated
  <2>2. CASE d.of = << >>
    BY <1>0, <2>1, <2>2 DEF ListValue
  <2>3. CASE d.of # << >> /\ \A i \in DOMAIN d.of : IsNumber(d.of[i])
    <3>1. 1 \in DOMAIN d.of
      BY <2>1, <2>3, EmptySeq, LenProperties
    <3>2. DeduceArray(d.of) \in Arrays
      BY <2>1, <2>3, <3>1, DeduceType
    <3> QED BY <2>1, <2>3, <3>2 DEF ListValue
  <2>4. CASE d.of # << >> /\ ~\A i \in DOMAIN d.of : IsNumber(d.of[i])
    BY <1>0, <2>1, <2>4 DEF ListValue
  <2> QED BY <2>2, <2>3, <2>4
<1>2. CASE d \in [form: {"scalar"}, of: Elements]
  <2>1. d.of \in Elements /\ Evaluated(d, type, rank) = ScalarValue(d.of)
    BY <1>2 DEF Evaluated
  <2>2. CASE IsNumber(d.of)
    <3>1. <<d.of>> \in Seq(Elements) /\ <<d.of>> # << >> /\ <<d.of>>[1] = d.of
      BY <2>1
    <3>2. DeduceArray(<<d.of>>) \in Arrays
      BY <2>2, <3>1, DeduceType
    <3>3. [DeduceArray(<<d.of>>) EXCEPT !.rank = 0] \in Arrays
      BY <3>2 DEF Arrays
    <3>4. d.of.kind # "bool"
      BY <2>2 DEF IsNumber, NumberKinds
    <3>5. ScalarValue(d.of) \in {[DeduceArray(<<d.of>>) EXCEPT !.rank = 0]}
      BY <2>2, <3>4, Zenon DEF ScalarValue
    <3> QED BY <2>1, <3>3, <3>5
  <2>3. CASE ~IsNumber(d.of) /\ d.of.kind = "bool"
    <3>1. d.of.v \in Int
      BY <2>1 DEF Elements
    <3>2. <<d.of.v>> \in Seq(Int \cup {NaN})
      BY <3>1
    <3>3. [type |-> "bool", rank |-> 0, values |-> <<d.of.v>>] \in Arrays
      BY <3>2 DEF Arrays, Types
    <3> QED BY <2>1, <2>3, <3>3 DEF ScalarValue
  <2>4. CASE ~IsNumber(d.of) /\ d.of.kind # "bool"
    BY <1>0, <2>1, <2>4 DEF ScalarValue
  <2> QED BY <2>2, <2>3, <2>4
<1>3. CASE d \in [form: {"string"}, of: Seq(Elements), bracketed: BOOLEAN]
  <2>1. /\ d.of \in Seq(Elements)
        /\ Evaluated(d, type, rank) = StringValue(d.of, d.bracketed, type, rank)
    BY <1>3 DEF Evaluated
  <2>2. Converted(type, d.of) \in Arrays
    BY <1>0, <2>1, ConvertedType
  <2>3. [Converted(type, d.of) EXCEPT !.rank = 0] \in Arrays
    BY <2>2 DEF Arrays
  <2> QED BY <1>0, <2>1, <2>2, <2>3 DEF StringValue
<1>4. CASE d \in [form: {"array"}, of: Arrays]
  BY <1>4 DEF Evaluated
<1> QED BY <1>1, <1>2, <1>3, <1>4 DEF Definitions

(***************************************************************************)
(* The look-up                                                             *)
(***************************************************************************)
\* A comparison that fails both ways involves a NaN.
LEMMA Trichotomy ==
    ASSUME NEW x \in Value, NEW y \in Value
    PROVE  /\ ~Less(x, y) /\ ~LessOrEqual(y, x) => x = NaN \/ y = NaN
           /\ Less(x, y) => LessOrEqual(x, y) /\ x \in Int /\ y \in Int
BY ValueAssumption DEF Value, Less, LessOrEqual

\* What Check establishes, in the form the steps use.
LEMMA Shape ==
    ASSUME InterpTypeOK, Acceptable
    PROVE  /\ N \in Nat /\ N >= 2 /\ Len(input.values) = N
           /\ \A i \in 1..N : base.values[i] \in Value /\ input.values[i] \in Value
           /\ Len(target.values) \in Nat /\ Len(target.values) >= 1
           /\ \A i \in 1..Len(target.values) : target.values[i] \in Value
<1>1. /\ input.values \in Seq(Value) /\ base.values \in Seq(Value) /\ target.values \in Seq(Value)
  BY DEF InterpTypeOK, Arrays, Value
<1>2. Len(input.values) = N /\ N >= 2 /\ target.values # << >>
  BY DEF Acceptable, N
<1>3. N \in Nat /\ Len(target.values) \in Nat
  BY <1>1, LenProperties DEF N
<1>4. \A i \in 1..N : base.values[i] \in Value /\ input.values[i] \in Value
  BY <1>1, <1>2, ElementOfSeq DEF N
<1>5. \A i \in 1..Len(target.values) : target.values[i] \in Value
  BY <1>1, ElementOfSeq
<1>6. Len(target.values) >= 1
  BY <1>1, <1>2, <1>3, EmptySeq
<1> QED BY <1>2, <1>3, <1>4, <1>5, <1>6

\* While targets are left, the next one is a number or a NaN.
LEMMA PointType ==
    ASSUME InterpTypeOK, Acceptable, Len(result) < Len(target.values)
    PROVE  Point \in Value /\ Len(result) \in Nat
<1>1. Len(result) \in Nat
  BY LenProperties DEF InterpTypeOK
<1> QED BY <1>1, Shape DEF Point

\* A finished search has a base point on either side of the target.
LEMMA SearchEncloses ==
    ASSUME IInv, pc = "bisect", len = 0, lo <= N
    PROVE  /\ lo >= 2 /\ Point \in Int /\ base.values[lo] \in Int
           /\ ~Less(Point, base.values[lo - 1]) /\ Less(Point, base.values[lo])
<1>1. Acceptable /\ Searching /\ lo \in Nat \ {0} /\ Len(result) < Len(target.values)
  BY DEF IInv, InterpTypeOK
<1>2. Point \in Value /\ N \in Nat /\ N >= 2 /\ \A i \in 1..N : base.values[i] \in Value
  BY <1>1, Shape, PointType DEF IInv
<1>3. Less(Point, base.values[lo])
  BY <1>1, <1>2 DEF Searching
<1>4. lo # 1
  <2>1. SUFFICES ASSUME lo = 1 PROVE FALSE
    OBVIOUS
  <2>2. LessOrEqual(Point, base.values[1])
    BY <2>1, <1>3, <1>2, Trichotomy
  <2> QED BY <2>2, <1>1 DEF Searching
<1>5. lo >= 2 /\ ~Less(Point, base.values[lo - 1])
  BY <1>1, <1>4 DEF Searching
<1>6. Point \in Int /\ base.values[lo] \in Int
  BY <1>1, <1>2, <1>3, Trichotomy
<1> QED BY <1>3, <1>5, <1>6

(***************************************************************************)
(* The invariant                                                           *)
(***************************************************************************)
\* It holds before the arguments are evaluated.
LEMMA InitInv == InterpInit => IInv
<1> SUFFICES ASSUME InterpInit PROVE IInv
  OBVIOUS
<1>1. Nothing \in Arrays
  BY EndsType DEF Nothing, Types
<1>2. result \in Seq((Int \cup {NaN}) \X Int) /\ Len(result) = 0 /\ Len(target.values) = 0
  BY DEF InterpInit, Nothing, Ends
<1>3. InterpTypeOK
  BY <1>1, <1>2 DEF InterpInit, InterpTypeOK
<1> QED BY <1>3 DEF IInv, InterpInit, OutsideOnlyForNaN

\* The arguments of a request are arrays, or end it before the base is kept.
LEMMA ArgumentsInv == IInv /\ Arguments => IInv'
<1> SUFFICES ASSUME IInv, Arguments PROVE IInv'
  OBVIOUS
<1> DEFINE got == <<Arg(arguments.input), Arg(arguments.base), Arg(arguments.target)>>
<1>1. got[1] \in Arrays /\ got[2] \in Arrays /\ got[3] \in Arrays
  <2>1. /\ arguments.input \in Definitions /\ arguments.base \in Definitions
        /\ arguments.target \in Definitions /\ arguments.rank \in Nat
        /\ arguments.type \in {"int", "float", "double", "other"}
    BY InterpolationAssumption DEF IInv
  <2> QED BY <2>1, EvaluatedType DEF Arg
<1> HIDE DEF got
<1>2. /\ pc = "arguments" /\ UNCHANGED <<arguments, lo, len, result>>
      /\ \/ pc' \in {"thrown", "undefined"} /\ UNCHANGED <<input, base, target>>
         \/ pc' = "check" /\ input' = got[1] /\ base' = got[2] /\ target' = got[3]
  BY DEF Arguments, got
<1>3. /\ {input, base, target} \subseteq Arrays /\ base = Nothing /\ result = << >>
      /\ result \in Seq((Int \cup {NaN}) \X Int) /\ lo \in Nat \ {0} /\ len \in Nat
  BY <1>2 DEF IInv, InterpTypeOK
<1>4. \A a \in Arrays : Len(a.values) \in Nat
  BY LenProperties DEF Arrays
<1>5. InterpTypeOK'
  BY <1>1, <1>2, <1>3, <1>4 DEF InterpTypeOK, Ending
<1> QED BY <1>2, <1>3, <1>5 DEF IInv, OutsideOnlyForNaN

\* Check lets the arguments it accepts through.
LEMMA CheckInv == IInv /\ Check => IInv'
<1> SUFFICES ASSUME IInv, Check PROVE IInv'
  OBVIOUS
<1>1. UNCHANGED <<arguments, input, base, target, lo, len, result>>
  BY DEF Check
<1>2. pc' \in {"point", "thrown"} /\ (pc' = "point" => Acceptable)
  BY DEF Check
<1>3. Acceptable' <=> Acceptable
  BY <1>1 DEF Acceptable
<1>4. InterpTypeOK'
  BY <1>1, <1>2, <1>3 DEF IInv, InterpTypeOK, Ending
<1> QED BY <1>1, <1>2, <1>4 DEF IInv, OutsideOnlyForNaN

\* A search starts with the whole base, for a point inside of it.
LEMMA StartPointInv == IInv /\ StartPoint => IInv'
<1> SUFFICES ASSUME IInv, StartPoint PROVE IInv'
  OBVIOUS
<1>1. /\ pc = "point" /\ Acceptable /\ Len(result) < Len(target.values)
      /\ UNCHANGED <<arguments, input, base, target>>
  BY DEF IInv, InterpTypeOK, StartPoint
<1>2. /\ Acceptable' /\ N' = N /\ N \in Nat /\ N >= 2 /\ Len(input.values) = N
      /\ \A i \in 1..N : input.values[i] \in Value
      /\ Len(result) \in Nat /\ Len(target.values) \in Nat
  BY <1>1, Shape, PointType DEF IInv, Acceptable, N
<1>3. CASE Clamped(Point) # {}
  <2>1. PICK i \in Clamped(Point) : result' = Append(result, <<input.values[i], 1>>)
    BY <1>3 DEF StartPoint
  <2>2. i \in 1..N
    BY <1>2 DEF Clamped
  <2>3. <<input.values[i], 1>> \in (Int \cup {NaN}) \X Int
    BY <1>2, <2>2 DEF Value
  <2>4. /\ result' \in Seq((Int \cup {NaN}) \X Int) /\ Len(result') = Len(result) + 1
    BY <2>1, <2>3 DEF IInv, InterpTypeOK
  <2>5. UNCHANGED <<pc, lo, len>>
    BY <1>3 DEF StartPoint
  <2>6. InterpTypeOK'
    BY <1>1, <1>2, <2>4, <2>5 DEF IInv, InterpTypeOK
  <2> QED BY <1>1, <2>5, <2>6 DEF IInv, OutsideOnlyForNaN
<1>4. CASE Clamped(Point) = {}
  <2>1. pc' = "bisect" /\ lo' = 1 /\ len' = N /\ UNCHANGED result
    BY <1>4 DEF StartPoint
  <2>2. InterpTypeOK'
    BY <1>1, <1>2, <2>1 DEF IInv, InterpTypeOK
  <2>3. ~LessOrEqual(Point, base.values[1]) /\ ~LessOrEqual(base.values[N], Point)
    BY <1>4 DEF Clamped
  <2>4. Point' = Point
    BY <1>1, <2>1 DEF Point
  <2>5. Searching'
    BY <1>1, <1>2, <2>1, <2>3, <2>4 DEF Searching, LessOrEqual
  <2> QED BY <1>1, <2>1, <2>2, <2>5 DEF IInv, OutsideOnlyForNaN
<1> QED BY <1>3, <1>4

\* Each round halves the part that is left and keeps what is known of its neighbours.
LEMMA BisectInv == IInv /\ Bisect => IInv'
<1> SUFFICES ASSUME IInv, Bisect PROVE IInv'
  OBVIOUS
<1> DEFINE half == len \div 2
           mid  == lo + half
<1>1. /\ pc = "bisect" /\ len > 0 /\ Acceptable /\ Searching
      /\ lo \in Nat \ {0} /\ len \in Nat /\ lo + len <= N + 1
      /\ UNCHANGED <<arguments, input, base, target, pc, result>>
  BY DEF IInv, InterpTypeOK, Bisect
<1>2. Acceptable' /\ N' = N /\ N \in Nat /\ Point' = Point
  BY <1>1, Shape DEF IInv, Acceptable, N, Point
<1>3. half \in Nat /\ half < len
  BY <1>1
<1>4. \/ Less(Point, base.values[mid]) /\ len' = half /\ lo' = lo
      \/ ~Less(Point, base.values[mid]) /\ lo' = mid + 1 /\ len' = len - half - 1
  BY DEF Bisect
<1> HIDE DEF half
<1>5. lo' \in Nat \ {0} /\ len' \in Nat /\ lo' + len' <= N + 1
  BY <1>1, <1>2, <1>3, <1>4
<1>6. InterpTypeOK'
  BY <1>1, <1>2, <1>5 DEF IInv, InterpTypeOK
<1>7. lo' > 1 => ~Less(Point, base.values[lo' - 1])
  BY <1>1, <1>3, <1>4 DEF Searching
<1>8. lo' + len' <= N => Less(Point, base.values[lo' + len'])
  <2>1. CASE Less(Point, base.values[mid]) /\ len' = half /\ lo' = lo
    BY <2>1
  <2>2. CASE lo' = mid + 1 /\ len' = len - half - 1
    <3>1. lo' + len' = lo + len
      BY <1>1, <1>3, <2>2
    <3> QED BY <1>1, <3>1 DEF Searching
  <2> QED BY <1>4, <2>1, <2>2
<1>9. Searching'
  BY <1>1, <1>2, <1>7, <1>8 DEF Searching, LessOrEqual, Less
<1> QED BY <1>1, <1>6, <1>9 DEF IInv, OutsideOnlyForNaN

\* A search that ran past the base met a NaN; any other adds the next result.
LEMMA InterpolateInv == IInv /\ Interpolate => IInv'
<1> SUFFICES ASSUME IInv, Interpolate PROVE IInv'
  OBVIOUS
<1>1. /\ pc = "bisect" /\ len = 0 /\ Acceptable /\ Searching /\ lo \in Nat \ {0}
      /\ lo <= N + 1 /\ Len(result) < Len(target.values)
      /\ UNCHANGED <<arguments, input, base, target, lo, len>>
  <2>1. pc = "bisect" /\ len = 0 /\ UNCHANGED <<arguments, input, base, target, lo, len>>
    BY DEF Interpolate
  <2> QED BY <2>1 DEF IInv, InterpTypeOK, N
<1>2. /\ Acceptable' /\ N' = N /\ N \in Nat /\ N >= 2 /\ Len(input.values) = N
      /\ \A i \in 1..N : base.values[i] \in Value /\ input.values[i] \in Value
      /\ Len(result) \in Nat /\ Len(target.values) \in Nat /\ Point \in Value
  BY <1>1, Shape, PointType DEF IInv, Acceptable, N
<1>3. CASE lo > N
  <2>1. pc' = "undefined" /\ UNCHANGED result
    BY <1>3 DEF Interpolate
  <2>2. InterpTypeOK'
    BY <1>1, <1>2, <2>1 DEF IInv, InterpTypeOK, Ending
  <2>3. ~Less(Point, base.values[N]) /\ ~LessOrEqual(base.values[N], Point)
    <3>1. lo - 1 = N
      BY <1>1, <1>2, <1>3
    <3> QED BY <1>1, <1>2, <3>1 DEF Searching
  <2>4. Point = NaN \/ base.values[N] = NaN
    BY <1>2, <2>3, Trichotomy
  <2>5. Point' = Point
    BY <1>1, <2>1 DEF Point
  <2> QED BY <1>1, <1>2, <2>1, <2>2, <2>4, <2>5 DEF IInv, OutsideOnlyForNaN
<1>4. CASE ~(lo > N)
  <2> DEFINE b == base.values
             y == input.values
             one == IF NaN \in {b[lo - 1], b[lo], y[lo - 1], y[lo]} THEN <<NaN, 1>>
                                                          ELSE Lerp(y, b, Point, lo)
  <2>1. pc' = "point" /\ result' = Append(result, one)
    BY <1>4 DEF Interpolate
  <2>2. lo >= 2 /\ lo <= N /\ Point \in Int /\ b[lo] \in Int
    BY <1>1, <1>2, <1>4, SearchEncloses
  <2>3. one \in (Int \cup {NaN}) \X Int
    <3>1. lo - 1 \in 1..N /\ lo \in 1..N
      BY <1>1, <1>2, <2>2
    <3>2. CASE NaN \in {b[lo - 1], b[lo], y[lo - 1], y[lo]}
      BY <3>2
    <3>3. CASE NaN \notin {b[lo - 1], b[lo], y[lo - 1], y[lo]}
      <4>1. b[lo - 1] \in Int /\ b[lo] \in Int /\ y[lo - 1] \in Int /\ y[lo] \in Int
        BY <1>2, <3>1, <3>3 DEF Value
      <4>2. Lerp(y, b, Point, lo) \in Int \X Int
        BY <2>2, <4>1 DEF Lerp
      <4> QED BY <3>3, <4>2
    <3> QED BY <3>2, <3>3
  <2> HIDE DEF one
  <2>4. result' \in Seq((Int \cup {NaN}) \X Int) /\ Len(result') = Len(result) + 1
    BY <2>1, <2>3 DEF IInv, InterpTypeOK
  <2>5. InterpTypeOK'
    BY <1>1, <1>2, <2>1, <2>4 DEF IInv, InterpTypeOK
  <2> QED BY <1>1, <2>1, <2>5 DEF IInv, OutsideOnlyForNaN
<1> QED BY <1>3, <1>4

\* Return changes no value.
LEMMA ReturnInv == IInv /\ Return => IInv'
<1> SUFFICES ASSUME IInv, Return PROVE IInv'
  OBVIOUS
<1>1. pc' = "returned" /\ UNCHANGED <<arguments, input, base, target, lo, len, result>>
  BY DEF Return
<1>2. InterpTypeOK'
  BY <1>1 DEF IInv, InterpTypeOK, Ending
<1> QED BY <1>1, <1>2 DEF IInv, OutsideOnlyForNaN

\* A step that changes nothing.
LEMMA StutterInv == IInv /\ UNCHANGED interpVars => IInv'
<1> SUFFICES ASSUME IInv, UNCHANGED interpVars PROVE IInv'
  OBVIOUS
<1>1. UNCHANGED <<arguments, input, base, target, pc, lo, len, result>>
  BY DEF interpVars
<1>2. InterpTypeOK' /\ OutsideOnlyForNaN'
  BY <1>1 DEF IInv, InterpTypeOK, OutsideOnlyForNaN, Acceptable, N, Point
<1>3. pc' = "bisect" => Searching'
  BY <1>1 DEF IInv, Searching, N, Point
<1> QED BY <1>1, <1>2, <1>3 DEF IInv

\* IInv is inductive: it holds at every step of a call of map.
THEOREM InterpInvariant == InterpSpec => []IInv
<1>1. IInv /\ [InterpNext]_interpVars => IInv'
  BY ArgumentsInv, CheckInv, StartPointInv, BisectInv, InterpolateInv, ReturnInv, StutterInv
     DEF InterpNext, Ended
<1> QED BY InitInv, <1>1, PTL DEF InterpSpec

\* The type invariant: the part that is searched stays inside the base.
THEOREM InterpTypeCorrect == InterpSpec => []InterpTypeOK
<1>1. IInv => InterpTypeOK
  BY DEF IInv
<1> QED BY <1>1, InterpInvariant, PTL

\* Only a NaN makes InterpMapping read past the end of the base.
THEOREM LeavesBaseOnlyForNaN == InterpSpec => []OutsideOnlyForNaN
<1>1. IInv => OutsideOnlyForNaN
  BY DEF IInv
<1> QED BY <1>1, InterpInvariant, PTL

\* Each finished search inside the base has a base point on either side of its target.
THEOREM LookUpEncloses == InterpSpec => []Encloses
<1>1. IInv => Encloses
  BY SearchEncloses DEF Encloses
<1> QED BY <1>1, InterpInvariant, PTL

(***************************************************************************)
(* Induction                                                               *)
(***************************************************************************)
\* A sequence of numbers that never falls from one to the next is increasing.
LEMMA Increasing ==
    ASSUME NEW b, NEW n \in Nat, \A i \in 1..n : b[i] \in Int,
           \A i \in 2..n : b[i - 1] < b[i]
    PROVE  \A i, j \in 1..n : i < j => b[i] < b[j]
<1> SUFFICES ASSUME NEW i \in 1..n, NEW k \in 1..n, i < k, ~(b[i] < b[k])
             PROVE  FALSE
  OBVIOUS
<1> DEFINE Wrong == {j \in 1..n : i < j /\ ~(b[i] < b[j])}
<1>1. Wrong \in SUBSET Nat /\ Wrong # {}
  OBVIOUS
<1> HIDE DEF Wrong
<1>2. PICK j \in Wrong : \A m \in Wrong : j <= m
  BY <1>1, LeastNumber
<1>3. j \in 1..n /\ i < j /\ ~(b[i] < b[j])
  BY DEF Wrong
<1>4. j - 1 \in 1..n /\ j \in 2..n /\ j - 1 \notin Wrong
  BY <1>2, <1>3
<1>5. i < j - 1 => b[i] < b[j - 1]
  BY <1>4 DEF Wrong
<1> QED BY <1>3, <1>4, <1>5

\* A base that check_increasing accepts and that has no NaN is increasing.
LEMMA NeverFalls ==
    ASSUME NEW b, NEW n \in Nat, \A i \in 1..n : b[i] \in Int,
           \A i \in 2..n : ~LessOrEqual(b[i], b[i - 1])
    PROVE  \A i, j \in 1..n : i < j => b[i] < b[j]
<1>1. ASSUME NEW i \in 2..n
      PROVE  b[i - 1] < b[i]
  <2>1. b[i] \in Int /\ b[i - 1] \in Int /\ ~LessOrEqual(b[i], b[i - 1])
    OBVIOUS
  <2>2. b[i] # NaN /\ b[i - 1] # NaN
    BY <2>1, ValueAssumption
  <2> QED BY <2>1, <2>2 DEF LessOrEqual
<1> QED BY <1>1, Increasing

(***************************************************************************)
(* The values returned                                                     *)
(***************************************************************************)
\* Multiplication, as far as a line needs it.
LEMMA Products ==
    ASSUME NEW x \in Int, NEW y \in Int
    PROVE  /\ x * y \in Int /\ x * y = y * x
           /\ x * 0 = 0 /\ 0 * x = 0 /\ 1 * x = x /\ x * 1 = x
OBVIOUS

\* A line passes through its two points.
LEMMA LineEnds ==
    ASSUME NEW p \in Int, NEW q \in Int, NEW y \in Int, NEW z \in Int
    PROVE  /\ y * (q - p) + z * (p - p) = y * (q - p)
           /\ y * (q - q) + z * (q - p) = z * (q - p)
<1>1. p - p = 0 /\ q - q = 0 /\ q - p \in Int
  OBVIOUS
<1>2. z * 0 = 0 /\ y * 0 = 0 /\ y * (q - p) \in Int /\ z * (q - p) \in Int
  BY <1>1, Products
<1> QED BY <1>1, <1>2

\* The target point, the base and the input hold numbers only.
Numbers(x) ==
    /\ N \in Nat /\ N >= 2 /\ x \in Int
    /\ \A i \in 1..N : base.values[i] \in Int /\ input.values[i] \in Int
    /\ \A i, j \in 1..N : i < j => base.values[i] < base.values[j]

\* Accepted arrays without a NaN.
LEMMA NumbersIn ==
    ASSUME InterpTypeOK, Acceptable, NEW x \in Value,
           NaN \notin {x} \cup {base.values[j] : j \in 1..N} \cup {input.values[j] : j \in 1..N}
    PROVE  Numbers(x)
<1>1. /\ N \in Nat /\ N >= 2
      /\ \A i \in 1..N : base.values[i] \in Value /\ input.values[i] \in Value
  BY Shape
<1>2. x \in Int /\ \A i \in 1..N : base.values[i] \in Int /\ input.values[i] \in Int
  BY <1>1 DEF Value
<1>3. \A i \in 2..N : ~LessOrEqual(base.values[i], base.values[i - 1])
  BY DEF Acceptable, Falls, N
<1>4. \A i, j \in 1..N : i < j => base.values[i] < base.values[j]
  <2> DEFINE b == base.values
             n == N
  <2>1. n \in Nat /\ (\A i \in 1..n : b[i] \in Int) /\ \A i \in 2..n : ~LessOrEqual(b[i], b[i - 1])
    BY <1>1, <1>2, <1>3
  <2> HIDE DEF b, n
  <2>2. \A i, j \in 1..n : i < j => b[i] < b[j]
    BY <2>1, NeverFalls
  <2> QED BY <2>2 DEF b, n
<1> QED BY <1>1, <1>2, <1>4 DEF Numbers

\* Below the base and at its first point.
LEMMA ExpectedLow ==
    ASSUME NEW x, Numbers(x), x <= base.values[1]
    PROVE  Expected(x, input.values[1], 1)
<1> DEFINE b == base.values
           y == input.values
<1>1. 1 \in 1..N /\ 2 \in 1..N /\ N \in 1..N /\ b[1] < b[N]
  BY DEF Numbers
<1>2. ~(x >= b[N])
  BY <1>1 DEF Numbers
<1>3. ASSUME NEW i \in 1..(N - 1), b[i] <= x, x <= b[i + 1]
      PROVE  OnLine(i, x, y[1], 1)
  <2>1. i = 1 /\ x = b[1]
    BY <1>1, <1>3 DEF Numbers
  <2>2. b[1] \in Int /\ b[2] \in Int /\ y[1] \in Int /\ y[2] \in Int
    BY <1>1 DEF Numbers
  <2>3. y[1] * (b[2] - b[1]) + y[2] * (b[1] - b[1]) = y[1] * (b[2] - b[1])
    BY <2>2, LineEnds
  <2>4. 1 * (y[1] * (b[2] - b[1])) = y[1] * (b[2] - b[1])
    BY <2>2, Products
  <2> QED BY <2>1, <2>3, <2>4 DEF OnLine
<1>4. y[1] = 1 * y[1]
  BY <1>1, Products DEF Numbers
<1> QED BY <1>2, <1>3, <1>4 DEF Expected

\* Above the base and at its last point.
LEMMA ExpectedHigh ==
    ASSUME NEW x, Numbers(x), x >= base.values[N]
    PROVE  Expected(x, input.values[N], 1)
<1> DEFINE b == base.values
           y == input.values
           M == N - 1
<1>1. 1 \in 1..N /\ M \in 1..N /\ N \in 1..N /\ M + 1 = N /\ b[1] < b[N]
  BY DEF Numbers
<1>2. ~(x <= b[1])
  BY <1>1 DEF Numbers
<1>3. ASSUME NEW i \in 1..(N - 1), b[i] <= x, x <= b[i + 1]
      PROVE  OnLine(i, x, y[N], 1)
  <2>1. i = M /\ x = b[N]
    BY <1>1, <1>3 DEF Numbers
  <2>2. b[M] \in Int /\ b[N] \in Int /\ y[M] \in Int /\ y[N] \in Int
    BY <1>1 DEF Numbers
  <2>3. y[M] * (b[N] - b[N]) + y[N] * (b[N] - b[M]) = y[N] * (b[N] - b[M])
    BY <2>2, LineEnds
  <2>4. 1 * (y[N] * (b[N] - b[M])) = y[N] * (b[N] - b[M])
    BY <2>2, Products
  <2> QED BY <1>1, <2>1, <2>3, <2>4 DEF OnLine
<1>4. y[N] = 1 * y[N]
  BY <1>1, Products DEF Numbers
<1> QED BY <1>2, <1>3, <1>4 DEF Expected

\* Between two points, also when the target is the lower one of them.
LEMMA ExpectedBetween ==
    ASSUME NEW x, Numbers(x), NEW k \in 2..N, base.values[k - 1] <= x, x < base.values[k],
           ~(x <= base.values[1])
    PROVE  Expected(x, Lerp(input.values, base.values, x, k)[1],
                       Lerp(input.values, base.values, x, k)[2])
<1> DEFINE b == base.values
           y == input.values
           h == k - 1
           e == y[h] * (b[k] - x) + y[k] * (x - b[h])
           w == b[k] - b[h]
<1>1. /\ N \in Nat /\ k \in 1..N /\ h \in 1..N /\ h + 1 = k
      /\ x \in Int /\ b[h] \in Int /\ b[k] \in Int /\ y[h] \in Int /\ y[k] \in Int
  BY DEF Numbers
<1>2. e \in Int /\ w \in Int
  <2>1. b[k] - x \in Int /\ x - b[h] \in Int
    BY <1>1
  <2>2. y[h] * (b[k] - x) \in Int /\ y[k] * (x - b[h]) \in Int
    BY <1>1, <2>1, Products
  <2> QED BY <1>1, <2>2
<1>3. ~(x >= b[N])
  BY <1>1 DEF Numbers
<1>4. ASSUME NEW i \in 1..(N - 1), b[i] <= x, x <= b[i + 1]
      PROVE  OnLine(i, x, e, w)
  <2>1. CASE i = h
    BY <1>1, <1>2, <2>1, Products DEF OnLine
  <2>2. CASE i < h
    <3>1. i + 1 = h /\ x = b[h]
      BY <1>1, <1>4, <2>2 DEF Numbers
    <3>2. b[i] \in Int /\ y[i] \in Int
      BY DEF Numbers
    <3>3. e = y[h] * w
      BY <1>1, <3>1, LineEnds
    <3>4. y[i] * (b[h] - b[h]) + y[h] * (b[h] - b[i]) = y[h] * (b[h] - b[i])
      BY <1>1, <3>2, LineEnds
    <3>5. (y[h] * w) * (b[h] - b[i]) = w * (y[h] * (b[h] - b[i]))
      BY <1>1, <1>2, <3>2, Z3
    <3> QED BY <3>1, <3>3, <3>4, <3>5 DEF OnLine
  <2>3. CASE i > h
    BY <1>1, <1>4, <2>3 DEF Numbers
  <2> QED BY <1>1, <2>1, <2>2, <2>3
<1>5. Lerp(y, b, x, k)[1] = e /\ Lerp(y, b, x, k)[2] = w
  BY DEF Lerp
<1> QED BY <1>3, <1>4, <1>5 DEF Expected

\* The look-ups answered so far.
Answers ==
    /\ result # << >> => Acceptable
    /\ Interpolates

\* The i-th value of q interpolates.
Right(q, i) ==
    LET numbers == {target.values[i]} \cup {base.values[j] : j \in 1..N}
                                      \cup {input.values[j] : j \in 1..N}
    IN  NaN \notin numbers => Expected(target.values[i], q[i][1], q[i][2])

\* One more value, right by itself, leaves the others right.
LEMMA AnswersMore ==
    ASSUME IInv, Answers, NEW one, one = <<one[1], one[2]>>,
           one \in (Int \cup {NaN}) \X Int, Acceptable,
           result' = Append(result, one), UNCHANGED <<input, base, target>>,
           NaN \notin {Point} \cup {base.values[j] : j \in 1..N} \cup {input.values[j] : j \in 1..N}
             => Expected(Point, one[1], one[2])
    PROVE  Answers'
<1>1. result \in Seq((Int \cup {NaN}) \X Int)
  BY DEF IInv, InterpTypeOK
<1>2. /\ DOMAIN result = 1..Len(result) /\ Len(result) \in Nat
      /\ DOMAIN result' = 1..(Len(result) + 1)
      /\ \A i \in DOMAIN result : result'[i] = result[i]
      /\ result'[Len(result) + 1] = one
  BY <1>1
<1>3. \A i \in DOMAIN result : Right(result, i)
  BY DEF Answers, Interpolates, Right
<1>4. \A i \in DOMAIN result : Right(result', i)
  BY <1>2, <1>3 DEF Right
<1>5. Right(result', Len(result) + 1)
  BY <1>2 DEF Right, Point
<1>6. \A i \in DOMAIN result' : Right(result', i)
  <2>1. \A i \in DOMAIN result' : i \in DOMAIN result \/ i = Len(result) + 1
    BY <1>2
  <2> QED BY <1>4, <1>5, <2>1
<1>7. /\ N' = N /\ (Acceptable' <=> Acceptable)
      /\ \A x, num, den : Expected(x, num, den)' <=> Expected(x, num, den)
  BY DEF N, Acceptable, Expected, OnLine
<1>8. Interpolates'
  BY <1>6, <1>7 DEF Interpolates, Right
<1> QED BY <1>7, <1>8 DEF Answers

\* A step that answers nothing.
LEMMA AnswersKept ==
    ASSUME Answers, UNCHANGED result, result = << >> \/ UNCHANGED <<input, base, target>>
    PROVE  Answers'
<1>1. CASE result = << >>
  BY <1>1 DEF Answers, Interpolates
<1>2. CASE UNCHANGED <<input, base, target>>
  BY <1>2 DEF Answers, Interpolates, Acceptable, Expected, OnLine, N
<1> QED BY <1>1, <1>2

\* Every step keeps what was answered right, and answers right.
LEMMA AnswersStep ==
    ASSUME IInv, Answers, [InterpNext]_interpVars
    PROVE  Answers'
<1>1. CASE Arguments
  BY <1>1, AnswersKept DEF Arguments, IInv
<1>2. CASE Check \/ Bisect \/ Return \/ UNCHANGED interpVars
  BY <1>2, AnswersKept DEF Check, Bisect, Return, interpVars
<1>3. CASE StartPoint
  <2>1. /\ pc = "point" /\ Acceptable /\ Len(result) < Len(target.values)
        /\ UNCHANGED <<arguments, input, base, target>>
    BY <1>3 DEF IInv, InterpTypeOK, StartPoint
  <2>2. /\ Point \in Value /\ N \in Nat /\ N >= 2
        /\ \A i \in 1..N : base.values[i] \in Value /\ input.values[i] \in Value
    BY <2>1, Shape, PointType DEF IInv
  <2>3. CASE Clamped(Point) = {}
    BY <1>3, <2>1, <2>3, AnswersKept DEF StartPoint
  <2>4. CASE Clamped(Point) # {}
    <3>1. PICK i \in Clamped(Point) : result' = Append(result, <<input.values[i], 1>>)
      BY <1>3, <2>4 DEF StartPoint
    <3>2. /\ i \in {1, N}
          /\ i = 1 => LessOrEqual(Point, base.values[1]) \/ N = 1
          /\ i = N => LessOrEqual(base.values[N], Point) \/ N = 1
      BY <2>2, <3>1 DEF Clamped
    <3> DEFINE one == <<input.values[i], 1>>
    <3>3. one \in (Int \cup {NaN}) \X Int /\ one = <<one[1], one[2]>>
      BY <2>2, <3>2 DEF Value
    <3>4. ASSUME NaN \notin {Point} \cup {base.values[j] : j \in 1..N}
                             \cup {input.values[j] : j \in 1..N}
          PROVE  Expected(Point, one[1], one[2])
      <4>1. Numbers(Point)
        BY <2>1, <2>2, <3>4, NumbersIn DEF IInv
      <4>2. CASE i = 1
        BY <2>2, <3>2, <4>1, <4>2, ExpectedLow DEF LessOrEqual
      <4>3. CASE i = N
        <5>1. base.values[N] <= Point
          BY <2>2, <3>2, <4>3 DEF LessOrEqual
        <5>2. Point >= base.values[N]
          BY <5>1, <4>1, <2>2 DEF Numbers
        <5> QED BY <4>1, <4>3, <5>2, ExpectedHigh
      <4> QED BY <3>2, <4>2, <4>3
    <3>5. result' = Append(result, one)
      BY <3>1
    <3> HIDE DEF one
    <3> QED BY <2>1, <3>3, <3>4, <3>5, AnswersMore
  <2> QED BY <2>3, <2>4
<1>4. CASE Interpolate
  <2>1. /\ pc = "bisect" /\ len = 0 /\ UNCHANGED <<arguments, input, base, target>>
        /\ lo \in Nat \ {0} /\ Acceptable /\ Len(result) < Len(target.values)
    BY <1>4 DEF Interpolate, IInv, InterpTypeOK
  <2>2. /\ Point \in Value /\ N \in Nat /\ N >= 2
        /\ \A i \in 1..N : base.values[i] \in Value /\ input.values[i] \in Value
    BY <2>1, Shape, PointType DEF IInv
  <2>3. CASE lo > N
    BY <1>4, <2>1, <2>3, AnswersKept DEF Interpolate
  <2>4. CASE ~(lo > N)
    <3> DEFINE b == base.values
               y == input.values
               one == IF NaN \in {b[lo - 1], b[lo], y[lo - 1], y[lo]} THEN <<NaN, 1>>
                                                            ELSE Lerp(y, b, Point, lo)
    <3>1. result' = Append(result, one)
      BY <1>4, <2>4 DEF Interpolate
    <3>2. /\ lo >= 2 /\ lo <= N /\ Point \in Int /\ b[lo] \in Int
          /\ ~Less(Point, b[lo - 1]) /\ Less(Point, b[lo])
      BY <2>1, <2>2, <2>4, SearchEncloses
    <3>3. ~LessOrEqual(Point, b[1])
      BY <2>1 DEF IInv, Searching
    <3>4. lo - 1 \in 1..N /\ lo \in 2..N
      BY <2>1, <2>2, <3>2
    <3>5. one \in (Int \cup {NaN}) \X Int /\ one = <<one[1], one[2]>>
      <4>1. CASE NaN \in {b[lo - 1], b[lo], y[lo - 1], y[lo]}
        BY <4>1
      <4>2. CASE NaN \notin {b[lo - 1], b[lo], y[lo - 1], y[lo]}
        <5>1. b[lo - 1] \in Int /\ b[lo] \in Int /\ y[lo - 1] \in Int /\ y[lo] \in Int
          BY <2>2, <3>4, <4>2 DEF Value
        <5>2. Lerp(y, b, Point, lo) \in Int \X Int
          BY <3>2, <5>1 DEF Lerp
        <5> QED BY <4>2, <5>2
      <4> QED BY <4>1, <4>2
    <3>6. ASSUME NaN \notin {Point} \cup {b[j] : j \in 1..N} \cup {y[j] : j \in 1..N}
          PROVE  Expected(Point, one[1], one[2])
      <4>1. Numbers(Point)
        BY <2>1, <2>2, <3>6, NumbersIn DEF IInv
      <4>2. NaN \notin {b[lo - 1], b[lo], y[lo - 1], y[lo]}
        BY <3>4, <3>6
      <4>3. b[lo - 1] <= Point /\ Point < b[lo] /\ ~(Point <= b[1])
        <5>1. b[lo - 1] \in Int /\ b[1] \in Int /\ Point \in Int /\ NaN \notin Int
          BY <3>4, <4>1, <2>2, ValueAssumption DEF Numbers
        <5> QED BY <3>2, <3>3, <5>1 DEF Less, LessOrEqual
      <4>4. Expected(Point, Lerp(y, b, Point, lo)[1], Lerp(y, b, Point, lo)[2])
        BY <3>4, <4>1, <4>3, ExpectedBetween
      <4> QED BY <4>2, <4>4
    <3> HIDE DEF one
    <3> QED BY <2>1, <3>1, <3>5, <3>6, AnswersMore
  <2> QED BY <2>3, <2>4
<1> QED BY <1>1, <1>2, <1>3, <1>4 DEF InterpNext, Ended

\* INTERP returns the piecewise linear interpolation of its input at each of its
\* targets, in their order, for arrays of every length without a NaN.
THEOREM InterpolatesEverywhere == InterpSpec => []Interpolates
<1>1. InterpInit => Answers
  BY DEF InterpInit, Answers, Interpolates
<1>2. IInv /\ Answers /\ [InterpNext]_interpVars => Answers'
  BY AnswersStep
<1>3. Answers => Interpolates
  BY DEF Answers
<1> QED BY <1>1, <1>2, <1>3, InterpInvariant, PTL DEF InterpSpec

(***************************************************************************)
(* The arguments                                                           *)
(***************************************************************************)
\* An integer that fits goes through the narrowing unchanged.
LEMMA WholeNumber ==
    ASSUME NEW v \in Int, v % Unit = 0
    PROVE  Trunc(v) = v \div Unit /\ Unit * (v \div Unit) = v
<1>1. Unit \in Nat \ {0}
  BY ValueAssumption
<1>2. Unit * (v \div Unit) = v
  BY <1>1, Z3
<1>3. CASE v >= 0
  BY <1>2, <1>3 DEF Trunc
<1>4. CASE v < 0
  <2>1. (-v) \div Unit = -(v \div Unit)
    BY <1>1, <1>2, Z3
  <2> QED BY <1>1, <1>2, <1>4, <2>1 DEF Trunc
<1> QED BY <1>2, <1>3, <1>4

\* get<int> and get<unsigned> of a number that fits give that number.
LEMMA NarrowExact ==
    ASSUME NEW v \in Int, v % Unit = 0
    PROVE  /\ Holds("integer", v) => Signed(v) = v
           /\ Holds("unsigned", v) => Unsigned(v) = v
<1> DEFINE t == v \div Unit
<1>1. Trunc(v) = t /\ Unit * t = v /\ t \in Int
  <2>1. v \div Unit \in Int
    BY ValueAssumption
  <2> QED BY <2>1, WholeNumber
<1>2. Half \in Nat \ {0}
  BY ValueAssumption
<1> HIDE DEF t
<1>3. ASSUME Holds("unsigned", v)
      PROVE  Unsigned(v) = v
  <2>1. t \in 0..(2 * Half - 1)
    BY <1>3 DEF Holds, t
  <2>2. t % (2 * Half) = t
    BY <1>1, <1>2, <2>1
  <2> QED BY <1>1, <2>2 DEF Unsigned
<1>4. ASSUME Holds("integer", v)
      PROVE  Signed(v) = v
  <2>1. t \in -Half..(Half - 1)
    BY <1>4 DEF Holds, t
  <2>2. CASE t >= 0
    <3>1. t % (2 * Half) = t
      BY <1>1, <1>2, <2>1, <2>2
    <3> QED BY <1>1, <1>2, <2>1, <3>1 DEF Signed
  <2>3. CASE t < 0
    <3>1. t % (2 * Half) = t + 2 * Half
      BY <1>1, <1>2, <2>1, <2>3
    <3>2. t + 2 * Half >= Half /\ (t + 2 * Half) - 2 * Half = t
      BY <1>1, <1>2, <2>1
    <3> QED BY <1>1, <1>2, <3>1, <3>2 DEF Signed
  <2> QED BY <1>1, <2>2, <2>3
<1> QED BY <1>3, <1>4

\* The values of an array are the elements of a list or a string, in order.
LEMMA WrittenKept ==
    ASSUME NEW q \in Seq(Elements)
    PROVE  /\ Len(Written(q)) = Len(q) /\ Len(AllSingle(q)) = Len(q)
           /\ Len(AllSigned(q)) = Len(q) /\ Len(AllUnsigned(q)) = Len(q)
           /\ \A i \in DOMAIN q : /\ Written(q)[i] = q[i].v /\ AllSingle(q)[i] = Single(q[i].v)
                                  /\ AllSigned(q)[i] = Signed(q[i].v)
                                  /\ AllUnsigned(q)[i] = Unsigned(q[i].v) /\ q[i].v \in Int
<1>1. DOMAIN q = 1..Len(q) /\ Len(q) \in Nat
  BY LenProperties
<1>2. ASSUME NEW f, DOMAIN f = DOMAIN q
      PROVE  Len(f) = Len(q)
  BY <1>1, <1>2
<1>3. /\ DOMAIN Written(q) = DOMAIN q /\ DOMAIN AllSingle(q) = DOMAIN q
      /\ DOMAIN AllSigned(q) = DOMAIN q /\ DOMAIN AllUnsigned(q) = DOMAIN q
  BY DEF Written, AllSingle, AllSigned, AllUnsigned
<1>4. /\ Len(Written(q)) = Len(q) /\ Len(AllSingle(q)) = Len(q)
      /\ Len(AllSigned(q)) = Len(q) /\ Len(AllUnsigned(q)) = Len(q)
  BY <1>2, <1>3
<1>5. \A i \in DOMAIN q : q[i].v \in Int
  <2> TAKE i \in DOMAIN q
  <2>1. q[i] \in Elements
    BY ElementOfSeq, LenProperties
  <2> QED BY <2>1 DEF Elements
<1> QED BY <1>4, <1>5 DEF Written, AllSingle, AllSigned, AllUnsigned

\* The numbers of a list or a string are kept, rounded for an array of floats.
LEMMA StoredKept ==
    ASSUME NEW q \in Seq(Elements), NEW type
    PROVE  /\ Len(Stored(type, q)) = Len(q)
           /\ \A i \in DOMAIN q : KeptAs(type, q[i], Stored(type, q)[i])
<1>1. CASE type = "float"
  <2>1. Stored(type, q) = AllSingle(q)
    BY <1>1 DEF Stored
  <2>2. \A i \in DOMAIN q : AllSingle(q)[i] = Single(q[i].v) /\ q[i].v \in Int
    BY WrittenKept
  <2>3. \A i \in DOMAIN q : Rounds(q[i].v, AllSingle(q)[i])
    BY <2>2, SingleRounds
  <2> QED BY <1>1, <2>1, <2>3, WrittenKept DEF KeptAs
<1>2. CASE type # "float"
  <2>1. Stored(type, q) = Written(q)
    BY <1>2 DEF Stored
  <2> QED BY <1>2, <2>1, WrittenKept DEF KeptAs
<1> QED BY <1>1, <1>2

\* ValueMapping::map returns what is written.
LEMMA EvaluatedKeeps ==
    ASSUME NEW d \in Definitions, NEW type, NEW rank
    PROVE  KeptIn(d, Evaluated(d, type, rank))
<1>0. Words.values = << >> /\ Thrown.values = << >> /\ Undefined.values = << >>
      /\ Nothing.values = << >>
  BY DEF Words, Thrown, Undefined, Nothing, Ends
<1>1. CASE d.form = "list"
  <2>1. d.of \in Seq(Elements) /\ Evaluated(d, type, rank) = ListValue(d.of)
    BY <1>1 DEF Definitions, Evaluated
  <2> DEFINE q == d.of
  <2>2. CASE q = << >> \/ ~\A i \in DOMAIN q : IsNumber(q[i])
    <3>1. Evaluated(d, type, rank).values = << >>
      BY <1>0, <2>1, <2>2 DEF ListValue
    <3> QED BY <3>1 DEF KeptIn
  <2>3. CASE q # << >> /\ \A i \in DOMAIN q : IsNumber(q[i])
    <3>1. q[1].kind \in NumberKinds
      <4>1. 1 \in DOMAIN q
        BY <2>1, <2>3, EmptySeq, LenProperties
      <4> QED BY <2>3, <4>1 DEF IsNumber
    <3>2. Evaluated(d, type, rank) = DeduceArray(q)
      BY <2>1, <2>3 DEF ListValue
    <3>3. CASE q[1].kind = "float"
      <4>1. /\ Evaluated(d, type, rank).values = Stored("float", q)
            /\ Evaluated(d, type, rank).type = "float"
        BY <3>2, <3>3 DEF DeduceArray, Vector, Stored
      <4>2. /\ Len(Stored("float", q)) = Len(q)
            /\ \A i \in DOMAIN q : KeptAs("float", q[i], Stored("float", q)[i])
        BY <2>1, StoredKept
      <4> QED BY <4>1, <4>2 DEF KeptIn
    <3>4. CASE q[1].kind = "integer"
      <4>1. /\ Evaluated(d, type, rank).values = AllSigned(q)
            /\ Evaluated(d, type, rank).type # "float"
        BY <3>2, <3>4 DEF DeduceArray, Vector
      <4>2. ASSUME NEW i \in DOMAIN q, Holds(q[1].kind, q[i].v)
            PROVE  AllSigned(q)[i] = q[i].v
        <5>1. q[i].v \in Int /\ AllSigned(q)[i] = Signed(q[i].v)
          BY <2>1, WrittenKept
        <5>2. q[i].v % Unit = 0 /\ Holds("integer", q[i].v)
          BY <3>4, <4>2 DEF Holds
        <5> QED BY <5>1, <5>2, NarrowExact
      <4>3. Len(AllSigned(q)) = Len(q)
        BY <2>1, WrittenKept
      <4>4. \A i \in DOMAIN q : \/ KeptAs(Evaluated(d, type, rank).type, q[i], AllSigned(q)[i])
                              \/ ~Holds(q[1].kind, q[i].v)
        BY <4>1, <4>2 DEF KeptAs
      <4>5. d.form = "list" /\ q[1].kind # "float"
        BY <1>1, <3>4
      <4> HIDE DEF q
      <4> QED BY <4>1, <4>3, <4>4, <4>5 DEF KeptIn, q
    <3>5. CASE q[1].kind = "unsigned"
      <4>1. /\ Evaluated(d, type, rank).values = AllUnsigned(q)
            /\ Evaluated(d, type, rank).type # "float"
        BY <3>2, <3>5 DEF DeduceArray, Vector
      <4>2. ASSUME NEW i \in DOMAIN q, Holds(q[1].kind, q[i].v)
            PROVE  AllUnsigned(q)[i] = q[i].v
        <5>1. q[i].v \in Int /\ AllUnsigned(q)[i] = Unsigned(q[i].v)
          BY <2>1, WrittenKept
        <5>2. q[i].v % Unit = 0 /\ Holds("unsigned", q[i].v)
          BY <3>5, <4>2 DEF Holds
        <5> QED BY <5>1, <5>2, NarrowExact
      <4>3. Len(AllUnsigned(q)) = Len(q)
        BY <2>1, WrittenKept
      <4>4. \A i \in DOMAIN q : \/ KeptAs(Evaluated(d, type, rank).type, q[i], AllUnsigned(q)[i])
                              \/ ~Holds(q[1].kind, q[i].v)
        BY <4>1, <4>2 DEF KeptAs
      <4>5. d.form = "list" /\ q[1].kind # "float"
        BY <1>1, <3>5
      <4> HIDE DEF q
      <4> QED BY <4>1, <4>3, <4>4, <4>5 DEF KeptIn, q
    <3> QED BY <3>1, <3>3, <3>4, <3>5 DEF NumberKinds
  <2> QED BY <2>2, <2>3
<1>2. CASE d.form = "string"
  <2>1. d.of \in Seq(Elements)
        /\ Evaluated(d, type, rank) = StringValue(d.of, d.bracketed, type, rank)
    BY <1>2 DEF Definitions, Evaluated
  <2> DEFINE c == Converted(type, d.of)
             s == StringValue(d.of, d.bracketed, type, rank)
  <2>2. c.values = << >> \/ (c.values = Stored(type, d.of) /\ c.type = type)
    BY <1>0 DEF Converted, Vector
  <2>3. \A a : [c EXCEPT !.rank = a].values = c.values /\ [c EXCEPT !.rank = a].type = c.type
    BY <1>0 DEF Converted, Vector, Words, Thrown, Ends
  <2>4. s.values = << >> \/ (s.values = Stored(type, d.of) /\ s.type = type)
    BY <1>0, <2>2, <2>3 DEF StringValue
  <2>5. /\ Len(Stored(type, d.of)) = Len(d.of)
        /\ \A i \in DOMAIN d.of : KeptAs(type, d.of[i], Stored(type, d.of)[i])
    BY <2>1, StoredKept
  <2> HIDE DEF s, c
  <2> QED BY <2>1, <2>4, <2>5 DEF KeptIn, s
<1>3. CASE d.form \notin {"list", "string"}
  BY <1>3 DEF KeptIn
<1> QED BY <1>1, <1>2, <1>3

\* The definitions of a request's arguments.
LEMMA ArgumentTypes ==
    ASSUME IInv
    PROVE  /\ arguments.input \in Definitions /\ arguments.base \in Definitions
           /\ arguments.target \in Definitions
BY InterpolationAssumption DEF IInv

\* The arrays that are checked are the values of the definitions.
Fetched == pc = "check" => /\ input = Arg(arguments.input) /\ base = Arg(arguments.base)
                           /\ target = Arg(arguments.target)

\* Only Arguments leads to the check.
LEMMA FetchedStep ==
    ASSUME Fetched, [InterpNext]_interpVars
    PROVE  Fetched'
<1>1. CASE Arguments
  BY <1>1 DEF Arguments, Fetched, Arg
<1>2. ASSUME pc' # "check" PROVE Fetched'
  BY <1>2 DEF Fetched
<1>3. CASE UNCHANGED interpVars
  BY <1>3 DEF interpVars, Fetched, Arg
<1>4. CASE Check \/ StartPoint \/ Bisect \/ Interpolate \/ Return
  BY <1>2, <1>4 DEF Check, StartPoint, Bisect, Interpolate, Return
<1> QED BY <1>1, <1>3, <1>4 DEF InterpNext, Ended

\* The arrays INTERP checks hold the numbers of their definitions, for lists and
\* strings of every length and every unit, save what a list of integers cannot hold.
THEOREM ValuesAreKept == InterpSpec => []ValuesKept
<1>1. InterpInit => Fetched
  BY DEF InterpInit, Fetched
<1>2. IInv /\ Fetched => ValuesKept
  BY ArgumentTypes, EvaluatedKeeps DEF Fetched, ValuesKept, Arg
<1> QED BY <1>1, <1>2, FetchedStep, InterpInvariant, PTL DEF InterpSpec

(***************************************************************************)
(* Well-formed requests                                                    *)
(***************************************************************************)
\* Lists of numbers, each with a float in front, and a base whose numbers increase and
\* are told apart by floats.
WellFormed ==
    LET y == arguments.input
        b == arguments.base
    IN  /\ FloatList(y) /\ FloatList(b) /\ FloatList(arguments.target)
        /\ Len(y.of) = Len(b.of) /\ Len(b.of) >= 2
        /\ \A i, j \in DOMAIN b.of : i < j => ToldApart(b.of[i].v, b.of[j].v)

\* Such a list becomes an array of floats.
LEMMA FloatListValue ==
    ASSUME NEW d \in Definitions, FloatList(d), NEW type, NEW rank
    PROVE  /\ Evaluated(d, type, rank) = Vector("float", AllSingle(d.of))
           /\ d.of \in Seq(Elements) /\ AllSingle(d.of) # << >>
<1>1. d.of \in Seq(Elements) /\ Evaluated(d, type, rank) = ListValue(d.of)
  BY DEF FloatList, Definitions, Evaluated
<1>2. ListValue(d.of) = Vector("float", AllSingle(d.of))
  BY DEF FloatList, ListValue, DeduceArray
<1>3. Len(AllSingle(d.of)) = Len(d.of) /\ Len(d.of) # 0
  BY <1>1, WrittenKept, EmptySeq DEF FloatList
<1>4. AllSingle(d.of) # << >>
  BY <1>3
<1> QED BY <1>1, <1>2, <1>4

\* What such a request goes through: its arrays are as floats hold what is written, and
\* no check fails.
Smooth ==
    WellFormed =>
        /\ pc \notin {"thrown", "undefined"}
        /\ pc # "arguments" => /\ input = Vector("float", AllSingle(arguments.input.of))
                               /\ base = Vector("float", AllSingle(arguments.base.of))
                               /\ target = Vector("float", AllSingle(arguments.target.of))

\* It passes the checks, and none of its numbers is a NaN.
LEMMA WellFormedAccepted ==
    ASSUME IInv, WellFormed, Smooth, pc # "arguments"
    PROVE  /\ Acceptable
           /\ \A i \in 1..N : base.values[i] \in Int
           /\ \A i \in 1..Len(target.values) : target.values[i] \in Int
<1> DEFINE y == arguments.input
           b == arguments.base
           t == arguments.target
<1>1. /\ y \in Definitions /\ b \in Definitions /\ t \in Definitions
      /\ FloatList(y) /\ FloatList(b) /\ FloatList(t)
  BY ArgumentTypes DEF WellFormed
<1>2. /\ y.of \in Seq(Elements) /\ b.of \in Seq(Elements) /\ t.of \in Seq(Elements)
      /\ AllSingle(y.of) # << >> /\ AllSingle(b.of) # << >> /\ AllSingle(t.of) # << >>
  BY <1>1, FloatListValue
<1>3. /\ input = Vector("float", AllSingle(y.of)) /\ base = Vector("float", AllSingle(b.of))
      /\ target = Vector("float", AllSingle(t.of))
  BY DEF Smooth
<1>4. /\ input.values = AllSingle(y.of) /\ base.values = AllSingle(b.of)
      /\ target.values = AllSingle(t.of)
      /\ \A a \in {input, base, target} : a.rank = 1 /\ a.type = "float"
  BY <1>3 DEF Vector
<1>5. /\ Len(input.values) = Len(y.of) /\ Len(base.values) = Len(b.of)
      /\ Len(target.values) = Len(t.of)
      /\ \A i \in DOMAIN b.of : base.values[i] = Single(b.of[i].v) /\ b.of[i].v \in Int
      /\ \A i \in DOMAIN t.of : target.values[i] = Single(t.of[i].v) /\ t.of[i].v \in Int
  BY <1>2, <1>4, WrittenKept
<1>6. /\ DOMAIN b.of = 1..Len(b.of) /\ DOMAIN t.of = 1..Len(t.of)
      /\ Len(b.of) \in Nat
  BY <1>2, LenProperties
<1>7. /\ \A i \in 1..N : base.values[i] \in Int
      /\ \A i \in 1..Len(target.values) : target.values[i] \in Int
  BY <1>5, <1>6, SingleRounds DEF N
<1>8. ~Falls(base.values)
  <2>1. SUFFICES ASSUME NEW i \in 2..Len(base.values),
                        LessOrEqual(base.values[i], base.values[i - 1])
                 PROVE  FALSE
    BY DEF Falls
  <2>2. i \in DOMAIN b.of /\ i - 1 \in DOMAIN b.of /\ i - 1 < i
    BY <1>5, <1>6
  <2>3. base.values[i - 1] < base.values[i] /\ base.values[i] \in Int /\ base.values[i - 1] \in Int
    <3>1. ToldApart(b.of[i - 1].v, b.of[i].v)
      BY <2>2 DEF WellFormed
    <3>2. b.of[i].v \in Int /\ b.of[i - 1].v \in Int
      BY <1>5, <2>2
    <3> QED BY <1>5, <2>2, <3>1, <3>2, RoundedApart, SingleRounds
  <2>4. base.values[i] <= base.values[i - 1]
    BY <2>1 DEF LessOrEqual
  <2> QED BY <2>3, <2>4
<1>9. Len(input.values) = Len(base.values) /\ Len(base.values) >= 2
  BY <1>5 DEF WellFormed
<1> QED BY <1>2, <1>4, <1>7, <1>8, <1>9 DEF Acceptable, Floating

\* Each step of such a request keeps its arrays, and none throws.
LEMMA SmoothStep ==
    ASSUME IInv, IInv', Smooth, [InterpNext]_interpVars
    PROVE  Smooth'
<1> SUFFICES ASSUME WellFormed'
             PROVE  /\ pc' \notin {"thrown", "undefined"}
                    /\ pc' # "arguments" =>
                          /\ input' = Vector("float", AllSingle(arguments'.input.of))
                          /\ base' = Vector("float", AllSingle(arguments'.base.of))
                          /\ target' = Vector("float", AllSingle(arguments'.target.of))
  BY DEF Smooth
<1>1. UNCHANGED arguments
  BY DEF InterpNext, Arguments, Check, StartPoint, Bisect, Interpolate, Return, Ended, interpVars
<1>2. WellFormed
  BY <1>1 DEF WellFormed
<1>3. CASE Arguments
  <2> DEFINE got == <<Arg(arguments.input), Arg(arguments.base), Arg(arguments.target)>>
  <2>1. /\ arguments.input \in Definitions /\ arguments.base \in Definitions
        /\ arguments.target \in Definitions
        /\ FloatList(arguments.input) /\ FloatList(arguments.base) /\ FloatList(arguments.target)
    BY <1>2, ArgumentTypes DEF WellFormed
  <2>2. /\ got[1] = Vector("float", AllSingle(arguments.input.of))
        /\ got[2] = Vector("float", AllSingle(arguments.base.of))
        /\ got[3] = Vector("float", AllSingle(arguments.target.of))
    BY <2>1, FloatListValue DEF Arg
  <2>3. \A i \in 1..3 : got[i].type = "float"
    BY <2>2 DEF Vector
  <2> HIDE DEF got
  <2>4. pc' = "check" /\ input' = got[1] /\ base' = got[2] /\ target' = got[3]
    BY <1>3, <2>3 DEF Arguments, got
  <2> QED BY <1>1, <2>2, <2>4
<1>4. CASE Check
  <2>1. pc = "check" /\ UNCHANGED <<input, base, target>> /\ (Acceptable => pc' = "point")
    BY <1>4 DEF Check
  <2>2. Acceptable
    BY <1>2, <2>1, WellFormedAccepted
  <2> QED BY <1>1, <1>2, <2>1, <2>2 DEF Smooth
<1>5. CASE StartPoint \/ Bisect \/ Return
  BY <1>1, <1>2, <1>5 DEF Smooth, StartPoint, Bisect, Return
<1>6. CASE Interpolate
  <2>1. pc = "bisect" /\ UNCHANGED <<input, base, target>> /\ pc' \in {"point", "undefined"}
    BY <1>6 DEF Interpolate
  <2>2. pc' # "undefined"
    <3>1. SUFFICES ASSUME pc' = "undefined" PROVE FALSE
      OBVIOUS
    <3>2. /\ Acceptable /\ \A i \in 1..N : base.values[i] \in Int
          /\ \A i \in 1..Len(target.values) : target.values[i] \in Int
      BY <1>2, <2>1, WellFormedAccepted
    <3>3. /\ UNCHANGED result /\ Len(result) < Len(target.values) /\ Len(result) \in Nat
          /\ N \in Nat /\ N >= 2 /\ Len(target.values) \in Nat
      <4>1. UNCHANGED result /\ Len(result) < Len(target.values)
        BY <1>6, <2>1, <3>1 DEF Interpolate, IInv, InterpTypeOK
      <4> QED BY <3>2, <4>1, Shape, PointType DEF IInv
    <3>4. Point \in Int /\ base.values[N] \in Int
      BY <3>2, <3>3 DEF Point
    <3>5. base # Nothing
      BY <3>2 DEF Acceptable, Nothing, Ends
    <3>6. Point = NaN \/ base.values[N] = NaN
      <4>1. OutsideOnlyForNaN' /\ Point' = Point /\ N' = N
        BY <2>1, <3>3 DEF IInv, Point, N
      <4> QED BY <2>1, <3>1, <3>5, <4>1 DEF OutsideOnlyForNaN
    <3> QED BY <3>4, <3>6, ValueAssumption
  <2> QED BY <1>1, <1>2, <2>1, <2>2 DEF Smooth
<1>7. CASE UNCHANGED interpVars
  BY <1>1, <1>2, <1>7 DEF Smooth, interpVars
<1> QED BY <1>3, <1>4, <1>5, <1>6, <1>7 DEF InterpNext, Ended

\* A request whose arguments are lists of numbers with a float in front, the base one
\* that increases and whose numbers floats tell apart, is never refused, and never
\* read outside of its base.
THEOREM WellFormedRequestsAccepted == InterpSpec => []WrittenAsFloatAccepted
<1>1. InterpInit => Smooth
  BY DEF InterpInit, Smooth
<1>2. IInv /\ IInv' /\ Smooth /\ [InterpNext]_interpVars => Smooth'
  BY SmoothStep
<1>3. Smooth => WrittenAsFloatAccepted
  BY DEF Smooth, WellFormed, WrittenAsFloatAccepted
<1> QED BY <1>1, <1>2, <1>3, InterpInvariant, PTL DEF InterpSpec
=============================================================================
