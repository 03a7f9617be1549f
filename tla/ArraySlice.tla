----------------------------- MODULE ArraySlice -----------------------------
(***************************************************************************)
(* Slicing of a fetched array: parse_slices turns "[a:b:c][i]..." into one *)
(* SubsetInfo per dimension, TypedDataArray::slice measures the selection, *)
(* and generate_indices walks it like an odometer.                         *)
(*                                                                         *)
(* SubsetInfo keeps start and stop as uint64_t, takes them as int64_t and  *)
(* adds negative ones to the dimension, so every sum here wraps at         *)
(* WordSize.  An element is its position in the source array.              *)
(***************************************************************************)
EXTENDS Integers, Sequences

CONSTANTS
    Half,       \* the sign bit: 2^63
    Omitted,    \* a part left out of a slice
    Shapes,     \* shapes of the fetched array
    Slices      \* bracketed parts of a slice string, in order

WordSize == 2 * Half
Open == WordSize - 1    \* the stop that means "down to and including element 0"

Signed  == (1 - Half)..(Half - 1)
Tokens  == [kind: {"index", "range", "other"}, start: Signed \cup {Omitted},
            stop: Signed \cup {Omitted}, stride: Signed]
Words   == 0..(WordSize - 1)
Subsets == [start: Words, stop: Words, stride: Signed]

ASSUME SliceAssumption ==
    /\ Half \in Nat \ {0, 1} /\ Omitted \notin Int
    /\ Shapes \subseteq Seq(0..(Half - 1)) /\ Slices \subseteq Seq(Tokens)
    /\ \A q \in Slices : \A i \in DOMAIN q :
          q[i].kind = "index" => q[i].start # Omitted /\ q[i].stride = 1

VARIABLES
    phase,        \* "parse", "walk", "copy", "done", "failed"
    slice, shape, \* the arguments: parts of the string, m_shape
    subsets,      \* std::vector<SubsetInfo>
    kept, size,   \* new_shape, new_size
    current,      \* the odometer
    indices,      \* result of generate_indices
    elements      \* the new buffer, or << >> while the array is as fetched

vars == <<phase, slice, shape, subsets, kept, size, current, indices, elements>>

Dims == DOMAIN shape

Init ==
    /\ shape \in Shapes /\ slice \in Slices
    /\ phase = "parse" /\ subsets = << >>
    /\ kept = << >> /\ size = 1 /\ current = << >> /\ indices = << >> /\ elements = << >>

(***************************************************************************)
(* SubsetInfo                                                              *)
(***************************************************************************)
\* Mutant: a sum below zero is not taken modulo the word.
WordUnwrapped(x) == x

\* The sums below leave the word by at most one turn.
Word(x) == IF x < 0 THEN x + WordSize ELSE IF x >= WordSize THEN x - WordSize ELSE x

ToSigned(w) == IF w >= Half THEN w - WordSize ELSE w

Place(x, dim) == IF x < 0 THEN Word(dim + x) ELSE x

Subset(start, stop, stride, dim) ==
    [start  |-> IF start # Omitted THEN Place(start, dim)
                ELSE IF stride > 0 THEN 0 ELSE Word(dim - 1),
     stop   |-> IF stop # Omitted THEN Place(stop, dim)
                ELSE IF stride > 0 THEN dim ELSE Open,
     stride |-> stride]

\* An index is normalised here and, having become signed again, once more by the
\* constructor.
IndexSubset(i, dim) ==
    LET at == IF i < 0 THEN Word(dim + i) ELSE i
    IN  Subset(ToSigned(at), ToSigned(Word(at + 1)), 1, dim)

Parsed(token, dim) ==
    IF token.kind = "index" THEN IndexSubset(token.start, dim)
                            ELSE Subset(token.start, token.stop, token.stride, dim)

\* Mutant: a stop beyond the end passes.
ValidOpenEnded(s, dim) ==
    IF s.stride > 0 THEN s.start < dim /\ s.start <= s.stop
                    ELSE s.stop = Open \/ (s.stop <= s.start /\ s.start < dim)

\* Mutant: a stop at the end does not pass.
ValidStrict(s, dim) ==
    IF s.stride > 0 THEN s.start < dim /\ s.start <= s.stop /\ s.stop < dim
                    ELSE s.stop = Open \/ (s.stop <= s.start /\ s.start < dim)

Valid(s, dim) ==
    IF s.stride > 0 THEN s.start < dim /\ s.start <= s.stop /\ s.stop <= dim
                    ELSE s.stop = Open \/ (s.stop <= s.start /\ s.start < dim)

Size(s) ==
    IF s.stride > 0
    THEN IF s.start < s.stop THEN (s.stop - s.start + s.stride - 1) \div s.stride ELSE 0
    ELSE IF s.stop = Open THEN Word(s.start - s.stride) \div (-s.stride)
    ELSE IF s.start > s.stop THEN (s.start - s.stop - s.stride - 1) \div (-s.stride) ELSE 0

(***************************************************************************)
(* parse_slices and the checks of TypedDataArray::slice                    *)
(***************************************************************************)
Fail ==
    /\ phase' = "failed"
    /\ UNCHANGED <<slice, shape, subsets, kept, size, current, indices, elements>>

\* "[0]" on a scalar selects the scalar: no subset is parsed.
ScalarIndex ==
    /\ shape = << >> /\ Len(slice) = 1
    /\ slice[1].kind = "index" /\ slice[1].start = 0

Unparsed == phase = "parse" /\ Len(subsets) < Len(slice) /\ ~ScalarIndex

Token == slice[Len(subsets) + 1]
Dim   == shape[Len(subsets) + 1]
Accepts == /\ Token.kind # "other" /\ Token.stride # 0
           /\ Valid(Parsed(Token, Dim), Dim)

ParseToken ==
    /\ Unparsed /\ Len(subsets) < Len(shape) /\ Accepts
    /\ subsets' = Append(subsets, Parsed(Token, Dim))
    /\ UNCHANGED <<phase, slice, shape, kept, size, current, indices, elements>>

RejectToken == Unparsed /\ (Len(subsets) < Len(shape) => ~Accepts) /\ Fail

ParsedAll == phase = "parse" /\ ~Unparsed

RejectCount == ParsedAll /\ Len(subsets) # Len(shape) /\ Fail

\* A scalar is left as it is.
KeepScalar ==
    /\ ParsedAll /\ shape = << >>
    /\ phase' = "done"
    /\ UNCHANGED <<slice, shape, subsets, kept, size, current, indices, elements>>

Sizes == [d \in Dims |-> Size(subsets[d])]
Starts == [d \in Dims |-> subsets[d].start]

Product(lengths) ==
    LET upto[d \in 0..Len(lengths)] == IF d = 0 THEN 1 ELSE upto[d - 1] * lengths[d]
    IN  upto[Len(lengths)]

\* Dimensions of one element are dropped, and so are empty ones.
Longer(lengths) ==
    LET upto[d \in 0..Len(lengths)] ==
            IF d = 0 THEN << >>
            ELSE IF lengths[d] > 1 THEN Append(upto[d - 1], lengths[d]) ELSE upto[d - 1]
    IN  upto[Len(lengths)]

Measure ==
    /\ ParsedAll /\ shape # << >> /\ Len(subsets) = Len(shape)
    /\ kept' = Longer(Sizes)
    /\ size' = Product(Sizes)
    /\ current' = Starts
    /\ phase' = "walk"
    /\ UNCHANGED <<slice, shape, subsets, indices, elements>>

(***************************************************************************)
(* generate_indices                                                        *)
(***************************************************************************)
Bump(d) == Word(current[d] + subsets[d].stride)

\* Mutant: an unsigned index is never below zero.
WithinUnsigned(d) ==
    IF subsets[d].stride > 0 THEN Bump(d) < subsets[d].stop
    ELSE IF subsets[d].stop = Open THEN Bump(d) >= 0
    ELSE Bump(d) <= shape[d] /\ Bump(d) > subsets[d].stop

Within(d) ==
    IF subsets[d].stride > 0 THEN Bump(d) < subsets[d].stop
    ELSE IF subsets[d].stop = Open THEN Bump(d) < shape[d]
    ELSE Bump(d) <= shape[d] /\ Bump(d) > subsets[d].stop

\* The last dimension that can go on does, those after it start again.
Carries(d) == Within(d) /\ \A e \in Dims : e > d => ~Within(e)

\* Mutant: the dimensions after it are not reset.
AdvanceOnly ==
    /\ phase = "walk" /\ indices' = Append(indices, current)
    /\ \E d \in Dims :
        /\ Carries(d)
        /\ current' = [current EXCEPT ![d] = Bump(d)]
    /\ UNCHANGED <<phase, slice, shape, subsets, kept, size, elements>>

Advance ==
    /\ phase = "walk" /\ indices' = Append(indices, current)
    /\ \E d \in Dims :
        /\ Carries(d)
        /\ current' = [e \in Dims |-> IF e < d THEN current[e]
                                      ELSE IF e = d THEN Bump(d) ELSE subsets[e].start]
    /\ UNCHANGED <<phase, slice, shape, subsets, kept, size, elements>>

WalkEnds ==
    /\ phase = "walk" /\ indices' = Append(indices, current)
    /\ \A d \in Dims : ~Within(d)
    /\ phase' = "copy"
    /\ UNCHANGED <<slice, shape, subsets, kept, size, current, elements>>

(***************************************************************************)
(* compute_offsets, and the copy                                           *)
(***************************************************************************)
\* The weights of a row-major array, from the last dimension, which has weight 1.
Factors ==
    LET from[d \in Dims] == IF d = Len(shape) THEN 1 ELSE from[d + 1] * shape[d + 1]
    IN  from

Offset(x) ==
    LET upto[d \in 0..Len(shape)] == IF d = 0 THEN 0 ELSE upto[d - 1] + x[d] * Factors[d]
    IN  upto[Len(shape)]

Copy ==
    /\ phase = "copy"
    /\ elements' = [k \in DOMAIN indices |-> Offset(indices[k])]
    /\ phase' = "done"
    /\ UNCHANGED <<slice, shape, subsets, kept, size, current, indices>>

Step == \/ ParseToken \/ RejectToken \/ RejectCount \/ KeepScalar \/ Measure
        \/ Advance \/ WalkEnds \/ Copy

Stopped == phase \in {"done", "failed"} /\ UNCHANGED vars

Next == Step \/ Stopped

Spec == Init /\ [][Next]_vars
=============================================================================
