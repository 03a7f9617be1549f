--------------------------- MODULE SliceProperties ---------------------------
(***************************************************************************)
(* What slicing must guarantee: no access outside the array, and the       *)
(* selection a Python user expects, in row-major order.                    *)
(***************************************************************************)
EXTENDS ArraySlice, FiniteSets

\* Type invariant: indices stay words, also where sums wrap.
TypeOK ==
    /\ phase \in {"parse", "walk", "copy", "done", "failed"}
    /\ shape \in Seq(0..(Half - 1)) /\ slice \in Seq(Tokens)
    /\ subsets \in Seq(Subsets) /\ Len(subsets) <= Len(shape)
    /\ kept \in Seq(Nat) /\ size \in Nat
    /\ phase \in {"walk", "copy"} => current \in [Dims -> Words]
    /\ \A k \in DOMAIN indices : indices[k] \in [Dims -> Words]
    /\ elements \in Seq(Nat)

\* A descending range without a stop, from a start the array does not have:
\* the one subset validate() lets through unchecked.
Escapes(d) ==
    subsets[d].stride < 0 /\ subsets[d].stop = Open /\ subsets[d].start >= shape[d]

\* Wherever the walk is, an index outside its dimension comes from such a range
\* only: everything else validate() accepts is read inside the array, however
\* the unsigned sums wrap.
ReadsConfined ==
    \A k \in DOMAIN indices, d \in Dims : indices[k][d] >= shape[d] => Escapes(d)

\* size() and the walk, written apart, agree: the walk ends, and never yields
\* more tuples than were allocated, nor in the end fewer, unless the selection is
\* empty (the walk then still yields its start) or escapes.
FillsAllocation ==
    phase \in {"walk", "copy"} =>
        \/ phase = "walk" /\ Len(indices) < size
        \/ phase = "copy" /\ Len(indices) = size
        \/ \E d \in Dims : Sizes[d] = 0 \/ Escapes(d)

(***************************************************************************)
(* The selection, from the slice string alone                              *)
(***************************************************************************)
Normal(x, dim) == IF x < 0 THEN dim + x ELSE x

First(token, dim) ==
    IF token.start # Omitted THEN Normal(token.start, dim)
    ELSE IF token.stride > 0 THEN 0 ELSE dim - 1

\* The end of a range, not included in it.
Limit(token, dim) ==
    IF token.kind = "index"      THEN First(token, dim) + 1
    ELSE IF token.stop # Omitted THEN Normal(token.stop, dim)
    ELSE IF token.stride > 0     THEN dim ELSE -1

Stride(token) == IF token.kind = "index" THEN 1 ELSE token.stride

\* The positions a token selects in a dimension.
Selected(token, dim) ==
    {i \in 0..(dim - 1) :
        IF Stride(token) > 0
        THEN /\ First(token, dim) <= i /\ i < Limit(token, dim)
             /\ (i - First(token, dim)) % Stride(token) = 0
        ELSE /\ First(token, dim) >= i /\ i > Limit(token, dim)
             /\ (First(token, dim) - i) % (-Stride(token)) = 0}

\* A token that names positions of the dimension, in the direction it steps, and
\* selects something.
Regular(token, dim) ==
    /\ token.kind # "other" /\ Stride(token) # 0
    /\ First(token, dim) \in 0..(dim - 1)
    /\ Limit(token, dim) \in -1..dim
    /\ token.kind = "range" /\ token.stop # Omitted => Limit(token, dim) >= 0
    /\ Selected(token, dim) # {}

RegularSlice ==
    Len(slice) = Len(shape) /\ \A d \in Dims : Regular(slice[d], shape[d])

\* x comes before y when the last dimension varies fastest, each dimension in
\* the direction of its stride.
Before(x, y) ==
    \E d \in Dims :
        /\ \A e \in Dims : e < d => x[e] = y[e]
        /\ IF Stride(slice[d]) > 0 THEN x[d] < y[d] ELSE x[d] > y[d]

Box == {x \in [Dims -> 0..(Half - 1)] : \A d \in Dims : x[d] < shape[d]}

\* Position in the buffer of a row-major array: how many tuples come earlier.
RowMajor(x) ==
    Cardinality({y \in Box : \E d \in Dims : /\ \A e \in Dims : e < d => x[e] = y[e]
                                             /\ y[d] < x[d]})

Tuples == {x \in Box : \A d \in Dims : x[d] \in Selected(slice[d], shape[d])}

\* How many positions a dimension contributes.
Length(d) == Cardinality(Selected(slice[d], shape[d]))

\* The dimensions that contribute more than one, in their order, and nothing else
\* make the new shape.
KeptShape ==
    \E at \in [DOMAIN kept -> Dims] :
        /\ {at[k] : k \in DOMAIN kept} = {d \in Dims : Length(d) > 1}
        /\ \A j, k \in DOMAIN kept : j < k => at[j] < at[k]
        /\ \A k \in DOMAIN kept : kept[k] = Length(at[k])

\* The result of a regular slice: each selected element once, in the order of
\* the slice, in a shape without its dimensions of one element.
SelectsAsWritten ==
    phase = "done" /\ RegularSlice /\ shape # << >> =>
        /\ {indices[k] : k \in DOMAIN indices} = Tuples
        /\ \A k \in 1..(Len(indices) - 1) : Before(indices[k], indices[k + 1])
        /\ elements = [k \in DOMAIN indices |-> RowMajor(indices[k])]
        /\ KeptShape

\* A slice that names positions of the array is never refused.
RegularAccepted == phase = "failed" => ~RegularSlice
=============================================================================
