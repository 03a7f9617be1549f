------------------------------ MODULE MCSlice ------------------------------
(***************************************************************************)
(* Small instances of ArraySlice: a word of 16 values, arrays of up to     *)
(* three dimensions, every one-part slice with bounds in -5..5, and slices *)
(* of two and three parts that differ in kind, direction and what they     *)
(* omit.                                                                   *)
(***************************************************************************)
EXTENDS SliceProperties

MCHalf == 8
MCShapes == {<< >>, <<0>>, <<3>>, <<4>>, <<3, 2>>, <<2, 3>>, <<2, 2, 2>>}

Index(i) == [kind |-> "index", start |-> i, stop |-> Omitted, stride |-> 1]
Span(a, b, s) == [kind |-> "range", start |-> a, stop |-> b, stride |-> s]
Junk == [kind |-> "other", start |-> Omitted, stop |-> Omitted, stride |-> 1]

Bounds == {Omitted} \cup -5..5
SingleParts ==
    {Index(i) : i \in -7..5} \cup {Junk}
    \cup {Span(a, b, s) : a \in Bounds, b \in Bounds, s \in {-3, -2, -1, 0, 1, 2, 3}}
PairedParts ==
    {Index(0), Index(-1), Index(2), Index(3)} \cup
    {Span(a, b, s) : a \in {Omitted, 0, 1, -1}, b \in {Omitted, 0, -1, 2}, s \in {-2, -1, 1, 2}}

MCSlices == {<< >>} \cup {<<p>> : p \in SingleParts}
            \cup {<<p, q>> : p \in PairedParts, q \in PairedParts}
            \cup [1..3 -> {Index(1), Span(Omitted, Omitted, 1), Span(Omitted, Omitted, -1)}]
=============================================================================
