----------------------------- MODULE SliceProofs -----------------------------
(***************************************************************************)
(* Proof, for every word size, shape and slice, that what validate() lets  *)
(* through is read inside the array, but for a descending range that has   *)
(* no stop and starts outside, that it lets regular slices through, that   *)
(* the walk yields exactly the tuples its size made room for, and that     *)
(* these are the elements the slice string names, in its order.            *)
(***************************************************************************)
EXTENDS SliceProperties, SequenceTheorems, WellFoundedInduction, FiniteSetTheorems,
        FunctionTheorems, TLAPS

\* An index tuple that leaves the array only where a range escapes.
Confined(x) == \A d \in Dims : x[d] >= shape[d] => Escapes(d)

Shaped ==
    /\ shape \in Seq(0..(Half - 1)) /\ slice \in Seq(Tokens)
    /\ \A i \in 1..Len(slice) :
          slice[i].kind = "index" => slice[i].start # Omitted /\ slice[i].stride = 1

\* The subsets parsed so far are those validate() accepted.
Validated ==
    /\ subsets \in Seq(Subsets) /\ Len(subsets) <= Len(shape)
    /\ \A d \in 1..Len(subsets) : Valid(subsets[d], shape[d]) /\ subsets[d].stride # 0

Walked ==
    /\ phase = "parse" => indices = << >>
    /\ phase = "walk" => Len(subsets) = Len(shape) /\ current \in [Dims -> Words] /\ Confined(current)
    /\ indices \in Seq([Dims -> Words])
    /\ \A k \in 1..Len(indices) : Confined(indices[k])

IInv == Shaped /\ Validated /\ Walked

(***************************************************************************)
(* Words                                                                   *)
(***************************************************************************)
LEMMA WordType ==
    ASSUME NEW x \in (-WordSize)..(2 * WordSize - 1)
    PROVE  Word(x) \in Words
BY SliceAssumption DEF Word, Words, WordSize

\* The SubsetInfo constructor makes words of any bounds.
LEMMA SubsetType ==
    ASSUME NEW start \in (-Half)..(Half - 1) \cup {Omitted},
           NEW stop \in (-Half)..(Half - 1) \cup {Omitted},
           NEW stride \in Signed, NEW dim \in 0..(Half - 1)
    PROVE  Subset(start, stop, stride, dim) \in Subsets
<1>1. ASSUME NEW x \in (-Half)..(Half - 1) PROVE Place(x, dim) \in Words
  BY <1>1, SliceAssumption DEF Place, Word, Words, WordSize
<1>2. Word(dim - 1) \in Words /\ dim \in Words /\ 0 \in Words /\ Open \in Words
  BY SliceAssumption DEF Word, Words, WordSize, Open
<1>3. start # Omitted => start \in (-Half)..(Half - 1)
  OBVIOUS
<1>4. stop # Omitted => stop \in (-Half)..(Half - 1)
  OBVIOUS
<1> QED BY <1>1, <1>2, <1>3, <1>4 DEF Subset, Subsets

\* parse_slice makes a SubsetInfo.
LEMMA ParsedType ==
    ASSUME NEW token \in Tokens, NEW dim \in 0..(Half - 1),
           token.kind = "index" => token.start # Omitted
    PROVE  Parsed(token, dim) \in Subsets
<1>1. CASE token.kind = "index"
  <2> DEFINE i == token.start
             at == IF i < 0 THEN Word(dim + i) ELSE i
  <2>1. i \in Signed
    BY <1>1 DEF Tokens
  <2>2. at \in Words
    <3>1. CASE i < 0
      BY <2>1, <3>1, SliceAssumption DEF Word, Words, WordSize, Signed
    <3>2. CASE i >= 0
      BY <2>1, <3>2, SliceAssumption DEF Words, WordSize, Signed
    <3> QED BY <2>1, <3>1, <3>2 DEF Signed
  <2> HIDE DEF at
  <2>3. Word(at + 1) \in Words
    BY <2>2, SliceAssumption DEF Word, Words, WordSize
  <2>4. ASSUME NEW w \in Words PROVE ToSigned(w) \in (-Half)..(Half - 1)
    BY <2>4, SliceAssumption DEF ToSigned, Words, WordSize
  <2>5. 1 \in Signed
    BY SliceAssumption DEF Signed
  <2>6. ToSigned(at) \in (-Half)..(Half - 1) /\ ToSigned(Word(at + 1)) \in (-Half)..(Half - 1)
    BY <2>2, <2>3, <2>4
  <2>7. Subset(ToSigned(at), ToSigned(Word(at + 1)), 1, dim) \in Subsets
    BY <2>5, <2>6, SubsetType
  <2> QED BY <1>1, <2>7 DEF Parsed, IndexSubset, at
<1>2. CASE token.kind # "index"
  <2>1. Signed \subseteq (-Half)..(Half - 1)
    BY SliceAssumption DEF Signed
  <2> QED BY <1>2, <2>1, SubsetType DEF Parsed, Tokens
<1> QED BY <1>1, <1>2

\* One turn of the odometer stays in the dimension.
LEMMA BumpConfined ==
    ASSUME NEW dim \in 0..(Half - 1), NEW s \in Subsets, NEW at \in Words,
           Valid(s, dim), s.stride # 0,
           at >= dim => s.stride < 0 /\ s.stop = Open /\ s.start >= dim
    PROVE  LET next == Word(at + s.stride)
           IN  /\ next \in Words
               /\ s.stride > 0 /\ next < s.stop => next < dim
               /\ s.stride < 0 /\ s.stop # Open /\ next <= dim /\ next > s.stop => next < dim
<1>1. /\ s.stride \in Signed /\ s.start \in Words /\ s.stop \in Words
  BY DEF Subsets
<1>2. Word(at + s.stride) \in Words
  BY <1>1, SliceAssumption, SMTT(30) DEF Word, Words, WordSize, Signed
<1>3. ASSUME s.stride > 0, Word(at + s.stride) < s.stop PROVE Word(at + s.stride) < dim
  BY <1>1, <1>2, <1>3, SliceAssumption DEF Valid, Words, WordSize
<1>4. ASSUME s.stride < 0, s.stop # Open, Word(at + s.stride) <= dim
      PROVE  Word(at + s.stride) < dim
  BY <1>1, <1>4, SliceAssumption DEF Valid, Word, Words, WordSize, Signed
<1> QED BY <1>2, <1>3, <1>4

\* Before parsing there is nothing to say.
LEMMA Initially == Init => IInv
BY SliceAssumption, EmptySeq DEF Init, IInv, Shaped, Validated, Walked

\* Steps that touch neither the subsets nor the odometer.
LEMMA Elsewhere ==
    ASSUME IInv, UNCHANGED <<slice, shape, subsets, current, indices>>,
           phase' = phase \/ phase' \in {"copy", "done", "failed"}
    PROVE  IInv'
<1>1. Shaped' /\ Validated'
  BY DEF IInv, Shaped, Validated
<1>2. Walked'
  BY DEF IInv, Walked, Confined, Escapes, Dims
<1> QED BY <1>1, <1>2 DEF IInv

\* One bracketed part is parsed and validated.
LEMMA ParseTokenStep ==
    ASSUME IInv, ParseToken
    PROVE  IInv'
<1> DEFINE k == Len(subsets) + 1
           s == Parsed(Token, Dim)
<1>1. /\ subsets \in Seq(Subsets) /\ Len(subsets) \in Nat /\ shape \in Seq(0..(Half - 1))
      /\ slice \in Seq(Tokens) /\ Len(subsets) < Len(shape) /\ Len(subsets) < Len(slice)
  BY DEF IInv, Shaped, Validated, ParseToken, Unparsed
<1>2. k \in 1..Len(shape) /\ k \in 1..Len(slice)
  BY <1>1
<1>3. Token \in Tokens /\ Dim \in 0..(Half - 1)
  BY <1>1, <1>2, ElementOfSeq DEF Token, Dim
<1>4. Token.kind = "index" => Token.start # Omitted
  BY <1>1, <1>2 DEF IInv, Shaped, Token
<1>5. s \in Subsets /\ Valid(s, Dim) /\ s.stride # 0
  <2>1. s.stride = IF Token.kind = "index" THEN 1 ELSE Token.stride
    BY DEF Parsed, IndexSubset, Subset
  <2> QED BY <1>3, <1>4, <2>1, ParsedType DEF ParseToken, Accepts
<1> HIDE DEF s
<1>6. /\ subsets' = Append(subsets, s) /\ subsets' \in Seq(Subsets)
      /\ Len(subsets') = k /\ subsets'[k] = s
      /\ \A d \in 1..Len(subsets) : subsets'[d] = subsets[d]
  <2>1. subsets' = Append(subsets, s)
    BY DEF ParseToken, s
  <2> QED BY <1>1, <1>5, <2>1
<1>7. Validated'
  <2>1. ASSUME NEW d \in 1..k PROVE Valid(subsets'[d], shape[d]) /\ subsets'[d].stride # 0
    <3>1. CASE d = k
      BY <1>5, <1>6, <3>1 DEF Dim
    <3>2. CASE d # k
      BY <1>1, <1>6, <3>2 DEF IInv, Validated
    <3> QED BY <3>1, <3>2
  <2>2. shape' = shape
    BY DEF ParseToken
  <2> QED BY <1>1, <1>2, <1>6, <2>1, <2>2 DEF Validated
<1>8. Shaped' /\ Walked'
  BY EmptySeq DEF IInv, Shaped, Walked, ParseToken, Unparsed
<1> QED BY <1>7, <1>8 DEF IInv

\* What is known once every dimension has its subset.
LEMMA Parsing ==
    ASSUME IInv, Len(subsets) = Len(shape)
    PROVE  /\ subsets \in Seq(Subsets) /\ Dims = 1..Len(shape)
           /\ \A d \in Dims : subsets[d] \in Subsets /\ shape[d] \in 0..(Half - 1)
           /\ \A d \in Dims : Valid(subsets[d], shape[d]) /\ subsets[d].stride # 0
<1>1. subsets \in Seq(Subsets) /\ shape \in Seq(0..(Half - 1))
  BY DEF IInv, Shaped, Validated
<1>2. Dims = 1..Len(shape)
  BY <1>1, LenProperties DEF Dims
<1>3. \A d \in Dims : subsets[d] \in Subsets /\ shape[d] \in 0..(Half - 1)
  BY <1>1, <1>2, ElementOfSeq
<1> QED BY <1>1, <1>2, <1>3 DEF IInv, Validated

\* The odometer is set to the starts.
LEMMA MeasureStep ==
    ASSUME IInv, Measure
    PROVE  IInv'
<1>1. /\ subsets \in Seq(Subsets) /\ Len(subsets) = Len(shape) /\ Dims = 1..Len(shape)
      /\ \A d \in Dims : subsets[d] \in Subsets /\ shape[d] \in 0..(Half - 1)
      /\ \A d \in Dims : Valid(subsets[d], shape[d]) /\ subsets[d].stride # 0
  BY Parsing DEF Measure
<1>2. current' = [d \in Dims |-> subsets[d].start] /\ Dims' = Dims
  BY DEF Measure, Starts, Dims
<1>3. current' \in [Dims -> Words]
  BY <1>1, <1>2 DEF Subsets
<1>4. ASSUME NEW d \in Dims, current'[d] >= shape[d] PROVE Escapes(d)
  <2>1. /\ subsets[d].start \in Words /\ subsets[d].stride \in Signed /\ subsets[d].stop \in Words
        /\ shape[d] \in 0..(Half - 1)
    BY <1>1 DEF Subsets
  <2>2. current'[d] = subsets[d].start /\ Valid(subsets[d], shape[d]) /\ subsets[d].stride # 0
    BY <1>1, <1>2
  <2> QED BY <1>4, <2>1, <2>2, SliceAssumption DEF Escapes, Valid, Words, WordSize, Signed
<1>5. Shaped' /\ Validated'
  BY DEF IInv, Shaped, Validated, Measure
<1>6. Walked'
  BY <1>1, <1>2, <1>3, <1>4, EmptySeq DEF IInv, Walked, Confined, Escapes, Measure, ParsedAll
<1> QED BY <1>5, <1>6 DEF IInv

\* The tuple that is recorded is the odometer's.
LEMMA Recording ==
    ASSUME IInv, phase = "walk", indices' = Append(indices, current),
           UNCHANGED <<shape, subsets>>
    PROVE  /\ indices' \in Seq([Dims -> Words])
           /\ \A k \in 1..Len(indices') : Confined(indices'[k])
<1>1. indices \in Seq([Dims -> Words]) /\ current \in [Dims -> Words] /\ Confined(current)
  BY DEF IInv, Walked
<1>2. /\ indices' \in Seq([Dims -> Words]) /\ Len(indices') = Len(indices) + 1
      /\ Len(indices) \in Nat /\ indices'[Len(indices) + 1] = current
      /\ \A k \in 1..Len(indices) : indices'[k] = indices[k]
  BY <1>1
<1>3. ASSUME NEW k \in 1..Len(indices') PROVE Confined(indices'[k])
  <2>1. CASE k = Len(indices) + 1
    BY <1>1, <1>2, <2>1
  <2>2. CASE k # Len(indices) + 1
    BY <1>2, <2>2 DEF IInv, Walked
  <2> QED BY <2>1, <2>2
<1> QED BY <1>2, <1>3

\* The odometer moves on.
LEMMA AdvanceStep ==
    ASSUME IInv, Advance
    PROVE  IInv'
<1>1. /\ phase = "walk" /\ subsets \in Seq(Subsets) /\ Len(subsets) = Len(shape)
      /\ Dims = 1..Len(shape) /\ current \in [Dims -> Words] /\ Confined(current)
      /\ \A d \in Dims : subsets[d] \in Subsets /\ shape[d] \in 0..(Half - 1)
      /\ \A d \in Dims : Valid(subsets[d], shape[d]) /\ subsets[d].stride # 0
  BY Parsing DEF IInv, Walked, Advance
<1>2. PICK d \in Dims :
        /\ Carries(d)
        /\ current' = [e \in Dims |-> IF e < d THEN current[e]
                                      ELSE IF e = d THEN Bump(d) ELSE subsets[e].start]
  BY DEF Advance
<1>3. Bump(d) \in Words /\ (Bump(d) >= shape[d] => Escapes(d))
  <2>1. /\ subsets[d] \in Subsets /\ subsets[d].stride \in Signed /\ subsets[d].stride # 0
        /\ subsets[d].stop \in Words /\ shape[d] \in 0..(Half - 1) /\ current[d] \in Words
        /\ Valid(subsets[d], shape[d])
    BY <1>1 DEF Subsets
  <2>2. current[d] >= shape[d] => subsets[d].stride < 0 /\ subsets[d].stop = Open
                                  /\ subsets[d].start >= shape[d]
    BY <1>1 DEF Confined, Escapes
  <2>3. /\ Bump(d) \in Words
        /\ subsets[d].stride > 0 /\ Bump(d) < subsets[d].stop => Bump(d) < shape[d]
        /\ subsets[d].stride < 0 /\ subsets[d].stop # Open /\ Bump(d) <= shape[d]
           /\ Bump(d) > subsets[d].stop => Bump(d) < shape[d]
    BY <2>1, <2>2, BumpConfined DEF Bump
  <2>4. Bump(d) < shape[d]
    <3>1. Within(d)
      BY <1>2 DEF Carries
    <3>2. subsets[d].stride > 0 \/ subsets[d].stride < 0
      BY <2>1 DEF Signed
    <3> QED BY <2>1, <2>3, <3>1, <3>2 DEF Within, Signed
  <2>5. ~(Bump(d) >= shape[d])
    BY <2>1, <2>3, <2>4 DEF Words
  <2> QED BY <2>3, <2>5
<1>4. ASSUME NEW e \in Dims
      PROVE  subsets[e].start \in Words /\ (subsets[e].start >= shape[e] => Escapes(e))
  <2>1. /\ subsets[e].start \in Words /\ subsets[e].stride \in Signed /\ subsets[e].stop \in Words
        /\ shape[e] \in 0..(Half - 1) /\ Valid(subsets[e], shape[e]) /\ subsets[e].stride # 0
    BY <1>1 DEF Subsets
  <2> QED BY <2>1, SliceAssumption DEF Escapes, Valid, Words, WordSize, Signed
<1>5. current' \in [Dims -> Words]
  BY <1>1, <1>2, <1>3, <1>4
<1>6. ASSUME NEW e \in Dims, current'[e] >= shape[e] PROVE Escapes(e)
  BY <1>1, <1>2, <1>3, <1>4, <1>6 DEF Confined
<1>7. Shaped' /\ Validated'
  BY DEF IInv, Shaped, Validated, Advance
<1>8. /\ indices' \in Seq([Dims -> Words]) /\ \A k \in 1..Len(indices') : Confined(indices'[k])
  BY <1>1, Recording DEF Advance
<1>9. /\ shape' = shape /\ subsets' = subsets /\ phase' = "walk" /\ Dims' = Dims
      /\ \A x : Confined(x)' = Confined(x)
  BY <1>1 DEF Advance, Dims, Confined, Escapes
<1>10. Walked'
  BY <1>1, <1>5, <1>6, <1>8, <1>9 DEF Walked, Confined, Escapes
<1> QED BY <1>7, <1>10 DEF IInv

\* The last tuple is recorded.
LEMMA WalkEndsStep ==
    ASSUME IInv, WalkEnds
    PROVE  IInv'
<1>1. Shaped' /\ Validated'
  BY DEF IInv, Shaped, Validated, WalkEnds
<1>2. /\ indices' \in Seq([Dims -> Words]) /\ \A k \in 1..Len(indices') : Confined(indices'[k])
  BY Recording DEF WalkEnds
<1>3. Walked'
  BY <1>2 DEF Walked, Confined, Escapes, Dims, WalkEnds
<1> QED BY <1>1, <1>3 DEF IInv

\* Every step keeps the invariant.
LEMMA Inductive == IInv /\ [Next]_vars => IInv'
<1> SUFFICES ASSUME IInv, [Next]_vars PROVE IInv'
  OBVIOUS
<1>1. CASE RejectToken \/ RejectCount \/ KeepScalar \/ Copy
  BY <1>1, Elsewhere DEF RejectToken, RejectCount, Fail, KeepScalar, Copy
<1>2. CASE Stopped \/ UNCHANGED vars
  BY <1>2, Elsewhere DEF Stopped, vars
<1> QED BY <1>1, <1>2, ParseTokenStep, MeasureStep, AdvanceStep, WalkEndsStep DEF Next, Step

\* Valid subsets, and indices confined by them, at every step of parse_slices,
\* TypedDataArray::slice and generate_indices.
THEOREM InductiveInvariant == Spec => []IInv
BY Initially, Inductive, PTL DEF Spec

\* SubsetInfo::validate and generate_indices: every index of every tuple lies in
\* its dimension, except in a descending range without a stop that starts
\* outside of it, for every word size, shape and slice.
THEOREM ReadsAreConfined == Spec => []ReadsConfined
<1>1. IInv => ReadsConfined
  BY LenProperties DEF IInv, Walked, Confined, ReadsConfined
<1> QED BY <1>1, InductiveInvariant, PTL

(***************************************************************************)
(* What is accepted                                                        *)
(***************************************************************************)
\* Bounds that name a position of the dimension are placed there.
LEMMA Placed ==
    ASSUME NEW dim \in 0..(Half - 1), NEW x \in Signed, Normal(x, dim) \in 0..dim
    PROVE  /\ Place(x, dim) = Normal(x, dim) /\ x # Omitted
           /\ Normal(x, dim) # Omitted /\ Place(Normal(x, dim), dim) = Normal(x, dim)
BY SliceAssumption DEF Place, Normal, Word, WordSize, Signed

\* The subset of a bracketed part that names positions of the dimension has its
\* bounds.
LEMMA RegularParts ==
    ASSUME NEW token \in Tokens, NEW dim \in 0..(Half - 1), Regular(token, dim),
           token.kind = "index" => token.start # Omitted
    PROVE  /\ Parsed(token, dim).start = First(token, dim)
           /\ Parsed(token, dim).stride = Stride(token) /\ Stride(token) # 0
           /\ First(token, dim) \in 0..(dim - 1) /\ Limit(token, dim) \in -1..dim
           /\ Stride(token) > 0 => /\ Parsed(token, dim).stop = Limit(token, dim)
                                  /\ First(token, dim) < Limit(token, dim)
           /\ ~(Stride(token) > 0) =>
                /\ Limit(token, dim) < First(token, dim)
                /\ \/ Limit(token, dim) >= 0 /\ Parsed(token, dim).stop = Limit(token, dim)
                   \/ Limit(token, dim) = -1 /\ Parsed(token, dim).stop = Open
<1> DEFINE f == First(token, dim)
           l == Limit(token, dim)
<1>1. /\ f \in 0..(dim - 1) /\ l \in -1..dim /\ Stride(token) # 0 /\ token.kind # "other"
      /\ token.kind = "range" /\ token.stop # Omitted => l >= 0
  BY DEF Regular
<1>2. token.start \in Signed \cup {Omitted} /\ token.stop \in Signed \cup {Omitted}
      /\ token.stride \in Signed /\ Half \in Nat
  BY SliceAssumption DEF Tokens
<1>3. PICK i \in Selected(token, dim) : TRUE
  BY DEF Regular
<1>4. i \in Int /\ (Stride(token) > 0 => f <= i /\ i < l) /\ (~(Stride(token) > 0) => f >= i /\ i > l)
  BY <1>3 DEF Selected
<1>5. token.start # Omitted => Place(token.start, dim) = f
  <2>1. token.start # Omitted => f = Normal(token.start, dim)
    BY DEF First
  <2> QED BY <1>1, <1>2, <2>1, Placed
<1>6. CASE token.kind = "index"
  <2> DEFINE x == token.start
  <2>1. x \in Signed /\ x # Omitted /\ f = Normal(x, dim)
    BY <1>2, <1>6 DEF First
  <2>2. (IF x < 0 THEN Word(dim + x) ELSE x) = f
    BY <1>5, <2>1 DEF Place
  <2> HIDE DEF f
  <2>3. ToSigned(f) = f /\ Word(f + 1) = f + 1 /\ ToSigned(f + 1) = f + 1
    BY <1>1, <1>2 DEF ToSigned, Word, WordSize
  <2>4. Parsed(token, dim) = Subset(f, f + 1, 1, dim)
    BY <1>6, <2>2, <2>3 DEF Parsed, IndexSubset
  <2>5. f \in Int /\ f + 1 \in Int /\ f # Omitted /\ f + 1 # Omitted
    BY <1>1, SliceAssumption
  <2>6. Subset(f, f + 1, 1, dim) = [start |-> f, stop |-> f + 1, stride |-> 1]
    BY <1>1, <2>5 DEF Subset, Place
  <2>7. Stride(token) = 1 /\ l = f + 1
    BY <1>6 DEF Stride, Limit, f
  <2> QED BY <1>1, <2>4, <2>5, <2>6, <2>7 DEF f
<1>7. CASE token.kind = "range"
  <2> DEFINE s == Parsed(token, dim)
  <2>1. Stride(token) = token.stride /\ s = Subset(token.start, token.stop, token.stride, dim)
    BY <1>7 DEF Stride, Parsed
  <2>2. s.stride = token.stride /\ s.start = f
    <3>1. CASE token.start # Omitted
      BY <1>5, <2>1, <3>1 DEF Subset
    <3>2. CASE token.start = Omitted
      <4>1. Word(dim - 1) = dim - 1
        BY <1>1, <1>2 DEF Word, WordSize
      <4> QED BY <2>1, <3>2, <4>1 DEF Subset, First
    <3> QED BY <3>1, <3>2
  <2>3. token.stop # Omitted => s.stop = l
    <3>1. SUFFICES ASSUME token.stop # Omitted PROVE s.stop = l
      OBVIOUS
    <3>2. l = Normal(token.stop, dim) /\ l \in 0..dim /\ token.stop \in Signed
      BY <1>1, <1>2, <1>7, <3>1 DEF Limit
    <3>3. Place(token.stop, dim) = l
      BY <3>2, Placed
    <3> QED BY <2>1, <3>1, <3>3 DEF Subset
  <2>4. CASE token.stride > 0
    <3>1. token.stop = Omitted => s.stop = dim /\ l = dim
      BY <1>7, <2>1, <2>4 DEF Subset, Limit
    <3>2. f < l
      BY <1>1, <1>4, <2>1, <2>4
    <3>3. s.stop = l
      BY <2>3, <3>1
    <3> QED BY <1>1, <2>1, <2>2, <2>4, <3>2, <3>3
  <2>5. CASE ~(token.stride > 0)
    <3>1. token.stop = Omitted => s.stop = Open /\ l = -1
      BY <1>7, <2>1, <2>5 DEF Subset, Limit
    <3>2. l < f
      BY <1>1, <1>4, <2>1, <2>5
    <3>3. token.stop # Omitted => l >= 0
      BY <1>1, <1>7
    <3> QED BY <1>1, <2>1, <2>2, <2>3, <2>5, <3>1, <3>2, <3>3
  <2> QED BY <2>4, <2>5
<1> QED BY <1>1, <1>6, <1>7 DEF Tokens

\* validate() accepts it.
LEMMA RegularIsValid ==
    ASSUME NEW token \in Tokens, NEW dim \in 0..(Half - 1), Regular(token, dim),
           token.kind = "index" => token.start # Omitted
    PROVE  Valid(Parsed(token, dim), dim)
BY RegularParts DEF Valid

\* No step fails on a regular slice.
LEMMA AcceptedStep ==
    ASSUME IInv, RegularAccepted, [Next]_vars
    PROVE  RegularAccepted'
<1>1. UNCHANGED <<slice, shape>> /\ (RegularSlice' <=> RegularSlice)
  <2>1. UNCHANGED <<slice, shape>>
    BY DEF Next, Step, Stopped, vars, ParseToken, RejectToken, RejectCount, Fail, KeepScalar,
           Measure, Advance, WalkEnds, Copy
  <2> QED BY <2>1 DEF RegularSlice, Dims
<1>2. ASSUME RegularSlice, RejectToken
      PROVE  FALSE
  <2> DEFINE k == Len(subsets) + 1
  <2>1. /\ Len(subsets) \in Nat /\ shape \in Seq(0..(Half - 1)) /\ slice \in Seq(Tokens)
        /\ Len(subsets) < Len(slice) /\ Len(slice) = Len(shape) /\ ~Accepts
    BY <1>2 DEF RejectToken, Unparsed, IInv, Shaped, Validated, RegularSlice
  <2>2. k \in 1..Len(slice) /\ k \in 1..Len(shape) /\ k \in Dims
    BY <2>1 DEF Dims
  <2>3. Token \in Tokens /\ Dim \in 0..(Half - 1) /\ Regular(Token, Dim)
    BY <1>2, <2>1, <2>2, ElementOfSeq DEF Token, Dim, RegularSlice
  <2>4. Token.kind = "index" => Token.start # Omitted /\ Token.stride = 1
    BY <2>2 DEF IInv, Shaped, Token
  <2>5. Valid(Parsed(Token, Dim), Dim)
    BY <2>3, <2>4, RegularIsValid
  <2>6. Token.kind # "other" /\ Token.stride # 0
    BY <2>3, <2>4 DEF Regular, Stride
  <2> QED BY <2>1, <2>5, <2>6 DEF Accepts
<1>3. ASSUME RegularSlice, RejectCount
      PROVE  FALSE
  <2>1. /\ Len(subsets) \in Nat /\ Len(shape) \in Nat /\ Len(slice) = Len(shape)
        /\ Len(subsets) <= Len(shape) /\ Len(subsets) # Len(shape) /\ phase = "parse"
        /\ ~(Len(subsets) < Len(slice)) \/ ScalarIndex
    BY <1>3, LenProperties
       DEF RejectCount, ParsedAll, Unparsed, IInv, Shaped, Validated, RegularSlice
  <2>2. ~ScalarIndex
    BY <2>1, EmptySeq DEF ScalarIndex
  <2> QED BY <2>1, <2>2
<1>4. CASE RejectToken \/ RejectCount
  BY <1>1, <1>2, <1>3, <1>4 DEF RegularAccepted
<1>5. CASE ParseToken \/ KeepScalar \/ Measure \/ Advance \/ WalkEnds \/ Copy
  BY <1>1, <1>5 DEF RegularAccepted, ParseToken, Unparsed, KeepScalar, Measure, Advance, WalkEnds, Copy
<1>6. CASE Stopped \/ UNCHANGED vars
  BY <1>1, <1>6 DEF RegularAccepted, Stopped, vars
<1> QED BY <1>4, <1>5, <1>6 DEF Next, Step

\* A slice of any array, with any number of parts, that names positions of the array
\* in the direction it steps is never refused.
THEOREM RegularSlicesAccepted == Spec => []RegularAccepted
<1>1. Init => RegularAccepted
  BY DEF Init, RegularAccepted
<1>2. IInv /\ RegularAccepted /\ [Next]_vars => RegularAccepted'
  BY AcceptedStep
<1> QED BY <1>1, <1>2, InductiveInvariant, PTL DEF Spec

(***************************************************************************)
(* Loops                                                                   *)
(***************************************************************************)
\* A set of natural numbers that is not empty has a least element: induction, in a
\* form that can be cited.
LEMMA LeastNumber ==
    ASSUME NEW S \in SUBSET Nat, S # {}
    PROVE  \E m \in S : \A n \in S : m <= n
<1>1. IsWellFoundedOn(OpToRel(<, Nat), Nat)
  BY NatLessThanWellFounded
<1>2. PICK m \in S : \A n \in S : ~(<<n, m>> \in OpToRel(<, Nat))
  BY <1>1, WFMin
<1>3. \A n \in S : ~(n < m)
  BY <1>2 DEF OpToRel
<1> QED BY <1>3

\* What holds of 0 and of the next number holds up to n.
LEMMA Upwards ==
    ASSUME NEW n \in Nat, NEW S, 0 \in S, \A k \in 0..n : k < n /\ k \in S => k + 1 \in S
    PROVE  \A k \in 0..n : k \in S
<1> SUFFICES ASSUME NEW b \in 0..n, b \notin S
             PROVE  FALSE
  OBVIOUS
<1> DEFINE Wrong == {k \in 0..n : k \notin S}
<1>1. Wrong \in SUBSET Nat /\ Wrong # {}
  OBVIOUS
<1> HIDE DEF Wrong
<1>2. PICK m \in Wrong : \A k \in Wrong : m <= k
  BY <1>1, LeastNumber
<1>3. m \in 0..n /\ m \notin S
  BY DEF Wrong
<1>4. m - 1 \in 0..n /\ m - 1 < n /\ ~(m <= m - 1)
  BY <1>3
<1>5. m - 1 \in S
  BY <1>2, <1>4 DEF Wrong
<1>6. (m - 1) + 1 \in S
  BY <1>4, <1>5
<1> QED BY <1>3, <1>6

\* The values a loop over 1..n goes through, from a, when step[d] computes the next
\* one in round d.
Loop(run, n, a, step) == run[0] = a /\ \A d \in 1..n : run[d] = step[d][run[d - 1]]

LoopTo(k, T, a, step) == \E run \in [0..k -> T] : Loop(run, k, a, step)

LEMMA LoopStarts ==
    ASSUME NEW T, NEW a \in T, NEW step
    PROVE  LoopTo(0, T, a, step)
<1> DEFINE run == [i \in 0..0 |-> a]
<1>1. run \in [0..0 -> T]
  OBVIOUS
<1>2. run[0] = a
  OBVIOUS
<1>3. \A d \in 1..0 : run[d] = step[d][run[d - 1]]
  OBVIOUS
<1> QED BY <1>1, <1>2, <1>3 DEF LoopTo, Loop

\* One round more.
LEMMA LoopGoesOn ==
    ASSUME NEW k \in Nat, NEW T, NEW a \in T, NEW step,
           step[k + 1] \in [T -> T], LoopTo(k, T, a, step)
    PROVE  LoopTo(k + 1, T, a, step)
<1>1. PICK run \in [0..k -> T] : Loop(run, k, a, step)
  BY DEF LoopTo
<1> DEFINE last == step[k + 1][run[k]]
<1>2. last \in T
  <2>1. run[k] \in T
    OBVIOUS
  <2> QED BY <2>1
<1> HIDE DEF last
<1> DEFINE longer == [i \in 0..(k + 1) |-> IF i <= k THEN run[i] ELSE last]
<1>3. longer \in [0..(k + 1) -> T]
  <2>1. ASSUME NEW i \in 0..(k + 1), i <= k PROVE run[i] \in T
    BY <2>1
  <2> QED BY <1>2, <2>1
<1>4. \A i \in 0..k : longer[i] = run[i]
  OBVIOUS
<1>5. longer[k + 1] = last
  OBVIOUS
<1> HIDE DEF longer
<1>6. ASSUME NEW d \in 1..(k + 1)
      PROVE  longer[d] = step[d][longer[d - 1]]
  <2>1. CASE d = k + 1
    <3>1. d - 1 = k /\ k \in 0..k
      BY <2>1
    <3>2. longer[d - 1] = run[k]
      BY <1>4, <3>1
    <3> QED BY <1>5, <2>1, <3>2 DEF last
  <2>2. CASE d # k + 1
    <3>1. d \in 1..k /\ d - 1 \in 0..k /\ d \in 0..k
      BY <2>2
    <3>2. longer[d] = run[d] /\ longer[d - 1] = run[d - 1]
      BY <1>4, <3>1
    <3>3. run[d] = step[d][run[d - 1]]
      BY <1>1, <3>1 DEF Loop
    <3> QED BY <3>2, <3>3
  <2> QED BY <2>1, <2>2
<1>7. longer[0] = a
  <2>1. 0 \in 0..k /\ run[0] = a
    BY <1>1 DEF Loop
  <2> QED BY <1>4, <2>1
<1>8. Loop(longer, k + 1, a, step)
  BY <1>6, <1>7 DEF Loop
<1> QED BY <1>3, <1>8 DEF LoopTo

\* Every loop has values.
LEMMA LoopRuns ==
    ASSUME NEW n \in Nat, NEW T, NEW a \in T, NEW step \in [1..n -> [T -> T]]
    PROVE  \E run \in [0..n -> T] : Loop(run, n, a, step)
<1> DEFINE S == {k \in Nat : LoopTo(k, T, a, step)}
<1>1. 0 \in S
  BY LoopStarts
<1>2. ASSUME NEW k \in 0..n, k < n, k \in S
      PROVE  k + 1 \in S
  <2>1. k + 1 \in 1..n /\ k \in Nat /\ k + 1 \in Nat
    BY <1>2
  <2>2. step[k + 1] \in [T -> T]
    BY <2>1
  <2>3. LoopTo(k, T, a, step)
    BY <1>2
  <2>4. LoopTo(k + 1, T, a, step)
    BY <2>1, <2>2, <2>3, LoopGoesOn
  <2> QED BY <2>1, <2>4
<1> HIDE DEF S
<1>3. \A k \in 0..n : k \in S
  BY <1>1, <1>2, Upwards
<1>4. n \in S
  BY <1>3
<1> QED BY <1>4 DEF S, LoopTo

\* A product of lengths, dimension by dimension.
Multiplied(run, lengths, n) ==
    /\ run \in [0..n -> Nat] /\ run[0] = 1
    /\ \A d \in 1..n : run[d] = run[d - 1] * lengths[d]

ProductLoop(f, lengths, n) ==
    f = [d \in 0..n |-> IF d = 0 THEN 1 ELSE f[d - 1] * lengths[d]]

LEMMA ProductLoopRuns ==
    ASSUME NEW n \in Nat, NEW lengths \in [1..n -> Nat]
    PROVE  \E f : ProductLoop(f, lengths, n)
<1> DEFINE times(d) == [v \in Nat |-> v * lengths[d]]
           step == [d \in 1..n |-> times(d)]
<1>1. step \in [1..n -> [Nat -> Nat]]
  <2>1. ASSUME NEW d \in 1..n PROVE times(d) \in [Nat -> Nat]
    <3>1. lengths[d] \in Nat
      OBVIOUS
    <3>2. \A v \in Nat : v * lengths[d] \in Nat
      BY <3>1
    <3> QED BY <3>2
  <2> HIDE DEF times
  <2> QED BY <2>1
<1>2. ASSUME NEW d \in 1..n, NEW v \in Nat PROVE step[d][v] = v * lengths[d]
  OBVIOUS
<1> HIDE DEF step
<1>3. PICK g \in [0..n -> Nat] : Loop(g, n, 1, step)
  BY <1>1, LoopRuns
<1>4. ASSUME NEW d \in 0..n
      PROVE  g[d] = IF d = 0 THEN 1 ELSE g[d - 1] * lengths[d]
  <2>1. CASE d = 0
    BY <1>3, <2>1 DEF Loop
  <2>2. CASE d # 0
    <3>1. d \in 1..n /\ d - 1 \in 0..n
      BY <2>2
    <3>2. g[d - 1] \in Nat
      BY <3>1
    <3>3. g[d] = step[d][g[d - 1]]
      BY <1>3, <3>1 DEF Loop
    <3>4. step[d][g[d - 1]] = g[d - 1] * lengths[d]
      BY <1>2, <3>1, <3>2
    <3> QED BY <2>2, <3>3, <3>4
  <2> QED BY <2>1, <2>2
<1>5. g = [d \in 0..n |-> g[d]]
  OBVIOUS
<1>6. g = [d \in 0..n |-> IF d = 0 THEN 1 ELSE g[d - 1] * lengths[d]]
  BY <1>4, <1>5
<1> QED BY <1>6 DEF ProductLoop

LEMMA ProductLoopMultiplies ==
    ASSUME NEW n \in Nat, NEW lengths \in [1..n -> Nat], NEW run,
           ProductLoop(run, lengths, n)
    PROVE  Multiplied(run, lengths, n)
<1>1. /\ run = [d \in 0..n |-> IF d = 0 THEN 1 ELSE run[d - 1] * lengths[d]]
  BY DEF ProductLoop
<1>2. 0 \in 0..n
  OBVIOUS
<1>3. run[0] = 1
  BY <1>1, <1>2
<1>4. ASSUME NEW d \in 1..n PROVE run[d] = run[d - 1] * lengths[d]
  <2>1. d \in 0..n /\ d # 0
    OBVIOUS
  <2> QED BY <1>1, <2>1
<1> DEFINE S == {k \in Nat : run[k] \in Nat}
<1>5. 0 \in S
  BY <1>3
<1>6. ASSUME NEW k \in 0..n, k < n, k \in S
      PROVE  k + 1 \in S
  <2>1. k + 1 \in 1..n /\ (k + 1) - 1 = k /\ run[k] \in Nat
    BY <1>6
  <2>2. lengths[k + 1] \in Nat
    BY <2>1
  <2>3. run[k + 1] = run[k] * lengths[k + 1]
    BY <1>4, <2>1
  <2>4. run[k] * lengths[k + 1] \in Nat
    BY <2>1, <2>2
  <2> QED BY <2>1, <2>3, <2>4
<1> HIDE DEF S
<1>7. \A k \in 0..n : k \in S
  BY <1>5, <1>6, Upwards
<1>8. \A k \in 0..n : run[k] \in Nat
  BY <1>7 DEF S
<1>9. DOMAIN run = 0..n /\ run = [k \in DOMAIN run |-> run[k]]
  BY <1>1
<1>10. run \in [0..n -> Nat]
  BY <1>8, <1>9
<1> QED BY <1>3, <1>4, <1>10 DEF Multiplied

LEMMA ProductIs ==
    ASSUME NEW n \in Nat, NEW lengths \in [1..n -> Nat], Len(lengths) = n
    PROVE  \E run : Multiplied(run, lengths, n) /\ Product(lengths) = run[n]
<1> DEFINE run == CHOOSE f : ProductLoop(f, lengths, n)
<1>1. ProductLoop(run, lengths, n)
  BY ProductLoopRuns
<1>2. Product(lengths) = run[n]
  BY DEF Product, ProductLoop
<1> HIDE DEF run
<1>3. Multiplied(run, lengths, n)
  BY <1>1, ProductLoopMultiplies
<1> QED BY <1>2, <1>3

(***************************************************************************)
(* One dimension of the walk                                               *)
(***************************************************************************)
\* How far the end of a range is from c, in the direction of the range.
Gap(s, c) == IF s.stride > 0 THEN s.stop - c ELSE IF s.stop = Open THEN c + 1 ELSE c - s.stop
Pace(s) == IF s.stride > 0 THEN s.stride ELSE -s.stride
\* Steps of pace p that fit into a gap g, the one that leaves it included.
Fits(g, p) == (g + p - 1) \div p
\* Positions left from c on, c included.
Left(s, c) == Fits(Gap(s, c), Pace(s))

LEMMA OneStepFewer ==
    ASSUME NEW g \in Nat \ {0}, NEW p \in Nat \ {0}
    PROVE  /\ Fits(g, p) \in Nat \ {0}
           /\ g > p => Fits(g - p, p) = Fits(g, p) - 1
           /\ g <= p => Fits(g, p) = 1
<1> DEFINE q == (g + p - 1) \div p
           r == (g + p - 1) % p
<1>1. q \in Int /\ r \in 0..(p - 1) /\ g + p - 1 = p * q + r
  OBVIOUS
<1>2. q >= 1
  OBVIOUS
<1>3. ASSUME g > p
      PROVE  (g - p + p - 1) \div p = q - 1
  BY <1>3
<1>4. ASSUME g <= p
      PROVE  q = 1
  BY <1>4
<1> QED BY <1>1, <1>2, <1>3, <1>4 DEF Fits

\* A subset that validate() accepts for a dimension, and that does not escape.
Proper(s, dim) ==
    /\ s \in Subsets /\ Valid(s, dim) /\ s.stride # 0
    /\ ~(s.stride < 0 /\ s.stop = Open /\ s.start >= dim)

\* Within, of one subset.
GoesOn(s, dim, c) ==
    LET next == Word(c + s.stride)
    IN  IF s.stride > 0 THEN next < s.stop
        ELSE IF s.stop = Open THEN next < dim
        ELSE next <= dim /\ next > s.stop

\* size() counts the positions from the start on.
LEMMA SizeIsLeft ==
    ASSUME NEW dim \in 0..(Half - 1), NEW s, Proper(s, dim)
    PROVE  /\ Size(s) \in Nat
           /\ Size(s) # 0 => /\ Gap(s, s.start) \in Nat \ {0} /\ s.start < dim
                             /\ Size(s) = Left(s, s.start)
<1>1. s.start \in Words /\ s.stop \in Words /\ s.stride \in Signed
  BY DEF Proper, Subsets
<1>2. CASE s.stride > 0
  <2>1. s.start < dim /\ s.start <= s.stop
    BY <1>2 DEF Proper, Valid
  <2>2. CASE s.start < s.stop
    <3>1. Gap(s, s.start) = s.stop - s.start /\ Pace(s) = s.stride
      BY <1>2 DEF Gap, Pace
    <3>2. s.stop - s.start \in Nat \ {0} /\ s.stride \in Nat \ {0}
      BY <1>1, <1>2, <2>2 DEF Words, Signed
    <3>3. Size(s) = (s.stop - s.start + s.stride - 1) \div s.stride
      BY <1>2, <2>2 DEF Size
    <3>4. Size(s) = Left(s, s.start)
      BY <3>1, <3>3 DEF Left, Fits
    <3>5. Left(s, s.start) \in Nat \ {0}
      BY <3>1, <3>2, OneStepFewer DEF Left
    <3> QED BY <2>1, <3>1, <3>2, <3>4, <3>5
  <2>3. CASE ~(s.start < s.stop)
    BY <1>2, <2>3 DEF Size
  <2> QED BY <2>2, <2>3
<1>3. CASE s.stride < 0 /\ s.stop = Open
  <2>1. s.start < dim
    BY <1>1, <1>3 DEF Proper, Words
  <2>2. Gap(s, s.start) = s.start + 1 /\ Pace(s) = -s.stride
    BY <1>1, <1>3 DEF Gap, Pace, Signed
  <2>3. s.start + 1 \in Nat \ {0} /\ -s.stride \in Nat \ {0}
    BY <1>1, <1>3 DEF Words, Signed
  <2>4. Word(s.start - s.stride) = s.start - s.stride
    BY <1>1, <1>3, <2>1, SliceAssumption DEF Word, Words, WordSize, Signed
  <2>5. Size(s) = (s.start - s.stride) \div (-s.stride)
    BY <1>1, <1>3, <2>4 DEF Size, Signed
  <2>6. s.start - s.stride = (s.start + 1) + (-s.stride) - 1
    BY <1>1 DEF Words, Signed
  <2>7. Size(s) = Left(s, s.start)
    BY <2>2, <2>5, <2>6 DEF Left, Fits
  <2>8. Left(s, s.start) \in Nat \ {0}
    BY <2>2, <2>3, OneStepFewer DEF Left
  <2> QED BY <2>1, <2>2, <2>3, <2>7, <2>8
<1>4. CASE s.stride < 0 /\ s.stop # Open
  <2>1. s.stop <= s.start /\ s.start < dim
    BY <1>1, <1>4 DEF Proper, Valid, Signed
  <2>2. CASE s.start > s.stop
    <3>1. Gap(s, s.start) = s.start - s.stop /\ Pace(s) = -s.stride
      BY <1>1, <1>4 DEF Gap, Pace, Signed
    <3>2. s.start - s.stop \in Nat \ {0} /\ -s.stride \in Nat \ {0}
      BY <1>1, <1>4, <2>2 DEF Words, Signed
    <3>3. Size(s) = (s.start - s.stop - s.stride - 1) \div (-s.stride)
      BY <1>1, <1>4, <2>2 DEF Size, Signed
    <3>4. s.start - s.stop - s.stride - 1 = (s.start - s.stop) + (-s.stride) - 1
      BY <1>1 DEF Words, Signed
    <3>5. Size(s) = Left(s, s.start)
      BY <3>1, <3>3, <3>4 DEF Left, Fits
    <3>6. Left(s, s.start) \in Nat \ {0}
      BY <3>1, <3>2, OneStepFewer DEF Left
    <3> QED BY <2>1, <3>1, <3>2, <3>5, <3>6
  <2>3. CASE ~(s.start > s.stop)
    BY <1>1, <1>4, <2>3 DEF Size, Signed
  <2> QED BY <2>2, <2>3
<1> QED BY <1>1, <1>2, <1>3, <1>4 DEF Proper, Signed

\* A step along the range leaves one position fewer; the range is left at the last.
LEMMA Turn ==
    ASSUME NEW dim \in 0..(Half - 1), NEW s, Proper(s, dim),
           NEW c \in Words, c < dim, Gap(s, c) \in Nat \ {0}
    PROVE  LET next == Word(c + s.stride)
           IN  /\ GoesOn(s, dim, c) =>
                    /\ next \in Words /\ next < dim /\ Gap(s, next) \in Nat \ {0}
                    /\ Left(s, next) = Left(s, c) - 1
               /\ ~GoesOn(s, dim, c) => Left(s, c) = 1
               /\ Left(s, c) \in Nat \ {0}
<1>1. s.start \in Words /\ s.stop \in Words /\ s.stride \in Signed
  BY DEF Proper, Subsets
<1> DEFINE next == Word(c + s.stride)
           g == Gap(s, c)
           p == Pace(s)
<1>2. p \in Nat \ {0} /\ g \in Nat \ {0}
  BY <1>1 DEF Proper, Pace, Signed
<1>3. /\ GoesOn(s, dim, c) <=> g > p
      /\ g > p => next \in Words /\ next < dim /\ Gap(s, next) = g - p
  <2>1. CASE s.stride > 0
    <3>1. s.stop <= dim
      BY <2>1 DEF Proper, Valid
    <3>2. next = c + s.stride
      BY <1>1, <2>1, SliceAssumption DEF Word, Words, WordSize, Signed
    <3>3. g = s.stop - c /\ p = s.stride /\ Gap(s, next) = s.stop - next
      BY <2>1 DEF Gap, Pace
    <3>4. GoesOn(s, dim, c) <=> next < s.stop
      BY <2>1 DEF GoesOn
    <3> QED BY <1>1, <2>1, <3>1, <3>2, <3>3, <3>4, SliceAssumption, SMTT(30) DEF Words, WordSize, Signed
  <2>2. CASE s.stride < 0 /\ s.stop = Open
    <3>1. g = c + 1 /\ p = -s.stride /\ Gap(s, next) = next + 1
      BY <1>1, <2>2 DEF Gap, Pace, Signed
    <3>2. GoesOn(s, dim, c) <=> next < dim
      BY <1>1, <2>2 DEF GoesOn, Signed
    <3>3. CASE c + s.stride >= 0
      <4>1. next = c + s.stride
        BY <1>1, <2>2, <3>3, SliceAssumption DEF Word, Words, WordSize, Signed
      <4>2. next \in Words /\ next < dim
        BY <1>1, <2>2, <3>3, <4>1, SliceAssumption DEF Words, WordSize, Signed
      <4>3. Gap(s, next) = g - p
        BY <1>1, <3>1, <4>1 DEF Words, Signed
      <4>4. GoesOn(s, dim, c) <=> g > p
        BY <1>1, <2>2, <3>1, <3>2, <3>3, <4>1, <4>2, SliceAssumption DEF Words, WordSize, Signed
      <4> QED BY <4>2, <4>3, <4>4
    <3>4. CASE c + s.stride < 0
      <4>1. next = c + s.stride + WordSize
        BY <1>1, <3>4 DEF Word
      <4>2. next >= dim
        BY <1>1, <4>1, SliceAssumption DEF Words, WordSize, Signed
      <4>3. ~(g > p)
        BY <1>1, <3>1, <3>4 DEF Words, Signed
      <4>4. next \in Int
        BY <1>1, <4>1, SliceAssumption DEF Words, WordSize, Signed
      <4>5. ~GoesOn(s, dim, c)
        BY <3>2, <4>2, <4>4
      <4> QED BY <4>3, <4>5
    <3> QED BY <1>1, <3>3, <3>4 DEF Words, Signed
  <2>3. CASE s.stride < 0 /\ s.stop # Open
    <3>1. g = c - s.stop /\ p = -s.stride /\ Gap(s, next) = next - s.stop
      BY <1>1, <2>3 DEF Gap, Pace, Signed
    <3>2. GoesOn(s, dim, c) <=> next <= dim /\ next > s.stop
      BY <1>1, <2>3 DEF GoesOn, Signed
    <3>3. CASE c + s.stride >= 0
      <4>1. next = c + s.stride
        BY <1>1, <2>3, <3>3, SliceAssumption DEF Word, Words, WordSize, Signed
      <4>2. next \in Words /\ next < dim
        BY <1>1, <2>3, <3>3, <4>1, SliceAssumption DEF Words, WordSize, Signed
      <4>3. Gap(s, next) = g - p
        BY <1>1, <3>1, <4>1 DEF Words, Signed
      <4>4. GoesOn(s, dim, c) <=> g > p
        <5>1. next <= dim
          BY <4>2, SliceAssumption DEF Words, WordSize
        <5>2. /\ c \in Int /\ s.stop \in Int /\ s.stride \in Int
          BY <1>1, SliceAssumption DEF Words, WordSize, Signed
        <5>3. c - s.stop > -s.stride <=> c + s.stride > s.stop
          BY <5>2
        <5> HIDE DEF next, g, p
        <5> QED BY <3>1, <3>2, <4>1, <5>1, <5>3
      <4> QED BY <4>2, <4>3, <4>4
    <3>4. CASE c + s.stride < 0
      <4>1. next = c + s.stride + WordSize
        BY <1>1, <3>4 DEF Word
      <4>2. next > dim
        BY <1>1, <4>1, SliceAssumption DEF Words, WordSize, Signed
      <4>3. ~(g > p)
        BY <1>1, <3>1, <3>4 DEF Words, Signed
      <4>4. next \in Int
        BY <1>1, <4>1, SliceAssumption DEF Words, WordSize, Signed
      <4>5. ~GoesOn(s, dim, c)
        BY <3>2, <4>2, <4>4
      <4> QED BY <4>3, <4>5
    <3> QED BY <1>1, <3>3, <3>4 DEF Words, Signed
  <2> QED BY <1>1, <2>1, <2>2, <2>3 DEF Proper, Signed
<1> HIDE DEF next, p, g
<1>4. Left(s, c) = Fits(g, p)
  BY DEF Left, g, p
<1>5. Left(s, next) = Fits(Gap(s, next), p)
  BY DEF Left, p
<1>6. /\ Fits(g, p) \in Nat \ {0}
      /\ g > p => Fits(g - p, p) = Fits(g, p) - 1
      /\ g <= p => Fits(g, p) = 1
  BY <1>2, OneStepFewer
<1>7. g > p => g - p \in Nat \ {0}
  BY <1>2
<1>8. g > p => Left(s, next) = Left(s, c) - 1
  BY <1>3, <1>4, <1>5, <1>6
<1>9. ~(g > p) => g <= p
  BY <1>2
<1>10. GoesOn(s, dim, c) => /\ next \in Words /\ next < dim /\ Gap(s, next) \in Nat \ {0}
                            /\ Left(s, next) = Left(s, c) - 1
  BY <1>3, <1>7, <1>8
<1>11. ~GoesOn(s, dim, c) => Left(s, c) = 1
  BY <1>3, <1>4, <1>6, <1>9
<1> QED BY <1>4, <1>6, <1>10, <1>11 DEF next

(***************************************************************************)
(* The place of an index tuple in the walk                                 *)
(***************************************************************************)
\* r[d] tells how many turns the first d dimensions have taken together: the number,
\* in mixed radix sizes, whose digits are the positions already passed.
Ranked(r, n, sizes, left) ==
    /\ r \in [0..n -> Nat] /\ r[0] = 0
    /\ \A d \in 1..n : r[d] = r[d - 1] * sizes[d] + (sizes[d] - left[d])

LEMMA RankStarts ==
    ASSUME NEW n \in Nat, NEW sizes \in [1..n -> Nat]
    PROVE  \E r : Ranked(r, n, sizes, sizes) /\ r[n] = 0
<1> DEFINE r == [d \in 0..n |-> 0]
<1>1. r \in [0..n -> Nat] /\ r[0] = 0 /\ r[n] = 0
  OBVIOUS
<1>2. ASSUME NEW d \in 1..n PROVE r[d] = r[d - 1] * sizes[d] + (sizes[d] - sizes[d])
  <2>1. r[d] = 0 /\ r[d - 1] = 0 /\ sizes[d] \in Nat
    OBVIOUS
  <2> HIDE DEF r
  <2> QED BY <2>1
<1> HIDE DEF r
<1> QED BY <1>1, <1>2 DEF Ranked

\* A turn of dimension e, with those after it at their last position,
Turned(n, sizes, left, next, e) ==
    /\ \A d \in 1..n : left[d] \in Nat
    /\ \A d \in 1..n : d < e => next[d] = left[d]
    /\ next[e] = left[e] - 1
    /\ \A d \in 1..n : d > e => left[d] = 1 /\ next[d] = sizes[d]

\* adds one.
LEMMA RankAdvances ==
    ASSUME NEW n \in Nat, NEW sizes \in [1..n -> Nat], NEW left, NEW next, NEW r,
           Ranked(r, n, sizes, left), NEW e \in 1..n,
           Turned(n, sizes, left, next, e)
    PROVE  \E q : Ranked(q, n, sizes, next) /\ q[n] = r[n] + 1
<1>0. /\ \A d \in 1..n : left[d] \in Nat
      /\ \A d \in 1..n : d < e => next[d] = left[d]
      /\ next[e] = left[e] - 1
      /\ \A d \in 1..n : d > e => left[d] = 1 /\ next[d] = sizes[d]
  BY DEF Turned
<1> DEFINE q == [d \in 0..n |-> IF d < e THEN r[d] ELSE r[d] + 1]
<1>1. \A d \in 0..n : r[d] \in Nat
  BY DEF Ranked
<1>2. q \in [0..n -> Nat]
  <2>1. ASSUME NEW d \in 0..n PROVE r[d] \in Nat /\ r[d] + 1 \in Nat
    BY <1>1
  <2> QED BY <2>1
<1>3. \A d \in 0..n : q[d] = IF d < e THEN r[d] ELSE r[d] + 1
  OBVIOUS
<1> HIDE DEF q
<1>4. q[0] = 0
  <2>1. 0 \in 0..n /\ 0 < e /\ r[0] = 0
    BY DEF Ranked
  <2> QED BY <1>3, <2>1
<1>5. q[n] = r[n] + 1
  BY <1>3
<1>6. ASSUME NEW d \in 1..n
      PROVE  q[d] = q[d - 1] * sizes[d] + (sizes[d] - next[d])
  <2>1. d \in 0..n /\ d - 1 \in 0..n
    OBVIOUS
  <2>2. r[d] \in Nat /\ r[d - 1] \in Nat /\ sizes[d] \in Nat /\ left[d] \in Nat
    BY <1>0, <1>1, <2>1
  <2>3. r[d] = r[d - 1] * sizes[d] + (sizes[d] - left[d])
    BY DEF Ranked
  <2>4. CASE d < e
    <3>1. q[d] = r[d] /\ q[d - 1] = r[d - 1] /\ next[d] = left[d]
      BY <1>0, <1>3, <2>1, <2>4
    <3> QED BY <2>3, <3>1
  <2>5. CASE d = e
    <3>1. q[d] = r[d] + 1 /\ q[d - 1] = r[d - 1] /\ next[d] = left[d] - 1
      BY <1>0, <1>3, <2>1, <2>5
    <3> DEFINE x == r[d - 1] * sizes[d]
               m == sizes[d]
               l == left[d]
    <3>2. x \in Nat /\ m \in Nat /\ l \in Nat
      BY <2>2
    <3>3. q[d] = x + (m - l) + 1 /\ q[d - 1] * sizes[d] = x
      BY <2>3, <3>1
    <3>4. sizes[d] - next[d] = m - (l - 1)
      BY <3>1
    <3> HIDE DEF x, m, l
    <3>5. x + (m - l) + 1 = x + (m - (l - 1))
      BY <3>2
    <3> QED BY <3>3, <3>4, <3>5
  <2>6. CASE d > e
    <3>1. q[d] = r[d] + 1 /\ q[d - 1] = r[d - 1] + 1 /\ left[d] = 1 /\ next[d] = sizes[d]
      BY <1>0, <1>3, <2>1, <2>6
    <3>2. (r[d - 1] + 1) * sizes[d] = r[d - 1] * sizes[d] + sizes[d]
      BY <2>2
    <3> DEFINE x == r[d - 1] * sizes[d]
               m == sizes[d]
    <3>3. x \in Nat /\ m \in Nat
      BY <2>2
    <3>4. q[d] = x + (m - 1) + 1 /\ q[d - 1] * sizes[d] = x + m
      BY <2>3, <3>1, <3>2
    <3>5. sizes[d] - next[d] = 0
      BY <3>1, <3>3
    <3> HIDE DEF x, m
    <3> QED BY <3>3, <3>4, <3>5
  <2> QED BY <2>4, <2>5, <2>6
<1> QED BY <1>2, <1>4, <1>5, <1>6 DEF Ranked

\* The walk is never past the product of the sizes,
LEMMA RankBelow ==
    ASSUME NEW n \in Nat, NEW sizes \in [1..n -> Nat], NEW left, NEW r, NEW p,
           Ranked(r, n, sizes, left), Multiplied(p, sizes, n),
           \A d \in 1..n : left[d] \in Nat \ {0}
    PROVE  r[n] < p[n]
<1> DEFINE S == {k \in Nat : r[k] < p[k]}
<1>1. 0 \in S
  BY DEF Ranked, Multiplied
<1>2. ASSUME NEW k \in 0..n, k < n, k \in S PROVE k + 1 \in S
  <2>1. k + 1 \in 1..n /\ (k + 1) - 1 = k /\ k + 1 \in Nat /\ k + 1 \in 0..n
    BY <1>2
  <2> DEFINE a == r[k]
             b == p[k]
             m == sizes[k + 1]
             l == left[k + 1]
  <2>2. a \in Nat /\ b \in Nat /\ m \in Nat /\ l \in Nat \ {0} /\ a < b
    BY <1>2, <2>1 DEF Ranked, Multiplied
  <2>3. r[k + 1] = a * m + (m - l)
    BY <2>1 DEF Ranked
  <2>4. p[k + 1] = b * m
    BY <2>1 DEF Multiplied
  <2> HIDE DEF a, b, m, l
  <2> DEFINE x == a * m
             y == (b - a - 1) * m
  <2>5. x \in Nat /\ y \in Nat
    <3>1. b - a - 1 \in Nat
      BY <2>2
    <3> QED BY <2>2, <3>1
  <2>6. b * m = x + m + y
    BY <2>2
  <2>7. r[k + 1] = x + (m - l) /\ p[k + 1] = x + m + y
    BY <2>3, <2>4, <2>6
  <2> HIDE DEF x, y
  <2>8. r[k + 1] < p[k + 1]
    BY <2>2, <2>5, <2>7
  <2> QED BY <2>1, <2>8
<1> HIDE DEF S
<1>3. \A k \in 0..n : k \in S
  BY <1>1, <1>2, Upwards
<1>4. n \in S
  BY <1>3
<1> QED BY <1>4 DEF S

\* and one short of it when every dimension is at its last position.
LEMMA RankEnds ==
    ASSUME NEW n \in Nat, NEW sizes \in [1..n -> Nat], NEW left, NEW r, NEW p,
           Ranked(r, n, sizes, left), Multiplied(p, sizes, n),
           \A d \in 1..n : left[d] = 1
    PROVE  r[n] + 1 = p[n]
<1> DEFINE S == {k \in Nat : r[k] + 1 = p[k]}
<1>1. 0 \in S
  BY DEF Ranked, Multiplied
<1>2. ASSUME NEW k \in 0..n, k < n, k \in S PROVE k + 1 \in S
  <2>1. k + 1 \in 1..n /\ (k + 1) - 1 = k /\ k + 1 \in Nat /\ k + 1 \in 0..n
    BY <1>2
  <2> DEFINE a == r[k]
             b == p[k]
             m == sizes[k + 1]
  <2>2. a \in Nat /\ b \in Nat /\ m \in Nat /\ a + 1 = b
    BY <1>2, <2>1 DEF Ranked, Multiplied
  <2>3. r[k + 1] = a * m + (m - 1)
    BY <2>1 DEF Ranked
  <2>4. p[k + 1] = b * m
    BY <2>1 DEF Multiplied
  <2> HIDE DEF a, b, m
  <2>5. a * m \in Nat /\ (a + 1) * m = a * m + m
    BY <2>2
  <2>6. r[k + 1] + 1 = p[k + 1]
    BY <2>2, <2>3, <2>4, <2>5
  <2> QED BY <2>1, <2>6
<1> HIDE DEF S
<1>3. \A k \in 0..n : k \in S
  BY <1>1, <1>2, Upwards
<1>4. n \in S
  BY <1>3
<1> QED BY <1>4 DEF S

(***************************************************************************)
(* The walk fills what was allocated                                       *)
(***************************************************************************)
\* No dimension is empty, and none escapes.
Proceeds == \A d \in Dims : Sizes[d] # 0 /\ ~Escapes(d)

\* The odometer stands on a position of each range.
OnTheWay ==
    \A d \in Dims : current[d] < shape[d] /\ Gap(subsets[d], current[d]) \in Nat \ {0}

Lefts == [d \in Dims |-> Left(subsets[d], current[d])]

\* As many tuples are out as the odometer has taken turns.
WalkInv ==
    /\ phase \in {"walk", "copy"} => Len(subsets) = Len(shape) /\ size = Product(Sizes)
    /\ phase = "walk" /\ Proceeds =>
         OnTheWay /\ \E r : Ranked(r, Len(shape), Sizes, Lefts) /\ r[Len(shape)] = Len(indices)
    /\ phase = "copy" /\ Proceeds => Len(indices) = size

LEMMA LengthOf ==
    ASSUME NEW n \in Nat, NEW T, NEW f \in [1..n -> T]
    PROVE  f \in Seq(T) /\ Len(f) = n
<1>1. f \in Seq(T)
  BY SeqDef
<1>2. Len(f) \in Nat /\ DOMAIN f = 1..Len(f)
  BY <1>1, LenProperties
<1>3. 1..Len(f) = 1..n
  BY <1>2
<1> QED BY <1>1, <1>2, <1>3

\* What is known of the sizes once every dimension has its subset.
LEMMA Sizing ==
    ASSUME IInv, Len(subsets) = Len(shape)
    PROVE  /\ Len(shape) \in Nat /\ Dims = 1..Len(shape)
           /\ \A d \in Dims : /\ subsets[d] \in Subsets /\ shape[d] \in 0..(Half - 1)
                              /\ ~Escapes(d) => Proper(subsets[d], shape[d])
           /\ Proceeds => /\ Sizes \in [1..Len(shape) -> Nat]
                          /\ \E p : Multiplied(p, Sizes, Len(shape)) /\ Product(Sizes) = p[Len(shape)]
<1>1. /\ Dims = 1..Len(shape) /\ Len(shape) \in Nat
      /\ \A d \in Dims : subsets[d] \in Subsets /\ shape[d] \in 0..(Half - 1)
      /\ \A d \in Dims : Valid(subsets[d], shape[d]) /\ subsets[d].stride # 0
  BY Parsing, LenProperties DEF IInv, Shaped
<1>2. ASSUME NEW d \in Dims, ~Escapes(d) PROVE Proper(subsets[d], shape[d])
  BY <1>1, <1>2 DEF Proper, Escapes
<1>3. ASSUME Proceeds
      PROVE  Sizes \in [1..Len(shape) -> Nat]
  <2>1. ASSUME NEW d \in Dims PROVE Size(subsets[d]) \in Nat
    <3>1. Proper(subsets[d], shape[d]) /\ shape[d] \in 0..(Half - 1)
      BY <1>1, <1>2, <1>3 DEF Proceeds
    <3> QED BY <3>1, SizeIsLeft
  <2> QED BY <1>1, <2>1 DEF Sizes
<1>4. ASSUME Proceeds
      PROVE  \E p : Multiplied(p, Sizes, Len(shape)) /\ Product(Sizes) = p[Len(shape)]
  <2>1. Sizes \in [1..Len(shape) -> Nat] /\ Len(Sizes) = Len(shape)
    BY <1>1, <1>3, <1>4, LengthOf
  <2> QED BY <1>1, <2>1, ProductIs
<1> QED BY <1>1, <1>2, <1>3, <1>4

\* The walk starts with every position of every range to go.
LEMMA WalkStarts ==
    ASSUME IInv, Measure
    PROVE  WalkInv'
<1>1. /\ phase' = "walk" /\ subsets' = subsets /\ shape' = shape /\ indices' = << >>
      /\ size' = Product(Sizes) /\ current' = [d \in Dims |-> subsets[d].start]
      /\ Len(subsets) = Len(shape)
  BY DEF Measure, Starts, ParsedAll, IInv, Walked
<1>2. /\ Dims' = Dims /\ Sizes' = Sizes /\ Proceeds' = Proceeds
  BY <1>1 DEF Dims, Sizes, Proceeds, Escapes
<1>3. /\ Len(shape) \in Nat /\ Dims = 1..Len(shape)
      /\ \A d \in Dims : /\ subsets[d] \in Subsets /\ shape[d] \in 0..(Half - 1)
                         /\ ~Escapes(d) => Proper(subsets[d], shape[d])
      /\ Proceeds => Sizes \in [1..Len(shape) -> Nat]
  BY <1>1, Sizing
<1>4. ASSUME Proceeds, NEW d \in Dims
      PROVE  /\ Gap(subsets[d], subsets[d].start) \in Nat \ {0} /\ subsets[d].start < shape[d]
             /\ Sizes[d] = Left(subsets[d], subsets[d].start)
  <2>1. Proper(subsets[d], shape[d]) /\ shape[d] \in 0..(Half - 1)
    BY <1>3, <1>4 DEF Proceeds
  <2>2. Sizes[d] = Size(subsets[d]) /\ Size(subsets[d]) # 0
    BY <1>4 DEF Proceeds, Sizes
  <2> QED BY <2>1, <2>2, SizeIsLeft
<1>5. ASSUME Proceeds
      PROVE  OnTheWay' /\ Lefts' = Sizes
  <2>1. OnTheWay'
    BY <1>1, <1>2, <1>4, <1>5 DEF OnTheWay
  <2>2. Lefts' = [d \in Dims |-> Left(subsets[d], subsets[d].start)]
    BY <1>1, <1>2 DEF Lefts
  <2>3. Sizes = [d \in Dims |-> Sizes[d]]
    BY DEF Sizes
  <2> QED BY <1>4, <1>5, <2>1, <2>2, <2>3
<1>6. ASSUME Proceeds
      PROVE  \E r : Ranked(r, Len(shape), Sizes, Sizes) /\ r[Len(shape)] = 0
  BY <1>3, <1>6, RankStarts
<1>7. Len(indices') = 0
  BY <1>1, EmptySeq
<1> QED BY <1>1, <1>2, <1>5, <1>6, <1>7 DEF WalkInv

\* What one turn does to each dimension.
LEMMA Turning ==
    ASSUME IInv, phase = "walk", Len(subsets) = Len(shape), Proceeds, OnTheWay, NEW d \in Dims
    PROVE  /\ current[d] \in Words /\ shape[d] \in 0..(Half - 1)
           /\ Within(d) => /\ Bump(d) < shape[d] /\ Gap(subsets[d], Bump(d)) \in Nat \ {0}
                           /\ Left(subsets[d], Bump(d)) = Lefts[d] - 1
           /\ ~Within(d) => Lefts[d] = 1
           /\ Lefts[d] \in Nat \ {0}
           /\ subsets[d].start < shape[d] /\ Gap(subsets[d], subsets[d].start) \in Nat \ {0}
           /\ Left(subsets[d], subsets[d].start) = Sizes[d]
<1>1. shape[d] \in 0..(Half - 1) /\ Proper(subsets[d], shape[d])
  BY Sizing DEF Proceeds
<1>2. current[d] \in Words /\ current[d] < shape[d] /\ Gap(subsets[d], current[d]) \in Nat \ {0}
  BY DEF IInv, Walked, OnTheWay
<1>3. Within(d) <=> GoesOn(subsets[d], shape[d], current[d])
  BY DEF Within, GoesOn, Bump
<1>4. Lefts[d] = Left(subsets[d], current[d])
  BY DEF Lefts
<1>5. Size(subsets[d]) # 0 /\ Sizes[d] = Size(subsets[d])
  BY DEF Proceeds, Sizes
<1>6. /\ subsets[d].start < shape[d] /\ Gap(subsets[d], subsets[d].start) \in Nat \ {0}
      /\ Left(subsets[d], subsets[d].start) = Sizes[d]
  BY <1>1, <1>5, SizeIsLeft
<1>7. /\ GoesOn(subsets[d], shape[d], current[d]) =>
           /\ Bump(d) < shape[d] /\ Gap(subsets[d], Bump(d)) \in Nat \ {0}
           /\ Left(subsets[d], Bump(d)) = Left(subsets[d], current[d]) - 1
      /\ ~GoesOn(subsets[d], shape[d], current[d]) => Left(subsets[d], current[d]) = 1
      /\ Left(subsets[d], current[d]) \in Nat \ {0}
  BY <1>1, <1>2, Turn DEF Bump
<1> QED BY <1>1, <1>2, <1>3, <1>4, <1>6, <1>7

\* A turn of the odometer, and a tuple out.
LEMMA WalkGoesOn ==
    ASSUME IInv, WalkInv, Advance
    PROVE  WalkInv'
<1>1. /\ phase = "walk" /\ phase' = "walk" /\ subsets' = subsets /\ shape' = shape
      /\ size' = size /\ indices' = Append(indices, current)
      /\ Len(subsets) = Len(shape) /\ size = Product(Sizes)
  BY DEF Advance, WalkInv
<1>2. /\ Dims' = Dims /\ Sizes' = Sizes /\ Proceeds' = Proceeds
  BY <1>1 DEF Dims, Sizes, Proceeds, Escapes
<1>3. PICK e \in Dims :
        /\ Carries(e)
        /\ current' = [d \in Dims |-> IF d < e THEN current[d]
                                      ELSE IF d = e THEN Bump(e) ELSE subsets[d].start]
  BY DEF Advance
<1>4. Len(indices') = Len(indices) + 1
  BY <1>1 DEF IInv, Walked
<1>5. ASSUME Proceeds
      PROVE  /\ OnTheWay'
             /\ \E r : Ranked(r, Len(shape), Sizes, Lefts') /\ r[Len(shape)] = Len(indices) + 1
  <2>1. OnTheWay
    BY <1>1, <1>5 DEF WalkInv
  <2>2. PICK r : Ranked(r, Len(shape), Sizes, Lefts) /\ r[Len(shape)] = Len(indices)
    BY <1>1, <1>5 DEF WalkInv
  <2>3. /\ Len(shape) \in Nat /\ Dims = 1..Len(shape) /\ Sizes \in [1..Len(shape) -> Nat]
    BY <1>1, <1>5, Sizing
  <2>4. ASSUME NEW d \in Dims
        PROVE  /\ current[d] \in Words /\ shape[d] \in 0..(Half - 1)
               /\ Within(d) => /\ Bump(d) < shape[d] /\ Gap(subsets[d], Bump(d)) \in Nat \ {0}
                               /\ Left(subsets[d], Bump(d)) = Lefts[d] - 1
               /\ ~Within(d) => Lefts[d] = 1
               /\ Lefts[d] \in Nat \ {0}
               /\ subsets[d].start < shape[d] /\ Gap(subsets[d], subsets[d].start) \in Nat \ {0}
               /\ Left(subsets[d], subsets[d].start) = Sizes[d]
    BY <1>1, <1>5, <2>1, Turning
  <2>5. ASSUME NEW d \in Dims
        PROVE  /\ d < e => current'[d] = current[d]
               /\ d = e => current'[d] = Bump(d) /\ Within(d)
               /\ d > e => current'[d] = subsets[d].start /\ ~Within(d)
    BY <1>3, <2>3 DEF Carries
  <2>6. OnTheWay'
    <3>1. ASSUME NEW d \in Dims
          PROVE  current'[d] < shape[d] /\ Gap(subsets[d], current'[d]) \in Nat \ {0}
      <4>1. CASE d < e
        BY <2>1, <2>5, <4>1 DEF OnTheWay
      <4>2. CASE d = e
        BY <2>4, <2>5, <4>2
      <4>3. CASE d > e
        BY <2>4, <2>5, <4>3
      <4> QED BY <2>3, <4>1, <4>2, <4>3
    <3> QED BY <1>1, <1>2, <3>1 DEF OnTheWay
  <2> DEFINE next == Lefts'
  <2>7. \A d \in Dims : next[d] = Left(subsets[d], current'[d])
    BY <1>1, <1>2 DEF Lefts
  <2>8. \A d \in Dims : Lefts[d] = Left(subsets[d], current[d])
    BY DEF Lefts
  <2> HIDE DEF next
  <2>9. \A d \in Dims : Lefts[d] \in Nat
    BY <2>4
  <2>10. ASSUME NEW d \in Dims, d < e PROVE next[d] = Lefts[d]
    BY <2>5, <2>7, <2>8, <2>10
  <2>11. next[e] = Lefts[e] - 1
    BY <2>4, <2>5, <2>7
  <2>12. ASSUME NEW d \in Dims, d > e PROVE Lefts[d] = 1 /\ next[d] = Sizes[d]
    BY <2>4, <2>5, <2>7, <2>12
  <2>13. \E q : Ranked(q, Len(shape), Sizes, next) /\ q[Len(shape)] = r[Len(shape)] + 1
    <3> DEFINE n == Len(shape)
               sizes == Sizes
               left == Lefts
    <3>1. n \in Nat /\ sizes \in [1..n -> Nat] /\ Ranked(r, n, sizes, left) /\ e \in 1..n
      BY <2>2, <2>3
    <3>2. \A d \in 1..n : left[d] \in Nat
      BY <2>3, <2>9
    <3>3. \A d \in 1..n : d < e => next[d] = left[d]
      BY <2>3, <2>10
    <3>4. next[e] = left[e] - 1
      BY <2>11
    <3>5. \A d \in 1..n : d > e => left[d] = 1 /\ next[d] = sizes[d]
      BY <2>3, <2>12
    <3> HIDE DEF n, sizes, left
    <3>6. Turned(n, sizes, left, next, e)
      BY <3>2, <3>3, <3>4, <3>5 DEF Turned
    <3>7. \E q : Ranked(q, n, sizes, next) /\ q[n] = r[n] + 1
      BY <3>1, <3>6, RankAdvances
    <3> QED BY <3>7 DEF n, sizes, left
  <2> QED BY <2>2, <2>6, <2>13 DEF next
<1> QED BY <1>1, <1>2, <1>4, <1>5 DEF WalkInv

\* The last tuple is out.
LEMMA WalkIsOver ==
    ASSUME IInv, WalkInv, WalkEnds
    PROVE  WalkInv'
<1>1. /\ phase = "walk" /\ phase' = "copy" /\ subsets' = subsets /\ shape' = shape
      /\ size' = size /\ indices' = Append(indices, current)
      /\ Len(subsets) = Len(shape) /\ size = Product(Sizes) /\ \A d \in Dims : ~Within(d)
  BY DEF WalkEnds, WalkInv
<1>2. /\ Dims' = Dims /\ Sizes' = Sizes /\ Proceeds' = Proceeds
  BY <1>1 DEF Dims, Sizes, Proceeds, Escapes
<1>3. Len(indices') = Len(indices) + 1
  BY <1>1 DEF IInv, Walked
<1>4. ASSUME Proceeds
      PROVE  Len(indices) + 1 = size
  <2>1. OnTheWay
    BY <1>1, <1>4 DEF WalkInv
  <2>2. PICK r : Ranked(r, Len(shape), Sizes, Lefts) /\ r[Len(shape)] = Len(indices)
    BY <1>1, <1>4 DEF WalkInv
  <2>3. /\ Len(shape) \in Nat /\ Dims = 1..Len(shape) /\ Sizes \in [1..Len(shape) -> Nat]
        /\ \E p : Multiplied(p, Sizes, Len(shape)) /\ Product(Sizes) = p[Len(shape)]
    BY <1>1, <1>4, Sizing
  <2>4. PICK p : Multiplied(p, Sizes, Len(shape)) /\ Product(Sizes) = p[Len(shape)]
    BY <2>3
  <2>5. \A d \in Dims : Lefts[d] = 1
    BY <1>1, <1>4, <2>1, Turning
  <2>6. r[Len(shape)] + 1 = p[Len(shape)]
    BY <2>2, <2>3, <2>4, <2>5, RankEnds
  <2> QED BY <1>1, <2>2, <2>4, <2>6
<1> QED BY <1>1, <1>2, <1>3, <1>4 DEF WalkInv

LEMMA WalkInductive == IInv /\ WalkInv /\ [Next]_vars => WalkInv'
<1> SUFFICES ASSUME IInv, WalkInv, [Next]_vars PROVE WalkInv'
  OBVIOUS
<1>1. CASE ParseToken \/ RejectToken \/ RejectCount \/ KeepScalar \/ Copy
  BY <1>1 DEF WalkInv, ParseToken, Unparsed, RejectToken, RejectCount, Fail, KeepScalar, Copy
<1>2. CASE Stopped \/ UNCHANGED vars
  <2>1. UNCHANGED vars
    BY <1>2 DEF Stopped
  <2> QED BY <2>1 DEF vars, WalkInv, Dims, Sizes, Proceeds, Escapes, OnTheWay, Lefts
<1> QED BY <1>1, <1>2, WalkStarts, WalkGoesOn, WalkIsOver DEF Next, Step

\* What the property says follows: the turns taken stay below the product of the sizes.
LEMMA WalkFills ==
    ASSUME IInv, WalkInv
    PROVE  FillsAllocation
<1> SUFFICES ASSUME phase \in {"walk", "copy"}, Proceeds
             PROVE  \/ phase = "walk" /\ Len(indices) < size
                    \/ phase = "copy" /\ Len(indices) = size
  BY DEF FillsAllocation, Proceeds
<1>1. CASE phase = "copy"
  BY <1>1 DEF WalkInv
<1>2. CASE phase = "walk"
  <2>1. Len(subsets) = Len(shape) /\ size = Product(Sizes) /\ OnTheWay
    BY <1>2 DEF WalkInv
  <2>2. PICK r : Ranked(r, Len(shape), Sizes, Lefts) /\ r[Len(shape)] = Len(indices)
    BY <1>2 DEF WalkInv
  <2>3. /\ Len(shape) \in Nat /\ Dims = 1..Len(shape) /\ Sizes \in [1..Len(shape) -> Nat]
        /\ \E p : Multiplied(p, Sizes, Len(shape)) /\ Product(Sizes) = p[Len(shape)]
    BY <2>1, Sizing
  <2>4. PICK p : Multiplied(p, Sizes, Len(shape)) /\ Product(Sizes) = p[Len(shape)]
    BY <2>3
  <2>5. \A d \in Dims : Lefts[d] \in Nat \ {0}
    BY <1>2, <2>1, Turning
  <2>6. r[Len(shape)] < p[Len(shape)]
    BY <2>2, <2>3, <2>4, <2>5, RankBelow
  <2> QED BY <1>2, <2>1, <2>2, <2>4, <2>6
<1> QED BY <1>1, <1>2

\* generate_indices yields as many tuples as size() made room for, and on the way
\* never more, for every shape, slice and word size, unless a range is empty or escapes.
THEOREM WalkFillsAllocation == Spec => []FillsAllocation
<1>1. Init => WalkInv
  BY DEF Init, WalkInv
<1>2. Spec => []WalkInv
  BY <1>1, WalkInductive, InductiveInvariant, PTL DEF Spec
<1> QED BY <1>2, WalkFills, InductiveInvariant, PTL

(***************************************************************************)
(* Types                                                                   *)
(***************************************************************************)
\* size() of a subset that validate() let through.
LEMMA SizeType ==
    ASSUME NEW dim \in 0..(Half - 1), NEW s \in Subsets, Valid(s, dim), s.stride # 0
    PROVE  Size(s) \in Nat
<1>1. s.start \in Words /\ s.stop \in Words /\ s.stride \in Signed
  BY DEF Subsets
<1>2. ASSUME NEW a \in Nat, NEW b \in Nat \ {0} PROVE a \div b \in Nat
  BY <1>2
<1>3. CASE s.stride > 0
  <2>1. CASE s.start < s.stop
    <3>1. s.stop - s.start + s.stride - 1 \in Nat /\ s.stride \in Nat \ {0}
      BY <1>1, <1>3, <2>1, SliceAssumption DEF Words, WordSize, Signed
    <3> QED BY <1>2, <1>3, <2>1, <3>1 DEF Size
  <2>2. CASE ~(s.start < s.stop)
    BY <1>3, <2>2 DEF Size
  <2> QED BY <2>1, <2>2
<1>4. CASE s.stride < 0
  <2>1. -s.stride \in Nat \ {0} /\ ~(s.stride > 0)
    BY <1>1, <1>4, SliceAssumption DEF Signed
  <2>2. CASE s.stop = Open
    <3>1. s.start - s.stride \in (-WordSize)..(2 * WordSize - 1)
      BY <1>1, <1>4, SliceAssumption DEF Words, WordSize, Signed
    <3>2. Word(s.start - s.stride) \in Words
      BY <3>1, WordType
    <3>3. Word(s.start - s.stride) \in Nat
      BY <3>2, SliceAssumption DEF Words, WordSize
    <3> QED BY <1>2, <2>1, <2>2, <3>3 DEF Size
  <2>3. CASE s.stop # Open /\ s.start > s.stop
    <3>1. s.start - s.stop - s.stride - 1 \in Nat
      BY <1>1, <1>4, <2>3, SliceAssumption DEF Words, WordSize, Signed
    <3> QED BY <1>2, <2>1, <2>3, <3>1 DEF Size
  <2>4. CASE s.stop # Open /\ ~(s.start > s.stop)
    BY <2>1, <2>4 DEF Size
  <2> QED BY <2>2, <2>3, <2>4
<1> QED BY <1>1, <1>3, <1>4, SliceAssumption DEF Signed

LongerLoop(f, lengths, n) ==
    f = [d \in 0..n |-> IF d = 0 THEN << >>
                        ELSE IF lengths[d] > 1 THEN Append(f[d - 1], lengths[d]) ELSE f[d - 1]]

\* The lengths above one, collected dimension by dimension.
Collected(run, lengths, n) ==
    /\ run \in [0..n -> Seq(Nat)] /\ run[0] = << >>
    /\ \A d \in 1..n : run[d] = IF lengths[d] > 1 THEN Append(run[d - 1], lengths[d]) ELSE run[d - 1]

LEMMA LongerIs ==
    ASSUME NEW n \in Nat, NEW lengths \in [1..n -> Nat], Len(lengths) = n
    PROVE  \E run : Collected(run, lengths, n) /\ Longer(lengths) = run[n]
<1> DEFINE T == Seq(Nat)
           one(d, v) == IF lengths[d] > 1 THEN Append(v, lengths[d]) ELSE v
           round(d) == [v \in T |-> one(d, v)]
           step == [d \in 1..n |-> round(d)]
           run == CHOOSE f : LongerLoop(f, lengths, n)
<1>1. Longer(lengths) = run[n]
  BY DEF Longer, LongerLoop
<1>2. ASSUME NEW d \in 1..n, NEW v \in T PROVE one(d, v) \in T
  <2>1. lengths[d] \in Nat
    OBVIOUS
  <2>2. Append(v, lengths[d]) \in T
    BY <2>1
  <2> QED BY <2>2
<1> HIDE DEF one
<1>3. ASSUME NEW d \in 1..n PROVE round(d) \in [T -> T]
  BY <1>2, <1>3
<1>4. ASSUME NEW d \in 1..n, NEW v \in T PROVE round(d)[v] = one(d, v)
  OBVIOUS
<1> HIDE DEF round
<1>5. step \in [1..n -> [T -> T]]
  BY <1>3
<1>6. \A d \in 1..n : step[d] = round(d)
  OBVIOUS
<1>7. << >> \in T
  BY EmptySeq
<1> HIDE DEF step, T
<1>8. PICK g \in [0..n -> T] : Loop(g, n, << >>, step)
  BY <1>5, <1>7, LoopRuns
<1>9. ASSUME NEW d \in 0..n
      PROVE  g[d] = IF d = 0 THEN << >> ELSE one(d, g[d - 1])
  <2>1. CASE d = 0
    BY <1>8, <2>1 DEF Loop
  <2>2. CASE d # 0
    <3>1. d \in 1..n /\ d - 1 \in 0..n
      BY <2>2
    <3>2. g[d - 1] \in T
      BY <3>1
    <3>3. g[d] = step[d][g[d - 1]]
      BY <1>8, <3>1 DEF Loop
    <3>4. step[d][g[d - 1]] = one(d, g[d - 1])
      BY <1>4, <1>6, <3>1, <3>2
    <3> QED BY <2>2, <3>3, <3>4
  <2> QED BY <2>1, <2>2
<1>10. LongerLoop(g, lengths, n)
  <2>1. g = [d \in 0..n |-> g[d]]
    OBVIOUS
  <2>2. g = [d \in 0..n |-> IF d = 0 THEN << >> ELSE one(d, g[d - 1])]
    BY <1>9, <2>1
  <2> QED BY <2>2 DEF LongerLoop, one
<1>11. LongerLoop(run, lengths, n)
  BY <1>10
<1> HIDE DEF run
<1>12. run = [d \in 0..n |-> IF d = 0 THEN << >> ELSE one(d, run[d - 1])]
  BY <1>11 DEF LongerLoop, one
<1> DEFINE S == {k \in Nat : run[k] \in T}
<1>13. 0 \in S
  <2>1. 0 \in 0..n
    OBVIOUS
  <2> QED BY <1>7, <1>12, <2>1
<1>14. ASSUME NEW k \in 0..n, k < n, k \in S PROVE k + 1 \in S
  <2>1. k + 1 \in 0..n /\ k + 1 \in 1..n /\ k + 1 # 0 /\ (k + 1) - 1 = k /\ k + 1 \in Nat
    BY <1>14
  <2>2. run[k + 1] = one(k + 1, run[k])
    BY <1>12, <2>1
  <2>3. run[k] \in T
    BY <1>14
  <2>4. run[k + 1] \in T
    BY <1>2, <2>1, <2>2, <2>3
  <2> QED BY <2>1, <2>4
<1> HIDE DEF S
<1>15. \A k \in 0..n : k \in S
  BY <1>13, <1>14, Upwards
<1>16. run \in [0..n -> T]
  <2>1. \A k \in 0..n : run[k] \in T
    BY <1>15 DEF S
  <2>2. DOMAIN run = 0..n /\ run = [k \in DOMAIN run |-> run[k]]
    BY <1>12
  <2> QED BY <2>1, <2>2
<1>17. run[0] = << >>
  <2>1. 0 \in 0..n
    OBVIOUS
  <2> QED BY <1>12, <2>1
<1>18. ASSUME NEW d \in 1..n
       PROVE  run[d] = IF lengths[d] > 1 THEN Append(run[d - 1], lengths[d]) ELSE run[d - 1]
  <2>1. d \in 0..n /\ d # 0
    OBVIOUS
  <2> QED BY <1>12, <2>1 DEF one
<1> QED BY <1>1, <1>16, <1>17, <1>18 DEF Collected, T

FactorsLoop(f, lengths, n) ==
    f = [d \in 1..n |-> IF d = n THEN 1 ELSE f[d + 1] * lengths[d + 1]]

\* The weights of a row-major array, as compute_index_factors computes them.
LEMMA FactorsAre ==
    ASSUME NEW n \in Nat, shape \in [1..n -> Nat], Len(shape) = n
    PROVE  \A d \in 1..n : /\ Factors[d] \in Nat
                           /\ Factors[d] = IF d = n THEN 1 ELSE Factors[d + 1] * shape[d + 1]
<1> DEFINE run == CHOOSE f : FactorsLoop(f, shape, n)
           back == [k \in 1..n |-> shape[n - k + 1]]
<1>1. Dims = 1..n
  BY DEF Dims
<1>2. Factors = run
  BY <1>1 DEF Factors, FactorsLoop
<1>3. back \in [1..n -> Nat]
  <2>1. ASSUME NEW k \in 1..n PROVE shape[n - k + 1] \in Nat
    <3>1. n - k + 1 \in 1..n
      OBVIOUS
    <3> QED BY <3>1
  <2> QED BY <2>1
<1>4. \A k \in 1..n : back[k] = shape[n - k + 1]
  OBVIOUS
<1> HIDE DEF back
<1>5. PICK g : ProductLoop(g, back, n)
  BY <1>3, ProductLoopRuns
<1>6. Multiplied(g, back, n)
  BY <1>3, <1>5, ProductLoopMultiplies
<1> DEFINE f == [d \in 1..n |-> g[n - d]]
<1>7. ASSUME NEW d \in 1..n
      PROVE  f[d] = IF d = n THEN 1 ELSE f[d + 1] * shape[d + 1]
  <2>1. CASE d = n
    <3>1. n - d = 0
      BY <2>1
    <3> QED BY <1>6, <2>1, <3>1 DEF Multiplied
  <2>2. CASE d # n
    <3>1. d + 1 \in 1..n /\ n - d \in 1..n /\ (n - d) - 1 = n - (d + 1) /\ n - (n - d) + 1 = d + 1
      BY <2>2
    <3>2. g[n - d] = g[n - (d + 1)] * back[n - d]
      BY <1>6, <3>1 DEF Multiplied
    <3>3. back[n - d] = shape[d + 1]
      BY <1>4, <3>1
    <3> QED BY <2>2, <3>1, <3>2, <3>3
  <2> QED BY <2>1, <2>2
<1>8. FactorsLoop(f, shape, n)
  <2>1. f = [d \in 1..n |-> f[d]]
    OBVIOUS
  <2> HIDE DEF f
  <2> QED BY <1>7, <2>1 DEF FactorsLoop
<1>9. FactorsLoop(run, shape, n)
  BY <1>8
<1> HIDE DEF run, f
<1>10. run = [d \in 1..n |-> IF d = n THEN 1 ELSE run[d + 1] * shape[d + 1]]
  BY <1>9 DEF FactorsLoop
<1> DEFINE S == {k \in Nat : k < n => run[n - k] \in Nat}
<1>11. 0 \in S
  <2>1. 0 < n => run[n - 0] \in Nat
    <3>1. SUFFICES ASSUME 0 < n PROVE run[n] \in Nat
      OBVIOUS
    <3>2. n \in 1..n
      BY <3>1
    <3>3. run[n] = 1
      BY <1>10, <3>2
    <3> QED BY <3>3
  <2> QED BY <2>1
<1>12. ASSUME NEW k \in 0..n, k < n, k \in S PROVE k + 1 \in S
  <2>1. k + 1 < n => run[n - (k + 1)] \in Nat
    <3>1. SUFFICES ASSUME k + 1 < n PROVE run[n - (k + 1)] \in Nat
      OBVIOUS
    <3> DEFINE d == n - (k + 1)
    <3>2. d \in 1..n /\ d # n /\ d + 1 = n - k /\ d + 1 \in 1..n
      BY <3>1
    <3>3. run[d + 1] \in Nat /\ shape[d + 1] \in Nat
      <4>1. run[n - k] \in Nat
        BY <1>12
      <4> QED BY <3>2, <4>1
    <3> HIDE DEF d
    <3>4. run[d] = run[d + 1] * shape[d + 1]
      BY <1>10, <3>2
    <3>5. run[d] \in Nat
      BY <3>3, <3>4
    <3> QED BY <3>5 DEF d
  <2>2. k + 1 \in Nat
    OBVIOUS
  <2> QED BY <2>1, <2>2
<1> HIDE DEF S
<1>13. \A k \in 0..n : k \in S
  BY <1>11, <1>12, Upwards
<1>14. ASSUME NEW d \in 1..n PROVE run[d] \in Nat
  <2>1. n - d \in 0..n /\ n - d < n /\ n - (n - d) = d
    OBVIOUS
  <2>2. n - d \in S
    BY <1>13, <2>1
  <2> QED BY <2>1, <2>2 DEF S
<1>15. ASSUME NEW d \in 1..n
       PROVE  run[d] = IF d = n THEN 1 ELSE run[d + 1] * shape[d + 1]
  BY <1>10
<1> QED BY <1>2, <1>14, <1>15

\* An offset, summed up dimension by dimension.
Summed(run, x, n) ==
    /\ run \in [0..n -> Nat] /\ run[0] = 0
    /\ \A d \in 1..n : run[d] = run[d - 1] + x[d] * Factors[d]

OffsetLoop(f, x, n) ==
    f = [d \in 0..n |-> IF d = 0 THEN 0 ELSE f[d - 1] + x[d] * Factors[d]]

\* compute_offsets, of index tuples.
LEMMA OffsetIs ==
    ASSUME NEW n \in Nat, shape \in [1..n -> Nat], Len(shape) = n, NEW x \in [1..n -> Nat]
    PROVE  \E run : Summed(run, x, n) /\ Offset(x) = run[n]
<1> DEFINE add(d) == x[d] * Factors[d]
           round(d) == [v \in Nat |-> v + add(d)]
           step == [d \in 1..n |-> round(d)]
           run == CHOOSE f : OffsetLoop(f, x, n)
<1>1. Offset(x) = run[n]
  BY DEF Offset, OffsetLoop
<1>2. ASSUME NEW d \in 1..n PROVE add(d) \in Nat
  <2>1. x[d] \in Nat /\ Factors[d] \in Nat
    BY FactorsAre
  <2> QED BY <2>1
<1> HIDE DEF add
<1>3. ASSUME NEW d \in 1..n PROVE round(d) \in [Nat -> Nat]
  BY <1>2, <1>3
<1>4. ASSUME NEW d \in 1..n, NEW v \in Nat PROVE round(d)[v] = v + add(d)
  OBVIOUS
<1> HIDE DEF round
<1>5. step \in [1..n -> [Nat -> Nat]]
  BY <1>3
<1>6. \A d \in 1..n : step[d] = round(d)
  OBVIOUS
<1> HIDE DEF step
<1>7. PICK g \in [0..n -> Nat] : Loop(g, n, 0, step)
  BY <1>5, LoopRuns
<1>8. ASSUME NEW d \in 0..n
      PROVE  g[d] = IF d = 0 THEN 0 ELSE g[d - 1] + add(d)
  <2>1. CASE d = 0
    BY <1>7, <2>1 DEF Loop
  <2>2. CASE d # 0
    <3>1. d \in 1..n /\ d - 1 \in 0..n
      BY <2>2
    <3>2. g[d - 1] \in Nat
      BY <3>1
    <3>3. g[d] = step[d][g[d - 1]]
      BY <1>7, <3>1 DEF Loop
    <3>4. step[d][g[d - 1]] = g[d - 1] + add(d)
      BY <1>4, <1>6, <3>1, <3>2
    <3> QED BY <2>2, <3>3, <3>4
  <2> QED BY <2>1, <2>2
<1>9. OffsetLoop(g, x, n)
  <2>1. g = [d \in 0..n |-> g[d]]
    OBVIOUS
  <2>2. g = [d \in 0..n |-> IF d = 0 THEN 0 ELSE g[d - 1] + add(d)]
    BY <1>8, <2>1
  <2> QED BY <2>2 DEF OffsetLoop, add
<1>10. OffsetLoop(run, x, n)
  BY <1>9
<1> HIDE DEF run
<1>11. run = [d \in 0..n |-> IF d = 0 THEN 0 ELSE run[d - 1] + add(d)]
  BY <1>10 DEF OffsetLoop, add
<1> DEFINE S == {k \in Nat : run[k] \in Nat}
<1>12. 0 \in S
  <2>1. 0 \in 0..n
    OBVIOUS
  <2> QED BY <1>11, <2>1
<1>13. ASSUME NEW k \in 0..n, k < n, k \in S PROVE k + 1 \in S
  <2>1. k + 1 \in 0..n /\ k + 1 \in 1..n /\ k + 1 # 0 /\ (k + 1) - 1 = k /\ k + 1 \in Nat
    BY <1>13
  <2>2. run[k + 1] = run[k] + add(k + 1)
    BY <1>11, <2>1
  <2>3. run[k] \in Nat /\ add(k + 1) \in Nat
    BY <1>2, <1>13, <2>1
  <2>4. run[k + 1] \in Nat
    BY <2>2, <2>3
  <2> QED BY <2>1, <2>4
<1> HIDE DEF S
<1>14. \A k \in 0..n : k \in S
  BY <1>12, <1>13, Upwards
<1>15. run \in [0..n -> Nat]
  <2>1. \A k \in 0..n : run[k] \in Nat
    BY <1>14 DEF S
  <2>2. DOMAIN run = 0..n /\ run = [k \in DOMAIN run |-> run[k]]
    BY <1>11
  <2> QED BY <2>1, <2>2
<1>16. run[0] = 0
  <2>1. 0 \in 0..n
    OBVIOUS
  <2> QED BY <1>11, <2>1
<1>17. ASSUME NEW d \in 1..n PROVE run[d] = run[d - 1] + x[d] * Factors[d]
  <2>1. d \in 0..n /\ d # 0
    OBVIOUS
  <2> QED BY <1>11, <2>1 DEF add
<1> QED BY <1>1, <1>15, <1>16, <1>17 DEF Summed

\* The types of what is computed from the subsets, beside those IInv already knows.
Typed ==
    /\ phase \in {"parse", "walk", "copy", "done", "failed"}
    /\ kept \in Seq(Nat) /\ size \in Nat /\ elements \in Seq(Nat)
    /\ phase \in {"walk", "copy"} => current \in [Dims -> Words]

\* Sizes are lengths, whether or not the walk will stay inside.
LEMMA SizesType ==
    ASSUME IInv, Len(subsets) = Len(shape)
    PROVE  /\ Len(shape) \in Nat /\ Dims = 1..Len(shape)
           /\ Sizes \in [1..Len(shape) -> Nat] /\ Len(Sizes) = Len(shape)
<1>1. /\ Dims = 1..Len(shape) /\ Len(shape) \in Nat
      /\ \A d \in Dims : subsets[d] \in Subsets /\ shape[d] \in 0..(Half - 1)
      /\ \A d \in Dims : Valid(subsets[d], shape[d]) /\ subsets[d].stride # 0
  BY Parsing, LenProperties DEF IInv, Shaped
<1>2. \A d \in Dims : Size(subsets[d]) \in Nat
  BY <1>1, SizeType
<1>3. Sizes \in [1..Len(shape) -> Nat]
  BY <1>1, <1>2 DEF Sizes
<1> QED BY <1>1, <1>3, LengthOf

LEMMA MeasureTyped ==
    ASSUME IInv, Measure
    PROVE  kept' \in Seq(Nat) /\ size' \in Nat /\ current' \in [Dims' -> Words]
<1>1. Len(subsets) = Len(shape) /\ kept' = Longer(Sizes) /\ size' = Product(Sizes)
  BY DEF Measure
<1>2. /\ Len(shape) \in Nat /\ Sizes \in [1..Len(shape) -> Nat] /\ Len(Sizes) = Len(shape)
  BY <1>1, SizesType
<1>3. PICK p : Multiplied(p, Sizes, Len(shape)) /\ Product(Sizes) = p[Len(shape)]
  BY <1>2, ProductIs
<1>4. Product(Sizes) \in Nat
  BY <1>2, <1>3 DEF Multiplied
<1>5. Longer(Sizes) \in Seq(Nat)
  <2>1. PICK run : Collected(run, Sizes, Len(shape)) /\ Longer(Sizes) = run[Len(shape)]
    BY <1>2, LongerIs
  <2> QED BY <1>2, <2>1 DEF Collected
<1>6. current' \in [Dims' -> Words]
  BY MeasureStep DEF IInv, Walked, Measure
<1> QED BY <1>1, <1>4, <1>5, <1>6

LEMMA CopyTyped ==
    ASSUME IInv, Copy
    PROVE  elements' \in Seq(Nat)
<1>1. shape \in Seq(0..(Half - 1)) /\ indices \in Seq([Dims -> Words])
  BY DEF IInv, Shaped, Walked
<1> DEFINE n == Len(shape)
           m == Len(indices)
<1>2. n \in Nat /\ Dims = 1..n /\ shape \in [1..n -> Nat] /\ m \in Nat /\ DOMAIN indices = 1..m
  BY <1>1, LenProperties, SliceAssumption DEF Dims
<1>3. ASSUME NEW k \in 1..m PROVE Offset(indices[k]) \in Nat
  <2>1. indices[k] \in [1..n -> Nat]
    <3>1. indices[k] \in [Dims -> Words]
      BY <1>1, ElementOfSeq
    <3>2. Words \subseteq Nat
      BY SliceAssumption DEF Words, WordSize
    <3> QED BY <1>2, <3>1, <3>2
  <2>2. PICK run : Summed(run, indices[k], n) /\ Offset(indices[k]) = run[n]
    BY <1>2, <2>1, OffsetIs
  <2> QED BY <1>2, <2>2 DEF Summed
<1>4. elements' = [k \in 1..m |-> Offset(indices[k])]
  BY <1>2 DEF Copy
<1>5. elements' \in [1..m -> Nat]
  BY <1>3, <1>4
<1> HIDE DEF m
<1> QED BY <1>2, <1>5, LengthOf

LEMMA TypedStep == IInv /\ Typed /\ [Next]_vars => Typed'
<1> SUFFICES ASSUME IInv, Typed, [Next]_vars PROVE Typed'
  OBVIOUS
<1>1. CASE ParseToken \/ RejectToken \/ RejectCount \/ KeepScalar
  BY <1>1 DEF Typed, ParseToken, Unparsed, RejectToken, RejectCount, ParsedAll, Fail, KeepScalar
<1>2. CASE Measure
  BY <1>2, MeasureTyped DEF Typed, Measure
<1>3. CASE Advance
  BY <1>3, AdvanceStep DEF Typed, Advance, IInv, Walked
<1>4. CASE WalkEnds
  BY <1>4 DEF Typed, WalkEnds, Dims
<1>5. CASE Copy
  BY <1>5, CopyTyped DEF Typed, Copy
<1>6. CASE Stopped \/ UNCHANGED vars
  BY <1>6 DEF Typed, Stopped, vars, Dims
<1> QED BY <1>1, <1>2, <1>3, <1>4, <1>5, <1>6 DEF Next, Step

\* Subsets, odometer and indices stay words, lengths and offsets natural numbers, also
\* where the unsigned sums of SubsetInfo and generate_indices wrap.
THEOREM SliceTypes == Spec => []TypeOK
<1>1. Init => Typed
  BY EmptySeq DEF Init, Typed
<1>2. Spec => []Typed
  BY <1>1, TypedStep, InductiveInvariant, PTL DEF Spec
<1>3. IInv /\ Typed => TypeOK
  BY ElementOfSeq, LenProperties DEF IInv, Shaped, Validated, Walked, Typed, TypeOK
<1> QED BY <1>2, <1>3, InductiveInvariant, PTL

(***************************************************************************)
(* Places in the walk, compared                                            *)
(***************************************************************************)
\* Digits of a number: quotient and remainder are determined.
LEMMA SameDigits ==
    ASSUME NEW a \in Nat, NEW b \in Nat, NEW m \in Nat, NEW i \in 0..(m - 1), NEW j \in 0..(m - 1)
    PROVE  /\ a < b => a * m + i < b * m + j
           /\ a * m + i = b * m + j => a = b /\ i = j
<1>1. ASSUME NEW c \in Nat, NEW d \in Nat, c < d, NEW k \in 0..(m - 1), NEW l \in 0..(m - 1)
      PROVE  c * m + k < d * m + l
  <2> DEFINE x == c * m
             y == (d - c - 1) * m
  <2>1. d - c - 1 \in Nat
    BY <1>1
  <2>2. x \in Nat /\ y \in Nat
    BY <2>1
  <2>3. d * m = x + m + y
    BY <1>1
  <2> HIDE DEF x, y
  <2>4. c * m = x
    BY DEF x
  <2> QED BY <1>1, <2>2, <2>3, <2>4
<1>2. a < b => a * m + i < b * m + j
  BY <1>1
<1>3. b < a => b * m + j < a * m + i
  BY <1>1
<1>4. a * m \in Nat /\ b * m \in Nat
  OBVIOUS
<1>5. ASSUME a * m + i = b * m + j PROVE a = b /\ i = j
  <2>1. a = b
    BY <1>2, <1>3, <1>4, <1>5
  <2>2. a * m = b * m
    BY <2>1
  <2> QED BY <1>4, <1>5, <2>1, <2>2
<1> QED BY <1>2, <1>5

\* Positions left are between one and all.
InRange(n, sizes, left) == \A d \in 1..n : left[d] \in 1..sizes[d]

\* Every place has a rank,
LEMMA RankExists ==
    ASSUME NEW n \in Nat, NEW sizes \in [1..n -> Nat], NEW left, InRange(n, sizes, left)
    PROVE  \E r : Ranked(r, n, sizes, left)
<1> DEFINE next(d, v) == v * sizes[d] + (sizes[d] - left[d])
           round(d) == [v \in Nat |-> next(d, v)]
           step == [d \in 1..n |-> round(d)]
<1>1. ASSUME NEW d \in 1..n, NEW v \in Nat PROVE next(d, v) \in Nat
  <2>1. sizes[d] \in Nat /\ left[d] \in 1..sizes[d]
    BY DEF InRange
  <2>2. v * sizes[d] \in Nat /\ sizes[d] - left[d] \in Nat
    BY <2>1
  <2> QED BY <2>2
<1> HIDE DEF next
<1>2. ASSUME NEW d \in 1..n PROVE round(d) \in [Nat -> Nat]
  BY <1>1, <1>2
<1>3. ASSUME NEW d \in 1..n, NEW v \in Nat PROVE round(d)[v] = next(d, v)
  OBVIOUS
<1> HIDE DEF round
<1>4. step \in [1..n -> [Nat -> Nat]]
  BY <1>2
<1>5. \A d \in 1..n : step[d] = round(d)
  OBVIOUS
<1> HIDE DEF step
<1>6. PICK r \in [0..n -> Nat] : Loop(r, n, 0, step)
  BY <1>4, LoopRuns
<1>7. ASSUME NEW d \in 1..n PROVE r[d] = next(d, r[d - 1])
  <2>1. d - 1 \in 0..n
    OBVIOUS
  <2>2. r[d - 1] \in Nat
    BY <2>1
  <2>3. r[d] = step[d][r[d - 1]]
    BY <1>6 DEF Loop
  <2> QED BY <1>3, <1>5, <2>2, <2>3
<1>8. r[0] = 0
  BY <1>6 DEF Loop
<1> QED BY <1>7, <1>8 DEF Ranked, next

\* only one,
LEMMA RankUnique ==
    ASSUME NEW n \in Nat, NEW sizes, NEW left, NEW r, NEW q,
           Ranked(r, n, sizes, left), Ranked(q, n, sizes, left)
    PROVE  \A k \in 0..n : r[k] = q[k]
<1> DEFINE S == {k \in Nat : r[k] = q[k]}
<1>1. 0 \in S
  BY DEF Ranked
<1>2. ASSUME NEW k \in 0..n, k < n, k \in S PROVE k + 1 \in S
  <2>1. k + 1 \in 1..n /\ (k + 1) - 1 = k /\ k + 1 \in Nat /\ r[k] = q[k]
    BY <1>2
  <2>2. /\ r[k + 1] = r[k] * sizes[k + 1] + (sizes[k + 1] - left[k + 1])
        /\ q[k + 1] = q[k] * sizes[k + 1] + (sizes[k + 1] - left[k + 1])
    BY <2>1 DEF Ranked
  <2> QED BY <2>1, <2>2
<1> HIDE DEF S
<1>3. \A k \in 0..n : k \in S
  BY <1>1, <1>2, Upwards
<1> QED BY <1>3 DEF S

\* and no two places the same.
LEMMA RankInjective ==
    ASSUME NEW n \in Nat, NEW sizes \in [1..n -> Nat], NEW left, NEW other, NEW r, NEW q,
           Ranked(r, n, sizes, left), Ranked(q, n, sizes, other),
           InRange(n, sizes, left), InRange(n, sizes, other), r[n] = q[n]
    PROVE  \A d \in 1..n : left[d] = other[d]
<1>1. ASSUME NEW d \in 1..n, r[d] = q[d]
      PROVE  r[d - 1] = q[d - 1] /\ left[d] = other[d]
  <2>1. d - 1 \in 0..n
    OBVIOUS
  <2> DEFINE a == r[d - 1]
             b == q[d - 1]
             m == sizes[d]
             i == m - left[d]
             j == m - other[d]
  <2>2. a \in Nat /\ b \in Nat /\ m \in Nat
    BY <2>1 DEF Ranked
  <2>3. left[d] \in 1..m /\ other[d] \in 1..m
    BY DEF InRange
  <2>4. i \in 0..(m - 1) /\ j \in 0..(m - 1)
    BY <2>2, <2>3, SMTT(30)
  <2>5. a * m + i = b * m + j
    BY <1>1 DEF Ranked
  <2> HIDE DEF a, b, i, j, m
  <2>6. a = b /\ i = j
    BY <2>2, <2>4, <2>5, SameDigits
  <2>7. left[d] = other[d]
    BY <2>2, <2>3, <2>6 DEF i, j
  <2> QED BY <2>6, <2>7 DEF a, b
<1> DEFINE S == {k \in Nat : r[n - k] = q[n - k]}
<1>2. 0 \in S
  BY DEF Ranked
<1>3. ASSUME NEW k \in 0..n, k < n, k \in S PROVE k + 1 \in S
  <2>1. n - k \in 1..n /\ (n - k) - 1 = n - (k + 1) /\ k + 1 \in Nat
    BY <1>3
  <2>2. r[n - k] = q[n - k]
    BY <1>3
  <2>3. r[(n - k) - 1] = q[(n - k) - 1]
    BY <1>1, <2>1, <2>2
  <2> QED BY <2>1, <2>3
<1> HIDE DEF S
<1>4. \A k \in 0..n : k \in S
  BY <1>2, <1>3, Upwards
<1>5. ASSUME NEW d \in 1..n PROVE r[d] = q[d]
  <2>1. n - d \in 0..n /\ n - (n - d) = d
    OBVIOUS
  <2>2. n - d \in S
    BY <1>4, <2>1
  <2> QED BY <2>1, <2>2 DEF S
<1> QED BY <1>1, <1>5

\* The first dimension in which two places differ,
FirstAt(n, left, other, e) ==
    /\ e \in 1..n /\ left[e] # other[e]
    /\ \A d \in 1..n : d < e => left[d] = other[d]

\* which exists,
LEMMA FirstDifference ==
    ASSUME NEW n \in Nat, NEW left, NEW other, ~\A d \in 1..n : left[d] = other[d]
    PROVE  \E e : FirstAt(n, left, other, e)
<1> DEFINE S == {d \in 1..n : left[d] # other[d]}
<1>1. S \in SUBSET Nat /\ S # {}
  OBVIOUS
<1>2. PICK e \in S : \A d \in S : e <= d
  BY <1>1, LeastNumber
<1>3. e \in 1..n /\ left[e] # other[e]
  OBVIOUS
<1>4. \A d \in 1..n : d < e => left[d] = other[d]
  BY <1>2
<1> QED BY <1>3, <1>4 DEF FirstAt

\* decides which comes first.
LEMMA RankOrder ==
    ASSUME NEW n \in Nat, NEW sizes \in [1..n -> Nat], NEW left, NEW other, NEW r, NEW q,
           Ranked(r, n, sizes, left), Ranked(q, n, sizes, other),
           InRange(n, sizes, left), InRange(n, sizes, other),
           NEW e, FirstAt(n, left, other, e), left[e] > other[e]
    PROVE  r[n] < q[n]
<1>0. e \in 1..n /\ \A d \in 1..n : d < e => left[d] = other[d]
  BY DEF FirstAt
<1>1. ASSUME NEW k \in 1..n
      PROVE  /\ k - 1 \in 0..n /\ k \in Nat
             /\ r[k - 1] \in Nat /\ q[k - 1] \in Nat /\ sizes[k] \in Nat
             /\ left[k] \in 1..sizes[k] /\ other[k] \in 1..sizes[k]
             /\ sizes[k] - left[k] \in 0..(sizes[k] - 1) /\ sizes[k] - other[k] \in 0..(sizes[k] - 1)
             /\ r[k] = r[k - 1] * sizes[k] + (sizes[k] - left[k])
             /\ q[k] = q[k - 1] * sizes[k] + (sizes[k] - other[k])
  <2>1. k - 1 \in 0..n
    OBVIOUS
  <2>2. sizes[k] \in Nat /\ left[k] \in 1..sizes[k] /\ other[k] \in 1..sizes[k]
    BY DEF InRange
  <2>3. sizes[k] - left[k] \in 0..(sizes[k] - 1) /\ sizes[k] - other[k] \in 0..(sizes[k] - 1)
    BY <2>2
  <2> QED BY <2>1, <2>2, <2>3 DEF Ranked
<1> DEFINE S == {k \in Nat : IF k < e THEN r[k] = q[k] ELSE r[k] < q[k]}
<1>2. 0 \in S
  BY <1>0 DEF Ranked
<1>3. ASSUME NEW k \in 0..n, k < n, k \in S PROVE k + 1 \in S
  <2>1. k + 1 \in 1..n /\ (k + 1) - 1 = k /\ k + 1 \in Nat
    BY <1>3
  <2> DEFINE a == r[k]
             b == q[k]
             m == sizes[k + 1]
             i == m - left[k + 1]
             j == m - other[k + 1]
  <2>2. /\ a \in Nat /\ b \in Nat /\ m \in Nat /\ i \in 0..(m - 1) /\ j \in 0..(m - 1)
        /\ r[k + 1] = a * m + i /\ q[k + 1] = b * m + j
        /\ left[k + 1] \in 1..m /\ other[k + 1] \in 1..m
    BY <1>1, <2>1
  <2>3. CASE k + 1 < e
    <3>1. a = b /\ left[k + 1] = other[k + 1]
      BY <1>0, <1>3, <2>1, <2>3
    <3>2. a * m + i = b * m + j
      BY <3>1
    <3> QED BY <2>1, <2>2, <2>3, <3>2
  <2>4. CASE k + 1 = e
    <3>1. a = b
      BY <1>3, <2>4
    <3>2. i < j
      <4> DEFINE v == left[k + 1]
                 w == other[k + 1]
      <4>1. v > w /\ v \in 1..m /\ w \in 1..m /\ i = m - v /\ j = m - w
        BY <2>2, <2>4
      <4> HIDE DEF v, w, i, j, m
      <4> QED BY <2>2, <4>1
    <3> HIDE DEF a, b, m, i, j
    <3>3. a * m \in Nat /\ a * m = b * m
      BY <2>2, <3>1
    <3>4. a * m + i < b * m + j
      <4> DEFINE x == a * m
      <4>1. x \in Nat /\ b * m = x /\ i \in Int /\ j \in Int
        BY <2>2, <3>3
      <4> HIDE DEF x
      <4>2. x + i < x + j
        BY <3>2, <4>1
      <4> QED BY <4>1, <4>2 DEF x
    <3>5. r[k + 1] < q[k + 1]
      BY <2>2, <3>4
    <3>6. ~(k + 1 < e)
      BY <2>1, <2>4
    <3> QED BY <2>1, <3>5, <3>6
  <2>5. CASE k + 1 > e
    <3>1. a < b
      BY <1>0, <1>3, <2>5
    <3> HIDE DEF a, b, m, i, j
    <3>2. a * m + i < b * m + j
      BY <2>2, <3>1, SameDigits
    <3> QED BY <1>0, <2>1, <2>2, <2>5, <3>2
  <2> QED BY <1>0, <2>1, <2>3, <2>4, <2>5
<1> HIDE DEF S
<1>4. \A k \in 0..n : k \in S
  BY <1>2, <1>3, Upwards
<1>5. n \in S /\ ~(n < e)
  BY <1>0, <1>4
<1> QED BY <1>5 DEF S

(***************************************************************************)
(* Offsets are positions in row-major order                                *)
(***************************************************************************)
\* Positions left in each dimension of the array, from those of x on.
Beyond(x) == [d \in Dims |-> shape[d] - x[d]]

LEMMA BoxIs ==
    ASSUME shape \in Seq(0..(Half - 1))
    PROVE  /\ Len(shape) \in Nat /\ Dims = 1..Len(shape) /\ shape \in [1..Len(shape) -> Nat]
           /\ \A d \in Dims : shape[d] \in 0..(Half - 1)
           /\ \A x \in Box : /\ x \in [1..Len(shape) -> Nat] /\ InRange(Len(shape), shape, Beyond(x))
                             /\ \A d \in Dims : x[d] \in Nat /\ x[d] < shape[d]
                                                /\ Beyond(x)[d] = shape[d] - x[d]
<1>1. Len(shape) \in Nat /\ Dims = 1..Len(shape) /\ \A d \in Dims : shape[d] \in 0..(Half - 1)
  BY LenProperties, ElementOfSeq DEF Dims
<1>2. 0..(Half - 1) \subseteq Nat
  BY SliceAssumption
<1>3. shape \in [1..Len(shape) -> 0..(Half - 1)]
  BY LenProperties
<1>4. shape \in [1..Len(shape) -> Nat]
  BY <1>2, <1>3
<1>5. ASSUME NEW x \in Box
      PROVE  /\ x \in [1..Len(shape) -> Nat] /\ InRange(Len(shape), shape, Beyond(x))
             /\ \A d \in Dims : x[d] \in Nat /\ x[d] < shape[d] /\ Beyond(x)[d] = shape[d] - x[d]
  <2>1. x \in [Dims -> 0..(Half - 1)] /\ \A d \in Dims : x[d] < shape[d]
    BY DEF Box
  <2>2. x \in [1..Len(shape) -> Nat]
    BY <1>1, <1>2, <2>1
  <2>3. \A d \in Dims : Beyond(x)[d] = shape[d] - x[d]
    BY DEF Beyond
  <2>4. \A d \in Dims : x[d] \in Nat
    BY <1>1, <2>2
  <2>5. \A d \in Dims : shape[d] - x[d] \in 1..shape[d]
    BY <1>1, <2>1, <2>4, SliceAssumption
  <2>6. InRange(Len(shape), shape, Beyond(x))
    BY <1>1, <2>3, <2>5 DEF InRange
  <2> QED BY <2>1, <2>2, <2>3, <2>4, <2>6
<1> QED BY <1>1, <1>4, <1>5

\* The weighted sum of compute_offsets is the rank in the whole array.
LEMMA OffsetRanked ==
    ASSUME shape \in Seq(0..(Half - 1)), NEW x \in Box
    PROVE  \E r : Ranked(r, Len(shape), shape, Beyond(x)) /\ r[Len(shape)] = Offset(x)
<1> DEFINE n == Len(shape)
<1>1. /\ n \in Nat /\ Dims = 1..n /\ shape \in [1..n -> Nat] /\ x \in [1..n -> Nat]
      /\ InRange(n, shape, Beyond(x))
      /\ \A d \in Dims : x[d] \in Nat /\ x[d] < shape[d] /\ Beyond(x)[d] = shape[d] - x[d]
  BY BoxIs
<1> HIDE DEF n
<1>2. Len(shape) = n
  BY DEF n
<1>3. PICK run : Summed(run, x, n) /\ Offset(x) = run[n]
  BY <1>1, <1>2, OffsetIs
<1>4. PICK r : Ranked(r, n, shape, Beyond(x))
  BY <1>1, RankExists
<1>5. \A d \in 1..n : /\ Factors[d] \in Nat
                      /\ Factors[d] = IF d = n THEN 1 ELSE Factors[d + 1] * shape[d + 1]
  BY <1>1, <1>2, FactorsAre
<1> DEFINE S == {k \in Nat : k > 0 => run[k] = r[k] * Factors[k]}
<1>6. 0 \in S
  OBVIOUS
<1>7. ASSUME NEW k \in 0..n, k < n, k \in S PROVE k + 1 \in S
  <2>1. k + 1 \in 1..n /\ (k + 1) - 1 = k /\ k + 1 \in Nat
    BY <1>1, <1>7
  <2> DEFINE f == Factors[k + 1]
             m == shape[k + 1]
             v == x[k + 1]
             a == r[k]
  <2>2. f \in Nat /\ m \in Nat /\ v \in Nat /\ a \in Nat
    BY <1>1, <1>4, <1>5, <2>1 DEF Ranked
  <2>3. run[k + 1] = run[k] + v * f
    BY <1>3, <2>1 DEF Summed
  <2>4. r[k + 1] = a * m + v
    <3>1. r[k + 1] = a * m + (m - Beyond(x)[k + 1])
      BY <1>4, <2>1 DEF Ranked
    <3>2. Beyond(x)[k + 1] = m - v
      BY <1>1, <2>1
    <3>3. m - (m - v) = v
      BY <2>2
    <3> QED BY <3>1, <3>2, <3>3
  <2>5. run[k] = (a * m) * f
    <3>1. CASE k = 0
      <4>1. run[k] = 0 /\ a = 0
        BY <1>3, <1>4, <3>1 DEF Summed, Ranked
      <4>2. 0 * m = 0 /\ 0 * f = 0
        BY <2>2
      <4> QED BY <4>1, <4>2
    <3>2. CASE k # 0
      <4>1. k \in 1..n /\ k # n /\ k > 0
        BY <1>7, <3>2
      <4>2. Factors[k] = f * m
        BY <1>5, <4>1
      <4>3. run[k] = a * (f * m)
        BY <1>7, <4>1, <4>2
      <4> HIDE DEF a, f, m
      <4>4. a * (f * m) = (a * m) * f
        BY <2>2
      <4> QED BY <4>3, <4>4
    <3> QED BY <3>1, <3>2
  <2> HIDE DEF f, m, v, a
  <2>6. (a * m) * f + v * f = (a * m + v) * f
    BY <2>2
  <2>7. run[k + 1] = r[k + 1] * f
    BY <2>3, <2>4, <2>5, <2>6
  <2> QED BY <2>1, <2>7 DEF f
<1> HIDE DEF S
<1>8. \A k \in 0..n : k \in S
  BY <1>1, <1>6, <1>7, Upwards
<1>9. r[n] = run[n]
  <2>1. n \in S
    BY <1>1, <1>8
  <2>2. r[n] \in Nat /\ run[0] = 0 /\ r[0] = 0
    BY <1>1, <1>3, <1>4 DEF Ranked, Summed
  <2>3. n > 0 => Factors[n] = 1
    BY <1>1, <1>5
  <2>4. n > 0 => run[n] = r[n] * Factors[n]
    BY <2>1 DEF S
  <2>5. r[n] * 1 = r[n]
    BY <2>2
  <2> QED BY <1>1, <2>2, <2>3, <2>4, <2>5
<1> QED BY <1>3, <1>4, <1>9 DEF n

\* y comes before x when the last dimension varies fastest.
Earlier(y, x) ==
    \E d \in Dims : /\ \A e \in Dims : e < d => x[e] = y[e]
                    /\ y[d] < x[d]

\* Elements in row-major order have increasing offsets.
LEMMA EarlierIsBelow ==
    ASSUME shape \in Seq(0..(Half - 1)), NEW x \in Box, NEW y \in Box, Earlier(y, x)
    PROVE  Offset(y) < Offset(x)
<1> DEFINE n == Len(shape)
<1>1. /\ n \in Nat /\ Dims = 1..n /\ shape \in [1..n -> Nat]
      /\ \A d \in Dims : shape[d] \in 0..(Half - 1)
      /\ InRange(n, shape, Beyond(x)) /\ InRange(n, shape, Beyond(y))
      /\ \A d \in Dims : x[d] \in Nat /\ Beyond(x)[d] = shape[d] - x[d]
      /\ \A d \in Dims : y[d] \in Nat /\ Beyond(y)[d] = shape[d] - y[d]
  BY BoxIs
<1>2. PICK r : Ranked(r, n, shape, Beyond(y)) /\ r[n] = Offset(y)
  BY OffsetRanked
<1>3. PICK q : Ranked(q, n, shape, Beyond(x)) /\ q[n] = Offset(x)
  BY OffsetRanked
<1>4. PICK e \in Dims : (\A d \in Dims : d < e => x[d] = y[d]) /\ y[e] < x[e]
  BY DEF Earlier
<1> HIDE DEF n
<1>5. Beyond(y)[e] > Beyond(x)[e] /\ Beyond(y)[e] # Beyond(x)[e]
  <2>1. /\ x[e] \in Nat /\ y[e] \in Nat /\ shape[e] \in Nat
        /\ Beyond(x)[e] = shape[e] - x[e] /\ Beyond(y)[e] = shape[e] - y[e] /\ y[e] < x[e]
    BY <1>1, <1>4
  <2> QED BY <2>1
<1>6. FirstAt(n, Beyond(y), Beyond(x), e)
  BY <1>1, <1>4, <1>5 DEF FirstAt
<1> QED BY <1>1, <1>2, <1>3, <1>5, <1>6, RankOrder

\* Of two elements one comes first.
LEMMA EarlierIsTotal ==
    ASSUME shape \in Seq(0..(Half - 1)), NEW x \in Box, NEW y \in Box, x # y
    PROVE  Earlier(x, y) \/ Earlier(y, x)
<1> DEFINE n == Len(shape)
<1>1. /\ n \in Nat /\ Dims = 1..n /\ x \in [1..n -> Nat] /\ y \in [1..n -> Nat]
  BY BoxIs
<1> HIDE DEF n
<1>2. ~\A d \in 1..n : x[d] = y[d]
  BY <1>1
<1>3. PICK e : FirstAt(n, x, y, e)
  BY <1>1, <1>2, FirstDifference
<1>4. e \in Dims /\ (\A d \in Dims : d < e => x[d] = y[d]) /\ x[e] # y[e]
  BY <1>1, <1>3 DEF FirstAt
<1>5. x[e] < y[e] \/ y[e] < x[e]
  BY <1>1, <1>4
<1> QED BY <1>4, <1>5 DEF Earlier

\* The offset of an element is a number, 0 of the first.
LEMMA OffsetType ==
    ASSUME shape \in Seq(0..(Half - 1)), NEW x \in Box
    PROVE  Offset(x) \in Nat /\ ((\A d \in Dims : x[d] = 0) => Offset(x) = 0)
<1> DEFINE n == Len(shape)
<1>1. /\ n \in Nat /\ Dims = 1..n /\ shape \in [1..n -> Nat]
      /\ \A d \in Dims : Beyond(x)[d] = shape[d] - x[d]
  BY BoxIs
<1>2. PICK r : Ranked(r, n, shape, Beyond(x)) /\ r[n] = Offset(x)
  BY OffsetRanked
<1> HIDE DEF n
<1>3. r[n] \in Nat
  BY <1>1, <1>2 DEF Ranked
<1>4. ASSUME \A d \in Dims : x[d] = 0
      PROVE  r[n] = 0
  <2>1. Beyond(x) = shape
    <3>1. Beyond(x) = [d \in 1..n |-> shape[d] - x[d]]
      BY <1>1 DEF Beyond
    <3>2. \A d \in 1..n : shape[d] - x[d] = shape[d]
      BY <1>1, <1>4
    <3>3. shape = [d \in 1..n |-> shape[d]]
      BY <1>1
    <3> QED BY <3>1, <3>2, <3>3
  <2>2. PICK q : Ranked(q, n, shape, shape) /\ q[n] = 0
    BY <1>1, RankStarts
  <2>3. Ranked(r, n, shape, shape)
    BY <1>2, <2>1
  <2>4. r[n] = q[n]
    BY <1>1, <2>2, <2>3, RankUnique
  <2> QED BY <2>2, <2>4
<1> QED BY <1>2, <1>3, <1>4

\* Before every element but the first there is another, at the previous position.
LEMMA Preceded ==
    ASSUME shape \in Seq(0..(Half - 1)), NEW x \in Box, Offset(x) # 0
    PROVE  \E y \in Box : Offset(y) + 1 = Offset(x)
<1> DEFINE n == Len(shape)
<1>1. /\ n \in Nat /\ Dims = 1..n /\ shape \in [1..n -> Nat] /\ Half \in Nat
      /\ \A d \in Dims : shape[d] \in 0..(Half - 1) /\ x[d] \in Nat /\ x[d] < shape[d]
      /\ \A d \in Dims : Beyond(x)[d] = shape[d] - x[d]
  BY BoxIs, SliceAssumption
<1> HIDE DEF n
<1>2. \E d \in Dims : x[d] # 0
  BY OffsetType
<1> DEFINE S == {k \in Nat : n - k \in 1..n /\ x[n - k] # 0}
<1>3. S # {}
  <2>1. PICK d \in 1..n : x[d] # 0
    BY <1>1, <1>2
  <2>2. n - d \in Nat /\ n - (n - d) = d
    BY <1>1
  <2>3. n - d \in S
    BY <2>1, <2>2
  <2> QED BY <2>3
<1>4. PICK k \in S : \A l \in S : k <= l
  <2>1. S \in SUBSET Nat
    OBVIOUS
  <2> HIDE DEF S
  <2> QED BY <1>3, <2>1, LeastNumber
<1> DEFINE e == n - k
<1>5. e \in 1..n /\ x[e] # 0
  BY <1>4
<1>6. ASSUME NEW d \in 1..n, d > e PROVE x[d] = 0
  <2>1. n - d \in Nat /\ n - (n - d) = d /\ ~(k <= n - d)
    BY <1>1, <1>4, <1>6
  <2>2. n - d \notin S
    BY <1>4, <2>1
  <2> QED BY <2>1, <2>2
<1> HIDE DEF S, e
<1> DEFINE y == [d \in Dims |-> IF d < e THEN x[d] ELSE IF d = e THEN x[d] - 1 ELSE shape[d] - 1]
<1>7. y \in Box
  <2>1. ASSUME NEW d \in Dims
        PROVE  y[d] \in 0..(Half - 1) /\ y[d] < shape[d]
    <3>1. shape[d] \in 0..(Half - 1) /\ x[d] \in Nat /\ x[d] < shape[d]
      BY <1>1
    <3>2. x[d] - 1 < shape[d] /\ shape[d] - 1 \in 0..(Half - 1) /\ x[d] \in 0..(Half - 1)
      BY <1>1, <3>1
    <3>3. d = e => x[d] - 1 \in 0..(Half - 1)
      BY <1>1, <1>5, <3>1
    <3> QED BY <3>1, <3>2, <3>3
  <2>2. y \in [Dims -> 0..(Half - 1)]
    BY <2>1
  <2> QED BY <2>1, <2>2 DEF Box
<1>8. \A d \in Dims : y[d] = IF d < e THEN x[d] ELSE IF d = e THEN x[d] - 1 ELSE shape[d] - 1
  OBVIOUS
<1> HIDE DEF y
<1>9. \A d \in Dims : Beyond(y)[d] = shape[d] - y[d]
  BY <1>7, BoxIs
<1>10. PICK r : Ranked(r, n, shape, Beyond(y)) /\ r[n] = Offset(y)
  BY <1>7, OffsetRanked DEF n
<1>11. Turned(n, shape, Beyond(y), Beyond(x), e)
  <2>1. ASSUME NEW d \in 1..n
        PROVE  /\ Beyond(y)[d] \in Nat
               /\ d < e => Beyond(x)[d] = Beyond(y)[d]
               /\ d = e => Beyond(x)[d] = Beyond(y)[d] - 1
               /\ d > e => Beyond(y)[d] = 1 /\ Beyond(x)[d] = shape[d]
    <3>1. /\ shape[d] \in Nat /\ x[d] \in Nat /\ x[d] < shape[d]
          /\ Beyond(x)[d] = shape[d] - x[d] /\ Beyond(y)[d] = shape[d] - y[d]
      BY <1>1, <1>9
    <3>2. y[d] = IF d < e THEN x[d] ELSE IF d = e THEN x[d] - 1 ELSE shape[d] - 1
      BY <1>1, <1>8
    <3>3. d > e => x[d] = 0
      BY <1>6
    <3> QED BY <1>5, <3>1, <3>2, <3>3
  <2> QED BY <1>5, <2>1 DEF Turned
<1>12. PICK q : Ranked(q, n, shape, Beyond(x)) /\ q[n] = r[n] + 1
  BY <1>1, <1>5, <1>10, <1>11, RankAdvances, Z3T(30)
<1>13. PICK p : Ranked(p, n, shape, Beyond(x)) /\ p[n] = Offset(x)
  BY OffsetRanked DEF n
<1>14. p[n] = q[n]
  BY <1>1, <1>12, <1>13, RankUnique
<1> QED BY <1>7, <1>10, <1>12, <1>13, <1>14

\* So every number up to an offset is an offset.
LEMMA EachBelow ==
    ASSUME shape \in Seq(0..(Half - 1)), NEW x \in Box, NEW m \in 0..Offset(x)
    PROVE  \E y \in Box : Offset(y) = m
<1> DEFINE top == Offset(x)
           S == {k \in Nat : \E y \in Box : Offset(y) = top - k}
<1>1. top \in Nat
  BY OffsetType
<1> HIDE DEF top
<1>2. 0 \in S
  BY <1>1 DEF top
<1>3. ASSUME NEW k \in 0..top, k < top, k \in S PROVE k + 1 \in S
  <2>1. PICK y \in Box : Offset(y) = top - k
    BY <1>3
  <2>2. Offset(y) # 0
    BY <1>1, <1>3, <2>1
  <2>3. PICK z \in Box : Offset(z) + 1 = Offset(y)
    BY <2>2, Preceded
  <2>4. Offset(z) \in Nat
    BY OffsetType
  <2>5. Offset(z) = top - (k + 1) /\ k + 1 \in Nat
    BY <1>1, <2>1, <2>3, <2>4
  <2> QED BY <2>5
<1> HIDE DEF S
<1>4. \A k \in 0..top : k \in S
  BY <1>1, <1>2, <1>3, Upwards
<1>5. top - m \in 0..top /\ top - (top - m) = m
  BY <1>1 DEF top
<1>6. top - m \in S
  BY <1>4, <1>5
<1> QED BY <1>5, <1>6 DEF S

\* A numbered set has as many elements as there are numbers.
LEMMA Numbered ==
    ASSUME NEW S, NEW n \in Nat, NEW f \in [S -> 0..(n - 1)],
           \A x, y \in S : f[x] = f[y] => x = y,
           \A k \in 0..(n - 1) : \E x \in S : f[x] = k
    PROVE  Cardinality(S) = n
<1>1. f \in Bijection(S, 0..(n - 1))
  BY Fun_IsBij
<1>2. ExistsBijection(0..(n - 1), S)
  BY <1>1, Fun_ExistsBij, Fun_ExistsBijSymmetric
<1>3. IsFiniteSet(0..(n - 1)) /\ Cardinality(0..(n - 1)) = n
  <2>1. n - 1 \in Int /\ 0 \in Int
    OBVIOUS
  <2>2. Cardinality(0..(n - 1)) = IF 0 > n - 1 THEN 0 ELSE (n - 1) - 0 + 1
    BY <2>1, FS_Interval
  <2> QED BY <2>1, <2>2, FS_Interval
<1> QED BY <1>2, <1>3, FS_Bijection

\* The offset of an element counts the elements before it.
LEMMA OffsetIsRowMajor ==
    ASSUME shape \in Seq(0..(Half - 1)), NEW x \in Box
    PROVE  Offset(x) = RowMajor(x)
<1> DEFINE S == {y \in Box : Earlier(y, x)}
           n == Offset(x)
           f == [y \in S |-> Offset(y)]
<1>1. n \in Nat
  BY OffsetType
<1>2. ASSUME NEW y \in S PROVE Offset(y) \in 0..(n - 1)
  BY <1>1, OffsetType, EarlierIsBelow
<1>3. f \in [S -> 0..(n - 1)]
  BY <1>2
<1>4. ASSUME NEW y \in S, NEW z \in S, f[y] = f[z] PROVE y = z
  <2>1. Offset(y) = Offset(z) /\ Offset(y) \in Nat /\ Offset(z) \in Nat
    BY <1>4, OffsetType
  <2>2. ~(Offset(y) < Offset(z)) /\ ~(Offset(z) < Offset(y))
    BY <2>1
  <2> QED BY <2>2, EarlierIsBelow, EarlierIsTotal
<1>5. ASSUME NEW k \in 0..(n - 1) PROVE \E y \in S : f[y] = k
  <2>1. k \in 0..n /\ k < n
    BY <1>1
  <2>2. PICK y \in Box : Offset(y) = k
    BY <2>1, EachBelow
  <2>3. y # x /\ ~(Offset(x) < Offset(y))
    BY <1>1, <2>1, <2>2
  <2>4. Earlier(y, x)
    BY <2>3, EarlierIsBelow, EarlierIsTotal
  <2> QED BY <2>2, <2>4
<1> HIDE DEF f, n
<1>6. Cardinality(S) = n
  BY <1>1, <1>3, <1>4, <1>5, Numbered, SMTT(30)
<1>7. RowMajor(x) = Cardinality(S)
  BY DEF RowMajor, Earlier
<1> QED BY <1>6, <1>7 DEF n

(***************************************************************************)
(* The positions of a range                                                *)
(***************************************************************************)
\* The position after m steps.
At(s, m) == s.start + s.stride * m

\* What m steps of pace p leave of a gap g.
LEMMA StepsFit ==
    ASSUME NEW g \in Nat \ {0}, NEW p \in Nat \ {0}, NEW m \in Nat
    PROVE  /\ m < Fits(g, p) <=> p * m < g
           /\ p * m < g => Fits(g - p * m, p) = Fits(g, p) - m
<1> DEFINE q == (g + p - 1) \div p
           r == (g + p - 1) % p
<1>1. q \in Nat /\ r \in 0..(p - 1) /\ g + p - 1 = p * q + r
  OBVIOUS
<1>2. Fits(g, p) = q
  BY DEF Fits
<1> HIDE DEF q, r
<1>3. p * q \in Nat /\ p * m \in Nat
  BY <1>1
<1>4. ASSUME m < q PROVE p * m < g /\ q - m \in Nat
  <2> DEFINE y == p * (q - m - 1)
  <2>1. q - m - 1 \in Nat
    BY <1>1, <1>4
  <2>2. y \in Nat /\ p * q = p * m + p + y
    BY <1>1, <2>1
  <2> HIDE DEF y
  <2> DEFINE z == p * m
  <2>3. z \in Nat /\ g + p - 1 = (z + p + y) + r
    BY <1>1, <1>3, <2>2
  <2> HIDE DEF z
  <2>4. z < g
    BY <1>1, <2>2, <2>3
  <2> QED BY <1>1, <1>4, <2>4 DEF z
<1>5. ASSUME ~(m < q) PROVE ~(p * m < g)
  <2> DEFINE y == p * (m - q)
  <2>1. m - q \in Nat
    BY <1>1, <1>5
  <2>2. y \in Nat /\ p * m = p * q + y
    BY <1>1, <2>1
  <2> HIDE DEF y
  <2> DEFINE z == p * q
  <2>3. z \in Nat /\ g + p - 1 = z + r /\ p * m = z + y
    BY <1>1, <1>3, <2>2
  <2> HIDE DEF z
  <2>4. z >= g
    BY <1>1, <2>3
  <2> QED BY <2>2, <2>3, <2>4
<1>6. ASSUME m < q PROVE Fits(g - p * m, p) = q - m
  <2> DEFINE h == g - p * m
             a == (h + p - 1) \div p
             b == (h + p - 1) % p
  <2>1. h \in Nat \ {0}
    BY <1>3, <1>4, <1>6
  <2> HIDE DEF h
  <2>2. a \in Nat /\ b \in 0..(p - 1) /\ h + p - 1 = p * a + b
    BY <2>1
  <2>3. Fits(h, p) = a
    BY DEF Fits
  <2> HIDE DEF a, b
  <2>4. q - m \in Nat /\ p * (q - m) = p * q - p * m
    BY <1>1, <1>4, <1>6
  <2>5. a * p + b = (q - m) * p + r
    <3>1. a * p = p * a /\ (q - m) * p = p * (q - m) /\ p * a \in Nat /\ p * (q - m) \in Nat
      BY <2>2, <2>4
    <3> DEFINE u == p * a
               v == p * (q - m)
               w == p * m
               z == p * q
    <3>2. u \in Nat /\ v \in Nat /\ w \in Nat /\ z \in Nat /\ v = z - w
      BY <1>3, <2>4, <3>1
    <3>3. g + p - 1 = z + r /\ h = g - w /\ h + p - 1 = u + b
      BY <1>1, <2>2 DEF h
    <3> HIDE DEF u, v, w, z
    <3>4. u + b = v + r
      BY <1>1, <2>2, <3>2, <3>3
    <3> QED BY <3>1, <3>4 DEF u, v
  <2>6. a = q - m
    BY <1>1, <2>2, <2>4, <2>5, SameDigits
  <2> QED BY <2>3, <2>6 DEF h
<1> QED BY <1>2, <1>4, <1>5, <1>6

\* A multiple leaves no remainder.
LEMMA Multiples ==
    ASSUME NEW x \in Nat, NEW p \in Nat \ {0}
    PROVE  x % p = 0 <=> \E m \in Nat : x = p * m
<1> DEFINE q == x \div p
           r == x % p
<1>1. q \in Nat /\ r \in 0..(p - 1) /\ x = p * q + r
  OBVIOUS
<1> HIDE DEF q
<1>2. ASSUME NEW m \in Nat, x = p * m PROVE r = 0
  <2> HIDE DEF r
  <2>1. q * p + r = m * p + 0 /\ 0 \in 0..(p - 1)
    BY <1>1, <1>2
  <2> QED BY <1>1, <2>1, SameDigits
<1>3. ASSUME r = 0 PROVE x = p * q
  <2> HIDE DEF r
  <2>1. p * q \in Nat
    BY <1>1
  <2> QED BY <1>1, <1>3, <2>1
<1> QED BY <1>1, <1>2, <1>3

\* The positions up to the size of a range are in the dimension, and each leaves so
\* many to go.
LEMMA LeftAt ==
    ASSUME NEW dim \in 0..(Half - 1), NEW s, Proper(s, dim), Size(s) # 0
    PROVE  /\ Size(s) \in Nat \ {0} /\ s.start \in Nat /\ s.stride \in Int
           /\ \A m \in Nat : m < Size(s) <=> Pace(s) * m < Gap(s, s.start)
           /\ \A m \in 0..(Size(s) - 1) :
                /\ At(s, m) \in 0..(dim - 1) /\ Left(s, At(s, m)) = Size(s) - m
                /\ Gap(s, At(s, m)) \in Nat \ {0}
<1> DEFINE g == Gap(s, s.start)
           p == Pace(s)
<1>1. /\ Size(s) \in Nat /\ g \in Nat \ {0} /\ s.start < dim /\ Size(s) = Fits(g, p)
  BY SizeIsLeft DEF Left
<1>2. /\ s.start \in Nat /\ s.stop \in Nat /\ s.stride \in Int /\ s.stride # 0
  BY SliceAssumption DEF Proper, Subsets, Words, WordSize, Signed
<1>3. p \in Nat \ {0}
  BY <1>2 DEF Pace
<1>4. ASSUME NEW m \in Nat PROVE m < Size(s) <=> p * m < g
  BY <1>1, <1>3, StepsFit
<1>5. ASSUME NEW m \in Nat, p * m < g
      PROVE  /\ At(s, m) \in 0..(dim - 1) /\ Gap(s, At(s, m)) = g - p * m
             /\ g - p * m \in Nat \ {0}
  <2> DEFINE x == p * m
  <2>1. x \in Nat /\ x < g
    BY <1>3, <1>5
  <2>2. CASE s.stride > 0
    <3>1. At(s, m) = s.start + x
      BY <2>2 DEF At, Pace
    <3>2. g = s.stop - s.start /\ Gap(s, At(s, m)) = s.stop - At(s, m) /\ s.stop <= dim
      BY <2>2 DEF Gap, Proper, Valid
    <3> HIDE DEF x, g
    <3> QED BY <1>1, <1>2, <2>1, <3>1, <3>2 DEF x
  <2>3. CASE ~(s.stride > 0)
    <3>1. At(s, m) = s.start - x
      <4>1. (-s.stride) * m = -(s.stride * m) /\ s.stride * m \in Int
        BY <1>2
      <4>2. x = -(s.stride * m)
        BY <2>3, <4>1 DEF Pace
      <4> QED BY <1>2, <4>1, <4>2 DEF At
    <3>2. CASE s.stop = Open
      <4>1. g = s.start + 1 /\ Gap(s, At(s, m)) = At(s, m) + 1
        BY <2>3, <3>2 DEF Gap
      <4> HIDE DEF x, g
      <4> QED BY <1>1, <1>2, <2>1, <3>1, <4>1 DEF x
    <3>3. CASE s.stop # Open
      <4>1. g = s.start - s.stop /\ Gap(s, At(s, m)) = At(s, m) - s.stop
        BY <2>3, <3>3 DEF Gap
      <4> HIDE DEF x, g
      <4> QED BY <1>1, <1>2, <2>1, <3>1, <4>1 DEF x
    <3> QED BY <3>2, <3>3
  <2> QED BY <2>2, <2>3
<1>6. ASSUME NEW m \in 0..(Size(s) - 1)
      PROVE  /\ At(s, m) \in 0..(dim - 1) /\ Left(s, At(s, m)) = Size(s) - m
             /\ Gap(s, At(s, m)) \in Nat \ {0}
  <2>1. m \in Nat /\ m < Size(s)
    BY <1>1
  <2>2. p * m < g
    BY <1>4, <2>1
  <2>3. Left(s, At(s, m)) = Fits(g - p * m, p)
    BY <1>5, <2>1, <2>2 DEF Left
  <2>4. Fits(g - p * m, p) = Fits(g, p) - m
    BY <1>1, <1>3, <2>1, <2>2, StepsFit
  <2> HIDE DEF g, p
  <2>5. /\ At(s, m) \in 0..(dim - 1) /\ Gap(s, At(s, m)) = g - p * m
        /\ g - p * m \in Nat \ {0}
    BY <1>5, <2>1, <2>2
  <2> QED BY <1>1, <2>3, <2>4, <2>5
<1>7. Size(s) \in Nat \ {0}
  BY <1>1
<1> QED BY <1>2, <1>4, <1>6, <1>7

\* They are the positions a regular part selects.
LEMMA SelectedAre ==
    ASSUME NEW token \in Tokens, NEW dim \in 0..(Half - 1), Regular(token, dim),
           token.kind = "index" => token.start # Omitted,
           NEW s, s = Parsed(token, dim)
    PROVE  /\ Proper(s, dim) /\ Size(s) # 0
           /\ \A i : i \in Selected(token, dim) <=> \E m \in 0..(Size(s) - 1) : i = At(s, m)
<1> DEFINE f == First(token, dim)
           l == Limit(token, dim)
           st == Stride(token)
<1>1. /\ s.start = f /\ s.stride = st /\ st # 0 /\ f \in 0..(dim - 1) /\ l \in -1..dim
      /\ st > 0 => s.stop = l /\ f < l
      /\ ~(st > 0) => /\ l < f
                      /\ \/ l >= 0 /\ s.stop = l
                         \/ l = -1 /\ s.stop = Open
  BY RegularParts
<1>2. s \in Subsets /\ Valid(s, dim)
  BY ParsedType, RegularIsValid
<1>3. st \in Int /\ Open \in Int /\ dim \in Nat
  BY <1>1, <1>2, SliceAssumption DEF Subsets, Signed, Open, WordSize
<1>4. Proper(s, dim)
  BY <1>1, <1>2, <1>3 DEF Proper
<1>5. l # Open
  BY <1>1, SliceAssumption DEF Open, WordSize
<1> HIDE DEF f, l, st
<1>6. Gap(s, f) = (IF st > 0 THEN l - f ELSE f - l) /\ Pace(s) = (IF st > 0 THEN st ELSE -st)
  BY <1>1, <1>3, <1>5 DEF Gap, Pace
<1>7. Gap(s, f) \in Nat \ {0} /\ Pace(s) \in Nat \ {0}
  BY <1>1, <1>3, <1>6
<1>8. Size(s) # 0
  <2>1. s.stop \in Nat
    BY <1>2, SliceAssumption DEF Subsets, Words, WordSize
  <2>2. CASE st > 0
    <3>1. Size(s) = Fits(Gap(s, f), Pace(s))
      BY <1>1, <1>6, <2>2 DEF Size, Fits
    <3> QED BY <1>7, <3>1, OneStepFewer
  <2>3. CASE ~(st > 0)
    <3>1. CASE s.stop = Open
      <4>1. f - st \in Nat /\ f - st < WordSize /\ WordSize \in Nat
        BY <1>1, <1>2, <1>3, <2>3, SliceAssumption DEF Subsets, Signed, WordSize
      <4>2. Word(f - st) = f - st
        BY <4>1 DEF Word
      <4>3. l = -1
        BY <1>1, <1>5, <2>3, <3>1
      <4>4. f - st = Gap(s, f) + Pace(s) - 1
        BY <1>1, <1>3, <1>6, <2>3, <4>3
      <4>5. Size(s) = (f - st) \div (-st)
        BY <1>1, <2>3, <3>1, <4>2 DEF Size
      <4>6. Size(s) = Fits(Gap(s, f), Pace(s))
        BY <1>6, <2>3, <4>4, <4>5 DEF Fits
      <4> QED BY <1>7, <4>6, OneStepFewer
    <3>2. CASE s.stop # Open
      <4>1. s.stop = l /\ l < f
        BY <1>1, <2>3, <3>2
      <4>2. f - l - st - 1 = Gap(s, f) + Pace(s) - 1
        BY <1>1, <1>3, <1>6, <2>3
      <4>3. Size(s) = (f - l - st - 1) \div (-st)
        BY <1>1, <2>1, <2>3, <3>2, <4>1 DEF Size
      <4>4. Size(s) = Fits(Gap(s, f), Pace(s))
        BY <1>6, <2>3, <4>2, <4>3 DEF Fits
      <4> QED BY <1>7, <4>4, OneStepFewer
    <3> QED BY <3>1, <3>2
  <2> QED BY <2>2, <2>3
<1> DEFINE n == Size(s)
           p == Pace(s)
           g == Gap(s, f)
<1>9. /\ n \in Nat \ {0}
      /\ \A m \in Nat : m < n <=> p * m < g
      /\ \A m \in 0..(n - 1) : At(s, m) \in 0..(dim - 1)
  BY <1>1, <1>4, <1>8, LeftAt
<1>10. ASSUME NEW m \in Nat
       PROVE  /\ p * m \in Nat
              /\ At(s, m) = IF st > 0 THEN f + p * m ELSE f - p * m
  <2>1. p * m \in Nat
    BY <1>7
  <2>2. CASE st > 0
    BY <1>1, <1>6, <2>1, <2>2 DEF At
  <2>3. CASE ~(st > 0)
    <3>1. (-st) * m = -(st * m) /\ st * m \in Int
      BY <1>3
    <3>2. p * m = -(st * m)
      BY <1>6, <2>3, <3>1
    <3> QED BY <1>1, <2>1, <2>3, <3>1, <3>2 DEF At
  <2> QED BY <2>1, <2>2, <2>3
<1>11. ASSUME NEW i
       PROVE  i \in Selected(token, dim) <=>
                /\ i \in 0..(dim - 1)
                /\ IF st > 0 THEN f <= i /\ i < l /\ (i - f) % p = 0
                   ELSE f >= i /\ i > l /\ (f - i) % p = 0
  BY <1>6 DEF Selected, f, l, st
<1> HIDE DEF n, p, g
<1>12. ASSUME NEW m \in 0..(n - 1), NEW i, i = At(s, m)
       PROVE  i \in Selected(token, dim)
  <2>1. m \in Nat /\ m < n
    BY <1>9
  <2>2. p * m < g /\ p * m \in Nat
    BY <1>9, <1>10, <2>1
  <2>3. (p * m) % p = 0
    BY <1>7, <2>1, <2>2, Multiples DEF p
  <2>4. i \in 0..(dim - 1)
    BY <1>9, <1>12
  <2>5. i = IF st > 0 THEN f + p * m ELSE f - p * m
    BY <1>10, <1>12, <2>1
  <2> DEFINE x == p * m
  <2>6. x \in Nat /\ x < g /\ x % p = 0 /\ i = IF st > 0 THEN f + x ELSE f - x
    BY <2>2, <2>3, <2>5
  <2> HIDE DEF x
  <2>7. g = IF st > 0 THEN l - f ELSE f - l
    BY <1>6 DEF g
  <2>8. CASE st > 0
    <3>1. i - f = x /\ f <= i /\ i < l
      BY <1>1, <2>6, <2>7, <2>8
    <3> QED BY <1>11, <2>4, <2>6, <2>8, <3>1
  <2>9. CASE ~(st > 0)
    <3>1. f - i = x /\ i <= f /\ i > l
      BY <1>1, <2>6, <2>7, <2>9
    <3> QED BY <1>11, <2>4, <2>6, <2>9, <3>1
  <2> QED BY <2>8, <2>9
<1>13. ASSUME NEW i, i \in Selected(token, dim)
       PROVE  \E m \in 0..(n - 1) : i = At(s, m)
  <2> DEFINE x == IF st > 0 THEN i - f ELSE f - i
  <2>1. /\ i \in Int
        /\ IF st > 0 THEN f <= i /\ i < l /\ (i - f) % p = 0
           ELSE f >= i /\ i > l /\ (f - i) % p = 0
    BY <1>11, <1>13
  <2>2. g = IF st > 0 THEN l - f ELSE f - l
    BY <1>6 DEF g
  <2>3. x \in Nat /\ x < g /\ x % p = 0
    BY <1>1, <2>1, <2>2
  <2>4. i = IF st > 0 THEN f + x ELSE f - x
    BY <1>1, <2>1
  <2> HIDE DEF x
  <2>5. PICK m \in Nat : x = p * m
    BY <1>7, <2>3, Multiples DEF p
  <2>6. m < n
    BY <1>9, <2>3, <2>5
  <2>7. i = At(s, m)
    BY <1>10, <2>4, <2>5
  <2>8. m \in 0..(n - 1)
    BY <1>9, <2>6
  <2> QED BY <2>7, <2>8
<1> QED BY <1>4, <1>8, <1>12, <1>13 DEF n

\* The length of a dimension is the size of its subset.
LEMMA LengthIsSize ==
    ASSUME NEW token \in Tokens, NEW dim \in 0..(Half - 1), Regular(token, dim),
           token.kind = "index" => token.start # Omitted,
           NEW s, s = Parsed(token, dim)
    PROVE  Cardinality(Selected(token, dim)) = Size(s)
<1> DEFINE S == Selected(token, dim)
           n == Size(s)
           f == [i \in S |-> n - Left(s, i)]
<1>1. /\ Proper(s, dim) /\ n # 0
      /\ \A i : i \in S <=> \E m \in 0..(n - 1) : i = At(s, m)
  BY SelectedAre
<1>2. n \in Nat \ {0} /\ \A m \in 0..(n - 1) : Left(s, At(s, m)) = n - m
  BY <1>1, LeftAt
<1>3. ASSUME NEW i \in S, NEW m \in 0..(n - 1), i = At(s, m) PROVE f[i] = m
  <2>1. Left(s, i) = n - m
    BY <1>2, <1>3
  <2> QED BY <1>2, <2>1
<1> HIDE DEF S, n, f
<1>4. DOMAIN f = S /\ f = [i \in S |-> f[i]]
  BY DEF f
<1>5. ASSUME NEW i \in S PROVE f[i] \in 0..(n - 1) /\ i = At(s, f[i])
  <2>1. PICK m \in 0..(n - 1) : i = At(s, m)
    BY <1>1
  <2> QED BY <1>3, <2>1
<1>6. f \in [S -> 0..(n - 1)]
  BY <1>4, <1>5
<1>7. \A i, j \in S : f[i] = f[j] => i = j
  BY <1>5
<1>8. ASSUME NEW k \in 0..(n - 1) PROVE \E i \in S : f[i] = k
  <2>1. At(s, k) \in S
    BY <1>1
  <2> QED BY <1>3, <2>1
<1>9. Cardinality(S) = n
  BY <1>2, <1>6, <1>7, <1>8, Numbered
<1> QED BY <1>9 DEF S, n

\* A step along a range that goes on is to its next position.
LEMMA BumpIs ==
    ASSUME NEW dim \in 0..(Half - 1), NEW s, Proper(s, dim), Size(s) # 0,
           NEW m \in 0..(Size(s) - 1), GoesOn(s, dim, At(s, m))
    PROVE  m + 1 \in 0..(Size(s) - 1) /\ Word(At(s, m) + s.stride) = At(s, m + 1)
<1> DEFINE n == Size(s)
           c == At(s, m)
           next == Word(c + s.stride)
<1>1. /\ n \in Nat \ {0} /\ s.start \in Nat /\ s.stride \in Int
      /\ \A k \in 0..(n - 1) :
           At(s, k) \in 0..(dim - 1) /\ Left(s, At(s, k)) = n - k /\ Gap(s, At(s, k)) \in Nat \ {0}
  BY LeftAt
<1>2. c \in Words /\ c < dim /\ Gap(s, c) \in Nat \ {0} /\ Left(s, c) = n - m
  BY <1>1, SliceAssumption DEF Words, WordSize
<1>3. next \in Words /\ next < dim /\ Gap(s, next) \in Nat \ {0} /\ Left(s, next) = Left(s, c) - 1
  BY <1>2, Turn
<1>4. Left(s, next) \in Nat \ {0}
  BY <1>3, Turn
<1> HIDE DEF c, next, n
<1>5. m + 1 \in 0..(n - 1)
  <2>1. m \in 0..(n - 1)
    BY DEF n
  <2> QED BY <1>1, <1>2, <1>3, <1>4, <2>1
<1>6. c + s.stride = At(s, m + 1)
  <2>1. m \in Int /\ s.stride * m \in Int
    BY <1>1, <1>5
  <2>2. s.stride * (m + 1) = s.stride * m + s.stride
    BY <1>1, <2>1
  <2>3. c = s.start + s.stride * m /\ At(s, m + 1) = s.start + s.stride * (m + 1)
    BY DEF c, At
  <2> DEFINE x == s.stride * m
  <2>4. x \in Int /\ c = s.start + x /\ At(s, m + 1) = s.start + (x + s.stride)
    BY <2>1, <2>2, <2>3
  <2> HIDE DEF x
  <2> QED BY <1>1, <2>4
<1>7. At(s, m + 1) \in 0..(dim - 1)
  BY <1>1, <1>5
<1>8. Word(At(s, m + 1)) = At(s, m + 1)
  BY <1>7, SliceAssumption DEF Word, WordSize
<1> QED BY <1>5, <1>6, <1>8 DEF c, next, n

(***************************************************************************)
(* The dimensions that are kept                                            *)
(***************************************************************************)
\* q holds the lengths above one of the first n, taken from the positions at.
Keeps(at, q, lengths, n) ==
    /\ at \in [DOMAIN q -> 1..n]
    /\ {at[k] : k \in DOMAIN q} = {d \in 1..n : lengths[d] > 1}
    /\ \A j, k \in DOMAIN q : j < k => at[j] < at[k]
    /\ \A k \in DOMAIN q : q[k] = lengths[at[k]]

LEMMA KeepsOneMore ==
    ASSUME NEW k \in Nat, NEW lengths, NEW q \in Seq(Nat), NEW at, Keeps(at, q, lengths, k),
           lengths[k + 1] > 1, lengths[k + 1] \in Nat
    PROVE  \E to : Keeps(to, Append(q, lengths[k + 1]), lengths, k + 1)
<1> DEFINE n == Len(q)
           p == Append(q, lengths[k + 1])
           to == [j \in 1..(n + 1) |-> IF j <= n THEN at[j] ELSE k + 1]
<1>1. /\ n \in Nat /\ DOMAIN q = 1..n /\ DOMAIN p = 1..(n + 1)
      /\ p[n + 1] = lengths[k + 1] /\ \A j \in 1..n : p[j] = q[j]
  BY LenProperties
<1>2. /\ at \in [1..n -> 1..k]
      /\ {at[j] : j \in 1..n} = {d \in 1..k : lengths[d] > 1}
      /\ \A i, j \in 1..n : i < j => at[i] < at[j]
      /\ \A j \in 1..n : q[j] = lengths[at[j]]
  BY <1>1 DEF Keeps
<1> HIDE DEF n, p
<1>3. /\ \A j \in 1..n : j \in 1..(n + 1) /\ to[j] = at[j] /\ to[j] \in 1..k
      /\ n + 1 \in 1..(n + 1) /\ to[n + 1] = k + 1
      /\ \A j \in 1..(n + 1) : j \in 1..n \/ j = n + 1
  <2>1. n \in Nat
    BY <1>1
  <2>2. ASSUME NEW j \in 1..n PROVE j \in 1..(n + 1) /\ to[j] = at[j] /\ at[j] \in 1..k
    BY <1>2, <2>1
  <2>3. n + 1 \in 1..(n + 1) /\ to[n + 1] = k + 1
    BY <2>1
  <2>4. \A j \in 1..(n + 1) : j \in 1..n \/ j = n + 1
    BY <2>1
  <2> QED BY <2>2, <2>3, <2>4
<1> HIDE DEF to
<1>4. to \in [1..(n + 1) -> 1..(k + 1)]
  <2>1. ASSUME NEW j \in 1..(n + 1) PROVE to[j] \in 1..(k + 1)
    BY <1>3
  <2> QED BY <2>1 DEF to
<1>5. {to[j] : j \in 1..(n + 1)} = {d \in 1..(k + 1) : lengths[d] > 1}
  <2>1. ASSUME NEW j \in 1..(n + 1) PROVE to[j] \in {d \in 1..(k + 1) : lengths[d] > 1}
    <3>1. CASE j \in 1..n
      <4>1. at[j] \in {d \in 1..k : lengths[d] > 1} /\ to[j] = at[j]
        BY <1>2, <1>3, <3>1
      <4> QED BY <4>1
    <3>2. CASE j = n + 1
      BY <1>3, <3>2
    <3> QED BY <1>3, <3>1, <3>2
  <2>2. ASSUME NEW d \in 1..(k + 1), lengths[d] > 1 PROVE \E j \in 1..(n + 1) : to[j] = d
    <3>1. CASE d = k + 1
      BY <1>3, <3>1
    <3>2. CASE d # k + 1
      <4>1. d \in {c \in 1..k : lengths[c] > 1}
        BY <2>2, <3>2
      <4>2. PICK j \in 1..n : at[j] = d
        BY <1>2, <4>1
      <4> QED BY <1>3, <4>2
    <3> QED BY <3>1, <3>2
  <2> QED BY <2>1, <2>2
<1>6. ASSUME NEW i \in 1..(n + 1), NEW j \in 1..(n + 1), i < j PROVE to[i] < to[j]
  <2>1. i \in 1..n
    BY <1>1, <1>6
  <2>2. CASE j \in 1..n
    BY <1>2, <1>3, <1>6, <2>1, <2>2
  <2>3. CASE j = n + 1
    BY <1>3, <2>1, <2>3
  <2> QED BY <1>3, <2>2, <2>3
<1>7. ASSUME NEW j \in 1..(n + 1) PROVE p[j] = lengths[to[j]]
  BY <1>1, <1>2, <1>3
<1>8. Keeps(to, p, lengths, k + 1)
  BY <1>1, <1>4, <1>5, <1>6, <1>7 DEF Keeps
<1> QED BY <1>8 DEF p

\* new_shape holds the lengths above one, in their order.
LEMMA LongerKeeps ==
    ASSUME NEW n \in Nat, NEW lengths \in [1..n -> Nat], Len(lengths) = n
    PROVE  \E at : Keeps(at, Longer(lengths), lengths, n)
<1>1. PICK run : Collected(run, lengths, n) /\ Longer(lengths) = run[n]
  BY LongerIs
<1> DEFINE S == {k \in Nat : \E at : Keeps(at, run[k], lengths, k)}
<1>2. 0 \in S
  <2> DEFINE at == [j \in {} |-> 0]
  <2>1. run[0] = << >> /\ DOMAIN run[0] = {}
    BY <1>1, EmptySeq, LenProperties DEF Collected
  <2>2. at \in [DOMAIN run[0] -> 1..0]
    BY <2>1
  <2>3. {at[k] : k \in DOMAIN run[0]} = {d \in 1..0 : lengths[d] > 1}
    BY <2>1
  <2> HIDE DEF at
  <2>4. Keeps(at, run[0], lengths, 0)
    BY <2>1, <2>2, <2>3 DEF Keeps
  <2> QED BY <2>4
<1>3. ASSUME NEW k \in 0..n, k < n, k \in S PROVE k + 1 \in S
  <2>1. k + 1 \in 1..n /\ (k + 1) - 1 = k /\ k + 1 \in Nat /\ k \in Nat
    BY <1>3
  <2>2. PICK at : Keeps(at, run[k], lengths, k)
    BY <1>3
  <2>3. run[k] \in Seq(Nat) /\ lengths[k + 1] \in Nat
    BY <1>1, <2>1 DEF Collected
  <2>4. run[k + 1] = IF lengths[k + 1] > 1 THEN Append(run[k], lengths[k + 1]) ELSE run[k]
    BY <1>1, <2>1 DEF Collected
  <2>5. \E to : Keeps(to, run[k + 1], lengths, k + 1)
    <3>1. CASE lengths[k + 1] > 1
      <4>1. \E to : Keeps(to, Append(run[k], lengths[k + 1]), lengths, k + 1)
        BY <2>1, <2>2, <2>3, <3>1, KeepsOneMore
      <4> QED BY <2>4, <3>1, <4>1
    <3>2. CASE ~(lengths[k + 1] > 1)
      <4>1. run[k + 1] = run[k]
        BY <2>4, <3>2
      <4>2. 1..k \subseteq 1..(k + 1) /\ \A d \in 1..(k + 1) : d \in 1..k \/ d = k + 1
        BY <2>1
      <4>3. {d \in 1..(k + 1) : lengths[d] > 1} = {d \in 1..k : lengths[d] > 1}
        BY <3>2, <4>2
      <4>4. at \in [DOMAIN run[k] -> 1..(k + 1)]
        BY <2>2, <4>2 DEF Keeps
      <4>5. Keeps(at, run[k + 1], lengths, k + 1)
        BY <2>2, <4>1, <4>3, <4>4 DEF Keeps
      <4> QED BY <4>5
    <3> QED BY <3>1, <3>2
  <2> QED BY <2>1, <2>5
<1> HIDE DEF S
<1>4. \A k \in 0..n : k \in S
  BY <1>2, <1>3, Upwards
<1>5. n \in S
  BY <1>4
<1> QED BY <1>1, <1>5 DEF S

(***************************************************************************)
(* The selection                                                           *)
(***************************************************************************)
\* Each subset is the one of its part of the string.
FromSlice ==
    Len(subsets) <= Len(slice) /\ \A d \in 1..Len(subsets) : subsets[d] = Parsed(slice[d], shape[d])

\* x stands on a position of each range,
OnRanges(x) == \A d \in Dims : \E m \in 0..(Sizes[d] - 1) : x[d] = At(subsets[d], m)

LeftsOf(x) == [d \in Dims |-> Left(subsets[d], x[d])]

\* and k tuples come before it.
HasRank(x, k) == \E r : Ranked(r, Len(shape), Sizes, LeftsOf(x)) /\ r[Len(shape)] = k

\* Once measured, the walk goes through the selection in its order; what comes out of
\* Copy are the offsets of all of it.
Selecting ==
    /\ FromSlice
    /\ phase \in {"walk", "copy"} \/ (phase = "done" /\ shape # << >>) =>
         Len(subsets) = Len(shape) /\ kept = Longer(Sizes)
    /\ phase = "walk" /\ Proceeds => OnRanges(current)
    /\ phase \in {"walk", "copy", "done"} /\ Proceeds =>
         \A k \in 1..Len(indices) : OnRanges(indices[k]) /\ HasRank(indices[k], k - 1)
    /\ phase = "done" /\ shape # << >> =>
         /\ elements = [k \in DOMAIN indices |-> Offset(indices[k])]
         /\ Proceeds => Len(indices) = Product(Sizes)

\* A part is parsed.
LEMMA SelectingParses ==
    ASSUME IInv, Selecting, ParseToken
    PROVE  Selecting'
<1>1. /\ subsets \in Seq(Subsets) /\ Len(subsets) \in Nat /\ Len(subsets) < Len(slice)
      /\ phase = "parse" /\ phase' = "parse" /\ slice' = slice /\ shape' = shape
      /\ subsets' = Append(subsets, Parsed(Token, Dim))
  BY DEF IInv, Validated, ParseToken, Unparsed
<1> DEFINE k == Len(subsets) + 1
           s == Parsed(Token, Dim)
<1>2. s = Parsed(slice[k], shape[k])
  BY DEF Token, Dim
<1> HIDE DEF s
<1>3. /\ Len(subsets') = k /\ subsets'[k] = s
      /\ \A d \in 1..Len(subsets) : subsets'[d] = subsets[d]
  BY <1>1 DEF s
<1>4. Len(slice) \in Nat
  BY LenProperties DEF IInv, Shaped
<1>5. ASSUME NEW d \in 1..k PROVE subsets'[d] = Parsed(slice[d], shape[d])
  <2>1. CASE d = k
    BY <1>2, <1>3, <2>1
  <2>2. CASE d # k
    BY <1>1, <1>3, <2>2 DEF Selecting, FromSlice
  <2> QED BY <2>1, <2>2
<1> QED BY <1>1, <1>3, <1>4, <1>5 DEF Selecting, FromSlice

\* The walk starts on the first positions.
LEMMA SelectingStarts ==
    ASSUME IInv, Selecting, Measure
    PROVE  Selecting'
<1>1. /\ phase' = "walk" /\ subsets' = subsets /\ shape' = shape /\ slice' = slice
      /\ indices' = << >> /\ current' = [d \in Dims |-> subsets[d].start]
      /\ Len(subsets) = Len(shape) /\ kept' = Longer(Sizes)
  BY DEF Measure, Starts, ParsedAll, IInv, Walked
<1>2. /\ Dims' = Dims /\ Sizes' = Sizes /\ Proceeds' = Proceeds
  BY <1>1 DEF Dims, Sizes, Proceeds, Escapes
<1>3. ASSUME Proceeds, NEW d \in Dims
      PROVE  \E m \in 0..(Sizes[d] - 1) : current'[d] = At(subsets[d], m)
  <2>1. Proper(subsets[d], shape[d]) /\ shape[d] \in 0..(Half - 1)
    BY <1>1, <1>3, Sizing DEF Proceeds
  <2>2. Sizes[d] = Size(subsets[d]) /\ Size(subsets[d]) # 0
    BY <1>3 DEF Proceeds, Sizes
  <2>3. Size(subsets[d]) \in Nat \ {0} /\ subsets[d].start \in Nat /\ subsets[d].stride \in Int
    BY <2>1, <2>2, LeftAt
  <2>4. At(subsets[d], 0) = subsets[d].start
    BY <2>3 DEF At
  <2>5. 0 \in 0..(Sizes[d] - 1)
    BY <2>2, <2>3
  <2> QED BY <1>1, <2>4, <2>5
<1>4. Proceeds => OnRanges(current)'
  BY <1>1, <1>2, <1>3 DEF OnRanges
<1>5. \A k \in 1..Len(indices') : FALSE
  BY <1>1, EmptySeq
<1>6. FromSlice'
  BY <1>1 DEF Selecting, FromSlice
<1> QED BY <1>1, <1>2, <1>4, <1>5, <1>6 DEF Selecting

\* The tuple recorded is the odometer's, with its rank.
LEMMA SelectingRecords ==
    ASSUME IInv, WalkInv, Selecting, phase = "walk", Proceeds,
           NEW more, more = Append(indices, current)
    PROVE  \A k \in 1..Len(more) : OnRanges(more[k]) /\ HasRank(more[k], k - 1)
<1>1. indices \in Seq([Dims -> Words]) /\ current \in [Dims -> Words]
  BY DEF IInv, Walked
<1>2. /\ Len(more) = Len(indices) + 1 /\ Len(indices) \in Nat
      /\ more[Len(indices) + 1] = current /\ \A k \in 1..Len(indices) : more[k] = indices[k]
  BY <1>1
<1>3. OnRanges(current) /\ HasRank(current, Len(indices))
  BY DEF Selecting, WalkInv, HasRank, Lefts, LeftsOf
<1>4. \A k \in 1..Len(indices) : OnRanges(indices[k]) /\ HasRank(indices[k], k - 1)
  BY DEF Selecting
<1>5. ASSUME NEW k \in 1..Len(more) PROVE OnRanges(more[k]) /\ HasRank(more[k], k - 1)
  <2>1. CASE k = Len(indices) + 1
    <3>1. k - 1 = Len(indices) /\ more[k] = current
      BY <1>2, <2>1
    <3> QED BY <1>3, <3>1
  <2>2. CASE k # Len(indices) + 1
    BY <1>2, <1>4, <2>2
  <2> QED BY <2>1, <2>2
<1> QED BY <1>5

\* The odometer moves on to the next position of a range, and to the first of those after.
LEMMA SelectingGoesOn ==
    ASSUME IInv, WalkInv, Selecting, Advance
    PROVE  Selecting'
<1>1. /\ phase = "walk" /\ phase' = "walk" /\ subsets' = subsets /\ shape' = shape
      /\ slice' = slice /\ kept' = kept /\ indices' = Append(indices, current)
      /\ Len(subsets) = Len(shape)
  BY DEF Advance, WalkInv
<1>2. /\ Dims' = Dims /\ Sizes' = Sizes /\ Proceeds' = Proceeds
  BY <1>1 DEF Dims, Sizes, Proceeds, Escapes
<1>3. PICK e \in Dims :
        /\ Carries(e)
        /\ current' = [d \in Dims |-> IF d < e THEN current[d]
                                      ELSE IF d = e THEN Bump(e) ELSE subsets[d].start]
  BY DEF Advance
<1>4. ASSUME Proceeds, NEW d \in Dims
      PROVE  \E m \in 0..(Sizes[d] - 1) : current'[d] = At(subsets[d], m)
  <2>1. Proper(subsets[d], shape[d]) /\ shape[d] \in 0..(Half - 1)
    BY <1>1, <1>4, Sizing DEF Proceeds
  <2>2. Sizes[d] = Size(subsets[d]) /\ Size(subsets[d]) # 0
    BY <1>4 DEF Proceeds, Sizes
  <2>3. PICK m \in 0..(Sizes[d] - 1) : current[d] = At(subsets[d], m)
    BY <1>1, <1>4 DEF Selecting, OnRanges
  <2>4. CASE d < e
    BY <1>3, <2>3, <2>4
  <2>5. CASE d = e
    <3>1. GoesOn(subsets[d], shape[d], At(subsets[d], m))
      BY <1>3, <2>3, <2>5 DEF Carries, Within, GoesOn, Bump
    <3>2. m + 1 \in 0..(Sizes[d] - 1) /\ Bump(d) = At(subsets[d], m + 1)
      BY <2>1, <2>2, <2>3, <3>1, BumpIs DEF Bump
    <3>3. d \in Nat /\ ~(d < e)
      BY <1>1, <2>5, Sizing
    <3> QED BY <1>3, <2>5, <3>2, <3>3
  <2>6. CASE ~(d < e) /\ d # e
    <3>1. Size(subsets[d]) \in Nat \ {0} /\ subsets[d].start \in Nat /\ subsets[d].stride \in Int
      BY <2>1, <2>2, LeftAt
    <3>2. At(subsets[d], 0) = subsets[d].start /\ 0 \in 0..(Sizes[d] - 1)
      BY <2>2, <3>1 DEF At
    <3> QED BY <1>3, <2>6, <3>2
  <2> QED BY <2>4, <2>5, <2>6
<1>5. Proceeds => OnRanges(current)'
  BY <1>1, <1>2, <1>4 DEF OnRanges
<1>6. Proceeds => \A k \in 1..Len(indices') : OnRanges(indices'[k]) /\ HasRank(indices'[k], k - 1)
  BY <1>1, SelectingRecords
<1>7. Proceeds => \A k \in 1..Len(indices') : OnRanges(indices[k])' /\ HasRank(indices[k], k - 1)'
  BY <1>1, <1>2, <1>6 DEF OnRanges, HasRank, LeftsOf
<1>8. FromSlice' /\ kept' = Longer(Sizes)
  BY <1>1 DEF Selecting, FromSlice
<1> QED BY <1>1, <1>2, <1>5, <1>7, <1>8 DEF Selecting

LEMMA SelectingEnds ==
    ASSUME IInv, WalkInv, Selecting, WalkEnds
    PROVE  Selecting'
<1>1. /\ phase = "walk" /\ phase' = "copy" /\ subsets' = subsets /\ shape' = shape
      /\ slice' = slice /\ kept' = kept /\ indices' = Append(indices, current)
      /\ Len(subsets) = Len(shape)
  BY DEF WalkEnds, WalkInv
<1>2. /\ Dims' = Dims /\ Sizes' = Sizes /\ Proceeds' = Proceeds
  BY <1>1 DEF Dims, Sizes, Proceeds, Escapes
<1>3. Proceeds => \A k \in 1..Len(indices') : OnRanges(indices'[k]) /\ HasRank(indices'[k], k - 1)
  BY <1>1, SelectingRecords
<1>4. Proceeds => \A k \in 1..Len(indices') : OnRanges(indices[k])' /\ HasRank(indices[k], k - 1)'
  BY <1>1, <1>2, <1>3 DEF OnRanges, HasRank, LeftsOf
<1>5. FromSlice' /\ kept' = Longer(Sizes)
  BY <1>1 DEF Selecting, FromSlice
<1> QED BY <1>1, <1>2, <1>4, <1>5 DEF Selecting

LEMMA SelectingCopies ==
    ASSUME IInv, WalkInv, Selecting, Copy
    PROVE  Selecting'
<1>1. /\ phase = "copy" /\ phase' = "done" /\ subsets' = subsets /\ shape' = shape
      /\ slice' = slice /\ kept' = kept /\ indices' = indices
      /\ elements' = [k \in DOMAIN indices |-> Offset(indices[k])]
      /\ Len(subsets) = Len(shape) /\ (Proceeds => Len(indices) = Product(Sizes))
  BY DEF Copy, WalkInv
<1>2. /\ Dims' = Dims /\ Sizes' = Sizes /\ Proceeds' = Proceeds /\ Factors' = Factors
  BY <1>1 DEF Dims, Sizes, Proceeds, Escapes, Factors
<1>3. Proceeds => \A k \in 1..Len(indices') : OnRanges(indices[k])' /\ HasRank(indices[k], k - 1)'
  BY <1>1, <1>2 DEF Selecting, OnRanges, HasRank, LeftsOf
<1>4. elements' = [k \in DOMAIN indices |-> Offset(indices[k])]'
  BY <1>1, <1>2 DEF Offset
<1>5. FromSlice' /\ kept' = Longer(Sizes)
  BY <1>1 DEF Selecting, FromSlice
<1> QED BY <1>1, <1>2, <1>3, <1>4, <1>5 DEF Selecting

LEMMA SelectingInductive == IInv /\ WalkInv /\ Selecting /\ [Next]_vars => Selecting'
<1> SUFFICES ASSUME IInv, WalkInv, Selecting, [Next]_vars PROVE Selecting'
  OBVIOUS
<1>1. CASE RejectToken \/ RejectCount
  BY <1>1 DEF Selecting, FromSlice, RejectToken, RejectCount, Fail
<1>2. CASE KeepScalar
  <2>1. indices = << >> /\ \A k \in 1..Len(indices) : FALSE
    BY <1>2, EmptySeq DEF IInv, Walked, KeepScalar, ParsedAll
  <2> QED BY <1>2, <2>1 DEF Selecting, FromSlice, KeepScalar
<1>3. CASE Stopped \/ UNCHANGED vars
  <2>1. UNCHANGED vars
    BY <1>3 DEF Stopped
  <2>2. Dims' = Dims /\ Sizes' = Sizes /\ Proceeds' = Proceeds /\ Factors' = Factors
    BY <2>1 DEF vars, Dims, Sizes, Proceeds, Escapes, Factors
  <2>3. \A x : OnRanges(x)' = OnRanges(x) /\ Offset(x)' = Offset(x)
    BY <2>1, <2>2 DEF vars, OnRanges, Offset
  <2> QED BY <2>1, <2>2 DEF vars, Selecting, FromSlice, OnRanges, HasRank, LeftsOf, Offset
<1> QED BY <1>1, <1>2, <1>3, SelectingParses, SelectingStarts, SelectingGoesOn, SelectingEnds,
           SelectingCopies DEF Next, Step

\* What is known of a regular slice once it is measured.
RegularWalk ==
    /\ Len(subsets) = Len(shape) /\ shape # << >> /\ phase = "done" /\ RegularSlice

LEMMA RegularDims ==
    ASSUME IInv, Selecting, RegularWalk, NEW d \in Dims
    PROVE  /\ shape[d] \in 0..(Half - 1) /\ Proper(subsets[d], shape[d])
           /\ Sizes[d] = Size(subsets[d]) /\ Sizes[d] \in Nat \ {0} /\ ~Escapes(d)
           /\ \A i : i \in Selected(slice[d], shape[d])
                        <=> \E m \in 0..(Sizes[d] - 1) : i = At(subsets[d], m)
           /\ \A m \in 0..(Sizes[d] - 1) :
                /\ At(subsets[d], m) \in 0..(shape[d] - 1)
                /\ Left(subsets[d], At(subsets[d], m)) = Sizes[d] - m
           /\ Length(d) = Sizes[d]
           /\ subsets[d].start \in Nat /\ subsets[d].stride \in Int /\ subsets[d].stride # 0
           /\ subsets[d].stride = Stride(slice[d])
<1>1. /\ slice \in Seq(Tokens) /\ Len(slice) = Len(shape) /\ d \in 1..Len(slice) /\ d \in 1..Len(subsets)
      /\ Regular(slice[d], shape[d]) /\ shape[d] \in 0..(Half - 1)
  BY Sizing DEF RegularWalk, RegularSlice, IInv, Shaped
<1>2. /\ slice[d] \in Tokens /\ (slice[d].kind = "index" => slice[d].start # Omitted)
      /\ subsets[d] = Parsed(slice[d], shape[d])
  BY <1>1, ElementOfSeq DEF IInv, Shaped, Selecting, FromSlice
<1>3. /\ Proper(subsets[d], shape[d]) /\ Size(subsets[d]) # 0
      /\ \A i : i \in Selected(slice[d], shape[d])
                   <=> \E m \in 0..(Size(subsets[d]) - 1) : i = At(subsets[d], m)
  BY <1>1, <1>2, SelectedAre
<1>4. Cardinality(Selected(slice[d], shape[d])) = Size(subsets[d])
  BY <1>1, <1>2, LengthIsSize
<1>5. Sizes[d] = Size(subsets[d])
  BY DEF Sizes
<1>6. /\ Size(subsets[d]) \in Nat \ {0} /\ subsets[d].start \in Nat /\ subsets[d].stride \in Int
      /\ \A m \in 0..(Size(subsets[d]) - 1) :
           /\ At(subsets[d], m) \in 0..(shape[d] - 1)
           /\ Left(subsets[d], At(subsets[d], m)) = Size(subsets[d]) - m
  BY <1>1, <1>3, LeftAt
<1>7. subsets[d].stride # 0 /\ ~Escapes(d)
  BY <1>3 DEF Proper, Escapes
<1>8. subsets[d].stride = Stride(slice[d])
  BY <1>1, <1>2, RegularParts
<1> QED BY <1>1, <1>3, <1>4, <1>5, <1>6, <1>7, <1>8 DEF Length

\* A tuple of positions is in the array, and each of its dimensions has positions left.
LEMMA OnRangesIs ==
    ASSUME IInv, Selecting, RegularWalk, NEW x, OnRanges(x)
    PROVE  /\ InRange(Len(shape), Sizes, LeftsOf(x))
           /\ \A d \in Dims : /\ x[d] \in 0..(shape[d] - 1) /\ x[d] \in Selected(slice[d], shape[d])
                              /\ LeftsOf(x)[d] = Left(subsets[d], x[d])
                              /\ x[d] = At(subsets[d], Sizes[d] - LeftsOf(x)[d])
           /\ x \in [Dims -> Words] => x \in Tuples
<1>1. Dims = 1..Len(shape) /\ Half \in Nat
  BY Sizing, SliceAssumption DEF RegularWalk
<1>2. ASSUME NEW d \in Dims
      PROVE  /\ x[d] \in 0..(shape[d] - 1) /\ x[d] \in Selected(slice[d], shape[d])
             /\ LeftsOf(x)[d] = Left(subsets[d], x[d])
             /\ LeftsOf(x)[d] \in 1..Sizes[d]
             /\ x[d] = At(subsets[d], Sizes[d] - LeftsOf(x)[d])
             /\ shape[d] \in 0..(Half - 1)
  <2>1. PICK m \in 0..(Sizes[d] - 1) : x[d] = At(subsets[d], m)
    BY DEF OnRanges
  <2>2. /\ Sizes[d] \in Nat \ {0} /\ shape[d] \in 0..(Half - 1)
        /\ x[d] \in 0..(shape[d] - 1) /\ Left(subsets[d], x[d]) = Sizes[d] - m
        /\ x[d] \in Selected(slice[d], shape[d])
    BY <2>1, RegularDims
  <2>3. LeftsOf(x)[d] = Left(subsets[d], x[d])
    BY DEF LeftsOf
  <2>4. Sizes[d] - m \in 1..Sizes[d] /\ Sizes[d] - (Sizes[d] - m) = m
    BY <2>2
  <2> QED BY <2>1, <2>2, <2>3, <2>4
<1>3. InRange(Len(shape), Sizes, LeftsOf(x))
  BY <1>1, <1>2 DEF InRange
<1>4. ASSUME x \in [Dims -> Words] PROVE x \in Tuples
  <2>1. ASSUME NEW d \in Dims PROVE x[d] \in 0..(Half - 1) /\ x[d] < shape[d]
    BY <1>1, <1>2
  <2>2. x \in [Dims -> 0..(Half - 1)]
    BY <1>4, <2>1
  <2> QED BY <1>2, <2>1, <2>2 DEF Tuples, Box
<1> QED BY <1>2, <1>3, <1>4

\* Each tuple of the selection comes out.
LEMMA AllComeOut ==
    ASSUME IInv, Selecting, RegularWalk, NEW x \in Tuples
    PROVE  \E k \in 1..Len(indices) : indices[k] = x
<1> DEFINE n == Len(shape)
<1>1. /\ n \in Nat /\ Dims = 1..n /\ Sizes \in [1..n -> Nat]
  BY Sizing, RegularDims DEF RegularWalk, Proceeds
<1>2. Proceeds
  BY RegularDims DEF Proceeds
<1>3. OnRanges(x)
  BY RegularDims DEF Tuples, OnRanges
<1>4. InRange(n, Sizes, LeftsOf(x))
  BY <1>3, OnRangesIs
<1>5. PICK r : Ranked(r, n, Sizes, LeftsOf(x))
  BY <1>1, <1>4, RankExists
<1>6. PICK p : Multiplied(p, Sizes, n) /\ Product(Sizes) = p[n]
  BY <1>2, Sizing DEF RegularWalk
<1>7. r[n] < p[n] /\ r[n] \in Nat
  <2>1. ASSUME NEW d \in 1..n PROVE LeftsOf(x)[d] \in Nat \ {0}
    BY <1>4 DEF InRange
  <2> HIDE DEF n
  <2>2. r[n] < p[n]
    BY <1>1, <1>5, <1>6, <2>1, RankBelow
  <2> QED BY <1>1, <1>5, <2>2 DEF Ranked
<1>8. Len(indices) = p[n] /\ Len(indices) \in Nat
  BY <1>2, <1>6, LenProperties DEF Selecting, RegularWalk, IInv, Walked
<1> DEFINE k == r[n] + 1
           y == indices[k]
<1>9. k \in 1..Len(indices) /\ k - 1 = r[n]
  BY <1>7, <1>8
<1>10. OnRanges(y) /\ HasRank(y, k - 1)
  BY <1>2, <1>9 DEF Selecting, RegularWalk
<1>11. y \in [Dims -> Words]
  BY <1>9, ElementOfSeq DEF IInv, Walked
<1> HIDE DEF y, k, n
<1>12. PICK q : Ranked(q, n, Sizes, LeftsOf(y)) /\ q[n] = r[n]
  BY <1>9, <1>10 DEF HasRank, n
<1>13. InRange(n, Sizes, LeftsOf(y))
  BY <1>10, OnRangesIs DEF n
<1>14. \A d \in 1..n : LeftsOf(y)[d] = LeftsOf(x)[d]
  BY <1>1, <1>4, <1>5, <1>12, <1>13, RankInjective
<1>15. ASSUME NEW d \in Dims PROVE y[d] = x[d]
  <2>1. x[d] = At(subsets[d], Sizes[d] - LeftsOf(x)[d])
    BY <1>3, OnRangesIs
  <2>2. y[d] = At(subsets[d], Sizes[d] - LeftsOf(y)[d])
    BY <1>10, OnRangesIs
  <2> QED BY <1>1, <1>14, <2>1, <2>2
<1>16. x \in [Dims -> 0..(Half - 1)]
  BY DEF Tuples, Box
<1>17. y = x
  BY <1>11, <1>15, <1>16
<1> QED BY <1>9, <1>17 DEF y

\* One tuple after another comes out in the order of the slice.
LEMMA InOrder ==
    ASSUME IInv, Selecting, RegularWalk, NEW k \in 1..(Len(indices) - 1)
    PROVE  Before(indices[k], indices[k + 1])
<1> DEFINE n == Len(shape)
           x == indices[k]
           y == indices[k + 1]
<1>1. n \in Nat /\ Dims = 1..n /\ Sizes \in [1..n -> Nat] /\ Proceeds
  BY Sizing, RegularDims DEF RegularWalk, Proceeds
<1>2. /\ Len(indices) \in Nat /\ k \in Nat /\ k \in 1..Len(indices) /\ k + 1 \in 1..Len(indices)
      /\ (k + 1) - 1 = k
  BY LenProperties DEF IInv, Walked
<1>3. OnRanges(x) /\ HasRank(x, k - 1) /\ OnRanges(y) /\ HasRank(y, k)
  BY <1>1, <1>2 DEF Selecting, RegularWalk
<1> HIDE DEF n, x, y
<1>4. PICK r : Ranked(r, n, Sizes, LeftsOf(x)) /\ r[n] = k - 1
  BY <1>3 DEF HasRank, n
<1>5. PICK q : Ranked(q, n, Sizes, LeftsOf(y)) /\ q[n] = k
  BY <1>3 DEF HasRank, n
<1>6. InRange(n, Sizes, LeftsOf(x)) /\ InRange(n, Sizes, LeftsOf(y))
  BY <1>3, OnRangesIs DEF n
<1>7. ~\A d \in 1..n : LeftsOf(x)[d] = LeftsOf(y)[d]
  <2>1. SUFFICES ASSUME \A d \in 1..n : LeftsOf(x)[d] = LeftsOf(y)[d] PROVE FALSE
    OBVIOUS
  <2>2. LeftsOf(x) = LeftsOf(y)
    <3>1. /\ LeftsOf(x) = [d \in 1..n |-> LeftsOf(x)[d]]
          /\ LeftsOf(y) = [d \in 1..n |-> LeftsOf(y)[d]]
      BY <1>1 DEF LeftsOf
    <3> QED BY <2>1, <3>1
  <2>3. r[n] = q[n]
    BY <1>1, <1>4, <1>5, <2>2, RankUnique
  <2> QED BY <1>2, <1>4, <1>5, <2>3
<1>8. PICK e : FirstAt(n, LeftsOf(x), LeftsOf(y), e)
  BY <1>1, <1>7, FirstDifference
<1>9. /\ e \in 1..n /\ LeftsOf(x)[e] # LeftsOf(y)[e]
      /\ \A d \in 1..n : d < e => LeftsOf(x)[d] = LeftsOf(y)[d]
  BY <1>8 DEF FirstAt
<1>10. FirstAt(n, LeftsOf(y), LeftsOf(x), e)
  BY <1>9 DEF FirstAt
<1>11. LeftsOf(x)[e] \in Nat /\ LeftsOf(y)[e] \in Nat /\ Sizes[e] \in Nat
  BY <1>1, <1>6, <1>9 DEF InRange
<1>12. LeftsOf(x)[e] > LeftsOf(y)[e]
  <2>1. SUFFICES ASSUME LeftsOf(y)[e] > LeftsOf(x)[e] PROVE FALSE
    BY <1>9, <1>11
  <2>2. q[n] < r[n]
    BY <1>1, <1>4, <1>5, <1>6, <1>10, <2>1, RankOrder, Z3
  <2> QED BY <1>2, <1>4, <1>5, <2>2
<1>13. ASSUME NEW d \in Dims, d < e PROVE x[d] = y[d]
  <2>1. x[d] = At(subsets[d], Sizes[d] - LeftsOf(x)[d])
    BY <1>3, OnRangesIs
  <2>2. y[d] = At(subsets[d], Sizes[d] - LeftsOf(y)[d])
    BY <1>3, OnRangesIs
  <2> QED BY <1>1, <1>9, <1>13, <2>1, <2>2
<1>14. IF Stride(slice[e]) > 0 THEN x[e] < y[e] ELSE x[e] > y[e]
  <2> DEFINE a == Sizes[e] - LeftsOf(x)[e]
             b == Sizes[e] - LeftsOf(y)[e]
             s == subsets[e].stride
             f == subsets[e].start
  <2>1. a \in Int /\ b \in Int /\ a < b
    BY <1>11, <1>12
  <2>2. x[e] = f + s * a /\ y[e] = f + s * b
    BY <1>1, <1>3, <1>9, OnRangesIs DEF At
  <2>3. s \in Int /\ s # 0 /\ f \in Int /\ s = Stride(slice[e])
    BY <1>1, <1>9, RegularDims
  <2> HIDE DEF a, b, s, f
  <2> DEFINE u == s * a
             v == s * b
  <2>4. u \in Int /\ v \in Int
    BY <2>1, <2>3
  <2>5. (s > 0 => u < v) /\ (s < 0 => u > v)
    <3> DEFINE w == b - a
    <3>1. w \in Nat \ {0} /\ v = u + s * w
      BY <2>1, <2>3
    <3> HIDE DEF w
    <3>2. s > 0 => s * w > 0
      BY <2>3, <3>1
    <3>3. s < 0 => s * w < 0
      <4>1. s < 0 => (-s) * w > 0 /\ (-s) * w = -(s * w)
        BY <2>3, <3>1
      <4>2. s * w \in Int
        BY <2>3, <3>1
      <4> QED BY <4>1, <4>2
    <3>4. s * w \in Int
      BY <2>3, <3>1
    <3> DEFINE z == s * w
    <3>5. z \in Int /\ v = u + z /\ (s > 0 => z > 0) /\ (s < 0 => z < 0)
      BY <3>1, <3>2, <3>3, <3>4
    <3> HIDE DEF z, u, v
    <3> QED BY <2>4, <3>5
  <2>6. x[e] = f + u /\ y[e] = f + v
    BY <2>2
  <2> HIDE DEF u, v
  <2>7. s > 0 \/ s < 0
    BY <2>3
  <2>8. s > 0 => x[e] < y[e]
    BY <2>3, <2>4, <2>5, <2>6
  <2>9. s < 0 => x[e] > y[e] /\ ~(s > 0)
    BY <2>3, <2>4, <2>5, <2>6
  <2> QED BY <2>3, <2>7, <2>8, <2>9
<1> QED BY <1>1, <1>9, <1>13, <1>14 DEF Before, x, y

\* The new shape is what the property says of it.
LEMMA ShapeIsKept ==
    ASSUME IInv, Selecting, RegularWalk
    PROVE  KeptShape
<1> DEFINE n == Len(shape)
<1>1. n \in Nat /\ Dims = 1..n /\ Sizes \in [1..n -> Nat] /\ Len(Sizes) = n
  BY SizesType DEF RegularWalk
<1>2. kept = Longer(Sizes)
  BY DEF Selecting, RegularWalk
<1>3. PICK at : Keeps(at, kept, Sizes, n)
  BY <1>1, <1>2, LongerKeeps
<1> HIDE DEF n
<1>4. \A d \in Dims : Length(d) = Sizes[d]
  BY RegularDims
<1>5. /\ at \in [DOMAIN kept -> Dims]
      /\ {at[k] : k \in DOMAIN kept} = {d \in Dims : Sizes[d] > 1}
      /\ \A j, k \in DOMAIN kept : j < k => at[j] < at[k]
      /\ \A k \in DOMAIN kept : kept[k] = Sizes[at[k]]
  BY <1>1, <1>3 DEF Keeps
<1>6. {d \in Dims : Length(d) > 1} = {d \in Dims : Sizes[d] > 1}
  BY <1>4
<1>7. \A k \in DOMAIN kept : kept[k] = Length(at[k])
  BY <1>4, <1>5
<1> QED BY <1>5, <1>6, <1>7 DEF KeptShape

LEMMA SelectingSelects ==
    ASSUME IInv, Selecting
    PROVE  SelectsAsWritten
<1> SUFFICES ASSUME phase = "done", RegularSlice, shape # << >>
             PROVE  /\ {indices[k] : k \in DOMAIN indices} = Tuples
                    /\ \A k \in 1..(Len(indices) - 1) : Before(indices[k], indices[k + 1])
                    /\ elements = [k \in DOMAIN indices |-> RowMajor(indices[k])]
                    /\ KeptShape
  BY DEF SelectsAsWritten
<1>1. RegularWalk
  BY DEF Selecting, RegularWalk
<1>2. indices \in Seq([Dims -> Words]) /\ DOMAIN indices = 1..Len(indices)
  BY LenProperties DEF IInv, Walked
<1>3. Proceeds
  BY <1>1, RegularDims DEF Proceeds
<1>4. ASSUME NEW k \in 1..Len(indices) PROVE indices[k] \in Tuples
  <2>1. OnRanges(indices[k])
    BY <1>3 DEF Selecting
  <2>2. indices[k] \in [Dims -> Words]
    BY <1>2, ElementOfSeq
  <2> QED BY <1>1, <2>1, <2>2, OnRangesIs
<1>5. {indices[k] : k \in DOMAIN indices} = Tuples
  <2>1. \A x \in Tuples : \E k \in 1..Len(indices) : indices[k] = x
    BY <1>1, AllComeOut
  <2> QED BY <1>2, <1>4, <2>1
<1>6. \A k \in 1..(Len(indices) - 1) : Before(indices[k], indices[k + 1])
  BY <1>1, InOrder
<1>7. elements = [k \in DOMAIN indices |-> RowMajor(indices[k])]
  <2>1. ASSUME NEW k \in DOMAIN indices PROVE Offset(indices[k]) = RowMajor(indices[k])
    <3>1. indices[k] \in Box
      BY <1>2, <1>4 DEF Tuples
    <3>2. shape \in Seq(0..(Half - 1))
      BY DEF IInv, Shaped
    <3> QED BY <3>1, <3>2, OffsetIsRowMajor
  <2>2. elements = [k \in DOMAIN indices |-> Offset(indices[k])]
    BY DEF Selecting
  <2> QED BY <2>1, <2>2
<1>8. KeptShape
  BY <1>1, ShapeIsKept
<1> QED BY <1>5, <1>6, <1>7, <1>8

\* A regular slice of an array yields each element it names once, in the order of the
\* slice string and from its row-major place, in a shape without the dimensions of one
\* element: for every number of dimensions, every shape, every slice and every word.
THEOREM SlicesSelectAsWritten == Spec => []SelectsAsWritten
<1>1. Init => WalkInv /\ Selecting
  <2>1. ASSUME Init PROVE Selecting
    <3>1. slice \in Seq(Tokens) /\ Len(slice) \in Nat /\ Len(subsets) = 0
      BY <2>1, SliceAssumption, EmptySeq, LenProperties DEF Init
    <3> QED BY <2>1, <3>1 DEF Init, Selecting, FromSlice
  <2> QED BY <2>1 DEF Init, WalkInv
<1>2. Spec => [](WalkInv /\ Selecting)
  BY <1>1, WalkInductive, SelectingInductive, InductiveInvariant, PTL DEF Spec
<1> QED BY <1>2, SelectingSelects, InductiveInvariant, PTL
=============================================================================
