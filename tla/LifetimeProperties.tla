------------------------- MODULE LifetimeProperties -------------------------
(***************************************************************************)
(* What has to hold of the buffers, whatever is called and whichever way   *)
(* an evaluation ends.                                                     *)
(***************************************************************************)
EXTENDS ArrayLifetimes

\* The heap has room for two more buffers, and the C++ stack for the array and
\* the parameters of the call at the top.
Fits ==
    /\ \E b, c \in Buffers : b # c /\ memory.heap[b] = "free" /\ memory.heap[c] = "free"
    /\ frames # << >> => {Local(Depth)} \cup {Param(Depth, i) : i \in 1..Len(Def.deps)} \subseteq Slots

\* Every variable has its type, and there is room for the next step: objects, NumPy
\* arrays and frames designate buffers that exist (typed_data_array.hpp, fields).
LifetimeTypeOK ==
    /\ binding \in Bindings /\ memory \in Memories /\ entries \in [Keys -> Buffers \cup {None}]
    /\ pc \in {"idle", "eval", "update", "returned", "combine", "python", "deliver", "undefined"}
    /\ asked \in Names \cup {None} /\ ops \in 0..MaxOps /\ dict \subseteq memory.numpy
    /\ functions \in Seq(Functions) /\ disturbed \subseteq Bound
    /\ \A d \in 1..Depth :
         /\ frames[d].name \in Names
         /\ frames[d].done \in 0..Len(Mapping[frames[d].name].deps)
         /\ frames[d].wrapped \in 0..frames[d].done
    /\ Fits

Owning(b)  == {s \in Slots : At(s).owning /\ At(s).buffer = b}
Freeing(b) == {x \in memory.numpy : x.frees /\ x.buffer = b}

\* At most one array object or NumPy capsule will free a buffer, and the buffer
\* is allocated: no double free, however arrays are moved, cloned, sliced,
\* converted, released and wrapped (typed_data_array.hpp, wrap_array).
OwnedOnce ==
    \A b \in Buffers :
        /\ Cardinality(Owning(b)) + Cardinality(Freeing(b)) <= 1
        /\ Owning(b) # {} => memory.heap[b] \in {"malloc", "new"}
        /\ Freeing(b) # {} => memory.heap[b] # "free"

\* The variables that exist between two steps.
Alive ==
    Caches
    \cup (IF pc \in {"returned", "deliver"} THEN {Result} ELSE {})
    \cup {Local(d) : d \in 1..Depth}
    \cup UNION {{Param(d, i) : i \in 1..frames[d].done} : d \in 1..Depth}

\* Every buffer on the heap has an owner that is still to be destroyed, on the
\* error paths too, except those a failing wrap_array released.
NothingLost ==
    \A b \in Buffers :
        memory.heap[b] \in {"malloc", "new"} =>
            Owning(b) \cap Alive # {} \/ Freeing(b) # {} \/ b \in memory.lost

\* The pointers EXPR put in its symbol table designate allocated buffers that
\* its parameters hold until it returns (expr_mapping.hpp, raw_data).
RawPointersLive ==
    \A d \in 1..Depth : \A i \in DOMAIN frames[d].raw :
        /\ memory.heap[frames[d].raw[i]] # "free"
        /\ At(Param(d, i)).buffer = frames[d].raw[i]

\* A NumPy array that frees its buffer shares it with no array object: a result
\* is independent of the caches and of other results (test_memory_lifetime.py).
HeldApart ==
    \A x \in memory.numpy : x.frees => \A s \in Slots : At(s).buffer # x.buffer

\* A converted buffer, which comes from new[] and is released with free(), never
\* leaves the EXPR that converted it: nothing caches, returns or wraps one.
ConvertedStaysLocal ==
    \A b \in Buffers : memory.heap[b] = "new" =>
        /\ Freeing(b) = {}
        /\ \A s \in Owning(b) : \E d \in 1..Depth :
              /\ Mapping[frames[d].name].kind = "EXPR"
              /\ s \in {Param(d, i) : i \in 1..frames[d].done}

\* An array that borrows its buffer borrows it from an entry of the RAM cache
\* that is still there: entries outlive the evaluations they are lent to.
LentAlive ==
    \A s \in Slots : ~At(s).owning /\ At(s).buffer # None =>
        \E k \in Keys : entries[k] = At(s).buffer /\ memory.heap[At(s).buffer] = "entry"

\* As long as std::vector leaves its pointer valid, a CUSTOM mapping calls the
\* function it names, whatever was registered and unregistered since.
CallsNamedFunction ==
    \A c \in Bound \ disturbed : Usable(c) /\ Name[Target(c)] = FunctionOf[c]
=============================================================================
