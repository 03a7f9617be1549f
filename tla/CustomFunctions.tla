--------------------------- MODULE CustomFunctions ---------------------------
(***************************************************************************)
(* MappingHandler::m_library_functions, a vector, and the pointers into it *)
(* that CUSTOM mappings take when they are made.  A pointer is a storage   *)
(* and a position in it: a vector that grows past its capacity moves to    *)
(* new storage, erasing an element moves those behind it.                  *)
(***************************************************************************)
EXTENDS Naturals, Sequences

CONSTANTS
    NoPointer,
    Functions,     \* LibraryFunction objects
    Name,          \* [Functions -> library and function name]
    Customs,       \* CUSTOM mappings
    FunctionOf,    \* [Customs -> the library and function name a mapping gives]
    MaxFunctions   \* bound on registered functions

VARIABLES functions, storage, capacity, pointer,
          disturbed    \* CUSTOM mappings whose pointer std::vector has invalidated

functionVars == <<functions, storage, capacity, pointer, disturbed>>

Bound == {c \in Customs : pointer[c] # NoPointer}

InitFunctions ==
    /\ functions = << >> /\ storage = 0 /\ capacity = 0
    /\ pointer = [c \in Customs |-> NoPointer] /\ disturbed = {}

\* The capacity std::vector grows to.
Grown(n) == Len(functions) + (IF Len(functions) < n THEN n ELSE Len(functions))

\* Mutant: a library's functions go to the front.
InsertFront(q) ==
    LET room == Len(functions) + Len(q) <= capacity
    IN  /\ Len(functions) + Len(q) <= MaxFunctions
        /\ functions' = q \o functions
        /\ storage' = IF room THEN storage ELSE storage + 1
        /\ capacity' = IF room THEN capacity ELSE Grown(Len(q))
        /\ disturbed' = IF room THEN disturbed ELSE disturbed \cup Bound
        /\ UNCHANGED pointer

\* register_custom_function (emplace_back) and load_custom_function_library
\* (insert at the end).
Insert(q) ==
    LET room == Len(functions) + Len(q) <= capacity
    IN  /\ Len(functions) + Len(q) <= MaxFunctions
        /\ functions' = functions \o q
        /\ storage' = IF room THEN storage ELSE storage + 1
        /\ capacity' = IF room THEN capacity ELSE Grown(Len(q))
        /\ disturbed' = IF room THEN disturbed ELSE disturbed \cup Bound
        /\ UNCHANGED pointer

\* Where find_if stops.
FirstNamed(n, i) ==
    /\ i \in DOMAIN functions /\ Name[functions[i]] = n
    /\ \A j \in 1..(i - 1) : Name[functions[j]] # n

Named(n) == \E i \in DOMAIN functions : FirstNamed(n, i)

\* unregister_custom_function; throws, changing nothing, without a match.
Unregister(n) ==
    IF Named(n)
    THEN /\ \E i \in DOMAIN functions :
                /\ FirstNamed(n, i)
                /\ functions' = SubSeq(functions, 1, i - 1) \o SubSeq(functions, i + 1, Len(functions))
                /\ disturbed' = disturbed \cup {c \in Bound : pointer[c].at >= i}
         /\ UNCHANGED <<storage, capacity, pointer>>
    ELSE UNCHANGED functionVars

Bindable == \A c \in Customs : Named(FunctionOf[c])

\* The constructors of the CUSTOM mappings: find_if from the front.
BindAll ==
    /\ pointer' = [c \in Customs |-> [storage |-> storage,
                       at |-> CHOOSE i \in DOMAIN functions : FirstNamed(FunctionOf[c], i)]]
    /\ disturbed' = {}
    /\ UNCHANGED <<functions, storage, capacity>>

Unbind == pointer' = [c \in Customs |-> NoPointer] /\ disturbed' = {}

\* What m_function designates: a function, or nothing that may be used.
Usable(c) == pointer[c].storage = storage /\ pointer[c].at \in DOMAIN functions
Target(c) == functions[pointer[c].at]
=============================================================================
