--------------------------- MODULE TypedDataArray ---------------------------
(***************************************************************************)
(* libtokamap::TypedDataArray: a buffer, owned or borrowed, with a type    *)
(* and a size.  A memory is the heap, the C++ objects of the class (a      *)
(* destroyed object, an object not made yet and a default-constructed one  *)
(* are all Blank: their destructor does nothing), the NumPy arrays Python  *)
(* holds, and the buffers nobody will free any more.                       *)
(*                                                                         *)
(* Each operator is one member function: a memory to a memory.             *)
(***************************************************************************)
EXTENDS Naturals, Sequences, FiniteSets

CONSTANTS
    None,      \* null pointer
    Buffers,   \* addresses
    Slots      \* C++ variables of the class

\* "single": float and int32, what EXPR converts to double; "word": the other
\* numeric types; "text": int8, which Python receives as a string.
Types == {"unknown", "double", "single", "word", "text"}
Kinds == {"free", "malloc", "new",    \* from malloc, from new char[]
          "entry"}                    \* memory of an entry of the RAM cache

Array    == [buffer: Buffers \cup {None}, owning: BOOLEAN, type: Types, empty: BOOLEAN]
Capsule  == [buffer: Buffers, frees: BOOLEAN]
Memories == [heap: [Buffers -> Kinds], at: [Slots -> Array],
             numpy: SUBSET Capsule, lost: SUBSET Buffers]

Blank == [buffer |-> None, owning |-> FALSE, type |-> "unknown", empty |-> TRUE]
NoMemory == [heap |-> [b \in Buffers |-> "free"], at |-> [s \in Slots |-> Blank],
             numpy |-> {}, lost |-> {}]

Room(m)  == \E b \in Buffers : m.heap[b] = "free"
Fresh(m) == CHOOSE b \in Buffers : m.heap[b] = "free"

Owned(m, S) == {m.at[s].buffer : s \in {r \in S : m.at[r].owning}}
FreeAll(m, B) == [b \in Buffers |-> IF b \in B THEN "free" ELSE m.heap[b]]

\* The object s, which is Blank, becomes a. 
Made(m, s, kind, a) ==
    [m EXCEPT !.heap[Fresh(m)] = kind, !.at[s] = [a EXCEPT !.buffer = Fresh(m), !.owning = TRUE]]

\* The constructors that copy their argument.
Construct(m, s, type, empty) ==
    Made(m, s, "malloc", [Blank EXCEPT !.type = type, !.empty = empty])

\* TypedDataArray(array, size, shape, false).
Borrow(m, s, b, type) ==
    [m EXCEPT !.at[s] = [buffer |-> b, owning |-> FALSE, type |-> type, empty |-> FALSE]]

\* The destructors of the objects in S.
DestroyAll(m, S) ==
    [m EXCEPT !.heap = FreeAll(m, Owned(m, S)),
              !.at = [s \in Slots |-> IF s \in S THEN Blank ELSE m.at[s]]]

Clone(m, from, to) == Made(m, to, "malloc", m.at[from])

\* Move construction, and move assignment: everything is swapped.
Swap(m, s, t) == [m EXCEPT !.at[s] = m.at[t], !.at[t] = m.at[s]]

\* s = <the temporary t>, which is destroyed at the end of the statement.
Assign(m, s, t) == DestroyAll(Swap(m, s, t), {t})

\* Mutant: the buffer is replaced and the old one not freed.
SliceKeeping(m, s, empty) == Made(m, s, "malloc", [m.at[s] EXCEPT !.empty = empty])

\* A new buffer is allocated before the old one, if owned, is freed.
Slice(m, s, empty) ==
    LET copied == Made(m, s, "malloc", [m.at[s] EXCEPT !.empty = empty])
    IN  [copied EXCEPT !.heap = FreeAll(copied, Owned(m, {s}))]

Released(a) == [a EXCEPT !.buffer = None, !.owning = FALSE]
Release(m, s) == [m EXCEPT !.at[s] = Released(@)]

Convert(m, from, to) == Made(m, to, "new", [m.at[from] EXCEPT !.type = "double"])

(***************************************************************************)
(* The Python binding                                                      *)
(***************************************************************************)
Held(m, s) == [buffer |-> m.at[s].buffer, frees |-> m.at[s].owning]

\* Mutant: the buffer is handed over and not released.
WrapSharing(m, s) == [m EXCEPT !.numpy = @ \cup {Held(m, s)}]

\* wrap_array: the buffer becomes a NumPy array with a capsule that frees it.
Wrap(m, s) == [Release(m, s) EXCEPT !.numpy = @ \cup {Held(m, s)}]

\* wrap_array fails after release(): an owned buffer has no owner any more.
WrapFails(m, s) == [Release(m, s) EXCEPT !.lost = @ \cup Owned(m, {s})]

\* wrap_bytes_string: a Python string is a copy.
WrapText(m, s) == [Release(m, s) EXCEPT !.heap = FreeAll(m, Owned(m, {s}))]

\* Python drops the arrays in X: their capsules are destroyed.
Drop(m, X) ==
    [m EXCEPT !.heap = FreeAll(m, {x.buffer : x \in {y \in X : y.frees}}), !.numpy = @ \ X]
=============================================================================
