------------------------------ MODULE RamCache ------------------------------
(***************************************************************************)
(* libtokamap::RamCache: entries by key, for data sources to use.  An      *)
(* entry is the buffer it keeps; get() gives out a raw pointer to it.      *)
(***************************************************************************)
EXTENDS TypedDataArray

CONSTANTS
    Keys,      \* what a data source is asked for
    MaxSize    \* m_max_size

NoEntries == [k \in Keys |-> None]
Contains(e, k) == e[k] # None

\* Mutant: the entries are dropped.
DropAllEntries(e) == NoEntries

\* drop_entries() is empty.
DropEntries(e) == e

\* add(): emplace keeps the entry a key already has.
Add(e, k, b) ==
    LET kept == IF Cardinality({j \in Keys : Contains(e, j)}) = MaxSize THEN DropEntries(e) ELSE e
    IN  IF Contains(kept, k) THEN kept ELSE [kept EXCEPT ![k] = b]

\* The memory of entries that are in the cache no more.
Reclaim(m, e) ==
    [m EXCEPT !.heap = FreeAll(m, {b \in Buffers : /\ m.heap[b] = "entry"
                                                   /\ \A k \in Keys : e[k] # b})]
=============================================================================
