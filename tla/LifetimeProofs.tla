--------------------------- MODULE LifetimeProofs ---------------------------
(***************************************************************************)
(* Proof, for any mappings, libraries, requests and data sources, that no  *)
(* buffer is freed twice, that a result shares its memory with no array of *)
(* the library, and that lent memory outlives the arrays it is lent to, as *)
(* long as the heap and the stack have room (Fits).  The first part says   *)
(* that each member function of TypedDataArray keeps a memory Sound, the   *)
(* second that each step is made of such calls on objects that exist.      *)
(***************************************************************************)
EXTENDS LifetimeProperties, FiniteSetTheorems, SequenceTheorems, TLAPS

Allocated == {"malloc", "new"}
Holders == [buffer: Buffers \cup {None}, frees: BOOLEAN]
Memory == [heap: [Buffers -> Kinds], at: [Slots -> Array],
           numpy: SUBSET Holders, lost: SUBSET (Buffers \cup {None})]

\* Every owner has an allocated buffer for itself, and every borrower one that
\* belongs to an entry.
Sound(m, e) ==
    /\ m \in Memory /\ e \in [Keys -> Buffers \cup {None}]
    /\ \A s, t \in Slots :
          m.at[s].owning /\ m.at[t].owning /\ m.at[s].buffer = m.at[t].buffer => s = t
    /\ \A s \in Slots : m.at[s].owning =>
          m.at[s].buffer \in Buffers /\ m.heap[m.at[s].buffer] \in Allocated
    /\ \A x \in m.numpy : x.frees =>
          /\ x.buffer \in Buffers /\ m.heap[x.buffer] \in Allocated
          /\ \A s \in Slots : m.at[s].buffer # x.buffer
    /\ \A s \in Slots : ~m.at[s].owning /\ m.at[s].buffer # None =>
          s \in Stack /\ \E k \in Keys : e[k] = m.at[s].buffer
    /\ \A k \in Keys : e[k] # None => m.heap[e[k]] = "entry"

(***************************************************************************)
(* The operators on memories                                               *)
(***************************************************************************)
\* malloc returns memory that was free.
LEMMA FreshFree ==
    ASSUME NEW m, Room(m)
    PROVE  Fresh(m) \in Buffers /\ m.heap[Fresh(m)] = "free"
BY DEF Room, Fresh

\* What Made changes: the buffer it takes, and the object that takes it.
LEMMA MadeShape ==
    ASSUME NEW m \in Memory, NEW s \in Slots, NEW kind \in Allocated, NEW a \in Array, Room(m)
    PROVE  LET r == Made(m, s, kind, a)
           IN  /\ r \in Memory /\ r.numpy = m.numpy /\ r.lost = m.lost
               /\ r.heap = [m.heap EXCEPT ![Fresh(m)] = kind]
               /\ \A t \in Slots : t # s => r.at[t] = m.at[t]
               /\ r.at[s].owning /\ r.at[s].buffer = Fresh(m)
               /\ r.at[s].type = a.type /\ r.at[s].empty = a.empty
<1> DEFINE b == [a EXCEPT !.buffer = Fresh(m), !.owning = TRUE]
<1>1. Fresh(m) \in Buffers
  BY FreshFree
<1>2. /\ b \in Array /\ b.owning /\ b.buffer = Fresh(m) /\ b.type = a.type /\ b.empty = a.empty
  BY <1>1 DEF Array
<1> HIDE DEF b
<1>3. Made(m, s, kind, a) = [m EXCEPT !.heap[Fresh(m)] = kind, !.at[s] = b]
  BY DEF Made, b
<1>4. kind \in Kinds
  BY DEF Allocated, Kinds
<1> DEFINE r == [m EXCEPT !.heap[Fresh(m)] = kind, !.at[s] = b]
<1>5. /\ r \in Memory /\ r.numpy = m.numpy /\ r.lost = m.lost
      /\ r.heap = [m.heap EXCEPT ![Fresh(m)] = kind]
      /\ r.at[s] = b /\ \A t \in Slots : t # s => r.at[t] = m.at[t]
  BY <1>1, <1>2, <1>4 DEF Memory
<1> HIDE DEF r
<1>6. Made(m, s, kind, a) = r
  BY <1>3 DEF r
<1> QED BY <1>2, <1>5, <1>6

\* An object that allocates is the only owner of what it gets.
LEMMA MadeSound ==
    ASSUME NEW m, NEW e, Sound(m, e), Room(m),
           NEW s \in Slots, NEW kind \in Allocated, NEW a \in Array
    PROVE  LET r == Made(m, s, kind, a)
           IN  /\ Sound(r, e) /\ r.numpy = m.numpy
               /\ \A b \in Buffers : r.heap[b] = IF b = Fresh(m) THEN kind ELSE m.heap[b]
               /\ \A t \in Slots : t # s => r.at[t] = m.at[t]
               /\ r.at[s].owning /\ r.at[s].buffer = Fresh(m)
<1> DEFINE r == Made(m, s, kind, a)
           f == Fresh(m)
<1>1. f \in Buffers /\ m.heap[f] = "free"
  BY FreshFree
<1>2. /\ r \in Memory /\ r.numpy = m.numpy /\ r.heap = [m.heap EXCEPT ![f] = kind]
      /\ \A t \in Slots : t # s => r.at[t] = m.at[t]
      /\ r.at[s].owning /\ r.at[s].buffer = f
  BY MadeShape DEF Sound
<1> HIDE DEF r, f
<1>3. \A b \in Buffers : b # f => r.heap[b] = m.heap[b]
  BY <1>1, <1>2 DEF Sound, Memory
<1>4. r.heap[f] = kind /\ kind # "entry" /\ kind # "free" /\ m.heap[f] \notin Allocated
  BY <1>1, <1>2 DEF Sound, Memory, Allocated
<1>5. \A t \in Slots : m.at[t].owning => m.at[t].buffer # f
  BY <1>4 DEF Sound
<1>6. \A x \in m.numpy : x.frees => x.buffer # f
  BY <1>4 DEF Sound
<1>7. \A k \in Keys : e[k] # f
  <2>1. None \notin Buffers
    BY LifetimeAssumption
  <2> QED BY <1>1, <2>1 DEF Sound
<1>8. \A t, u \in Slots :
          r.at[t].owning /\ r.at[u].owning /\ r.at[t].buffer = r.at[u].buffer => t = u
  BY <1>2, <1>5 DEF Sound
<1>9. \A t \in Slots : r.at[t].owning =>
          r.at[t].buffer \in Buffers /\ r.heap[r.at[t].buffer] \in Allocated
  BY <1>1, <1>2, <1>3, <1>4, <1>5 DEF Sound
<1>10. \A x \in r.numpy : x.frees =>
          /\ x.buffer \in Buffers /\ r.heap[x.buffer] \in Allocated
          /\ \A t \in Slots : r.at[t].buffer # x.buffer
  BY <1>2, <1>3, <1>6 DEF Sound
<1>11. \A t \in Slots : ~r.at[t].owning /\ r.at[t].buffer # None =>
          t \in Stack /\ \E k \in Keys : e[k] = r.at[t].buffer
  BY <1>2 DEF Sound
<1>12. \A k \in Keys : e[k] # None => r.heap[e[k]] = "entry"
  BY <1>3, <1>7 DEF Sound
<1>13. Sound(r, e)
  BY <1>2, <1>8, <1>9, <1>10, <1>11, <1>12 DEF Sound
<1>14. \A b \in Buffers : r.heap[b] = IF b = f THEN kind ELSE m.heap[b]
  BY <1>3, <1>4
<1> QED BY <1>2, <1>13, <1>14 DEF r, f

\* What destructors change.
LEMMA DestroyShape ==
    ASSUME NEW m \in Memory, NEW S \in SUBSET Slots
    PROVE  LET r == DestroyAll(m, S)
           IN  /\ r \in Memory /\ r.numpy = m.numpy /\ r.lost = m.lost
               /\ \A t \in Slots : r.at[t] = IF t \in S THEN Blank ELSE m.at[t]
               /\ \A b \in Buffers : r.heap[b] = IF b \in Owned(m, S) THEN "free" ELSE m.heap[b]
<1> DEFINE r == DestroyAll(m, S)
<1>1. Blank \in Array
  BY DEF Blank, Array, Types
<1>2. FreeAll(m, Owned(m, S)) \in [Buffers -> Kinds]
  BY DEF FreeAll, Memory, Kinds
<1>3. /\ r \in Memory /\ r.heap = FreeAll(m, Owned(m, S)) /\ r.numpy = m.numpy
      /\ r.lost = m.lost /\ \A t \in Slots : r.at[t] = IF t \in S THEN Blank ELSE m.at[t]
  BY <1>1, <1>2 DEF DestroyAll, Memory
<1> HIDE DEF r
<1> QED BY <1>3 DEF FreeAll, r

\* The destructors free what their objects own.
LEMMA DestroySound ==
    ASSUME NEW m, NEW e, Sound(m, e), NEW S \in SUBSET Slots
    PROVE  /\ Sound(DestroyAll(m, S), e)
           /\ DestroyAll(m, S).numpy = m.numpy
           /\ \A t \in Slots : DestroyAll(m, S).at[t] = IF t \in S THEN Blank ELSE m.at[t]
           /\ \A b \in Buffers : m.heap[b] = "free" => DestroyAll(m, S).heap[b] = "free"
<1> DEFINE r == DestroyAll(m, S)
<1>1. Blank \in Array /\ ~Blank.owning /\ Blank.buffer = None
  BY DEF Blank, Array, Types
<1>2. /\ r.numpy = m.numpy /\ r.lost = m.lost
      /\ \A t \in Slots : r.at[t] = IF t \in S THEN Blank ELSE m.at[t]
      /\ \A b \in Buffers : r.heap[b] = IF b \in Owned(m, S) THEN "free" ELSE m.heap[b]
      /\ r \in Memory
  BY DestroyShape DEF Sound
<1> HIDE DEF r
<1>4. \A t \in Slots : t \notin S /\ m.at[t].owning => m.at[t].buffer \notin Owned(m, S)
  BY DEF Owned, Sound
<1>5. \A x \in m.numpy : x.frees => x.buffer \notin Owned(m, S)
  BY DEF Owned, Sound
<1>6. \A k \in Keys : e[k] # None => e[k] \notin Owned(m, S) /\ e[k] \in Buffers
  BY DEF Owned, Sound, Allocated
<1>7. \A t, u \in Slots :
          r.at[t].owning /\ r.at[u].owning /\ r.at[t].buffer = r.at[u].buffer => t = u
  BY <1>1, <1>2 DEF Sound
<1>8. \A t \in Slots : r.at[t].owning =>
          r.at[t].buffer \in Buffers /\ r.heap[r.at[t].buffer] \in Allocated
  BY <1>1, <1>2, <1>4 DEF Sound
<1>9. \A x \in r.numpy : x.frees =>
          /\ x.buffer \in Buffers /\ r.heap[x.buffer] \in Allocated
          /\ \A t \in Slots : r.at[t].buffer # x.buffer
  <2>1. None \notin Buffers
    BY LifetimeAssumption
  <2> QED BY <1>1, <1>2, <1>5, <2>1 DEF Sound
<1>10. \A t \in Slots : ~r.at[t].owning /\ r.at[t].buffer # None =>
          t \in Stack /\ \E k \in Keys : e[k] = r.at[t].buffer
  BY <1>1, <1>2 DEF Sound
<1>11. \A k \in Keys : e[k] # None => r.heap[e[k]] = "entry"
  BY <1>2, <1>6 DEF Sound
<1>12. Sound(r, e)
  BY <1>2, <1>7, <1>8, <1>9, <1>10, <1>11 DEF Sound
<1>13. \A b \in Buffers : m.heap[b] = "free" => r.heap[b] = "free"
  BY <1>2
<1> QED BY <1>2, <1>12, <1>13 DEF r

\* A move exchanges two objects; a borrower stays on the stack.
LEMMA SwapSound ==
    ASSUME NEW m, NEW e, Sound(m, e), NEW s \in Slots, NEW t \in Slots,
           s \in Stack \/ m.at[t].owning \/ m.at[t].buffer = None,
           t \in Stack \/ m.at[s].owning \/ m.at[s].buffer = None
    PROVE  /\ Sound(Swap(m, s, t), e)
           /\ Swap(m, s, t).heap = m.heap /\ Swap(m, s, t).numpy = m.numpy
           /\ Swap(m, s, t).at[s] = m.at[t] /\ Swap(m, s, t).at[t] = m.at[s]
           /\ \A u \in Slots \ {s, t} : Swap(m, s, t).at[u] = m.at[u]
<1> DEFINE r == Swap(m, s, t)
<1>2. /\ r \in Memory /\ r.heap = m.heap /\ r.numpy = m.numpy
      /\ r.at[s] = m.at[t] /\ r.at[t] = m.at[s]
      /\ \A u \in Slots \ {s, t} : r.at[u] = m.at[u]
  BY DEF Swap, Sound, Memory
<1> HIDE DEF r
<1>3. \A u, v \in Slots :
          r.at[u].owning /\ r.at[v].owning /\ r.at[u].buffer = r.at[v].buffer => u = v
  BY <1>2 DEF Sound
<1>4. \A u \in Slots : r.at[u].owning =>
          r.at[u].buffer \in Buffers /\ r.heap[r.at[u].buffer] \in Allocated
  BY <1>2 DEF Sound
<1>5. \A x \in r.numpy : x.frees =>
          /\ x.buffer \in Buffers /\ r.heap[x.buffer] \in Allocated
          /\ \A u \in Slots : r.at[u].buffer # x.buffer
  BY <1>2 DEF Sound
<1>6. \A u \in Slots : ~r.at[u].owning /\ r.at[u].buffer # None =>
          u \in Stack /\ \E k \in Keys : e[k] = r.at[u].buffer
  BY <1>2 DEF Sound
<1>7. Sound(r, e)
  BY <1>2, <1>3, <1>4, <1>5, <1>6 DEF Sound
<1> QED BY <1>2, <1>7 DEF r

\* What a Swap needs holds when both objects are variables of the C++ stack, or
\* one is and it owns what it gives away.
LEMMA AssignMade ==
    ASSUME NEW m, NEW e, Sound(m, e), Room(m),
           NEW s \in Slots, NEW kind \in Allocated, NEW a \in Array
    PROVE  /\ Sound(Assign(Made(m, Temp, kind, a), s, Temp), e)
           /\ Assign(Made(m, Temp, kind, a), s, Temp).numpy = m.numpy
<1> DEFINE r == Made(m, Temp, kind, a)
           q == Swap(r, s, Temp)
<1>1. Temp \in Slots /\ Temp \in Stack
  BY SlotsAssumption DEF Stack, Temp, Caches, MappingCache, Cached, Kept
<1>2. Sound(r, e) /\ r.numpy = m.numpy /\ r.at[Temp].owning
  BY <1>1, MadeSound
<1> HIDE DEF r
<1>4. Sound(q, e) /\ q.numpy = r.numpy
  BY <1>1, <1>2, SwapSound
<1> HIDE DEF q
<1>5. Sound(DestroyAll(q, {Temp}), e) /\ DestroyAll(q, {Temp}).numpy = q.numpy
  BY <1>1, <1>4, DestroySound
<1> QED BY <1>2, <1>4, <1>5 DEF Assign, q, r

\* The constructors that copy.
LEMMA ConstructSound ==
    ASSUME NEW m, NEW e, Sound(m, e), Room(m),
           NEW s \in Slots, NEW type \in Types, NEW empty \in BOOLEAN
    PROVE  Sound(Construct(m, s, type, empty), e) /\ Construct(m, s, type, empty).numpy = m.numpy
<1> DEFINE a == [Blank EXCEPT !.type = type, !.empty = empty]
<1>1. a \in Array
  BY DEF Blank, Array, Types
<1> HIDE DEF a
<1>2. "malloc" \in Allocated
  BY DEF Allocated
<1>3. Sound(Made(m, s, "malloc", a), e) /\ Made(m, s, "malloc", a).numpy = m.numpy
  BY <1>1, <1>2, MadeSound
<1> QED BY <1>3 DEF Construct, a

\* clone()
LEMMA CloneSound ==
    ASSUME NEW m, NEW e, Sound(m, e), Room(m), NEW s \in Slots, NEW t \in Slots
    PROVE  Sound(Clone(m, s, t), e) /\ Clone(m, s, t).numpy = m.numpy
<1>1. m.at[s] \in Array /\ "malloc" \in Allocated
  BY DEF Sound, Memory, Allocated
<1>2. /\ Sound(Made(m, t, "malloc", m.at[s]), e)
      /\ Made(m, t, "malloc", m.at[s]).numpy = m.numpy
  BY <1>1, MadeSound
<1> QED BY <1>2 DEF Clone

\* A clone is stored, in a cache or in a local variable.
LEMMA StoreSound ==
    ASSUME NEW m, NEW e, Sound(m, e), Room(m), NEW s \in Slots, NEW c \in Slots
    PROVE  /\ Sound(Assign(Clone(m, s, Temp), c, Temp), e)
           /\ Assign(Clone(m, s, Temp), c, Temp).numpy = m.numpy
<1>1. m.at[s] \in Array /\ "malloc" \in Allocated
  BY DEF Sound, Memory, Allocated
<1> QED BY <1>1, AssignMade DEF Clone

\* A parameter is converted.
LEMMA ConvertSound ==
    ASSUME NEW m, NEW e, Sound(m, e), Room(m), NEW s \in Slots
    PROVE  Sound(Converted(m, s), e) /\ Converted(m, s).numpy = m.numpy
<1> DEFINE a == [m.at[s] EXCEPT !.type = "double"]
<1>1. a \in Array /\ "new" \in Allocated
  BY DEF Sound, Memory, Allocated, Array, Types
<1> HIDE DEF a
<1>2. /\ Sound(Assign(Made(m, Temp, "new", a), s, Temp), e)
      /\ Assign(Made(m, Temp, "new", a), s, Temp).numpy = m.numpy
  BY <1>1, AssignMade
<1> QED BY <1>2 DEF Converted, Convert, a

\* What slice() changes.
Sliced(m, s, r) ==
    /\ r \in Memory /\ r.numpy = m.numpy /\ r.lost = m.lost
    /\ \A t \in Slots : t # s => r.at[t] = m.at[t]
    /\ r.at[s].owning /\ r.at[s].buffer = Fresh(m) /\ r.at[s].type = m.at[s].type
    /\ \A b \in Buffers : r.heap[b] = IF b \in Owned(m, {s}) THEN "free"
                                      ELSE IF b = Fresh(m) THEN "malloc" ELSE m.heap[b]

LEMMA SliceShape ==
    ASSUME NEW m \in Memory, NEW s \in Slots, NEW empty \in BOOLEAN, Room(m)
    PROVE  Sliced(m, s, Slice(m, s, empty))
<1> DEFINE a == [m.at[s] EXCEPT !.empty = empty]
           q == Made(m, s, "malloc", a)
           o == Owned(m, {s})
           r == [q EXCEPT !.heap = FreeAll(q, o)]
<1>1. a \in Array /\ a.type = m.at[s].type /\ "malloc" \in Allocated
  BY DEF Memory, Allocated, Array
<1> HIDE DEF a
<1>2. /\ q \in Memory /\ q.numpy = m.numpy /\ q.lost = m.lost
      /\ q.heap = [m.heap EXCEPT ![Fresh(m)] = "malloc"]
      /\ \A t \in Slots : t # s => q.at[t] = m.at[t]
      /\ q.at[s].owning /\ q.at[s].buffer = Fresh(m) /\ q.at[s].type = a.type
  BY <1>1, MadeShape
<1> HIDE DEF q, o
<1>3. FreeAll(q, o) \in [Buffers -> Kinds]
  BY <1>2 DEF FreeAll, Memory, Kinds
<1>4. r \in Memory /\ r.heap = FreeAll(q, o) /\ r.numpy = q.numpy /\ r.lost = q.lost /\ r.at = q.at
  BY <1>2, <1>3 DEF Memory
<1> HIDE DEF r
<1>5. \A b \in Buffers : r.heap[b] = IF b \in o THEN "free"
                                    ELSE IF b = Fresh(m) THEN "malloc" ELSE m.heap[b]
  BY <1>2, <1>4 DEF FreeAll, Memory
<1>6. Slice(m, s, empty) = r
  BY DEF Slice, a, q, o, r
<1> QED BY <1>1, <1>2, <1>4, <1>5, <1>6 DEF o, Sliced

\* slice() frees the old buffer once the new one is there, so there is room as
\* long as there were two free buffers.
LEMMA SliceSound ==
    ASSUME NEW m, NEW e, Sound(m, e), Room(m), NEW s \in Slots, NEW empty \in BOOLEAN
    PROVE  /\ Sound(Slice(m, s, empty), e) /\ Slice(m, s, empty).numpy = m.numpy
           /\ (\E b, c \in Buffers : b # c /\ m.heap[b] = "free" /\ m.heap[c] = "free")
              => Room(Slice(m, s, empty))
<1> DEFINE a == [m.at[s] EXCEPT !.empty = empty]
           r == Made(m, s, "malloc", a)
           o == Owned(m, {s})
           q == [r EXCEPT !.heap = FreeAll(r, o)]
           f == Fresh(m)
<1>1. a \in Array /\ "malloc" \in Allocated
  BY DEF Sound, Memory, Allocated, Array
<1> HIDE DEF a
<1>2. Sound(r, e)
  BY <1>1, MadeSound
<1>3. /\ r.numpy = m.numpy
      /\ \A b \in Buffers : r.heap[b] = IF b = f THEN "malloc" ELSE m.heap[b]
      /\ \A t \in Slots : t # s => r.at[t] = m.at[t]
      /\ r.at[s].owning /\ r.at[s].buffer = f
  BY <1>1, MadeSound
<1>4. f \in Buffers /\ m.heap[f] = "free"
  BY FreshFree
<1> HIDE DEF r, f
<1>5. \A b \in o : /\ b \in Buffers /\ m.heap[b] \in Allocated /\ b # f
                   /\ m.at[s].owning /\ b = m.at[s].buffer
  BY <1>4 DEF Owned, Sound, Allocated
<1> HIDE DEF o
<1>6. /\ q \in Memory /\ q.numpy = r.numpy /\ q.at = r.at
      /\ \A b \in Buffers : q.heap[b] = IF b \in o THEN "free" ELSE r.heap[b]
  <2>1. FreeAll(r, o) \in [Buffers -> Kinds]
    BY <1>2 DEF FreeAll, Sound, Memory, Kinds
  <2>2. q \in Memory /\ q.heap = FreeAll(r, o) /\ q.numpy = r.numpy /\ q.at = r.at
    BY <1>2, <2>1 DEF Sound, Memory
  <2> QED BY <2>2 DEF FreeAll
<1> HIDE DEF q
<1>7. \A t \in Slots : r.at[t].owning => r.at[t].buffer \notin o
  BY <1>3, <1>5 DEF Sound
<1>8. \A x \in r.numpy : x.frees => x.buffer \notin o
  BY <1>3, <1>5 DEF Sound
<1>9. \A k \in Keys : e[k] # None => e[k] \notin o
  BY <1>5 DEF Sound, Allocated
<1>10. \A t \in Slots : q.at[t].owning =>
          q.at[t].buffer \in Buffers /\ q.heap[q.at[t].buffer] \in Allocated
  BY <1>2, <1>6, <1>7 DEF Sound
<1>11. \A x \in q.numpy : x.frees =>
          /\ x.buffer \in Buffers /\ q.heap[x.buffer] \in Allocated
          /\ \A t \in Slots : q.at[t].buffer # x.buffer
  BY <1>2, <1>6, <1>8 DEF Sound
<1>12. \A k \in Keys : e[k] # None => q.heap[e[k]] = "entry"
  BY <1>2, <1>6, <1>9 DEF Sound
<1>13. Sound(q, e)
  BY <1>2, <1>6, <1>10, <1>11, <1>12 DEF Sound
<1>14. ASSUME NEW b \in Buffers, NEW c \in Buffers, b # c, m.heap[b] = "free", m.heap[c] = "free"
       PROVE  Room(q)
  <2>1. PICK d \in {b, c} : d # f
    BY <1>14
  <2>2. d \in Buffers /\ r.heap[d] = "free"
    BY <1>3, <1>14, <2>1 DEF Sound, Memory
  <2>3. q.heap[d] = "free"
    BY <1>6, <2>2
  <2> QED BY <2>2, <2>3 DEF Room
<1> QED BY <1>3, <1>6, <1>13, <1>14 DEF Slice, q, r, o, a

\* What Python gives up.
Given(X) == {x.buffer : x \in {y \in X : y.frees}}

\* What dropping arrays changes.
LEMMA DropShape ==
    ASSUME NEW m \in Memory, NEW X \in SUBSET m.numpy
    PROVE  LET r == Drop(m, X)
           IN  /\ r \in Memory /\ r.at = m.at /\ r.numpy = m.numpy \ X /\ r.lost = m.lost
               /\ \A b \in Buffers : r.heap[b] = IF b \in Given(X) THEN "free" ELSE m.heap[b]
<1> DEFINE r == Drop(m, X)
<1>1. FreeAll(m, Given(X)) \in [Buffers -> Kinds] /\ m.numpy \ X \in SUBSET Holders
  BY DEF FreeAll, Memory, Kinds
<1>2. r = [m EXCEPT !.heap = FreeAll(m, Given(X)), !.numpy = m.numpy \ X]
  BY DEF Drop, Given
<1> HIDE DEF r
<1>3. /\ r \in Memory /\ r.heap = FreeAll(m, Given(X)) /\ r.at = m.at
      /\ r.numpy = m.numpy \ X /\ r.lost = m.lost
  BY <1>1, <1>2 DEF Memory
<1> QED BY <1>3 DEF FreeAll, r

\* Python drops arrays it has: their capsules free what nobody else has.
LEMMA DropSound ==
    ASSUME NEW m, NEW e, Sound(m, e), NEW X \in SUBSET m.numpy
    PROVE  /\ Sound(Drop(m, X), e) /\ Drop(m, X).at = m.at /\ Drop(m, X).numpy = m.numpy \ X
           /\ Room(m) => Room(Drop(m, X))
<1> DEFINE r == Drop(m, X)
           f == {x.buffer : x \in {y \in X : y.frees}}
<1>1. /\ r \in Memory /\ r.at = m.at /\ r.numpy = m.numpy \ X
      /\ \A b \in Buffers : r.heap[b] = IF b \in f THEN "free" ELSE m.heap[b]
  BY DropShape DEF Sound, Given
<1>2. \A x \in X : x \in m.numpy /\ x \in Holders
  BY DEF Sound, Memory
<1>3. \A s \in Slots : m.at[s].owning => m.at[s].buffer \notin f
  BY <1>2 DEF Sound
<1>4. \A x \in m.numpy \ X : x.frees => x.buffer \notin f
  <2>1. ASSUME NEW x \in m.numpy \ X, x.frees, NEW y \in X, y.frees, x.buffer = y.buffer
        PROVE  FALSE
    <3>1. x \in Holders /\ y \in Holders
      BY <1>2 DEF Sound, Memory
    <3>2. x = y
      BY <2>1, <3>1 DEF Holders
    <3> QED BY <3>2
  <2> QED BY <2>1
<1>5. \A k \in Keys : e[k] # None => e[k] \notin f
  BY <1>2 DEF Sound, Allocated
<1> HIDE DEF r, f
<1>6. \A s \in Slots : r.at[s].owning =>
          r.at[s].buffer \in Buffers /\ r.heap[r.at[s].buffer] \in Allocated
  BY <1>1, <1>3 DEF Sound
<1>7. \A x \in r.numpy : x.frees =>
          /\ x.buffer \in Buffers /\ r.heap[x.buffer] \in Allocated
          /\ \A s \in Slots : r.at[s].buffer # x.buffer
  BY <1>1, <1>4 DEF Sound
<1>8. \A k \in Keys : e[k] # None => r.heap[e[k]] = "entry"
  BY <1>1, <1>5 DEF Sound
<1>9. Sound(r, e)
  BY <1>1, <1>6, <1>7, <1>8 DEF Sound
<1>10. Room(m) => Room(r)
  BY <1>1 DEF Room
<1> QED BY <1>1, <1>9, <1>10 DEF r

\* An exception, or the end of a call, leaves nothing on the stack.
LEMMA UnwindSound ==
    ASSUME NEW m, NEW e, Sound(m, e), NEW X \in SUBSET m.numpy
    PROVE  LET r == Drop(DestroyAll(m, Stack), X)
           IN  Sound(r, e) /\ \A s \in Stack : r.at[s] = Blank
<1> DEFINE q == DestroyAll(m, Stack)
<1>1. Stack \in SUBSET Slots
  BY DEF Stack
<1>2. Sound(q, e) /\ q.numpy = m.numpy /\ \A s \in Stack : q.at[s] = Blank
  BY <1>1, DestroySound
<1> HIDE DEF q
<1>3. Sound(Drop(q, X), e) /\ Drop(q, X).at = q.at
  BY <1>2, DropSound
<1> QED BY <1>2, <1>3 DEF q

\* release(): the object has a buffer no more.
LEMMA ReleasedShape ==
    ASSUME NEW m \in Memory, NEW s \in Slots
    PROVE  /\ Released(m.at[s]) \in Array
           /\ ~Released(m.at[s]).owning /\ Released(m.at[s]).buffer = None
           /\ Held(m, s) \in Holders
           /\ Held(m, s).buffer = m.at[s].buffer /\ Held(m, s).frees = m.at[s].owning
           /\ Owned(m, {s}) \in SUBSET (Buffers \cup {None})
BY DEF Memory, Released, Array, Held, Holders, Owned

\* What wrapping an array changes.
LEMMA WrapShape ==
    ASSUME NEW m \in Memory, NEW s \in Slots
    PROVE  LET r == Wrap(m, s)
           IN  /\ r \in Memory /\ r.heap = m.heap /\ r.numpy = m.numpy \cup {Held(m, s)}
               /\ r.lost = m.lost /\ r.at[s] = Released(m.at[s])
               /\ \A t \in Slots : t # s => r.at[t] = m.at[t]
<1> DEFINE r == Wrap(m, s)
           h == Held(m, s)
<1>1. Released(m.at[s]) \in Array /\ m.numpy \cup {h} \in SUBSET Holders
  BY ReleasedShape DEF Memory
<1>2. r = [m EXCEPT !.at[s] = Released(m.at[s]), !.numpy = m.numpy \cup {h}]
  BY DEF Wrap, Release, Memory
<1> HIDE DEF r, h
<1>3. /\ r \in Memory /\ r.heap = m.heap /\ r.numpy = m.numpy \cup {h} /\ r.lost = m.lost
      /\ r.at[s] = Released(m.at[s]) /\ \A t \in Slots : t # s => r.at[t] = m.at[t]
  BY <1>1, <1>2 DEF Memory
<1> QED BY <1>3 DEF r, h

\* What a failure to wrap an array changes.
LEMMA WrapFailsShape ==
    ASSUME NEW m \in Memory, NEW s \in Slots
    PROVE  LET r == WrapFails(m, s)
           IN  /\ r \in Memory /\ r.heap = m.heap /\ r.numpy = m.numpy
               /\ r.lost = m.lost \cup Owned(m, {s}) /\ r.at[s] = Released(m.at[s])
               /\ \A t \in Slots : t # s => r.at[t] = m.at[t]
<1> DEFINE r == WrapFails(m, s)
           o == Owned(m, {s})
<1>1. Released(m.at[s]) \in Array /\ m.lost \cup o \in SUBSET (Buffers \cup {None})
  BY ReleasedShape DEF Memory
<1>2. r = [m EXCEPT !.at[s] = Released(m.at[s]), !.lost = m.lost \cup o]
  BY DEF WrapFails, Release, Memory
<1> HIDE DEF r, o
<1>3. /\ r \in Memory /\ r.heap = m.heap /\ r.numpy = m.numpy /\ r.lost = m.lost \cup o
      /\ r.at[s] = Released(m.at[s]) /\ \A t \in Slots : t # s => r.at[t] = m.at[t]
  BY <1>1, <1>2 DEF Memory
<1> QED BY <1>3 DEF r, o

\* What copying a text to Python changes.
LEMMA WrapTextShape ==
    ASSUME NEW m \in Memory, NEW s \in Slots
    PROVE  LET r == WrapText(m, s)
           IN  /\ r \in Memory /\ r.numpy = m.numpy /\ r.lost = m.lost
               /\ \A b \in Buffers : r.heap[b] = IF b \in Owned(m, {s}) THEN "free" ELSE m.heap[b]
               /\ r.at[s] = Released(m.at[s])
               /\ \A t \in Slots : t # s => r.at[t] = m.at[t]
<1> DEFINE r == WrapText(m, s)
           o == Owned(m, {s})
<1>1. FreeAll(m, o) \in [Buffers -> Kinds] /\ Released(m.at[s]) \in Array
  BY ReleasedShape DEF FreeAll, Memory, Kinds
<1>2. r = [m EXCEPT !.at[s] = Released(m.at[s]), !.heap = FreeAll(m, o)]
  BY DEF WrapText, Release, Memory
<1> HIDE DEF r, o
<1>3. /\ r \in Memory /\ r.numpy = m.numpy /\ r.lost = m.lost /\ r.heap = FreeAll(m, o)
      /\ r.at[s] = Released(m.at[s]) /\ \A t \in Slots : t # s => r.at[t] = m.at[t]
  BY <1>1, <1>2 DEF Memory
<1> QED BY <1>3 DEF FreeAll, r, o

\* The buffer of an array goes to a capsule.
LEMMA WrapSound ==
    ASSUME NEW m, NEW e, Sound(m, e), NEW s \in Slots
    PROVE  Sound(Wrap(m, s), e) /\ Wrap(m, s).numpy = m.numpy \cup {Held(m, s)}
<1> DEFINE r == Wrap(m, s)
           h == Held(m, s)
<1>1. m \in Memory /\ None \notin Buffers
  BY LifetimeAssumption DEF Sound
<1>2. /\ ~Released(m.at[s]).owning /\ Released(m.at[s]).buffer = None
      /\ h \in Holders /\ h.buffer = m.at[s].buffer /\ h.frees = m.at[s].owning
  BY <1>1, ReleasedShape
<1> HIDE DEF h
<1>3. /\ r \in Memory /\ r.heap = m.heap /\ r.numpy = m.numpy \cup {h}
      /\ r.at[s] = Released(m.at[s]) /\ \A t \in Slots : t # s => r.at[t] = m.at[t]
  BY <1>1, WrapShape DEF h
<1> HIDE DEF r
<1>4. \A t \in Slots : m.at[s].owning /\ t # s => m.at[t].buffer # m.at[s].buffer
  <2>1. ASSUME NEW t \in Slots, m.at[s].owning, t # s, m.at[t].buffer = m.at[s].buffer
        PROVE  FALSE
    <3>1. ~m.at[t].owning /\ m.at[t].buffer # None
      BY <1>1, <2>1 DEF Sound
    <3>2. PICK k \in Keys : e[k] = m.at[t].buffer
      BY <3>1 DEF Sound
    <3> QED BY <2>1, <3>1, <3>2 DEF Sound, Allocated
  <2> QED BY <2>1
<1>5. \A t, u \in Slots :
          r.at[t].owning /\ r.at[u].owning /\ r.at[t].buffer = r.at[u].buffer => t = u
  BY <1>2, <1>3 DEF Sound
<1>6. \A t \in Slots : r.at[t].owning =>
          r.at[t].buffer \in Buffers /\ r.heap[r.at[t].buffer] \in Allocated
  BY <1>2, <1>3 DEF Sound
<1>7. \A x \in r.numpy : x.frees =>
          /\ x.buffer \in Buffers /\ r.heap[x.buffer] \in Allocated
          /\ \A t \in Slots : r.at[t].buffer # x.buffer
  <2>1. ASSUME NEW x \in m.numpy, x.frees
        PROVE  /\ x.buffer \in Buffers /\ r.heap[x.buffer] \in Allocated
               /\ \A t \in Slots : r.at[t].buffer # x.buffer
    BY <1>1, <1>2, <1>3, <2>1 DEF Sound
  <2>2. ASSUME h.frees
        PROVE  /\ h.buffer \in Buffers /\ r.heap[h.buffer] \in Allocated
               /\ \A t \in Slots : r.at[t].buffer # h.buffer
    <3>1. m.at[s].owning /\ h.buffer = m.at[s].buffer
      BY <1>2, <2>2
    <3>2. h.buffer \in Buffers /\ r.heap[h.buffer] \in Allocated
      BY <1>3, <3>1 DEF Sound
    <3>3. \A t \in Slots : r.at[t].buffer # h.buffer
      BY <1>1, <1>2, <1>3, <1>4, <3>1, <3>2
    <3> QED BY <3>2, <3>3
  <2> QED BY <1>3, <2>1, <2>2
<1>8. \A t \in Slots : ~r.at[t].owning /\ r.at[t].buffer # None =>
          t \in Stack /\ \E k \in Keys : e[k] = r.at[t].buffer
  BY <1>2, <1>3 DEF Sound
<1>9. Sound(r, e)
  BY <1>3, <1>5, <1>6, <1>7, <1>8 DEF Sound
<1> QED BY <1>3, <1>9 DEF r, h

\* An array is released and its buffer given up.
LEMMA WrapFailsSound ==
    ASSUME NEW m, NEW e, Sound(m, e), NEW s \in Slots
    PROVE  Sound(WrapFails(m, s), e) /\ WrapFails(m, s).numpy = m.numpy
<1> DEFINE r == WrapFails(m, s)
<1>1. m \in Memory
  BY DEF Sound
<1>2. ~Released(m.at[s]).owning /\ Released(m.at[s]).buffer = None
  BY <1>1, ReleasedShape
<1>3. /\ r \in Memory /\ r.heap = m.heap /\ r.numpy = m.numpy
      /\ r.at[s] = Released(m.at[s]) /\ \A t \in Slots : t # s => r.at[t] = m.at[t]
  BY <1>1, WrapFailsShape
<1> HIDE DEF r
<1>4. Sound(r, e)
  <2>1. None \notin Buffers
    BY LifetimeAssumption
  <2> QED BY <1>2, <1>3, <2>1 DEF Sound
<1> QED BY <1>3, <1>4 DEF r

\* A text is copied and its buffer freed.
LEMMA WrapTextSound ==
    ASSUME NEW m, NEW e, Sound(m, e), NEW s \in Slots
    PROVE  Sound(WrapText(m, s), e) /\ WrapText(m, s).numpy = m.numpy
<1> DEFINE r == WrapText(m, s)
           o == Owned(m, {s})
<1>1. m \in Memory
  BY DEF Sound
<1>2. /\ Released(m.at[s]) \in Array
      /\ ~Released(m.at[s]).owning /\ Released(m.at[s]).buffer = None
  BY <1>1, ReleasedShape
<1>3. /\ r \in Memory /\ r.numpy = m.numpy
      /\ \A b \in Buffers : r.heap[b] = IF b \in o THEN "free" ELSE m.heap[b]
      /\ r.at[s] = Released(m.at[s]) /\ \A t \in Slots : t # s => r.at[t] = m.at[t]
  BY <1>1, WrapTextShape
<1>4. \A t \in Slots : t # s /\ m.at[t].owning => m.at[t].buffer \notin o
  BY DEF Owned, Sound
<1>5. \A x \in m.numpy : x.frees => x.buffer \notin o
  BY DEF Owned, Sound
<1>6. \A k \in Keys : e[k] # None => e[k] \notin o
  BY DEF Owned, Sound, Allocated
<1> HIDE DEF r, o
<1>7. \A t \in Slots : r.at[t].owning =>
          r.at[t].buffer \in Buffers /\ r.heap[r.at[t].buffer] \in Allocated
  BY <1>2, <1>3, <1>4 DEF Sound
<1>8. \A x \in r.numpy : x.frees =>
          /\ x.buffer \in Buffers /\ r.heap[x.buffer] \in Allocated
          /\ \A t \in Slots : r.at[t].buffer # x.buffer
  <2>1. None \notin Buffers
    BY LifetimeAssumption
  <2> QED BY <1>2, <1>3, <1>5, <2>1 DEF Sound
<1>9. \A k \in Keys : e[k] # None => r.heap[e[k]] = "entry"
  BY <1>3, <1>6 DEF Sound
<1>10. Sound(r, e)
  BY <1>2, <1>3, <1>7, <1>8, <1>9 DEF Sound
<1> QED BY <1>3, <1>10 DEF r

\* What borrowing changes.
LEMMA BorrowShape ==
    ASSUME NEW m \in Memory, NEW s \in Slots, NEW b \in Buffers, NEW type \in Types
    PROVE  LET r == Borrow(m, s, b, type)
           IN  /\ r \in Memory /\ r.heap = m.heap /\ r.numpy = m.numpy /\ r.lost = m.lost
               /\ ~r.at[s].owning /\ r.at[s].buffer = b
               /\ \A t \in Slots : t # s => r.at[t] = m.at[t]
<1> DEFINE r == Borrow(m, s, b, type)
           a == [buffer |-> b, owning |-> FALSE, type |-> type, empty |-> FALSE]
<1>1. a \in Array /\ ~a.owning /\ a.buffer = b
  BY DEF Array
<1>2. r = [m EXCEPT !.at[s] = a]
  BY DEF Borrow
<1> HIDE DEF r, a
<1>3. /\ r \in Memory /\ r.heap = m.heap /\ r.numpy = m.numpy /\ r.lost = m.lost
      /\ r.at[s] = a /\ \A t \in Slots : t # s => r.at[t] = m.at[t]
  BY <1>1, <1>2 DEF Memory
<1> QED BY <1>1, <1>3 DEF r

\* DataSource::get lends the memory of an entry to an object on the stack.
LEMMA BorrowSound ==
    ASSUME NEW m, NEW e, Sound(m, e), NEW s \in Stack, NEW k \in Keys, e[k] # None,
           NEW type \in Types
    PROVE  Sound(Borrow(m, s, e[k], type), e) /\ Borrow(m, s, e[k], type).numpy = m.numpy
<1> DEFINE r == Borrow(m, s, e[k], type)
<1>1. m \in Memory /\ s \in Slots /\ e[k] \in Buffers /\ m.heap[e[k]] = "entry"
  BY DEF Sound, Stack
<1>2. /\ r \in Memory /\ r.heap = m.heap /\ r.numpy = m.numpy
      /\ ~r.at[s].owning /\ r.at[s].buffer = e[k]
      /\ \A t \in Slots : t # s => r.at[t] = m.at[t]
  BY <1>1, BorrowShape
<1> HIDE DEF r
<1>3. \A x \in m.numpy : x.frees => x.buffer # e[k]
  BY <1>1 DEF Sound, Allocated
<1>4. \A x \in r.numpy : x.frees =>
          /\ x.buffer \in Buffers /\ r.heap[x.buffer] \in Allocated
          /\ \A t \in Slots : r.at[t].buffer # x.buffer
  BY <1>2, <1>3 DEF Sound
<1>5. \A t \in Slots : ~r.at[t].owning /\ r.at[t].buffer # None =>
          t \in Stack /\ \E j \in Keys : e[j] = r.at[t].buffer
  BY <1>2 DEF Sound
<1>6. \A t, u \in Slots :
          r.at[t].owning /\ r.at[u].owning /\ r.at[t].buffer = r.at[u].buffer => t = u
  BY <1>2 DEF Sound
<1>7. \A t \in Slots : r.at[t].owning =>
          r.at[t].buffer \in Buffers /\ r.heap[r.at[t].buffer] \in Allocated
  BY <1>2 DEF Sound
<1>8. Sound(r, e)
  BY <1>1, <1>2, <1>4, <1>5, <1>6, <1>7 DEF Sound
<1> QED BY <1>2, <1>8 DEF r

\* Nothing that is lent is reclaimed.
LEMMA ReclaimShape ==
    ASSUME NEW m \in Memory, NEW e
    PROVE  LET r == Reclaim(m, e)
           IN  /\ r \in Memory /\ r.at = m.at /\ r.numpy = m.numpy /\ r.lost = m.lost
               /\ \A b \in Buffers :
                     r.heap[b] = IF m.heap[b] = "entry" /\ \A k \in Keys : e[k] # b
                                 THEN "free" ELSE m.heap[b]
<1> DEFINE r == Reclaim(m, e)
           f == {b \in Buffers : m.heap[b] = "entry" /\ \A k \in Keys : e[k] # b}
<1>1. r = [m EXCEPT !.heap = FreeAll(m, f)]
  BY DEF Reclaim
<1>2. FreeAll(m, f) \in [Buffers -> Kinds]
  BY DEF FreeAll, Memory, Kinds
<1> HIDE DEF r
<1>3. /\ r \in Memory /\ r.at = m.at /\ r.numpy = m.numpy /\ r.lost = m.lost
      /\ r.heap = FreeAll(m, f)
  BY <1>1, <1>2 DEF Memory
<1> QED BY <1>3 DEF FreeAll, r

\* A new entry: those of other keys stay, and so does what they lend.
LEMMA EntrySound ==
    ASSUME NEW m, NEW e, Sound(m, e), Room(m), NEW k \in Keys, ~Contains(e, k)
    PROVE  LET d == Add(e, k, Fresh(m))
               r == Reclaim([m EXCEPT !.heap[Fresh(m)] = "entry"], d)
           IN  Sound(r, d) /\ r.numpy = m.numpy /\ d[k] = Fresh(m) /\ d[k] # None
<1> DEFINE f == Fresh(m)
           d == Add(e, k, f)
           q == [m EXCEPT !.heap[f] = "entry"]
           r == Reclaim(q, d)
<1>1. f \in Buffers /\ m.heap[f] = "free" /\ None \notin Buffers
  BY FreshFree, LifetimeAssumption
<1>2. m \in Memory /\ e \in [Keys -> Buffers \cup {None}]
  BY DEF Sound
<1> HIDE DEF f
<1>3. d = [e EXCEPT ![k] = f]
  BY DEF Add, DropEntries
<1> HIDE DEF d
<1>4. /\ d \in [Keys -> Buffers \cup {None}] /\ d[k] = f
      /\ \A j \in Keys : e[j] # None => d[j] = e[j]
      /\ \A j \in Keys : d[j] = e[j] \/ d[j] = f
  BY <1>1, <1>2, <1>3 DEF Contains
<1>5. /\ q \in Memory /\ q.at = m.at /\ q.numpy = m.numpy
      /\ \A b \in Buffers : q.heap[b] = IF b = f THEN "entry" ELSE m.heap[b]
  BY <1>1, <1>2 DEF Memory, Kinds
<1> HIDE DEF q
<1>6. /\ r \in Memory /\ r.at = m.at /\ r.numpy = m.numpy
      /\ \A b \in Buffers : r.heap[b] = IF q.heap[b] = "entry" /\ \A j \in Keys : d[j] # b
                                        THEN "free" ELSE q.heap[b]
  BY <1>5, ReclaimShape
<1> HIDE DEF r
<1>7. \A b \in Buffers : m.heap[b] \in Allocated => r.heap[b] = m.heap[b]
  BY <1>1, <1>5, <1>6 DEF Allocated
<1>8. \A j \in Keys : d[j] # None => r.heap[d[j]] = "entry"
  <2>1. ASSUME NEW j \in Keys, d[j] # None
        PROVE  d[j] \in Buffers /\ q.heap[d[j]] = "entry"
    BY <1>1, <1>4, <1>5, <2>1 DEF Sound
  <2> QED BY <1>6, <2>1
<1>9. \A t \in Slots : ~r.at[t].owning /\ r.at[t].buffer # None =>
          t \in Stack /\ \E j \in Keys : d[j] = r.at[t].buffer
  <2>1. ASSUME NEW t \in Slots, ~m.at[t].owning, m.at[t].buffer # None
        PROVE  t \in Stack /\ \E j \in Keys : d[j] = m.at[t].buffer
    <3>1. t \in Stack /\ \E j \in Keys : e[j] = m.at[t].buffer
      BY <2>1 DEF Sound
    <3> QED BY <1>4, <2>1, <3>1
  <2> QED BY <1>6, <2>1
<1>10. Sound(r, d)
  BY <1>4, <1>6, <1>7, <1>8, <1>9 DEF Sound
<1> QED BY <1>1, <1>4, <1>6, <1>10 DEF r, q, d, f

\* Between calls nobody borrows, and the RAM cache may go.
LEMMA RenewSound ==
    ASSUME NEW m, NEW e, Sound(m, e), NEW S \in SUBSET Slots, \A s \in Stack : m.at[s] = Blank
    PROVE  LET r == Reclaim(DestroyAll(m, S), NoEntries)
           IN  /\ Sound(r, NoEntries) /\ r.numpy = m.numpy
               /\ \A s \in Stack : r.at[s] = Blank
<1> DEFINE q == DestroyAll(m, S)
           r == Reclaim(q, NoEntries)
<1>1. /\ Sound(q, e) /\ q.numpy = m.numpy
      /\ \A t \in Slots : q.at[t] = IF t \in S THEN Blank ELSE m.at[t]
  BY DestroySound
<1> HIDE DEF q
<1>2. q \in Memory
  BY <1>1 DEF Sound
<1>3. /\ r \in Memory /\ r.at = q.at /\ r.numpy = q.numpy
      /\ \A b \in Buffers : q.heap[b] # "entry" => r.heap[b] = q.heap[b]
  BY <1>2, ReclaimShape
<1> HIDE DEF r
<1>4. \A s \in Stack : q.at[s] = Blank /\ Blank.buffer = None
  BY <1>1 DEF Stack, Blank
<1>5. \A t \in Slots : q.at[t].owning \/ q.at[t].buffer = None
  BY <1>1, <1>4 DEF Sound
<1>6. NoEntries \in [Keys -> Buffers \cup {None}] /\ \A k \in Keys : NoEntries[k] = None
  BY DEF NoEntries
<1>7. \A b \in Buffers : q.heap[b] \in Allocated => r.heap[b] = q.heap[b]
  BY <1>3 DEF Allocated
<1>8. Sound(r, NoEntries)
  BY <1>1, <1>3, <1>5, <1>6, <1>7 DEF Sound
<1> QED BY <1>1, <1>3, <1>4, <1>8 DEF r, q

(***************************************************************************)
(* The call stack                                                          *)
(***************************************************************************)
FrameSet == [name: Names, done: Nat, raw: Seq(Buffers \cup {None}), wrapped: Nat]
Needs(f) == Len(Mapping[f.name].deps)

\* The stack q at the place p: a call that waits for a parameter still needs one.
Stacked(q, p) ==
    /\ q \in Seq(FrameSet)
    /\ \A d \in 1..Len(q) :
          /\ q[d].done <= Needs(q[d])
          /\ d < Len(q) \/ p = "returned" => q[d].done < Needs(q[d])
    /\ p \in {"eval", "update", "combine", "python"} => Len(q) > 0
    /\ p \in {"idle", "deliver"} => q = << >>
    /\ p = "update" => Mapping[q[Len(q)].name].kind = "DATA_SOURCE"

LInv ==
    /\ Sound(memory, entries) /\ dict \subseteq memory.numpy
    /\ Stacked(frames, pc)
    /\ pc # "idle" => asked \in Names
    /\ pc = "idle" => \A s \in Stack : At(s) = Blank

\* A mapping is made to be evaluated, for map() or as a parameter.
LEMMA PushStacked ==
    ASSUME NEW q, NEW p, Stacked(q, p), NEW n \in Names,
           q = << >> \/ q[Len(q)].done < Needs(q[Len(q)])
    PROVE  Stacked(Append(q, Frame(n)), "eval")
<1> DEFINE r == Append(q, Frame(n))
<1>1. q \in Seq(FrameSet) /\ Len(q) \in Nat
  BY LenProperties DEF Stacked
<1>2. /\ Frame(n) \in FrameSet /\ Frame(n).name = n /\ Frame(n).done = 0
      /\ Mapping[n].deps \in Seq(Names) /\ Len(Mapping[n].deps) \in Nat
  <2>1. << >> \in Seq(Buffers \cup {None})
    BY EmptySeq
  <2>2. Mapping[n].deps \in Seq(Names)
    BY LifetimeAssumption
  <2> QED BY <2>1, <2>2, LenProperties DEF Frame, FrameSet
<1> HIDE DEF r
<1>3. /\ r \in Seq(FrameSet) /\ Len(r) = Len(q) + 1 /\ r[Len(q) + 1] = Frame(n)
      /\ \A d \in 1..Len(q) : r[d] = q[d]
  BY <1>1, <1>2, AppendProperties DEF r
<1>4. \A d \in 1..Len(q) : r[d].done < Needs(r[d])
  <2>1. ASSUME NEW d \in 1..Len(q)
        PROVE  q[d].done < Needs(q[d])
    <3>1. CASE d < Len(q)
      BY <3>1 DEF Stacked
    <3>2. CASE d = Len(q)
      BY <1>1, <3>2
    <3> QED BY <1>1, <3>1, <3>2
  <2> QED BY <1>3, <2>1
<1>5. \A d \in 1..Len(q) : r[d].done <= Needs(r[d])
  BY <1>3 DEF Stacked
<1>6. r[Len(r)].done <= Needs(r[Len(r)])
  BY <1>1, <1>2, <1>3 DEF Needs
<1>7. \A d \in 1..Len(r) : d \in 1..Len(q) \/ d = Len(r)
  BY <1>1, <1>3
<1>8. \A d \in 1..Len(r) : r[d].done <= Needs(r[d]) /\ (d < Len(r) => r[d].done < Needs(r[d]))
  BY <1>1, <1>3, <1>4, <1>5, <1>6, <1>7
<1> QED BY <1>1, <1>3, <1>8 DEF Stacked, r

\* The call at the top is over.
LEMMA PopShape ==
    ASSUME NEW q \in Seq(FrameSet), Len(q) > 0
    PROVE  LET r == SubSeq(q, 1, Len(q) - 1)
           IN  /\ r \in Seq(FrameSet) /\ Len(r) = Len(q) - 1
               /\ \A d \in 1..Len(r) : d \in 1..Len(q) /\ d < Len(q) /\ r[d] = q[d]
<1> DEFINE r == SubSeq(q, 1, Len(q) - 1)
<1>1. Len(q) \in Nat
  BY LenProperties
<1>2. /\ r \in Seq(FrameSet) /\ Len(r) = Len(q) - 1
      /\ \A d \in 1..Len(r) : d \in 1..Len(q) /\ d < Len(q) /\ r[d] = q[d]
  <2>1. Len(q) - 1 \in Int /\ 1 \in Int /\ \A d \in 1..(Len(q) - 1) : q[d] \in FrameSet
    BY <1>1, ElementOfSeq
  <2>2. /\ r \in Seq(FrameSet)
        /\ Len(r) = IF 1 <= Len(q) - 1 THEN Len(q) - 1 - 1 + 1 ELSE 0
        /\ \A i \in 1..(Len(q) - 1 - 1 + 1) : r[i] = q[1 + i - 1]
    BY <2>1, SubSeqProperties
  <2> HIDE DEF r
  <2>3. CASE Len(q) = 1
    BY <2>2, <2>3
  <2>4. CASE Len(q) > 1
    <3>1. Len(r) = Len(q) - 1 - 1 + 1
      BY <1>1, <2>2, <2>4
    <3> QED BY <1>1, <2>2, <3>1
  <2>5. Len(q) = 1 \/ Len(q) > 1
    <3>1. \A n \in Nat : n > 0 => n = 1 \/ n > 1
      OBVIOUS
    <3>2. Len(q) \in Nat
      BY <1>1
    <3> QED BY <3>1, <3>2
  <2> QED BY <2>3, <2>4, <2>5
<1> HIDE DEF r
<1> QED BY <1>2 DEF r

\* A mapping returns to the one that asked for it.
LEMMA PopStacked ==
    ASSUME NEW q, NEW p, Stacked(q, p), Len(q) > 0
    PROVE  Stacked(SubSeq(q, 1, Len(q) - 1), "returned")
<1> DEFINE r == SubSeq(q, 1, Len(q) - 1)
<1>1. q \in Seq(FrameSet) /\ Len(q) \in Nat
  BY LenProperties DEF Stacked
<1>2. /\ r \in Seq(FrameSet) /\ Len(r) = Len(q) - 1
      /\ \A d \in 1..Len(r) : d \in 1..Len(q) /\ d < Len(q) /\ r[d] = q[d]
  BY <1>1, PopShape
<1> HIDE DEF r
<1>3. \A d \in 1..Len(r) : r[d].done <= Needs(r[d]) /\ r[d].done < Needs(r[d])
  BY <1>2 DEF Stacked
<1> QED BY <1>2, <1>3 DEF Stacked, r

\* A mapping goes on with what it has got.
LEMMA SetStacked ==
    ASSUME NEW q, NEW p, Stacked(q, p), Len(q) > 0,
           NEW f \in FrameSet, f.name = q[Len(q)].name, f.done <= Needs(f)
    PROVE  /\ Stacked([q EXCEPT ![Len(q)] = f], "eval")
           /\ Stacked([q EXCEPT ![Len(q)] = f], "combine")
<1> DEFINE r == [q EXCEPT ![Len(q)] = f]
<1>1. q \in Seq(FrameSet) /\ Len(q) \in Nat /\ Len(q) \in 1..Len(q)
  BY LenProperties DEF Stacked
<1>2. /\ r \in Seq(FrameSet) /\ Len(r) = Len(q) /\ r[Len(q)] = f
      /\ \A d \in 1..Len(q) : d # Len(q) => r[d] = q[d]
  BY <1>1, ExceptSeq
<1> HIDE DEF r
<1>3. \A d \in 1..Len(r) : r[d].done <= Needs(r[d]) /\ (d < Len(r) => r[d].done < Needs(r[d]))
  BY <1>1, <1>2 DEF Stacked
<1> QED BY <1>1, <1>2, <1>3 DEF Stacked, r

\* A call has one parameter more.
WithParameter(f, x) == [f EXCEPT !.done = @ + 1, !.raw = x]

LEMMA FrameFilled ==
    ASSUME NEW f \in FrameSet, NEW x \in Seq(Buffers \cup {None})
    PROVE  /\ WithParameter(f, x) \in FrameSet /\ WithParameter(f, x).name = f.name
           /\ WithParameter(f, x).done = f.done + 1 /\ WithParameter(f, x).raw = x
           /\ WithParameter(f, x).wrapped = f.wrapped
<1> DEFINE q == Seq(Buffers \cup {None})
           r == WithParameter(f, x)
<1>1. x \in q /\ f \in [name: Names, done: Nat, raw: q, wrapped: Nat]
  BY DEF FrameSet
<1> HIDE DEF q
<1>2. r \in [name: Names, done: Nat, raw: q, wrapped: Nat]
  <2> DEFINE n == f.done + 1
  <2>1. n \in Nat
    BY <1>1
  <2> HIDE DEF n
  <2>2. [f EXCEPT !.done = n, !.raw = x] \in [name: Names, done: Nat, raw: q, wrapped: Nat]
    BY <1>1, <2>1
  <2> QED BY <2>2 DEF WithParameter, n
<1>3. r.name = f.name /\ r.done = f.done + 1 /\ r.raw = x /\ r.wrapped = f.wrapped
  BY <1>1 DEF WithParameter
<1> HIDE DEF r
<1>4. r \in FrameSet
  BY <1>2 DEF FrameSet, q
<1> QED BY <1>3, <1>4 DEF r

\* The mapping at the top, and the variables its call has on the C++ stack.
LEMMA TopFacts ==
    ASSUME LInv, Fits, Len(frames) > 0
    PROVE  /\ Top \in FrameSet /\ Top.name \in Names /\ Top.done \in Nat
           /\ Top.done <= Len(Def.deps) /\ Len(Def.deps) \in Nat /\ Def.deps \in Seq(Names)
           /\ Def.types \subseteq Types /\ (Def.kind = "DATA_SOURCE" => Def.key \in Keys)
           /\ Local(Depth) \in Stack /\ \A i \in 1..Len(Def.deps) : Param(Depth, i) \in Stack
           /\ {Param(Depth, i) : i \in 1..Top.done} \in SUBSET Slots
           /\ (pc = "returned" => Top.done < Len(Def.deps))
<1>1. /\ frames \in Seq(FrameSet) /\ Len(frames) \in Nat /\ Len(frames) \in 1..Len(frames)
      /\ frames # << >>
  BY LenProperties DEF LInv, Stacked
<1>2. /\ Top \in FrameSet /\ Top.name \in Names /\ Top.done \in Nat
  <2>1. Top \in FrameSet
    BY <1>1, ElementOfSeq DEF Top, Depth
  <2> QED BY <2>1 DEF FrameSet
<1>3. /\ Top.done <= Len(Def.deps) /\ (pc = "returned" => Top.done < Len(Def.deps))
  BY <1>1 DEF LInv, Stacked, Top, Depth, Def, Needs
<1>4. /\ Def.deps \in Seq(Names) /\ Def.types \subseteq Types
      /\ (Def.kind = "DATA_SOURCE" => Def.key \in Keys)
  BY <1>2, LifetimeAssumption DEF Def
<1>5. Len(Def.deps) \in Nat
  BY <1>4, LenProperties
<1>6. Local(Depth) \in Slots /\ \A i \in 1..Len(Def.deps) : Param(Depth, i) \in Slots
  BY <1>1 DEF Fits
<1>7. Local(Depth) \notin Caches /\ \A i \in 1..Len(Def.deps) : Param(Depth, i) \notin Caches
  BY DEF Local, Param, Caches, MappingCache, Cached, Kept
<1>8. {Param(Depth, i) : i \in 1..Top.done} \in SUBSET Slots
  BY <1>2, <1>3, <1>5, <1>6
<1> QED BY <1>2, <1>3, <1>4, <1>5, <1>6, <1>7, <1>8 DEF Stack

\* The variables that are always there.
LEMMA FixedSlots ==
    /\ Result \in Stack /\ Temp \in Stack /\ Result \in Slots /\ Temp \in Slots
    /\ \A k \in Keys : Cached(k) \in Slots
    /\ \A n \in Names : Kept(n) \in Slots
    /\ MappingCache \in SUBSET Slots
BY SlotsAssumption DEF Stack, Caches, MappingCache, Result, Temp, Cached, Kept

(***************************************************************************)
(* The steps                                                               *)
(***************************************************************************)
\* Every way out of an evaluation unwinds the stack.
LEMMA UnwindStep ==
    ASSUME LInv, NEW m, Sound(m, entries), dict \subseteq m.numpy, Unwind(m), entries' = entries
    PROVE  LInv'
<1>1. dict \in SUBSET m.numpy
  OBVIOUS
<1>2. /\ Sound(Drop(DestroyAll(m, Stack), dict), entries)
      /\ \A s \in Stack : Drop(DestroyAll(m, Stack), dict).at[s] = Blank
  BY <1>1, UnwindSound
<1>3. /\ memory' = Drop(DestroyAll(m, Stack), dict) /\ pc' = "idle"
      /\ frames' = << >> /\ dict' = {}
  BY DEF Unwind, Go
<1>4. Stacked(<< >>, "idle")
  BY EmptySeq DEF Stacked
<1> QED BY <1>2, <1>3, <1>4 DEF LInv, At

\* Functions come and go; no array changes.
LEMMA RegistryStep ==
    ASSUME LInv, UNCHANGED <<memory, entries, callVars>>
    PROVE  LInv'
BY DEF LInv, callVars, At

\* Another mapper, or the same one again.
LEMMA RenewStep ==
    ASSUME LInv, Renew
    PROVE  LInv'
<1> DEFINE gone == IF binding = "python" THEN MappingCache ELSE {}
           r == Reclaim(DestroyAll(memory, gone), NoEntries)
<1>1. gone \in SUBSET Slots
  BY FixedSlots
<1> HIDE DEF gone
<1>2. Sound(memory, entries) /\ \A s \in Stack : memory.at[s] = Blank
  BY DEF LInv, Renew, Start, At
<1>3. Sound(r, NoEntries) /\ r.numpy = memory.numpy /\ \A s \in Stack : r.at[s] = Blank
  BY <1>1, <1>2, RenewSound
<1>4. memory' = r /\ entries' = NoEntries /\ UNCHANGED callVars
  BY DEF Renew, gone
<1> HIDE DEF r
<1> QED BY <1>3, <1>4 DEF LInv, callVars, At

\* map() is called.
LEMMA CallStep ==
    ASSUME LInv, Fits, NEW n \in Requests, CallMap(n)
    PROVE  LInv'
<1>1. CASE Bound = {} /\ ~Bindable
  BY <1>1, RegistryStep DEF CallMap
<1>2. CASE ~(Bound = {} /\ ~Bindable)
  <2>1. /\ pc = "idle" /\ asked' = n /\ n \in Names /\ dict' = dict /\ entries' = entries
        /\ frames = << >> /\ Room(memory)
    BY <1>2, LifetimeAssumption DEF CallMap, Start, LInv, Stacked, Fits, Room
  <2>2. CASE At(Kept(n)) # Blank
    <3>1. memory' = Clone(memory, Kept(n), Result) /\ pc' = "deliver" /\ frames' = frames
      BY <1>2, <2>2 DEF CallMap, Hit, Go
    <3>2. Sound(memory', entries) /\ memory'.numpy = memory.numpy
      BY <2>1, <3>1, FixedSlots, CloneSound DEF LInv
    <3>3. Stacked(frames', "deliver")
      BY <2>1, <3>1, EmptySeq DEF Stacked
    <3> QED BY <2>1, <3>1, <3>2, <3>3 DEF LInv
  <2>3. CASE At(Kept(n)) = Blank
    <3>1. memory' = memory /\ pc' = "eval" /\ frames' = Append(frames, Frame(n))
      BY <1>2, <2>3 DEF CallMap, Push, Go
    <3>2. Stacked(frames', "eval")
      BY <2>1, <3>1, PushStacked DEF LInv
    <3> QED BY <2>1, <3>1, <3>2 DEF LInv
  <2> QED BY <2>2, <2>3
<1> QED BY <1>1, <1>2

\* Python drops an array.
LEMMA DropStep ==
    ASSUME LInv, DropArray
    PROVE  LInv'
<1>1. PICK x \in memory.numpy \ dict : memory' = Drop(memory, {x})
  BY DEF DropArray
<1>2. UNCHANGED <<entries, callVars>>
  BY DEF DropArray
<1>3. {x} \in SUBSET memory.numpy /\ Sound(memory, entries)
  BY DEF LInv
<1>4. /\ Sound(memory', entries) /\ memory'.at = memory.at
      /\ memory'.numpy = memory.numpy \ {x}
  BY <1>1, <1>3, DropSound
<1> QED BY <1>2, <1>4 DEF LInv, callVars, At

\* A mapping asks for a parameter, or goes on to its own work.
LEMMA EvalStep ==
    ASSUME LInv, Fits, EvalParameter \/ EvalOwn
    PROVE  LInv'
<1>1. /\ pc = "eval" /\ Len(frames) > 0 /\ UNCHANGED <<memory, entries, asked, dict>>
  BY DEF EvalParameter, EvalOwn, LInv, Stacked
<1>2. Top.done \in Nat /\ Def.deps \in Seq(Names) /\ Stacked(frames, "eval")
  BY <1>1, TopFacts DEF LInv
<1>3. CASE EvalParameter
  <2>1. /\ Top.done < Len(Def.deps) /\ frames' = Append(frames, Frame(Def.deps[Top.done + 1]))
        /\ pc' = "eval"
    BY <1>1, <1>3 DEF EvalParameter, Push
  <2>2. Top.done + 1 \in 1..Len(Def.deps)
    BY <1>2, <2>1, LenProperties
  <2>3. Def.deps[Top.done + 1] \in Names
    BY <1>2, <2>2, ElementOfSeq
  <2>4. Stacked(frames', "eval")
    BY <1>2, <2>1, <2>3, PushStacked DEF Top, Def, Depth, Needs
  <2> QED BY <1>1, <2>1, <2>4 DEF LInv
<1>4. CASE EvalOwn
  <2>1. pc' = "combine" /\ frames' = frames
    BY <1>4 DEF EvalOwn, Go
  <2>2. Stacked(frames', "combine")
    BY <1>1, <1>2, <2>1 DEF Stacked
  <2> QED BY <1>1, <2>1, <2>2 DEF LInv
<1> QED BY <1>3, <1>4

\* An array is fetched, made, lent or cloned.
LEMMA FetchStep ==
    ASSUME LInv, Fits, Fetch
    PROVE  LInv'
<1>1. /\ pc = "eval" /\ Len(frames) > 0 /\ Def.kind = "DATA_SOURCE" /\ pc' = "update"
      /\ UNCHANGED <<asked, frames, dict>> /\ Sound(memory, entries) /\ Room(memory)
      /\ Stacked(frames, "eval")
  BY DEF Fetch, Go, LInv, Stacked, Fits, Room
<1>2. /\ Local(Depth) \in Stack /\ Local(Depth) \in Slots /\ Def.types \subseteq Types
      /\ Def.key \in Keys
  BY <1>1, TopFacts DEF Stack
<1>3. Sound(memory', entries') /\ memory'.numpy = memory.numpy
  <2>1. CASE /\ memory' = Assign(Clone(memory, Cached(Def.key), Temp), Local(Depth), Temp)
             /\ entries' = entries
    BY <1>1, <1>2, <2>1, FixedSlots, StoreSound
  <2>2. ASSUME NEW type \in Def.types, NEW empty \in BOOLEAN, entries' = entries,
               memory' = Construct(memory, Local(Depth), type, empty)
        PROVE  Sound(memory', entries') /\ memory'.numpy = memory.numpy
    BY <1>1, <1>2, <2>2, ConstructSound
  <2>3. ASSUME NEW type \in Def.types, FetchLent(type)
        PROVE  Sound(memory', entries') /\ memory'.numpy = memory.numpy
    <3>1. CASE Contains(entries, Def.key)
      <4>1. memory' = Borrow(memory, Local(Depth), entries[Def.key], type) /\ entries' = entries
        BY <2>3, <3>1 DEF FetchLent
      <4> QED BY <1>1, <1>2, <3>1, <4>1, BorrowSound DEF Contains
    <3>2. CASE ~Contains(entries, Def.key)
      <4> DEFINE d == Add(entries, Def.key, Fresh(memory))
                 r == Reclaim([memory EXCEPT !.heap[Fresh(memory)] = "entry"], d)
      <4>1. /\ Sound(r, d) /\ r.numpy = memory.numpy
            /\ d[Def.key] = Fresh(memory) /\ d[Def.key] # None
        BY <1>1, <1>2, <3>2, EntrySound
      <4>2. entries' = d /\ memory' = Borrow(r, Local(Depth), Fresh(memory), type)
        BY <2>3, <3>2 DEF FetchLent
      <4> HIDE DEF d, r
      <4>3. memory' = Borrow(r, Local(Depth), d[Def.key], type)
        BY <4>1, <4>2
      <4>4. type \in Types
        BY <1>2
      <4>5. /\ Sound(Borrow(r, Local(Depth), d[Def.key], type), d)
            /\ Borrow(r, Local(Depth), d[Def.key], type).numpy = r.numpy
        BY <1>2, <4>1, <4>4, BorrowSound
      <4> QED BY <4>1, <4>2, <4>3, <4>5
    <3> QED BY <3>1, <3>2
  <2>4. CASE memory' = memory /\ entries' = entries
    BY <1>1, <2>4
  <2> QED BY <2>1, <2>2, <2>3, <2>4 DEF Fetch
<1>4. Stacked(frames', "update")
  BY <1>1 DEF Stacked, Def, Top, Depth
<1> QED BY <1>1, <1>3, <1>4 DEF LInv

\* A fetched array is sliced and kept, and becomes the result.
LEMMA UpdateStep ==
    ASSUME LInv, Fits, Update
    PROVE  LInv'
<1>1. /\ pc = "update" /\ Len(frames) > 0 /\ pc' = "returned"
      /\ frames' = SubSeq(frames, 1, Len(frames) - 1)
      /\ UNCHANGED <<entries, asked, dict>> /\ Sound(memory, entries) /\ Room(memory)
      /\ Stacked(frames, pc) /\ Def.kind = "DATA_SOURCE"
  BY DEF Update, Go, Pop, Depth, LInv, Stacked, Fits, Room, Def, Top
<1>2. /\ Local(Depth) \in Stack /\ Local(Depth) \in Slots /\ Def.key \in Keys
      /\ Cached(Def.key) \in Slots /\ Result \in Stack /\ Result \in Slots
  BY <1>1, TopFacts, FixedSlots DEF Stack
<1>3. PICK empty \in BOOLEAN, scalar \in BOOLEAN, keep \in BOOLEAN :
         memory' = Swap(Stored(Updated(memory, Local(Depth), empty, scalar), Local(Depth),
                               Cached(Def.key), keep), Local(Depth), Result)
  <2>1. PICK empty \in BOOLEAN, scalar \in BOOLEAN :
           memory' = Swap(Stored(Updated(memory, Local(Depth), empty, scalar), Local(Depth),
                                 Cached(Def.key),
                                 ~(Caching /\ At(Cached(Def.key)) # Blank) /\ Def.key \in Shared),
                          Local(Depth), Result)
    BY DEF Update
  <2>2. (~(Caching /\ At(Cached(Def.key)) # Blank) /\ Def.key \in Shared) \in BOOLEAN
    OBVIOUS
  <2> QED BY <2>1, <2>2
<1> DEFINE m == Updated(memory, Local(Depth), empty, scalar)
           r == Stored(m, Local(Depth), Cached(Def.key), keep)
<1>4. Sound(m, entries) /\ m.numpy = memory.numpy /\ Room(m)
  BY <1>1, <1>2, SliceSound DEF Updated, Fits
<1> HIDE DEF m
<1>5. Sound(r, entries) /\ r.numpy = m.numpy
  BY <1>2, <1>4, StoreSound DEF Stored
<1> HIDE DEF r
<1>6. Sound(memory', entries) /\ memory'.numpy = r.numpy
  BY <1>2, <1>3, <1>5, SwapSound DEF r, m
<1>7. Stacked(frames', "returned")
  BY <1>1, PopStacked
<1> QED BY <1>1, <1>4, <1>5, <1>6, <1>7 DEF LInv

\* A mapping returns: its parameters are destroyed.
LEMMA ReturnsStep ==
    ASSUME LInv, Fits, pc \in {"combine", "python"}, NEW m, Sound(m, entries),
           dict' \subseteq m.numpy, Returns(m), UNCHANGED <<entries, asked>>
    PROVE  LInv'
<1>1. /\ Len(frames) > 0 /\ Stacked(frames, pc) /\ pc' = "returned" /\ pc # "idle"
      /\ frames' = SubSeq(frames, 1, Len(frames) - 1)
  BY DEF Returns, Go, Pop, Depth, LInv, Stacked
<1>2. {Param(Depth, i) : i \in 1..Top.done} \in SUBSET Slots
  BY <1>1, TopFacts
<1>3. Sound(memory', entries) /\ memory'.numpy = m.numpy
  BY <1>2, DestroySound DEF Returns
<1>4. Stacked(frames', "returned")
  BY <1>1, PopStacked
<1> QED BY <1>1, <1>3, <1>4 DEF LInv

\* An empty parameter ends the expression that asked for it.
LEMMA ReturnEmptyStep ==
    ASSUME LInv, Fits, ReturnEmpty
    PROVE  LInv'
<1>1. /\ Len(frames) > 0 /\ Stacked(frames, pc) /\ pc = "returned" /\ pc' = "returned"
      /\ frames' = SubSeq(frames, 1, Len(frames) - 1) /\ UNCHANGED <<entries, asked, dict>>
  BY DEF ReturnEmpty, InCall, Pop, Depth, LInv
<1>2. {Param(Depth, i) : i \in 1..Top.done} \in SUBSET Slots
  BY <1>1, TopFacts
<1>3. Sound(memory', entries) /\ memory'.numpy = memory.numpy
  BY <1>2, DestroySound DEF ReturnEmpty, LInv
<1>4. Stacked(frames', "returned")
  BY <1>1, PopStacked
<1> QED BY <1>1, <1>3, <1>4 DEF LInv

\* A result becomes a parameter of the mapping that asked for it.
LEMMA TakeStep ==
    ASSUME LInv, Fits, TakeOperand \/ TakeInput
    PROVE  LInv'
<1> DEFINE s == Param(Depth, Top.done + 1)
           q == Swap(memory, s, Result)
<1>1. /\ pc = "returned" /\ Len(frames) > 0 /\ pc' = "eval" /\ UNCHANGED <<entries, asked, dict>>
      /\ Sound(memory, entries) /\ Room(memory) /\ Stacked(frames, pc)
  BY DEF TakeOperand, TakeInput, InCall, Go, Depth, LInv, Fits, Room
<1>2. /\ Top \in FrameSet /\ Top.done \in Nat /\ Top.done < Len(Def.deps) /\ Len(Def.deps) \in Nat
      /\ Result \in Stack /\ Result \in Slots
      /\ \A i \in 1..Len(Def.deps) : Param(Depth, i) \in Stack
  BY <1>1, TopFacts, FixedSlots
<1>3. s \in Stack /\ s \in Slots
  BY <1>2 DEF Stack
<1> HIDE DEF s
<1>4. Sound(q, entries) /\ q.numpy = memory.numpy /\ Room(q) /\ q.at[s] = memory.at[Result]
  <2>1. /\ Sound(q, entries) /\ q.numpy = memory.numpy /\ q.heap = memory.heap
        /\ q.at[s] = memory.at[Result]
    BY <1>1, <1>2, <1>3, SwapSound
  <2> QED BY <1>1, <2>1 DEF Room
<1>5. ASSUME NEW f \in FrameSet, f.name = Top.name, f.done = Top.done + 1,
             frames' = [frames EXCEPT ![Len(frames)] = f]
      PROVE  Stacked(frames', "eval")
  <2>1. f.done <= Needs(f)
    BY <1>2, <1>5 DEF Needs, Def
  <2> QED BY <1>1, <1>5, <2>1, SetStacked DEF Top, Depth
<1>6. CASE TakeOperand
  <2> DEFINE m == Converted(q, s)
  <2>1. Sound(m, entries) /\ m.numpy = q.numpy
    BY <1>3, <1>4, ConvertSound
  <2> HIDE DEF q
  <2>2. m.at[s].buffer \in Buffers \cup {None}
    BY <1>3, <2>1 DEF Sound, Memory, Array
  <2> DEFINE x == Append(Top.raw, m.at[s].buffer)
             f == WithParameter(Top, x)
  <2>3. memory' = m /\ frames' = [frames EXCEPT ![Len(frames)] = f]
    BY <1>6 DEF TakeOperand, KeepOperand, SetTop, Depth, WithParameter, q, s
  <2> HIDE DEF m
  <2>4. x \in Seq(Buffers \cup {None})
    <3>1. Top.raw \in Seq(Buffers \cup {None})
      BY <1>2 DEF FrameSet
    <3> QED BY <2>2, <3>1, AppendProperties
  <2> HIDE DEF x
  <2>5. f \in FrameSet /\ f.name = Top.name /\ f.done = Top.done + 1
    BY <1>2, <2>4, FrameFilled
  <2> HIDE DEF f
  <2>6. Stacked(frames', "eval")
    BY <1>5, <2>3, <2>5
  <2> QED BY <1>1, <1>4, <2>1, <2>3, <2>6 DEF LInv
<1>7. CASE TakeInput
  <2> DEFINE f == [Top EXCEPT !.done = @ + 1]
  <2>1. memory' = q /\ frames' = [frames EXCEPT ![Len(frames)] = f]
    BY <1>7 DEF TakeInput, SetTop, Depth, s
  <2>2. f \in FrameSet /\ f.name = Top.name /\ f.done = Top.done + 1
    BY <1>2 DEF FrameSet
  <2> HIDE DEF f, q
  <2>3. Stacked(frames', "eval")
    BY <1>5, <2>1, <2>2
  <2> QED BY <1>1, <1>4, <2>1, <2>3 DEF LInv
<1> QED BY <1>6, <1>7

\* EXPR, VALUE, DIM, INTERP and CUSTOM make their result, or hand on an input.
LEMMA ReturnStep ==
    ASSUME LInv, Fits, ReturnExpr \/ ReturnOther \/ CallLibrary
    PROVE  LInv'
<1>1. /\ pc = "combine" /\ Len(frames) > 0 /\ UNCHANGED <<entries, asked, dict>>
      /\ Sound(memory, entries) /\ Room(memory) /\ dict \subseteq memory.numpy
  BY DEF ReturnExpr, ReturnOther, CallLibrary, Calling, LInv, Stacked, Fits, Room
<1>2. /\ Result \in Slots /\ Result \in Stack /\ Def.types \subseteq Types
      /\ "double" \in Types /\ Top.done \in Nat /\ Len(Def.deps) \in Nat
      /\ Top.done <= Len(Def.deps) /\ \A i \in 1..Len(Def.deps) : Param(Depth, i) \in Stack
  BY <1>1, TopFacts, FixedSlots DEF Types
<1>3. ASSUME NEW type \in Types, Returns(Construct(memory, Result, type, FALSE))
      PROVE  LInv'
  <2> DEFINE m == Construct(memory, Result, type, FALSE)
  <2>1. Sound(m, entries) /\ m.numpy = memory.numpy
    BY <1>1, <1>2, ConstructSound
  <2> HIDE DEF m
  <2>2. Returns(m)
    BY <1>3 DEF m
  <2> QED BY <1>1, <2>1, <2>2, ReturnsStep
<1>4. ASSUME Returns(memory)
      PROVE  LInv'
  BY <1>1, <1>4, ReturnsStep
<1>5. ASSUME NEW i \in 1..Top.done, Returns(Swap(memory, Param(Depth, i), Result))
      PROVE  LInv'
  <2> DEFINE m == Swap(memory, Param(Depth, i), Result)
  <2>1. Param(Depth, i) \in Stack
    BY <1>2
  <2>2. Sound(m, entries) /\ m.numpy = memory.numpy
    BY <1>1, <1>2, <2>1, SwapSound DEF Stack
  <2> HIDE DEF m
  <2>3. Returns(m)
    BY <1>5 DEF m
  <2> QED BY <1>1, <2>2, <2>3, ReturnsStep
<1>6. CASE ReturnExpr
  BY <1>2, <1>3, <1>6 DEF ReturnExpr
<1>7. CASE ReturnOther
  BY <1>2, <1>3, <1>4, <1>7 DEF ReturnOther
<1>8. CASE CallLibrary
  BY <1>2, <1>3, <1>5, <1>8 DEF CallLibrary
<1> QED BY <1>6, <1>7, <1>8

\* Exceptions.
LEMMA ThrowStep ==
    ASSUME LInv, Throws \/ RefuseOperand \/ PythonRaises
    PROVE  LInv'
<1>1. Sound(memory, entries) /\ dict \subseteq memory.numpy
  BY DEF LInv
<1>2. Unwind(memory) /\ entries' = entries
  BY DEF Throws, RefuseOperand, PythonRaises
<1> QED BY <1>1, <1>2, UnwindStep

\* An input of a Python function is wrapped.
LEMMA WrapStep ==
    ASSUME LInv, Fits, WrapInput \/ WrapInputFails
    PROVE  LInv'
<1>1. /\ pc = "combine" /\ Len(frames) > 0 /\ Top.wrapped < Top.done /\ entries' = entries
      /\ Sound(memory, entries) /\ dict \subseteq memory.numpy /\ Stacked(frames, pc)
  BY DEF WrapInput, WrapInputFails, Calling, LInv, Stacked
<1>2. /\ Top \in FrameSet /\ Top.done \in Nat /\ Top.done <= Len(Def.deps) /\ Len(Def.deps) \in Nat
      /\ \A i \in 1..Len(Def.deps) : Param(Depth, i) \in Stack
  BY <1>1, TopFacts
<1>3. Top.wrapped \in Nat
  BY <1>2 DEF FrameSet
<1>4. NextInput \in Slots
  <2>1. Top.wrapped + 1 \in 1..Len(Def.deps)
    BY <1>1, <1>2, <1>3
  <2> QED BY <1>2, <2>1 DEF NextInput, Stack
<1>5. CASE WrapInput
  <2>1. Sound(memory', entries) /\ dict' \subseteq memory'.numpy
    <3>1. CASE memory' = WrapText(memory, NextInput) /\ dict' = dict
      BY <1>1, <1>4, <3>1, WrapTextSound
    <3>2. CASE /\ memory' = Wrap(memory, NextInput)
               /\ dict' = dict \cup {Held(memory, NextInput)}
      <4>1. /\ Sound(Wrap(memory, NextInput), entries)
            /\ Wrap(memory, NextInput).numpy = memory.numpy \cup {Held(memory, NextInput)}
        BY <1>1, <1>4, WrapSound
      <4> QED BY <1>1, <3>2, <4>1
    <3> QED BY <1>5, <3>1, <3>2 DEF WrapInput
  <2> DEFINE f == [Top EXCEPT !.wrapped = @ + 1]
  <2>2. /\ frames' = [frames EXCEPT ![Len(frames)] = f] /\ UNCHANGED <<pc, asked>>
    BY <1>5 DEF WrapInput, SetTop, Depth
  <2>3. f \in FrameSet /\ f.name = Top.name /\ f.done = Top.done
    BY <1>2, <1>3 DEF FrameSet
  <2> HIDE DEF f
  <2>4. f.done <= Needs(f)
    BY <1>2, <2>3 DEF Needs, Def
  <2>5. Stacked(frames', "combine")
    BY <1>1, <2>2, <2>3, <2>4, SetStacked DEF Top, Depth
  <2> QED BY <1>1, <2>1, <2>2, <2>5 DEF LInv
<1>6. CASE WrapInputFails
  <2> DEFINE m == WrapFails(memory, NextInput)
  <2>1. Sound(m, entries) /\ m.numpy = memory.numpy
    BY <1>1, <1>4, WrapFailsSound
  <2> HIDE DEF m
  <2>2. Unwind(m)
    BY <1>6 DEF WrapInputFails, m
  <2> QED BY <1>1, <2>1, <2>2, UnwindStep
<1> QED BY <1>5, <1>6

\* A CUSTOM mapping calls its function.
LEMMA CustomStep ==
    ASSUME LInv, CallUndefined \/ CallPython
    PROVE  LInv'
<1>1. /\ pc = "combine" /\ UNCHANGED <<memory, entries, asked, frames, dict>>
      /\ pc' \in {"undefined", "python"}
  BY DEF CallUndefined, CallPython, Calling, Go
<1>2. Stacked(frames', pc')
  BY <1>1 DEF LInv, Stacked
<1> QED BY <1>1, <1>2 DEF LInv

\* A Python function returns.
LEMMA PythonStep ==
    ASSUME LInv, Fits, PythonReturns
    PROVE  LInv'
<1>1. /\ pc = "python" /\ Len(frames) > 0 /\ UNCHANGED <<entries, asked>> /\ dict' = {}
      /\ Sound(memory, entries) /\ Room(memory) /\ dict \subseteq memory.numpy
  BY DEF PythonReturns, LInv, Stacked, Fits, Room
<1>2. PICK kept \in SUBSET dict, type \in Def.types :
         Returns(Construct(Drop(memory, dict \ kept), Result, type, FALSE))
  BY DEF PythonReturns
<1> DEFINE r == Drop(memory, dict \ kept)
           m == Construct(r, Result, type, FALSE)
<1>3. dict \ kept \in SUBSET memory.numpy
  BY <1>1
<1>4. Sound(r, entries) /\ Room(r)
  BY <1>1, <1>3, DropSound
<1> HIDE DEF r
<1>5. type \in Types /\ Result \in Slots
  BY <1>1, <1>2, TopFacts, FixedSlots
<1>6. Sound(m, entries)
  BY <1>4, <1>5, ConstructSound
<1> HIDE DEF m
<1>7. Returns(m) /\ dict' \subseteq m.numpy
  BY <1>1, <1>2 DEF m, r
<1> QED BY <1>1, <1>6, <1>7, ReturnsStep

\* The result is kept, and delivered.
LEMMA EndStep ==
    ASSUME LInv, Fits, Finish \/ Deliver
    PROVE  LInv'
<1>1. Sound(memory, entries) /\ dict \subseteq memory.numpy /\ Room(memory) /\ Result \in Slots
  BY FixedSlots DEF LInv, Fits, Room
<1>2. CASE Finish
  <2>1. /\ pc = "returned" /\ frames = << >> /\ pc' = "deliver" /\ asked \in Names
        /\ UNCHANGED <<entries, asked, frames, dict>>
        /\ memory' = Stored(memory, Result, Kept(asked), Caching /\ asked \in Shared)
    BY <1>2 DEF Finish, Go, LInv
  <2>2. Sound(memory', entries) /\ memory'.numpy = memory.numpy
    BY <1>1, <2>1, FixedSlots, StoreSound DEF Stored
  <2>3. Stacked(frames', "deliver")
    BY <2>1, EmptySeq DEF Stacked
  <2> QED BY <1>1, <2>1, <2>2, <2>3 DEF LInv
<1>3. CASE Deliver
  <2>1. ASSUME NEW m, Sound(m, entries), dict \subseteq m.numpy, Unwind(m)
        PROVE  LInv'
    BY <1>3, <2>1, UnwindStep DEF Deliver
  <2>2. Sound(WrapText(memory, Result), entries) /\ WrapText(memory, Result).numpy = memory.numpy
    BY <1>1, WrapTextSound
  <2>3. /\ Sound(Wrap(memory, Result), entries)
        /\ Wrap(memory, Result).numpy = memory.numpy \cup {Held(memory, Result)}
    BY <1>1, WrapSound
  <2>4. Sound(WrapFails(memory, Result), entries) /\ WrapFails(memory, Result).numpy = memory.numpy
    BY <1>1, WrapFailsSound
  <2>5. \/ Unwind(memory) \/ Unwind(WrapText(memory, Result))
        \/ Unwind(Wrap(memory, Result)) \/ Unwind(WrapFails(memory, Result))
    BY <1>3 DEF Deliver
  <2>6. CASE Unwind(memory)
    BY <1>1, <2>1, <2>6
  <2>7. CASE Unwind(WrapText(memory, Result))
    BY <1>1, <2>1, <2>2, <2>7
  <2>8. CASE Unwind(Wrap(memory, Result))
    <3>1. dict \subseteq Wrap(memory, Result).numpy
      BY <1>1, <2>3
    <3> QED BY <2>1, <2>3, <2>8, <3>1
  <2>9. CASE Unwind(WrapFails(memory, Result))
    BY <1>1, <2>1, <2>4, <2>9
  <2> QED BY <2>5, <2>6, <2>7, <2>8, <2>9
<1> QED BY <1>2, <1>3

(***************************************************************************)
(* The theorems                                                            *)
(***************************************************************************)
\* Nothing is allocated at the beginning.
LEMMA LifetimeStart ==
    ASSUME LifetimeInit
    PROVE  LInv
<1>1. memory = NoMemory /\ entries = NoEntries /\ pc = "idle" /\ frames = << >> /\ dict = {}
  BY DEF LifetimeInit
<1>2. Blank \in Array /\ ~Blank.owning /\ Blank.buffer = None
  BY DEF Blank, Array, Types
<1>3. /\ NoMemory \in Memory /\ NoMemory.numpy = {}
      /\ \A s \in Slots : NoMemory.at[s] = Blank
  BY <1>2 DEF NoMemory, Memory, Kinds
<1>4. NoEntries \in [Keys -> Buffers \cup {None}] /\ \A k \in Keys : NoEntries[k] = None
  BY DEF NoEntries
<1>5. Sound(NoMemory, NoEntries)
  BY <1>2, <1>3, <1>4 DEF Sound
<1>6. Stacked(<< >>, "idle")
  BY EmptySeq DEF Stacked
<1>7. \A s \in Stack : At(s) = Blank
  BY <1>1, <1>3 DEF At, Stack
<1> QED BY <1>1, <1>3, <1>5, <1>6, <1>7 DEF LInv

\* Every step keeps the memory sound, while there is room.
LEMMA LifetimeStep ==
    ASSUME LInv, Fits, [Invoke \/ Evaluate \/ Quiet]_vars
    PROVE  LInv'
<1>1. CASE UNCHANGED vars
  BY <1>1, RegistryStep DEF vars
<1>2. CASE Quiet
  BY <1>2, RegistryStep DEF Quiet, vars
<1>3. CASE Invoke
  <2>1. ASSUME NEW q \in Libraries, Provide(q)
        PROVE  LInv'
    BY <2>1, RegistryStep DEF Provide
  <2>2. ASSUME NEW c \in Customs, Withdraw(FunctionOf[c])
        PROVE  LInv'
    BY <2>2, RegistryStep DEF Withdraw
  <2>3. ASSUME NEW n \in Requests, CallMap(n)
        PROVE  LInv'
    BY <2>3, CallStep
  <2> QED BY <1>3, <2>1, <2>2, <2>3, RenewStep, DropStep DEF Invoke
<1>4. CASE Evaluate
  BY <1>4, EvalStep, FetchStep, UpdateStep, ReturnEmptyStep, TakeStep, ReturnStep, ThrowStep,
     WrapStep, CustomStep, PythonStep, EndStep DEF Evaluate
<1> QED BY <1>1, <1>2, <1>3, <1>4

\* A memory that is sound frees each buffer at most once.
LEMMA SoundOwnedOnce ==
    ASSUME LInv
    PROVE  OwnedOnce
<1>1. SUFFICES ASSUME NEW b \in Buffers
      PROVE  /\ Cardinality(Owning(b)) + Cardinality(Freeing(b)) <= 1
             /\ Owning(b) # {} => memory.heap[b] \in {"malloc", "new"}
             /\ Freeing(b) # {} => memory.heap[b] # "free"
  BY DEF OwnedOnce
<1>2. Sound(memory, entries)
  BY DEF LInv
<1>3. Owning(b) = {} \/ \E s \in Slots : Owning(b) = {s}
  BY <1>2 DEF Owning, At, Sound
<1>4. Freeing(b) \subseteq {[buffer |-> b, frees |-> TRUE]}
  BY <1>2 DEF Freeing, Sound, Memory, Holders
<1>5. Owning(b) = {} \/ Freeing(b) = {}
  BY <1>2 DEF Owning, Freeing, At, Sound
<1>6. Cardinality(Owning(b)) \in {0, 1} /\ (Owning(b) = {} => Cardinality(Owning(b)) = 0)
  BY <1>3, FS_EmptySet, FS_Singleton
<1>7. Cardinality(Freeing(b)) \in {0, 1} /\ (Freeing(b) = {} => Cardinality(Freeing(b)) = 0)
  <2>1. Freeing(b) = {} \/ Freeing(b) = {[buffer |-> b, frees |-> TRUE]}
    BY <1>4
  <2> QED BY <2>1, FS_EmptySet, FS_Singleton
<1>8. Owning(b) # {} => memory.heap[b] \in {"malloc", "new"}
  BY <1>2 DEF Owning, At, Sound, Allocated
<1>9. Freeing(b) # {} => memory.heap[b] # "free"
  BY <1>2 DEF Freeing, Sound, Allocated
<1> QED BY <1>5, <1>6, <1>7, <1>8, <1>9

\* The invariant, as long as malloc and the C++ stack have room for one more step:
\* each buffer has one owner, and what is lent belongs to an entry.
THEOREM MemoryInvariant == LifetimeSpec /\ []Fits => []LInv
<1>1. LifetimeInit => LInv
  BY LifetimeStart
<1>2. LInv /\ Fits /\ [Invoke \/ Evaluate \/ Quiet]_vars => LInv'
  BY LifetimeStep
<1> QED BY <1>1, <1>2, PTL DEF LifetimeSpec

\* No buffer is freed twice or after it was freed, on any path out of any mapping
\* (typed_data_array.hpp, wrap_array).
THEOREM NoDoubleFree == LifetimeSpec /\ []Fits => []OwnedOnce
<1>1. LInv => OwnedOnce
  BY SoundOwnedOnce
<1> QED BY <1>1, MemoryInvariant, PTL

\* A NumPy array that frees its buffer shares it with no array of the library, in
\* a cache or elsewhere (wrap_array).
THEOREM ResultsHeldApart == LifetimeSpec /\ []Fits => []HeldApart
<1>1. LInv => HeldApart
  BY DEF LInv, Sound, HeldApart, At
<1> QED BY <1>1, MemoryInvariant, PTL

\* Lent memory belongs to an entry of the RAM cache that is there, for each array
\* it is lent to (ram_cache.hpp, data_source_mapping.cpp).
THEOREM LentMemoryLives == LifetimeSpec /\ []Fits => []LentAlive
<1>1. LInv => LentAlive
  <2>1. ASSUME LInv, NEW s \in Slots, ~At(s).owning, At(s).buffer # None
        PROVE  \E k \in Keys : entries[k] = At(s).buffer /\ memory.heap[At(s).buffer] = "entry"
    <3>1. PICK k \in Keys : entries[k] = memory.at[s].buffer
      BY <2>1 DEF LInv, Sound, At
    <3> QED BY <2>1, <3>1 DEF LInv, Sound, At
  <2> QED BY <2>1 DEF LentAlive
<1> QED BY <1>1, MemoryInvariant, PTL

(***************************************************************************)
(* Custom functions                                                        *)
(***************************************************************************)
FunctionInv ==
    functions \in Seq(Functions) /\ disturbed \subseteq Bound /\ CallsNamedFunction

\* Functions added behind the others leave every position as it is.
LEMMA InsertStep ==
    ASSUME FunctionInv, NEW q \in Libraries, Insert(q)
    PROVE  FunctionInv'
<1>1. q \in Seq(Functions) /\ functions \in Seq(Functions)
  BY LifetimeAssumption DEF FunctionInv
<1>2. functions' = functions \o q /\ pointer' = pointer /\ Bound' = Bound
  BY DEF Insert, Bound
<1>3. /\ functions' \in Seq(Functions) /\ Len(functions') = Len(functions) + Len(q)
      /\ Len(functions) \in Nat /\ Len(q) \in Nat
      /\ DOMAIN functions = 1..Len(functions) /\ DOMAIN functions' = 1..Len(functions')
      /\ \A i \in 1..Len(functions) : functions'[i] = functions[i]
  BY <1>1, <1>2, ConcatProperties, LenProperties
<1>4. CASE Len(functions) + Len(q) <= capacity
  <2>1. storage' = storage /\ disturbed' = disturbed
    BY <1>4 DEF Insert
  <2> QED BY <1>2, <1>3, <2>1 DEF FunctionInv, CallsNamedFunction, Usable, Target
<1>5. CASE ~(Len(functions) + Len(q) <= capacity)
  <2>1. disturbed' = disturbed \cup Bound
    BY <1>5 DEF Insert
  <2> QED BY <1>2, <1>3, <2>1 DEF FunctionInv, CallsNamedFunction
<1> QED BY <1>4, <1>5

\* Erasing a function disturbs the pointers at or behind it, and no others.
LEMMA UnregisterStep ==
    ASSUME FunctionInv, NEW n, Unregister(n)
    PROVE  FunctionInv'
<1>1. CASE UNCHANGED functionVars
  BY <1>1 DEF functionVars, FunctionInv, CallsNamedFunction, Bound, Usable, Target
<1>2. CASE ~UNCHANGED functionVars
  <2>1. PICK i \in DOMAIN functions :
           /\ functions' = SubSeq(functions, 1, i - 1) \o SubSeq(functions, i + 1, Len(functions))
           /\ disturbed' = disturbed \cup {c \in Bound : pointer[c].at >= i}
    BY <1>2 DEF Unregister
  <2>2. UNCHANGED <<storage, pointer>> /\ Bound' = Bound
    BY <1>2 DEF Unregister, Bound
  <2> DEFINE front == SubSeq(functions, 1, i - 1)
             back  == SubSeq(functions, i + 1, Len(functions))
  <2>3. functions \in Seq(Functions) /\ Len(functions) \in Nat /\ i \in 1..Len(functions)
        /\ DOMAIN functions = 1..Len(functions)
    BY LenProperties DEF FunctionInv
  <2>4. /\ front \in Seq(Functions) /\ Len(front) = i - 1
        /\ \A j \in 1..(i - 1) : front[j] = functions[j]
    <3>1. i - 1 \in Int /\ 1 \in Int /\ \A j \in 1..(i - 1) : functions[j] \in Functions
      BY <2>3, ElementOfSeq
    <3>2. /\ front \in Seq(Functions) /\ Len(front) = IF 1 <= i - 1 THEN i - 1 - 1 + 1 ELSE 0
          /\ \A j \in 1..(i - 1 - 1 + 1) : front[j] = functions[1 + j - 1]
      BY <3>1, SubSeqProperties
    <3> HIDE DEF front
    <3> QED BY <2>3, <3>2
  <2>5. back \in Seq(Functions) /\ Len(back) \in Nat
    <3>1. i + 1 \in Int /\ Len(functions) \in Int
          /\ \A j \in (i + 1)..Len(functions) : functions[j] \in Functions
      BY <2>3, ElementOfSeq
    <3>2. back \in Seq(Functions)
      BY <3>1, SubSeqProperties
    <3> QED BY <3>2, LenProperties
  <2> HIDE DEF front, back
  <2>6. /\ functions' \in Seq(Functions) /\ DOMAIN functions' = 1..Len(functions')
        /\ Len(functions') \in Nat /\ Len(functions') >= i - 1
        /\ \A j \in 1..(i - 1) : functions'[j] = functions[j]
    <3>1. functions' = front \o back
      BY <2>1 DEF front, back
    <3>2. /\ functions' \in Seq(Functions) /\ Len(functions') = Len(front) + Len(back)
          /\ \A j \in 1..(Len(front) + Len(back)) :
                functions'[j] = IF j <= Len(front) THEN front[j] ELSE back[j - Len(front)]
      BY <2>4, <2>5, <3>1, ConcatProperties
    <3> QED BY <2>3, <2>4, <2>5, <3>2, LenProperties
  <2>7. ASSUME NEW c \in (Bound \ disturbed)'
        PROVE  Usable(c)' /\ Name[Target(c)'] = FunctionOf[c]
    <3>1. c \in Bound \ disturbed /\ ~(pointer[c].at >= i)
      BY <2>1, <2>2, <2>7
    <3>2. Usable(c) /\ Name[Target(c)] = FunctionOf[c]
      BY <3>1 DEF FunctionInv, CallsNamedFunction
    <3>3. pointer[c].at \in 1..(i - 1)
      BY <2>3, <3>1, <3>2 DEF Usable
    <3> DEFINE p == pointer[c].at
    <3>4. p \in 1..Len(functions') /\ functions'[p] = functions[p]
      BY <2>3, <2>6, <3>3
    <3>5. p \in DOMAIN functions' /\ pointer'[c].at = p /\ pointer'[c].storage = storage'
      BY <2>2, <2>6, <3>2, <3>4 DEF Usable
    <3> QED BY <3>2, <3>4, <3>5 DEF Usable, Target
  <2>8. disturbed' \subseteq Bound'
    BY <2>1, <2>2 DEF FunctionInv
  <2> QED BY <2>6, <2>7, <2>8 DEF FunctionInv, CallsNamedFunction
<1> QED BY <1>1, <1>2

\* The constructors of the CUSTOM mappings take the functions that are named.
LEMMA BindStep ==
    ASSUME FunctionInv, Bindable, BindAll
    PROVE  FunctionInv'
<1>1. UNCHANGED <<functions, storage>>
  BY DEF BindAll
<1>2. ASSUME NEW c \in Customs
      PROVE  Usable(c)' /\ Name[Target(c)'] = FunctionOf[c]
  <2> DEFINE at == CHOOSE i \in DOMAIN functions : FirstNamed(FunctionOf[c], i)
  <2>1. pointer'[c] = [storage |-> storage, at |-> at]
    BY DEF BindAll
  <2>2. at \in DOMAIN functions /\ FirstNamed(FunctionOf[c], at)
    BY DEF Bindable, Named
  <2> HIDE DEF at
  <2> QED BY <1>1, <2>1, <2>2 DEF Usable, Target, FirstNamed
<1>3. Bound' \subseteq Customs /\ disturbed' \subseteq Bound'
  BY DEF Bound, BindAll
<1> QED BY <1>1, <1>2, <1>3 DEF FunctionInv, CallsNamedFunction

\* The registry holds functions, and the pointers that may have become invalid are
\* some of those the mappings have (custom_mapping.cpp, mapping_handler.cpp).
THEOREM FunctionInvariant == LifetimeSpec => []FunctionInv
<1>1. LifetimeInit => FunctionInv
  BY EmptySeq DEF LifetimeInit, InitFunctions, FunctionInv, CallsNamedFunction, Bound
<1>2. FunctionInv /\ [Invoke \/ Evaluate \/ Quiet]_vars => FunctionInv'
  <2> SUFFICES ASSUME FunctionInv, [Invoke \/ Evaluate \/ Quiet]_vars
               PROVE  FunctionInv'
    OBVIOUS
  <2>1. ASSUME UNCHANGED functionVars
        PROVE  FunctionInv'
    BY <2>1 DEF functionVars, FunctionInv, CallsNamedFunction, Bound, Usable, Target
  <2>2. ASSUME Unbind, functions' \in Seq(Functions)
        PROVE  FunctionInv'
    BY <2>2 DEF Unbind, FunctionInv, CallsNamedFunction, Bound
  <2>3. CASE Quiet \/ UNCHANGED vars
    BY <2>1, <2>3 DEF Quiet, vars
  <2>4. CASE Evaluate
    BY <2>1, <2>4 DEF Evaluate, Throws, EvalParameter, EvalOwn, Fetch, Update, ReturnEmpty,
       TakeOperand, RefuseOperand, TakeInput, ReturnExpr, ReturnOther, CallUndefined,
       CallLibrary, WrapInput, WrapInputFails, CallPython, PythonReturns, PythonRaises,
       Finish, Deliver
  <2>5. ASSUME NEW q \in Libraries, Provide(q)
        PROVE  FunctionInv'
    BY <2>5, InsertStep DEF Provide
  <2>6. ASSUME NEW c \in Customs, Withdraw(FunctionOf[c])
        PROVE  FunctionInv'
    BY <2>6, UnregisterStep DEF Withdraw
  <2>7. ASSUME NEW n \in Requests, CallMap(n)
        PROVE  FunctionInv'
    BY <2>1, <2>7, BindStep DEF CallMap
  <2>8. CASE Renew
    <3>1. functions' \in Seq(Functions) /\ Unbind
      BY <2>8, EmptySeq DEF Renew, FunctionInv
    <3> QED BY <2>2, <3>1
  <2>9. CASE DropArray
    BY <2>1, <2>9 DEF DropArray
  <2> QED BY <2>3, <2>4, <2>5, <2>6, <2>7, <2>8, <2>9 DEF Invoke
<1> QED BY <1>1, <1>2, PTL DEF LifetimeSpec

\* As long as std::vector leaves a CUSTOM mapping's pointer valid, the function it
\* calls is the one it names (custom_mapping.cpp, mapping_handler.cpp).
THEOREM CustomCallsNamed == LifetimeSpec => []CallsNamedFunction
<1>1. FunctionInv => CallsNamedFunction
  BY DEF FunctionInv
<1> QED BY <1>1, FunctionInvariant, PTL
=============================================================================
