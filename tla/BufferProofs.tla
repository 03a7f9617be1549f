---------------------------- MODULE BufferProofs ----------------------------
(***************************************************************************)
(* Proof, for any mappings, libraries, requests and data sources and as    *)
(* long as the heap and the stack have room (Fits), that no buffer is      *)
(* lost, that the raw pointers of EXPR stay valid, and that a converted    *)
(* buffer stays where it was converted.  LifetimeProofs says that no       *)
(* buffer has two owners; here each has one, among the C++ variables that  *)
(* exist.  The first part says what the member functions of TypedDataArray *)
(* do to a set of owners, the second what the C++ stack holds, and the     *)
(* third takes each step.                                                  *)
(***************************************************************************)
EXTENDS LifetimeProofs

Owns(m, s, b) == m.at[s].owning /\ m.at[s].buffer = b
Frees(x, b)   == x.frees /\ x.buffer = b

\* Only the variables in H own buffers, only those in N converted ones, and each
\* allocated buffer has an owner, unless it was lost.
Placed(m, H, N) ==
    /\ \A s \in Slots : m.at[s].owning => s \in H
    /\ \A s \in Slots : m.at[s].owning /\ m.heap[m.at[s].buffer] = "new" => s \in N
    /\ \A x \in m.numpy : x.frees => m.heap[x.buffer] = "malloc"
    /\ \A b \in Buffers : m.heap[b] \in Allocated =>
          (\E s \in Slots : Owns(m, s, b)) \/ (\E x \in m.numpy : Frees(x, b)) \/ b \in m.lost

\* An array without a buffer is as it was constructed, unless it was released: it
\* is in W.  A NumPy array has a buffer, and what is lost was one.
Filled(m, W) ==
    /\ \A s \in Slots \ W : m.at[s].buffer = None => m.at[s].empty /\ m.at[s].type = "unknown"
    /\ \A x \in m.numpy : x.buffer # None
    /\ None \notin m.lost

Tidy(m, H, N, W) == Placed(m, H, N) /\ Filled(m, W)

(***************************************************************************)
(* The operators on memories                                               *)
(***************************************************************************)
\* More may own than does.
LEMMA TidyWider ==
    ASSUME NEW m, NEW H, NEW N, NEW W, Tidy(m, H, N, W), NEW I, NEW O, NEW V,
           H \cap Slots \subseteq I, N \cap Slots \subseteq O, W \cap Slots \subseteq V
    PROVE  Tidy(m, I, O, V)
BY DEF Tidy, Placed, Filled

\* What is allocated has an owner more.
LEMMA MadeTidy ==
    ASSUME NEW m, NEW e, Sound(m, e), Room(m), NEW H, NEW N, NEW W, Tidy(m, H, N, W),
           NEW s \in Slots, s \notin H, NEW kind \in Allocated, NEW a \in Array,
           NEW O, N \subseteq O, kind = "new" => s \in O
    PROVE  Tidy(Made(m, s, kind, a), H \cup {s}, O, W)
<1> DEFINE r == Made(m, s, kind, a)
           f == Fresh(m)
<1>1. /\ r.numpy = m.numpy /\ r.lost = m.lost
      /\ \A t \in Slots : t # s => r.at[t] = m.at[t]
      /\ r.at[s].owning /\ r.at[s].buffer = f
      /\ \A b \in Buffers : r.heap[b] = IF b = f THEN kind ELSE m.heap[b]
  <2>1. r.lost = m.lost
    BY DEF Made, Sound, Memory
  <2> QED BY <2>1, MadeSound
<1>2. f \in Buffers /\ m.heap[f] = "free" /\ None \notin Buffers
  BY FreshFree, LifetimeAssumption
<1> HIDE DEF r, f
<1>3. /\ \A t \in Slots : m.at[t].owning => m.at[t].buffer \in Buffers /\ m.at[t].buffer # f
      /\ \A x \in m.numpy : x.frees => x.buffer \in Buffers /\ x.buffer # f
      /\ ~m.at[s].owning
  BY <1>2 DEF Sound, Allocated, Tidy, Placed
<1>4. \A t \in Slots : r.at[t].owning => t \in H \cup {s}
  BY <1>1 DEF Tidy, Placed
<1>5. \A t \in Slots : r.at[t].owning /\ r.heap[r.at[t].buffer] = "new" => t \in O
  BY <1>1, <1>2, <1>3 DEF Tidy, Placed
<1>6. \A x \in r.numpy : x.frees => r.heap[x.buffer] = "malloc"
  BY <1>1, <1>3 DEF Tidy, Placed
<1>7. ASSUME NEW b \in Buffers, r.heap[b] \in Allocated
      PROVE  (\E t \in Slots : Owns(r, t, b)) \/ (\E x \in r.numpy : Frees(x, b)) \/ b \in r.lost
  <2>1. CASE b = f
    BY <1>1, <2>1 DEF Owns
  <2>2. CASE b # f
    <3>1. (\E t \in Slots : Owns(m, t, b)) \/ (\E x \in m.numpy : Frees(x, b)) \/ b \in m.lost
      BY <1>1, <1>7, <2>2 DEF Tidy, Placed
    <3>2. \A t \in Slots : Owns(m, t, b) => Owns(r, t, b)
      BY <1>1, <1>3 DEF Owns
    <3> QED BY <1>1, <3>1, <3>2
  <2> QED BY <2>1, <2>2
<1>8. Filled(r, W)
  BY <1>1, <1>2 DEF Tidy, Filled
<1> QED BY <1>4, <1>5, <1>6, <1>7, <1>8 DEF Tidy, Placed, r

\* What is destroyed owns nothing.
LEMMA DestroyTidy ==
    ASSUME NEW m, NEW e, Sound(m, e), NEW H, NEW N, NEW W, Tidy(m, H, N, W), NEW S \in SUBSET Slots
    PROVE  Tidy(DestroyAll(m, S), H \ S, N \ S, W \ S)
<1> DEFINE r == DestroyAll(m, S)
<1>1. /\ r.numpy = m.numpy /\ r.lost = m.lost
      /\ \A t \in Slots : r.at[t] = IF t \in S THEN Blank ELSE m.at[t]
      /\ \A b \in Buffers : r.heap[b] = IF b \in Owned(m, S) THEN "free" ELSE m.heap[b]
  BY DestroyShape DEF Sound
<1> HIDE DEF r
<1>2. ~Blank.owning /\ Blank.empty /\ Blank.type = "unknown"
  BY DEF Blank
<1>3. \A t \in Slots : r.at[t].owning =>
         t \notin S /\ m.at[t].owning /\ r.at[t].buffer = m.at[t].buffer /\ m.at[t].buffer \in Buffers
  BY <1>1, <1>2 DEF Sound
<1>4. \A x \in m.numpy : x.frees => x.buffer \in Buffers /\ x.buffer \notin Owned(m, S)
  BY DEF Owned, Sound
<1>5. \A t \in Slots : r.at[t].owning => t \in H \ S
  BY <1>3 DEF Tidy, Placed
<1>6. \A t \in Slots : r.at[t].owning /\ r.heap[r.at[t].buffer] = "new" => t \in N \ S
  BY <1>1, <1>3 DEF Tidy, Placed
<1>7. \A x \in r.numpy : x.frees => r.heap[x.buffer] = "malloc"
  BY <1>1, <1>4 DEF Tidy, Placed
<1>8. ASSUME NEW b \in Buffers, r.heap[b] \in Allocated
      PROVE  (\E t \in Slots : Owns(r, t, b)) \/ (\E x \in r.numpy : Frees(x, b)) \/ b \in r.lost
  <2>1. b \notin Owned(m, S) /\ m.heap[b] \in Allocated
    BY <1>1, <1>8 DEF Allocated
  <2>2. (\E t \in Slots : Owns(m, t, b)) \/ (\E x \in m.numpy : Frees(x, b)) \/ b \in m.lost
    BY <2>1 DEF Tidy, Placed
  <2>3. \A t \in Slots : Owns(m, t, b) => Owns(r, t, b)
    BY <1>1, <2>1 DEF Owns, Owned
  <2> QED BY <1>1, <2>2, <2>3
<1>9. Filled(r, W \ S)
  BY <1>1, <1>2 DEF Tidy, Filled
<1> QED BY <1>5, <1>6, <1>7, <1>8, <1>9 DEF Tidy, Placed, r

\* A move exchanges what two objects own.
LEMMA SwapTidy ==
    ASSUME NEW m, NEW e, Sound(m, e), NEW H, NEW N, NEW W, Tidy(m, H, N, W),
           NEW s \in Slots, NEW t \in Slots, s \notin W, t \notin W,
           NEW I, NEW O, H \ {s, t} \subseteq I, N \ {s, t} \subseteq O,
           s \in H => t \in I, t \in H => s \in I, s \in N => t \in O, t \in N => s \in O
    PROVE  Tidy(Swap(m, s, t), I, O, W)
<1> DEFINE r == Swap(m, s, t)
<1>1. /\ r.heap = m.heap /\ r.numpy = m.numpy /\ r.lost = m.lost
      /\ r.at[s] = m.at[t] /\ r.at[t] = m.at[s]
      /\ \A u \in Slots \ {s, t} : r.at[u] = m.at[u]
  BY DEF Swap, Sound, Memory
<1> HIDE DEF r
<1>2. \A u \in Slots : r.at[u].owning => u \in I
  BY <1>1 DEF Tidy, Placed
<1>3. \A u \in Slots : r.at[u].owning /\ r.heap[r.at[u].buffer] = "new" => u \in O
  BY <1>1 DEF Tidy, Placed
<1>4. \A x \in r.numpy : x.frees => r.heap[x.buffer] = "malloc"
  BY <1>1 DEF Tidy, Placed
<1>5. ASSUME NEW b \in Buffers, r.heap[b] \in Allocated
      PROVE  (\E u \in Slots : Owns(r, u, b)) \/ (\E x \in r.numpy : Frees(x, b)) \/ b \in r.lost
  <2>1. (\E u \in Slots : Owns(m, u, b)) \/ (\E x \in m.numpy : Frees(x, b)) \/ b \in m.lost
    BY <1>1, <1>5 DEF Tidy, Placed
  <2>2. \A u \in Slots : Owns(m, u, b) => \E v \in Slots : Owns(r, v, b)
    BY <1>1 DEF Owns
  <2> QED BY <1>1, <2>1, <2>2
<1>6. Filled(r, W)
  BY <1>1 DEF Tidy, Filled
<1> QED BY <1>2, <1>3, <1>4, <1>5, <1>6 DEF Tidy, Placed, r

\* A copy is stored: made in a temporary, moved, and what it replaces destroyed.
LEMMA AssignTidy ==
    ASSUME NEW m, NEW e, Sound(m, e), Room(m), NEW H, NEW N, NEW W, Tidy(m, H, N, W),
           NEW c \in Slots, c # Temp, Temp \notin H, Temp \notin N, c \notin W, Temp \notin W,
           NEW kind \in Allocated, NEW a \in Array,
           NEW O, N \subseteq O, kind = "new" => c \in O
    PROVE  /\ Tidy(Assign(Made(m, Temp, kind, a), c, Temp), H \cup {c}, O, W)
           /\ \A t \in Slots \ {c, Temp} :
                  Assign(Made(m, Temp, kind, a), c, Temp).at[t] = m.at[t]
           /\ Assign(Made(m, Temp, kind, a), c, Temp).at[c].buffer = Fresh(m)
<1> DEFINE p == Made(m, Temp, kind, a)
           q == Swap(p, c, Temp)
           r == DestroyAll(q, {Temp})
           P == IF kind = "new" THEN N \cup {Temp} ELSE N
           I == H \cup {c, Temp}
           V == O \cup {Temp}
<1>1. Temp \in Slots /\ Temp \in Stack
  BY FixedSlots
<1>2. /\ Sound(p, e) /\ p.at[Temp].owning /\ p.at[Temp].buffer = Fresh(m)
      /\ \A t \in Slots : t # Temp => p.at[t] = m.at[t]
  BY <1>1, MadeSound
<1>3. Tidy(p, H \cup {Temp}, P, W)
  <2>1. N \subseteq P /\ (kind = "new" => Temp \in P)
    OBVIOUS
  <2> HIDE DEF P
  <2> QED BY <1>1, <2>1, MadeTidy
<1> HIDE DEF p
<1>4. /\ Sound(q, e) /\ q.at[c] = p.at[Temp] /\ \A t \in Slots \ {c, Temp} : q.at[t] = p.at[t]
  BY <1>1, <1>2, SwapSound
<1>5. Tidy(q, I, V, W)
  <2>1. /\ (H \cup {Temp}) \ {c, Temp} \subseteq I /\ c \in I /\ Temp \in I /\ Temp \in V
        /\ P \ {c, Temp} \subseteq V /\ (Temp \in P => c \in V)
    OBVIOUS
  <2> HIDE DEF I, V, P
  <2> QED BY <1>1, <1>2, <1>3, <2>1, SwapTidy
<1> HIDE DEF q
<1>6. /\ \A t \in Slots : r.at[t] = IF t = Temp THEN Blank ELSE q.at[t]
      /\ Tidy(r, I \ {Temp}, V \ {Temp}, W \ {Temp})
  <2> HIDE DEF I, V
  <2> QED BY <1>1, <1>4, <1>5, DestroySound, DestroyTidy
<1> HIDE DEF r
<1>7. Tidy(r, H \cup {c}, O, W)
  BY <1>6, TidyWider
<1>8. r = Assign(Made(m, Temp, kind, a), c, Temp)
  BY DEF r, q, p, Assign
<1> QED BY <1>2, <1>4, <1>6, <1>7, <1>8

\* What is sliced is copied, and the copy owned.
LEMMA SliceTidy ==
    ASSUME NEW m, NEW e, Sound(m, e), Room(m), NEW H, NEW N, NEW W, Tidy(m, H, N, W),
           NEW s \in Slots, s \in H, NEW empty \in BOOLEAN
    PROVE  /\ Tidy(Slice(m, s, empty), H, N, W)
           /\ \A t \in Slots : t # s => Slice(m, s, empty).at[t] = m.at[t]
<1> DEFINE r == Slice(m, s, empty)
           f == Fresh(m)
           o == Owned(m, {s})
<1>1. /\ r.numpy = m.numpy /\ r.lost = m.lost
      /\ \A t \in Slots : t # s => r.at[t] = m.at[t]
      /\ r.at[s].owning /\ r.at[s].buffer = f /\ r.at[s].type = m.at[s].type
      /\ \A b \in Buffers : r.heap[b] = IF b \in o THEN "free"
                                        ELSE IF b = f THEN "malloc" ELSE m.heap[b]
  <2>1. Sliced(m, s, r)
    BY SliceShape DEF Sound
  <2> QED BY <2>1 DEF Sliced
<1>2. f \in Buffers /\ m.heap[f] = "free" /\ None \notin Buffers
  BY FreshFree, LifetimeAssumption
<1> HIDE DEF r, f
<1>3. /\ \A t \in Slots : m.at[t].owning =>
            m.at[t].buffer \in Buffers /\ m.at[t].buffer # f /\ (t # s => m.at[t].buffer \notin o)
      /\ \A x \in m.numpy : x.frees => x.buffer \in Buffers /\ x.buffer # f /\ x.buffer \notin o
      /\ f \notin o
  BY <1>2 DEF Sound, Allocated, Owned
<1>4. \A b \in Buffers : Owns(m, s, b) => b \in o
  BY DEF Owns, Owned
<1> HIDE DEF o
<1>5. \A t \in Slots : r.at[t].owning => t \in H
  BY <1>1 DEF Tidy, Placed
<1>6. \A t \in Slots : r.at[t].owning /\ r.heap[r.at[t].buffer] = "new" => t \in N
  <2>1. r.heap[f] = "malloc"
    BY <1>1, <1>2, <1>3
  <2> QED BY <1>1, <1>3, <2>1 DEF Tidy, Placed
<1>7. \A x \in r.numpy : x.frees => r.heap[x.buffer] = "malloc"
  BY <1>1, <1>3 DEF Tidy, Placed
<1>8. ASSUME NEW b \in Buffers, r.heap[b] \in Allocated
      PROVE  (\E t \in Slots : Owns(r, t, b)) \/ (\E x \in r.numpy : Frees(x, b)) \/ b \in r.lost
  <2>1. CASE b = f
    BY <1>1, <2>1 DEF Owns
  <2>2. CASE b # f
    <3>1. b \notin o /\ m.heap[b] \in Allocated
      BY <1>1, <1>8, <2>2 DEF Allocated
    <3>2. (\E t \in Slots : Owns(m, t, b)) \/ (\E x \in m.numpy : Frees(x, b)) \/ b \in m.lost
      BY <3>1 DEF Tidy, Placed
    <3>3. \A t \in Slots : Owns(m, t, b) => Owns(r, t, b)
      BY <1>1, <1>4, <3>1 DEF Owns
    <3> QED BY <1>1, <3>2, <3>3
  <2> QED BY <2>1, <2>2
<1>9. Filled(r, W)
  BY <1>1, <1>2 DEF Tidy, Filled
<1> QED BY <1>1, <1>5, <1>6, <1>7, <1>8, <1>9 DEF Tidy, Placed, r

\* A buffer from malloc goes to a capsule.
LEMMA WrapTidy ==
    ASSUME NEW m, NEW e, Sound(m, e), NEW H, NEW N, NEW W, Tidy(m, H, N, W),
           NEW s \in Slots, s \notin N, m.at[s].buffer # None
    PROVE  /\ Tidy(Wrap(m, s), H, N, W \cup {s})
           /\ \A t \in Slots : t # s => Wrap(m, s).at[t] = m.at[t]
<1> DEFINE r == Wrap(m, s)
           h == Held(m, s)
<1>1. m \in Memory
  BY DEF Sound
<1>2. /\ r.heap = m.heap /\ r.numpy = m.numpy \cup {h} /\ r.lost = m.lost
      /\ r.at[s] = Released(m.at[s]) /\ \A t \in Slots : t # s => r.at[t] = m.at[t]
  BY <1>1, WrapShape
<1>3. /\ ~Released(m.at[s]).owning /\ h.buffer = m.at[s].buffer /\ h.frees = m.at[s].owning
  BY <1>1, ReleasedShape
<1> HIDE DEF r, h
<1>4. \A t \in Slots : r.at[t].owning => t \in H
  BY <1>2, <1>3 DEF Tidy, Placed
<1>5. \A t \in Slots : r.at[t].owning /\ r.heap[r.at[t].buffer] = "new" => t \in N
  BY <1>2, <1>3 DEF Tidy, Placed
<1>6. h.frees => r.heap[h.buffer] = "malloc"
  <2>1. m.at[s].owning => m.heap[m.at[s].buffer] \in Allocated /\ m.heap[m.at[s].buffer] # "new"
    BY DEF Sound, Tidy, Placed
  <2> QED BY <1>2, <1>3, <2>1 DEF Allocated
<1>7. \A x \in r.numpy : x.frees => r.heap[x.buffer] = "malloc"
  BY <1>2, <1>6 DEF Tidy, Placed
<1>8. ASSUME NEW b \in Buffers, r.heap[b] \in Allocated
      PROVE  (\E t \in Slots : Owns(r, t, b)) \/ (\E x \in r.numpy : Frees(x, b)) \/ b \in r.lost
  <2>1. (\E t \in Slots : Owns(m, t, b)) \/ (\E x \in m.numpy : Frees(x, b)) \/ b \in m.lost
    BY <1>2, <1>8 DEF Tidy, Placed
  <2>2. \A t \in Slots : t # s /\ Owns(m, t, b) => Owns(r, t, b)
    BY <1>2 DEF Owns
  <2>3. Owns(m, s, b) => Frees(h, b)
    BY <1>3 DEF Owns, Frees
  <2> QED BY <1>2, <2>1, <2>2, <2>3
<1>9. Filled(r, W \cup {s})
  BY <1>2, <1>3 DEF Tidy, Filled
<1> QED BY <1>2, <1>4, <1>5, <1>7, <1>8, <1>9 DEF Tidy, Placed, r

\* A buffer that a failure leaves without an owner is lost.
LEMMA WrapFailsTidy ==
    ASSUME NEW m, NEW e, Sound(m, e), NEW H, NEW N, NEW W, Tidy(m, H, N, W), NEW s \in Slots
    PROVE  Tidy(WrapFails(m, s), H, N, W \cup {s})
<1> DEFINE r == WrapFails(m, s)
<1>1. m \in Memory
  BY DEF Sound
<1>2. /\ r.heap = m.heap /\ r.numpy = m.numpy /\ r.lost = m.lost \cup Owned(m, {s})
      /\ r.at[s] = Released(m.at[s]) /\ \A t \in Slots : t # s => r.at[t] = m.at[t]
  BY <1>1, WrapFailsShape
<1>3. ~Released(m.at[s]).owning
  BY <1>1, ReleasedShape
<1> HIDE DEF r
<1>4. \A t \in Slots : r.at[t].owning => t \in H
  BY <1>2, <1>3 DEF Tidy, Placed
<1>5. \A t \in Slots : r.at[t].owning /\ r.heap[r.at[t].buffer] = "new" => t \in N
  BY <1>2, <1>3 DEF Tidy, Placed
<1>6. \A x \in r.numpy : x.frees => r.heap[x.buffer] = "malloc"
  BY <1>2 DEF Tidy, Placed
<1>7. ASSUME NEW b \in Buffers, r.heap[b] \in Allocated
      PROVE  (\E t \in Slots : Owns(r, t, b)) \/ (\E x \in r.numpy : Frees(x, b)) \/ b \in r.lost
  <2>1. (\E t \in Slots : Owns(m, t, b)) \/ (\E x \in m.numpy : Frees(x, b)) \/ b \in m.lost
    BY <1>2, <1>7 DEF Tidy, Placed
  <2>2. \A t \in Slots : t # s /\ Owns(m, t, b) => Owns(r, t, b)
    BY <1>2 DEF Owns
  <2>3. Owns(m, s, b) => b \in r.lost
    BY <1>2 DEF Owns, Owned
  <2> QED BY <1>2, <2>1, <2>2, <2>3
<1>8. Filled(r, W \cup {s})
  <2>1. None \notin Owned(m, {s})
    BY LifetimeAssumption DEF Sound, Owned
  <2> QED BY <1>2, <2>1 DEF Tidy, Filled
<1> QED BY <1>4, <1>5, <1>6, <1>7, <1>8 DEF Tidy, Placed, r

\* A text that Python has copied is freed.
LEMMA WrapTextTidy ==
    ASSUME NEW m, NEW e, Sound(m, e), NEW H, NEW N, NEW W, Tidy(m, H, N, W), NEW s \in Slots
    PROVE  /\ Tidy(WrapText(m, s), H, N, W \cup {s})
           /\ \A t \in Slots : t # s => WrapText(m, s).at[t] = m.at[t]
<1> DEFINE r == WrapText(m, s)
           o == Owned(m, {s})
<1>1. m \in Memory
  BY DEF Sound
<1>2. /\ r.numpy = m.numpy /\ r.lost = m.lost
      /\ \A b \in Buffers : r.heap[b] = IF b \in o THEN "free" ELSE m.heap[b]
      /\ r.at[s] = Released(m.at[s]) /\ \A t \in Slots : t # s => r.at[t] = m.at[t]
  BY <1>1, WrapTextShape
<1>3. ~Released(m.at[s]).owning
  BY <1>1, ReleasedShape
<1> HIDE DEF r
<1>4. /\ \A t \in Slots : m.at[t].owning => m.at[t].buffer \in Buffers
      /\ \A x \in m.numpy : x.frees => x.buffer \in Buffers /\ x.buffer \notin o
      /\ \A b \in Buffers : Owns(m, s, b) => b \in o
  BY DEF Sound, Owned, Owns
<1> HIDE DEF o
<1>5. \A t \in Slots : r.at[t].owning => t \in H
  BY <1>2, <1>3 DEF Tidy, Placed
<1>6. \A t \in Slots : r.at[t].owning /\ r.heap[r.at[t].buffer] = "new" => t \in N
  BY <1>2, <1>3, <1>4 DEF Tidy, Placed
<1>7. \A x \in r.numpy : x.frees => r.heap[x.buffer] = "malloc"
  BY <1>2, <1>4 DEF Tidy, Placed
<1>8. ASSUME NEW b \in Buffers, r.heap[b] \in Allocated
      PROVE  (\E t \in Slots : Owns(r, t, b)) \/ (\E x \in r.numpy : Frees(x, b)) \/ b \in r.lost
  <2>1. b \notin o /\ m.heap[b] \in Allocated
    BY <1>2, <1>8 DEF Allocated
  <2>2. (\E t \in Slots : Owns(m, t, b)) \/ (\E x \in m.numpy : Frees(x, b)) \/ b \in m.lost
    BY <2>1 DEF Tidy, Placed
  <2>3. \A t \in Slots : Owns(m, t, b) => Owns(r, t, b)
    BY <1>2, <1>4, <2>1 DEF Owns
  <2> QED BY <1>2, <2>2, <2>3
<1>9. Filled(r, W \cup {s})
  BY <1>2 DEF Tidy, Filled
<1> QED BY <1>2, <1>5, <1>6, <1>7, <1>8, <1>9 DEF Tidy, Placed, r

\* The capsules of what Python drops free what they hold.
LEMMA DropTidy ==
    ASSUME NEW m, NEW e, Sound(m, e), NEW H, NEW N, NEW W, Tidy(m, H, N, W), NEW X \in SUBSET m.numpy
    PROVE  Tidy(Drop(m, X), H, N, W) /\ Drop(m, X).at = m.at
<1> DEFINE r == Drop(m, X)
           g == Given(X)
<1>1. m \in Memory
  BY DEF Sound
<1>2. /\ r.at = m.at /\ r.numpy = m.numpy \ X /\ r.lost = m.lost
      /\ \A b \in Buffers : r.heap[b] = IF b \in g THEN "free" ELSE m.heap[b]
  BY <1>1, DropShape
<1> HIDE DEF r
<1>3. \A t \in Slots : m.at[t].owning => m.at[t].buffer \in Buffers
  BY DEF Sound
<1>4. \A x \in X, b \in Buffers : Frees(x, b) => b \in g
  BY DEF Frees, Given
<1>5. \A x \in m.numpy \ X : x.frees => x.buffer \in Buffers /\ x.buffer \notin g
  <2>1. ASSUME NEW x \in m.numpy \ X, x.frees, NEW y \in X, y.frees, x.buffer = y.buffer
        PROVE  FALSE
    <3>1. x \in Holders /\ y \in Holders
      BY <1>1 DEF Memory
    <3>2. x = y
      BY <2>1, <3>1 DEF Holders
    <3> QED BY <3>2
  <2> QED BY <2>1 DEF Sound, Given
<1> HIDE DEF g
<1>6. \A t \in Slots : r.at[t].owning => t \in H
  BY <1>2 DEF Tidy, Placed
<1>7. \A t \in Slots : r.at[t].owning /\ r.heap[r.at[t].buffer] = "new" => t \in N
  BY <1>2, <1>3 DEF Tidy, Placed
<1>8. \A x \in r.numpy : x.frees => r.heap[x.buffer] = "malloc"
  BY <1>2, <1>5 DEF Tidy, Placed
<1>9. ASSUME NEW b \in Buffers, r.heap[b] \in Allocated
      PROVE  (\E t \in Slots : Owns(r, t, b)) \/ (\E x \in r.numpy : Frees(x, b)) \/ b \in r.lost
  <2>1. b \notin g /\ m.heap[b] \in Allocated
    BY <1>2, <1>9 DEF Allocated
  <2>2. (\E t \in Slots : Owns(m, t, b)) \/ (\E x \in m.numpy : Frees(x, b)) \/ b \in m.lost
    BY <2>1 DEF Tidy, Placed
  <2> QED BY <1>2, <1>4, <2>1, <2>2 DEF Owns
<1>10. Filled(r, W)
  BY <1>2 DEF Tidy, Filled
<1> QED BY <1>2, <1>6, <1>7, <1>8, <1>9, <1>10 DEF Tidy, Placed, r

\* A borrower owns nothing.
LEMMA BorrowTidy ==
    ASSUME NEW m, NEW e, Sound(m, e), NEW H, NEW N, NEW W, Tidy(m, H, N, W),
           NEW s \in Slots, s \notin H, NEW b \in Buffers, NEW type \in Types
    PROVE  /\ Tidy(Borrow(m, s, b, type), H, N, W)
           /\ \A t \in Slots : t # s => Borrow(m, s, b, type).at[t] = m.at[t]
<1> DEFINE r == Borrow(m, s, b, type)
<1>1. m \in Memory /\ None \notin Buffers
  BY LifetimeAssumption DEF Sound
<1>2. /\ r.heap = m.heap /\ r.numpy = m.numpy /\ r.lost = m.lost
      /\ ~r.at[s].owning /\ r.at[s].buffer = b
      /\ \A t \in Slots : t # s => r.at[t] = m.at[t]
  BY <1>1, BorrowShape
<1> HIDE DEF r
<1>3. ~m.at[s].owning
  BY DEF Tidy, Placed
<1>4. \A t \in Slots : r.at[t].owning => t \in H
  BY <1>2 DEF Tidy, Placed
<1>5. \A t \in Slots : r.at[t].owning /\ r.heap[r.at[t].buffer] = "new" => t \in N
  BY <1>2 DEF Tidy, Placed
<1>6. \A x \in r.numpy : x.frees => r.heap[x.buffer] = "malloc"
  BY <1>2 DEF Tidy, Placed
<1>7. ASSUME NEW c \in Buffers, r.heap[c] \in Allocated
      PROVE  (\E t \in Slots : Owns(r, t, c)) \/ (\E x \in r.numpy : Frees(x, c)) \/ c \in r.lost
  <2>1. (\E t \in Slots : Owns(m, t, c)) \/ (\E x \in m.numpy : Frees(x, c)) \/ c \in m.lost
    BY <1>2, <1>7 DEF Tidy, Placed
  <2>2. \A t \in Slots : Owns(m, t, c) => Owns(r, t, c)
    BY <1>2, <1>3 DEF Owns
  <2> QED BY <1>2, <2>1, <2>2
<1>8. Filled(r, W)
  BY <1>1, <1>2 DEF Tidy, Filled
<1> QED BY <1>2, <1>4, <1>5, <1>6, <1>7, <1>8 DEF Tidy, Placed, r

\* What is reclaimed was no array's.
LEMMA ReclaimTidy ==
    ASSUME NEW m \in Memory, NEW H, NEW N, NEW W, Tidy(m, H, N, W), NEW e,
           \A s \in Slots : m.at[s].owning => m.at[s].buffer \in Buffers,
           \A x \in m.numpy : x.frees => x.buffer \in Buffers
    PROVE  Tidy(Reclaim(m, e), H, N, W) /\ Reclaim(m, e).at = m.at
<1> DEFINE r == Reclaim(m, e)
<1>1. /\ r.at = m.at /\ r.numpy = m.numpy /\ r.lost = m.lost
      /\ \A b \in Buffers : r.heap[b] = IF m.heap[b] = "entry" /\ \A k \in Keys : e[k] # b
                                        THEN "free" ELSE m.heap[b]
  BY ReclaimShape
<1> HIDE DEF r
<1>2. \A b \in Buffers :
         /\ r.heap[b] \in Allocated => m.heap[b] \in Allocated
         /\ r.heap[b] = "new" => m.heap[b] = "new"
         /\ m.heap[b] = "malloc" => r.heap[b] = "malloc"
  BY <1>1 DEF Allocated
<1>3. \A t \in Slots : r.at[t].owning => t \in H
  BY <1>1 DEF Tidy, Placed
<1>4. \A t \in Slots : r.at[t].owning /\ r.heap[r.at[t].buffer] = "new" => t \in N
  BY <1>1, <1>2 DEF Tidy, Placed
<1>5. \A x \in r.numpy : x.frees => r.heap[x.buffer] = "malloc"
  BY <1>1, <1>2 DEF Tidy, Placed
<1>6. ASSUME NEW b \in Buffers, r.heap[b] \in Allocated
      PROVE  (\E t \in Slots : Owns(r, t, b)) \/ (\E x \in r.numpy : Frees(x, b)) \/ b \in r.lost
  BY <1>1, <1>2, <1>6 DEF Tidy, Placed, Owns
<1>7. Filled(r, W)
  BY <1>1 DEF Tidy, Filled
<1> QED BY <1>1, <1>3, <1>4, <1>5, <1>6, <1>7 DEF Tidy, Placed, r

\* Nor was what becomes an entry.
LEMMA EntryTidy ==
    ASSUME NEW m, NEW e, Sound(m, e), Room(m), NEW H, NEW N, NEW W, Tidy(m, H, N, W), NEW d
    PROVE  LET r == Reclaim([m EXCEPT !.heap[Fresh(m)] = "entry"], d)
           IN  Tidy(r, H, N, W) /\ r.at = m.at
<1> DEFINE f == Fresh(m)
           q == [m EXCEPT !.heap[f] = "entry"]
<1>1. f \in Buffers /\ m.heap[f] = "free" /\ m \in Memory
  BY FreshFree DEF Sound
<1> HIDE DEF f
<1>2. /\ q \in Memory /\ q.at = m.at /\ q.numpy = m.numpy /\ q.lost = m.lost
      /\ \A b \in Buffers : q.heap[b] = IF b = f THEN "entry" ELSE m.heap[b]
  BY <1>1 DEF Memory, Kinds
<1> HIDE DEF q
<1>3. /\ \A t \in Slots : m.at[t].owning => m.at[t].buffer \in Buffers /\ m.at[t].buffer # f
      /\ \A x \in m.numpy : x.frees => x.buffer \in Buffers /\ x.buffer # f
  BY <1>1 DEF Sound, Allocated
<1>4. \A t \in Slots : q.at[t].owning => t \in H
  BY <1>2 DEF Tidy, Placed
<1>5. \A t \in Slots : q.at[t].owning /\ q.heap[q.at[t].buffer] = "new" => t \in N
  BY <1>2, <1>3 DEF Tidy, Placed
<1>6. \A x \in q.numpy : x.frees => q.heap[x.buffer] = "malloc"
  BY <1>2, <1>3 DEF Tidy, Placed
<1>7. ASSUME NEW b \in Buffers, q.heap[b] \in Allocated
      PROVE  (\E t \in Slots : Owns(q, t, b)) \/ (\E x \in q.numpy : Frees(x, b)) \/ b \in q.lost
  BY <1>2, <1>7 DEF Tidy, Placed, Owns, Allocated
<1>8. Tidy(q, H, N, W)
  BY <1>2, <1>4, <1>5, <1>6, <1>7 DEF Tidy, Placed, Filled
<1>9. Tidy(Reclaim(q, d), H, N, W) /\ Reclaim(q, d).at = q.at
  BY <1>2, <1>3, <1>8, ReclaimTidy
<1> QED BY <1>2, <1>9 DEF q, f

\* The constructors that copy.
LEMMA ConstructTidy ==
    ASSUME NEW m, NEW e, Sound(m, e), Room(m), NEW H, NEW N, NEW W, Tidy(m, H, N, W),
           NEW s \in Slots, s \notin H, NEW type \in Types, NEW empty \in BOOLEAN
    PROVE  /\ Tidy(Construct(m, s, type, empty), H \cup {s}, N, W)
           /\ \A t \in Slots : t # s => Construct(m, s, type, empty).at[t] = m.at[t]
<1> DEFINE a == [Blank EXCEPT !.type = type, !.empty = empty]
<1>1. a \in Array /\ "malloc" \in Allocated /\ "malloc" # "new" /\ N \subseteq N
  BY DEF Blank, Array, Types, Allocated
<1> HIDE DEF a
<1>2. Tidy(Made(m, s, "malloc", a), H \cup {s}, N, W)
  BY <1>1, MadeTidy
<1>3. \A t \in Slots : t # s => Made(m, s, "malloc", a).at[t] = m.at[t]
  BY <1>1, MadeSound
<1> QED BY <1>2, <1>3 DEF Construct, a

\* clone()
LEMMA CloneTidy ==
    ASSUME NEW m, NEW e, Sound(m, e), Room(m), NEW H, NEW N, NEW W, Tidy(m, H, N, W),
           NEW s \in Slots, NEW t \in Slots, t \notin H
    PROVE  /\ Tidy(Clone(m, s, t), H \cup {t}, N, W)
           /\ \A u \in Slots : u # t => Clone(m, s, t).at[u] = m.at[u]
<1> DEFINE a == m.at[s]
<1>1. a \in Array /\ "malloc" \in Allocated /\ "malloc" # "new" /\ N \subseteq N
  BY DEF Sound, Memory, Allocated
<1> HIDE DEF a
<1>2. Tidy(Made(m, t, "malloc", a), H \cup {t}, N, W)
  BY <1>1, MadeTidy
<1>3. \A u \in Slots : u # t => Made(m, t, "malloc", a).at[u] = m.at[u]
  BY <1>1, MadeSound
<1> QED BY <1>2, <1>3 DEF Clone, a

\* A clone is stored, in a cache or in a local variable.
LEMMA StoreTidy ==
    ASSUME NEW m, NEW e, Sound(m, e), Room(m), NEW H, NEW N, NEW W, Tidy(m, H, N, W),
           NEW s \in Slots, NEW c \in Slots,
           c # Temp, Temp \notin H, Temp \notin N, c \notin W, Temp \notin W
    PROVE  /\ Tidy(Assign(Clone(m, s, Temp), c, Temp), H \cup {c}, N, W)
           /\ \A t \in Slots \ {c, Temp} : Assign(Clone(m, s, Temp), c, Temp).at[t] = m.at[t]
<1> DEFINE a == m.at[s]
<1>1. a \in Array /\ "malloc" \in Allocated /\ "malloc" # "new" /\ N \subseteq N
  BY DEF Sound, Memory, Allocated
<1> HIDE DEF a
<1> DEFINE r == Assign(Made(m, Temp, "malloc", a), c, Temp)
<1>2. Tidy(r, H \cup {c}, N, W) /\ \A t \in Slots \ {c, Temp} : r.at[t] = m.at[t]
  BY <1>1, AssignTidy, Z3
<1> QED BY <1>2 DEF Clone, a

\* What EXPR converts is from new[], and has a buffer if it had one.
LEMMA ConvertTidy ==
    ASSUME NEW m, NEW e, Sound(m, e), Room(m), NEW H, NEW N, NEW W, Tidy(m, H, N, W),
           NEW s \in Slots, s \in H,
           s # Temp, Temp \notin H, Temp \notin N, s \notin W, Temp \notin W
    PROVE  /\ Tidy(Converted(m, s), H, N \cup {s}, W)
           /\ \A t \in Slots \ {s, Temp} : Converted(m, s).at[t] = m.at[t]
           /\ m.at[s].buffer # None => Converted(m, s).at[s].buffer \in Buffers
<1>1. CASE m.at[s].type = "single"
  <2> DEFINE a == [m.at[s] EXCEPT !.type = "double"]
             new == "new"
             r == Assign(Made(m, Temp, new, a), s, Temp)
             O == N \cup {s}
  <2>1. a \in Array /\ new \in Allocated /\ N \subseteq O /\ s \in O
    BY DEF Sound, Memory, Allocated, Array, Types
  <2> HIDE DEF a, O, new
  <2>2. /\ Tidy(r, H \cup {s}, O, W) /\ \A t \in Slots \ {s, Temp} : r.at[t] = m.at[t]
        /\ r.at[s].buffer = Fresh(m)
    BY <2>1, AssignTidy, Z3
  <2>3. H \cup {s} = H /\ Fresh(m) \in Buffers
    BY FreshFree
  <2>4. Converted(m, s) = r
    BY <1>1 DEF Converted, Convert, a, new
  <2> QED BY <2>2, <2>3, <2>4 DEF O
<1>2. CASE m.at[s].type # "single"
  <2>1. Converted(m, s) = m
    BY <1>2 DEF Converted
  <2>2. Tidy(m, H, N \cup {s}, W)
    BY TidyWider
  <2>3. m.at[s].buffer \in Buffers \cup {None}
    BY DEF Sound, Memory, Array
  <2> QED BY <2>1, <2>2, <2>3
<1> QED BY <1>1, <1>2

(***************************************************************************)
(* The C++ stack                                                           *)
(***************************************************************************)
Kind(f) == Mapping[f.name].kind

\* The parameters the calls on the stack q have got, those of EXPR mappings, and
\* those that have become NumPy arrays.
Inputs(q)   == {s \in Slots : \E d \in 1..Len(q) : \E i \in 1..q[d].done : s = Param(d, i)}
Operands(q) == {s \in Slots : \E d \in 1..Len(q) :
                   Kind(q[d]) = "EXPR" /\ \E i \in 1..q[d].done : s = Param(d, i)}
Wrapped(q)  == {s \in Slots : \E d \in 1..Len(q) : \E i \in 1..q[d].wrapped : s = Param(d, i)}

\* The variables that may own a buffer with the stack q at the place p.
Owners(q, p) ==
    Caches \cup Inputs(q)
    \cup (IF p \in {"returned", "deliver"} THEN {Result} ELSE {})
    \cup (IF p = "update" THEN {Local(Len(q))} ELSE {})

\* EXPR has one raw pointer for each parameter, to its buffer.
Framed(m, f, d) ==
    /\ Kind(f) = "DATA_SOURCE" => f.done = 0
    /\ f.wrapped <= f.done
    /\ \A i \in 1..f.done : Param(d, i) \in Slots
    /\ Len(f.raw) = IF Kind(f) = "EXPR" THEN f.done ELSE 0
    /\ \A i \in 1..Len(f.raw) : f.raw[i] \in Buffers /\ m.at[Param(d, i)].buffer = f.raw[i]

\* Only a CUSTOM mapping that is about to call its function wraps its parameters.
Wraps(f, d, q, p) ==
    f.wrapped > 0 => d = Len(q) /\ p \in {"combine", "python"} /\ Kind(f) = "CUSTOM"

StackOK(m, q, p) == \A d \in 1..Len(q) : Framed(m, q[d], d) /\ Wraps(q[d], d, q, p)

BufferInv ==
    /\ Tidy(memory, Owners(frames, pc), Operands(frames), Wrapped(frames))
    /\ StackOK(memory, frames, pc)
    /\ pc = "combine" /\ Top.wrapped > 0 =>
          Usable(Top.name) /\ Target(Top.name) \in PythonFunctions

\* The C++ variables are different ones.
LEMMA Apart ==
    /\ Result \notin Caches /\ Temp \notin Caches /\ Result # Temp
    /\ \A d : Local(d) \notin Caches /\ Local(d) # Result /\ Local(d) # Temp
    /\ \A d, i : Param(d, i) \notin Caches /\ Param(d, i) # Result /\ Param(d, i) # Temp
    /\ \A d, e, i : Local(d) # Param(e, i)
    /\ \A d, i, e, j : Param(d, i) = Param(e, j) => d = e /\ i = j
BY DEF Local, Param, Result, Temp, Caches, MappingCache, Cached, Kept

\* The parameters are apart from the other variables, in particular from those
\* that are written while there are calls that wait for a parameter.
LEMMA InputsApart ==
    ASSUME NEW q
    PROVE  /\ \A S \in {Inputs(q), Operands(q), Wrapped(q)} :
                 /\ S \cap Caches = {} /\ Result \notin S /\ Temp \notin S
                 /\ \A d : Local(d) \notin S
           /\ Operands(q) \subseteq Inputs(q) /\ Inputs(q) \subseteq Slots
<1>1. ASSUME NEW s \in Slots, NEW d, NEW i, s = Param(d, i)
      PROVE  s \notin Caches /\ s # Result /\ s # Temp /\ \A e : Local(e) # s
  BY <1>1, Apart
<1>2. /\ \A s \in Inputs(q) : \E d, i : s = Param(d, i)
      /\ \A s \in Operands(q) : \E d, i : s = Param(d, i)
      /\ \A s \in Wrapped(q) : \E d, i : s = Param(d, i)
      /\ Operands(q) \subseteq Inputs(q) /\ Inputs(q) \subseteq Slots
      /\ Operands(q) \subseteq Slots /\ Wrapped(q) \subseteq Slots
  BY DEF Inputs, Operands, Wrapped
<1> QED BY <1>1, <1>2

\* Nothing is on an empty stack.
LEMMA EmptyStack ==
    /\ Inputs(<< >>) = {} /\ Operands(<< >>) = {} /\ Wrapped(<< >>) = {}
    /\ \A m, p : StackOK(m, << >>, p)
<1>1. 1..Len(<< >>) = {}
  BY EmptySeq
<1> QED BY <1>1 DEF Inputs, Operands, Wrapped, StackOK

\* Nothing changes for the calls as long as the parameters of EXPR keep their buffers.
LEMMA StackKept ==
    ASSUME NEW m, NEW q \in Seq(FrameSet), NEW p, StackOK(m, q, p), NEW r,
           \A s \in Operands(q) : r.at[s].buffer = m.at[s].buffer
    PROVE  StackOK(r, q, p)
<1>1. ASSUME NEW d \in 1..Len(q)
      PROVE  Framed(r, q[d], d)
  <2>1. Framed(m, q[d], d) /\ q[d] \in FrameSet
    BY ElementOfSeq DEF StackOK
  <2>2. q[d].done \in Nat /\ Len(q[d].raw) \in Nat
    BY <2>1, LenProperties DEF FrameSet
  <2>3. ASSUME NEW i \in 1..Len(q[d].raw)
        PROVE  r.at[Param(d, i)].buffer = m.at[Param(d, i)].buffer
    <3>1. Kind(q[d]) = "EXPR" /\ i \in 1..q[d].done
      BY <2>1, <2>2, <2>3 DEF Framed
    <3>2. Param(d, i) \in Operands(q)
      BY <2>1, <3>1 DEF Framed, Operands
    <3> QED BY <3>2
  <2> QED BY <2>1, <2>3 DEF Framed
<1> QED BY <1>1 DEF StackOK

\* As long as no parameter is wrapped, every place will do.
LEMMA Unwrapped ==
    ASSUME NEW m, NEW q \in Seq(FrameSet), NEW p, StackOK(m, q, p),
           \A d \in 1..Len(q) : q[d].wrapped = 0
    PROVE  Wrapped(q) = {} /\ \A o : StackOK(m, q, o)
<1>1. \A d \in 1..Len(q) : 1..q[d].wrapped = {} /\ ~(q[d].wrapped > 0)
  OBVIOUS
<1> QED BY <1>1 DEF Wrapped, StackOK, Wraps

\* Nothing is wrapped before a CUSTOM mapping calls its function.
LEMMA NothingWrapped ==
    ASSUME NEW m, NEW q \in Seq(FrameSet), NEW p, StackOK(m, q, p),
           p \notin {"combine", "python"} \/ (Len(q) > 0 => q[Len(q)].wrapped = 0)
    PROVE  \A d \in 1..Len(q) : q[d].wrapped = 0
<1>1. ASSUME NEW d \in 1..Len(q)
      PROVE  q[d].wrapped = 0
  <2>1. q[d] \in FrameSet /\ Wraps(q[d], d, q, p)
    BY ElementOfSeq DEF StackOK
  <2>2. q[d].wrapped \in Nat
    BY <2>1 DEF FrameSet
  <2>3. ~(q[d].wrapped > 0)
    BY <2>1, LenProperties DEF Wraps
  <2> QED BY <2>2, <2>3
<1> QED BY <1>1

\* A mapping is made: its call has no parameters yet.
LEMMA PushOwners ==
    ASSUME NEW m, NEW q \in Seq(FrameSet), NEW p, StackOK(m, q, p),
           p \notin {"combine", "python"}, NEW n \in Names
    PROVE  LET r == Append(q, Frame(n))
           IN  /\ Inputs(r) = Inputs(q) /\ Operands(r) = Operands(q) /\ Wrapped(r) = Wrapped(q)
               /\ StackOK(m, r, "eval")
<1> DEFINE r == Append(q, Frame(n))
           f == Frame(n)
<1>1. Len(q) \in Nat /\ \A d \in 1..Len(q) : q[d].wrapped = 0
  BY LenProperties, NothingWrapped
<1>2. /\ f \in FrameSet /\ f.done = 0 /\ f.wrapped = 0 /\ Len(f.raw) = 0
  <2>1. << >> \in Seq(Buffers \cup {None}) /\ Len(<< >>) = 0
    BY EmptySeq
  <2> QED BY <2>1 DEF Frame, FrameSet
<1> HIDE DEF f
<1>3. /\ r \in Seq(FrameSet) /\ Len(r) = Len(q) + 1 /\ r[Len(q) + 1] = f
      /\ \A d \in 1..Len(q) : r[d] = q[d]
  BY <1>1, <1>2, AppendProperties DEF f
<1> HIDE DEF r
<1>4. 1..Len(r) = 1..Len(q) \cup {Len(q) + 1} /\ Len(q) + 1 \notin 1..Len(q)
  BY <1>1, <1>3
<1>5. 1..f.done = {} /\ 1..f.wrapped = {} /\ 1..Len(f.raw) = {}
  BY <1>2
<1>6. Inputs(r) = Inputs(q) /\ Operands(r) = Operands(q) /\ Wrapped(r) = Wrapped(q)
  BY <1>3, <1>4, <1>5 DEF Inputs, Operands, Wrapped
<1>7. Framed(m, f, Len(q) + 1)
  BY <1>2, <1>5 DEF Framed
<1>8. ASSUME NEW d \in 1..Len(r)
      PROVE  Framed(m, r[d], d) /\ Wraps(r[d], d, r, "eval")
  <2>1. CASE d \in 1..Len(q)
    BY <1>1, <1>3, <2>1 DEF StackOK, Wraps
  <2>2. CASE d = Len(q) + 1
    BY <1>2, <1>3, <1>7, <2>2 DEF Wraps
  <2> QED BY <1>4, <2>1, <2>2
<1> QED BY <1>6, <1>8 DEF StackOK, r

\* The parameters of a call.
Arguments(q) == {Param(Len(q), i) : i \in 1..q[Len(q)].done}

\* A mapping returns: its parameters are gone, those of the others stay.
LEMMA PopOwners ==
    ASSUME NEW m, NEW q \in Seq(FrameSet), NEW p, StackOK(m, q, p), Len(q) > 0
    PROVE  LET r == SubSeq(q, 1, Len(q) - 1)
           IN  /\ r \in Seq(FrameSet)
               /\ Inputs(r) = Inputs(q) \ Arguments(q) /\ Operands(r) = Operands(q) \ Arguments(q)
               /\ Wrapped(q) \subseteq Arguments(q) /\ Wrapped(r) = {}
               /\ StackOK(m, r, "returned")
<1> DEFINE r == SubSeq(q, 1, Len(q) - 1)
<1>1. /\ r \in Seq(FrameSet) /\ Len(r) = Len(q) - 1
      /\ \A d \in 1..Len(r) : d \in 1..Len(q) /\ d < Len(q) /\ r[d] = q[d]
  BY PopShape
<1> HIDE DEF r
<1>2. Len(q) \in Nat /\ 1..Len(q) = 1..Len(r) \cup {Len(q)} /\ Len(q) \notin 1..Len(r)
  BY <1>1, LenProperties
<1>3. \A d, i, e, j : Param(d, i) = Param(e, j) => d = e /\ i = j
  BY Apart
<1>4. /\ Inputs(r) = Inputs(q) \ Arguments(q)
      /\ Operands(r) = Operands(q) \ Arguments(q)
  BY <1>1, <1>2, <1>3, SMTT(30) DEF Inputs, Operands, Arguments
<1>5. \A d \in 1..Len(r) : q[d].wrapped = 0
  <2>1. ASSUME NEW d \in 1..Len(r)
        PROVE  q[d].wrapped = 0
    <3>1. q[d] \in FrameSet /\ Wraps(q[d], d, q, p) /\ d # Len(q)
      BY <1>1, <1>2, ElementOfSeq DEF StackOK
    <3>2. q[d].wrapped \in Nat /\ ~(q[d].wrapped > 0)
      BY <3>1 DEF FrameSet, Wraps
    <3> QED BY <3>2
  <2> QED BY <2>1
<1>6. Wrapped(q) \subseteq Arguments(q)
  <2>1. q[Len(q)].wrapped <= q[Len(q)].done /\ q[Len(q)] \in FrameSet
    BY <1>2, ElementOfSeq DEF StackOK, Framed
  <2>2. 1..q[Len(q)].wrapped \subseteq 1..q[Len(q)].done
    BY <2>1 DEF FrameSet
  <2>3. \A d \in 1..Len(r) : 1..q[d].wrapped = {}
    BY <1>5
  <2> QED BY <1>2, <2>2, <2>3 DEF Wrapped, Arguments
<1>7. StackOK(m, r, p)
  BY <1>1, <1>5 DEF StackOK, Wraps
<1>8. Wrapped(r) = {} /\ StackOK(m, r, "returned")
  <2>1. \A d \in 1..Len(r) : r[d].wrapped = 0
    BY <1>1, <1>5
  <2> QED BY <1>1, <1>7, <2>1, Unwrapped
<1> QED BY <1>1, <1>4, <1>6, <1>8 DEF r

\* The call at the top is now f.
WithTop(q, f) == [q EXCEPT ![Len(q)] = f]

\* A call has one parameter more.
LEMMA TakeOwners ==
    ASSUME NEW m, NEW q \in Seq(FrameSet), NEW p, StackOK(m, q, p), Len(q) > 0,
           p \notin {"combine", "python"}, NEW f \in FrameSet, f.name = q[Len(q)].name,
           f.done = q[Len(q)].done + 1, f.wrapped = q[Len(q)].wrapped,
           Param(Len(q), f.done) \in Slots,
           NEW r, Framed(r, f, Len(q)), \A t \in Operands(q) : r.at[t].buffer = m.at[t].buffer
    PROVE  /\ Inputs(WithTop(q, f)) = Inputs(q) \cup {Param(Len(q), f.done)}
           /\ Kind(f) = "EXPR" =>
                 Operands(WithTop(q, f)) = Operands(q) \cup {Param(Len(q), f.done)}
           /\ Kind(f) # "EXPR" => Operands(WithTop(q, f)) = Operands(q)
           /\ Wrapped(WithTop(q, f)) = {} /\ StackOK(r, WithTop(q, f), "eval")
<1> DEFINE u == WithTop(q, f)
           s == Param(Len(q), f.done)
           n == Len(q)
<1>1. Len(q) \in Nat /\ n \in 1..n /\ \A d \in 1..n : q[d].wrapped = 0
  BY LenProperties, NothingWrapped
<1>2. /\ u \in Seq(FrameSet) /\ Len(u) = n /\ u[n] = f /\ \A d \in 1..n : d # n => u[d] = q[d]
  BY <1>1, ExceptSeq DEF WithTop
<1> HIDE DEF u
<1>3. q[n].done \in Nat /\ 1..f.done = 1..q[n].done \cup {f.done} /\ Kind(f) = Kind(q[n])
  <2>1. q[n] \in FrameSet
    BY <1>1, ElementOfSeq
  <2>2. q[n].done \in Nat
    BY <2>1 DEF FrameSet
  <2> QED BY <2>2 DEF Kind
<1>4. \A d \in 1..n : u[d].wrapped = 0 /\ 1..u[d].wrapped = {} /\ 1..q[d].wrapped = {}
  BY <1>1, <1>2
<1>5. Wrapped(u) = {}
  BY <1>2, <1>4 DEF Wrapped
<1>6. Inputs(u) = Inputs(q) \cup {s}
  BY <1>1, <1>2, <1>3, SMTT(30) DEF Inputs
<1>7. ASSUME Kind(f) = "EXPR"
      PROVE  Operands(u) = Operands(q) \cup {s}
  <2>1. Operands(u) \subseteq Operands(q) \cup {s}
    BY <1>1, <1>2, <1>3, <1>7 DEF Operands
  <2>2. s \in Operands(u) /\ Operands(q) \subseteq Operands(u)
    BY <1>1, <1>2, <1>3, <1>7 DEF Operands
  <2> QED BY <2>1, <2>2
<1>8. Kind(f) # "EXPR" => Operands(u) = Operands(q)
  BY <1>1, <1>2, <1>3 DEF Operands
<1>9. StackOK(r, q, p)
  BY StackKept
<1>10. ASSUME NEW d \in 1..n
       PROVE  Framed(r, u[d], d) /\ Wraps(u[d], d, u, "eval")
  BY <1>2, <1>4, <1>9 DEF StackOK, Wraps
<1> QED BY <1>2, <1>5, <1>6, <1>7, <1>8, <1>10 DEF StackOK, u

\* One parameter more of a CUSTOM mapping is wrapped.
LEMMA WrapOwners ==
    ASSUME NEW m, NEW q \in Seq(FrameSet), StackOK(m, q, "combine"), Len(q) > 0,
           NEW f \in FrameSet, f.name = q[Len(q)].name, f.raw = q[Len(q)].raw,
           f.done = q[Len(q)].done, f.wrapped = q[Len(q)].wrapped + 1, f.wrapped <= f.done,
           Kind(f) = "CUSTOM",
           NEW r, \A t \in Operands(q) : r.at[t].buffer = m.at[t].buffer
    PROVE  /\ Inputs(WithTop(q, f)) = Inputs(q) /\ Operands(WithTop(q, f)) = Operands(q)
           /\ Param(Len(q), f.wrapped) \in Slots
           /\ Param(Len(q), f.wrapped) \notin Operands(q)
           /\ Param(Len(q), f.wrapped) \notin Wrapped(q)
           /\ Wrapped(WithTop(q, f)) = Wrapped(q) \cup {Param(Len(q), f.wrapped)}
           /\ StackOK(r, WithTop(q, f), "combine")
<1> DEFINE u == WithTop(q, f)
           s == Param(Len(q), f.wrapped)
           n == Len(q)
<1>1. Len(q) \in Nat /\ n \in 1..n
  BY LenProperties
<1>2. /\ u \in Seq(FrameSet) /\ Len(u) = n /\ u[n] = f /\ \A d \in 1..n : d # n => u[d] = q[d]
  BY <1>1, ExceptSeq DEF WithTop
<1> HIDE DEF u
<1>3. /\ q[n].done \in Nat /\ q[n].wrapped \in Nat /\ Kind(f) = Kind(q[n])
      /\ Framed(m, q[n], n)
  <2>1. q[n] \in FrameSet
    BY <1>1, ElementOfSeq
  <2> QED BY <1>1, <2>1 DEF FrameSet, Kind, StackOK
<1>4. 1..f.wrapped = 1..q[n].wrapped \cup {f.wrapped} /\ f.wrapped \in 1..q[n].done
      /\ f.wrapped \notin 1..q[n].wrapped
  BY <1>3
<1>5. \A d, i, e, j : Param(d, i) = Param(e, j) => d = e /\ i = j
  BY Apart
<1>6. Inputs(u) = Inputs(q) /\ Operands(u) = Operands(q)
  BY <1>1, <1>2, <1>3 DEF Inputs, Operands
<1>7. s \in Slots /\ s \notin Operands(q) /\ s \notin Wrapped(q)
  BY <1>3, <1>4, <1>5 DEF Operands, Wrapped, Framed
<1>8. Wrapped(u) = Wrapped(q) \cup {s}
  BY <1>1, <1>2, <1>4, <1>7 DEF Wrapped
<1>9. StackOK(r, q, "combine")
  BY StackKept
<1>10. Framed(r, f, n)
  <2>1. Framed(r, q[n], n) /\ Len(q[n].raw) = 0
    BY <1>1, <1>3, <1>9 DEF StackOK, Framed
  <2> QED BY <1>3, <2>1 DEF Framed
<1>11. ASSUME NEW d \in 1..n
       PROVE  Framed(r, u[d], d) /\ Wraps(u[d], d, u, "combine")
  <2>1. CASE d = n
    BY <1>2, <1>10, <2>1 DEF Wraps
  <2>2. CASE d # n
    BY <1>2, <1>9, <2>2 DEF StackOK, Wraps
  <2> QED BY <2>1, <2>2
<1> QED BY <1>2, <1>6, <1>7, <1>8, <1>11 DEF StackOK, u

(***************************************************************************)
(* The steps                                                               *)
(***************************************************************************)
\* Every way out of an evaluation leaves the caches, and what Python was given.
LEMMA UnwindBuffers ==
    ASSUME NEW m, Sound(m, entries), dict \subseteq m.numpy,
           NEW H, NEW N, NEW W, Tidy(m, H, N, W), N \cap Caches = {}, W \cap Caches = {},
           Unwind(m)
    PROVE  BufferInv'
<1> DEFINE q == DestroyAll(m, Stack)
<1>1. Stack \in SUBSET Slots /\ dict \in SUBSET m.numpy
  BY DEF Stack
<1>2. Sound(q, entries) /\ q.numpy = m.numpy /\ Tidy(q, H \ Stack, N \ Stack, W \ Stack)
  BY <1>1, DestroySound, DestroyTidy
<1>3. Tidy(q, Caches, {}, {})
  BY <1>2, TidyWider DEF Stack
<1> HIDE DEF q
<1>4. Tidy(Drop(q, dict), Caches, {}, {})
  BY <1>1, <1>2, <1>3, DropTidy
<1>5. memory' = Drop(q, dict) /\ pc' = "idle" /\ frames' = << >>
  BY DEF Unwind, Go, q
<1>6. Owners(<< >>, "idle") = Caches
  BY EmptyStack DEF Owners
<1> QED BY <1>4, <1>5, <1>6, EmptyStack DEF BufferInv

\* What the invariant says of the state that a step starts from.
LEMMA BufferFacts ==
    ASSUME LInv, BufferInv, Fits
    PROVE  /\ Sound(memory, entries) /\ Room(memory) /\ dict \subseteq memory.numpy
           /\ frames \in Seq(FrameSet) /\ Stacked(frames, pc)
           /\ Tidy(memory, Owners(frames, pc), Operands(frames), Wrapped(frames))
           /\ StackOK(memory, frames, pc)
BY DEF LInv, BufferInv, Fits, Room, Stacked

\* Functions come and go; no array changes.
LEMMA RegistryBuffers ==
    ASSUME BufferInv, UNCHANGED <<memory, callVars>>, pc # "combine" \/ UNCHANGED functionVars
    PROVE  BufferInv'
<1>1. UNCHANGED <<memory, pc, frames>>
  BY DEF callVars
<1>2. pc = "combine" /\ Top.wrapped > 0 => (Usable(Top.name) /\ Target(Top.name) \in PythonFunctions)'
  BY <1>1 DEF BufferInv, functionVars, Usable, Target, Top, Depth
<1> QED BY <1>1, <1>2 DEF BufferInv, Top, Depth

\* Another mapper, or the same one again.
LEMMA RenewBuffers ==
    ASSUME LInv, BufferInv, Fits, Renew
    PROVE  BufferInv'
<1> DEFINE gone == IF binding = "python" THEN MappingCache ELSE {}
           q == DestroyAll(memory, gone)
           H == Owners(frames, pc)
           N == Operands(frames)
           W == Wrapped(frames)
<1>1. gone \in SUBSET Slots
  BY FixedSlots
<1>2. /\ memory' = Reclaim(q, NoEntries) /\ pc = "idle" /\ pc' = pc /\ frames' = frames
  BY DEF Renew, Start, callVars
<1>3. /\ Sound(memory, entries) /\ Tidy(memory, H, N, W) /\ StackOK(memory, frames, pc)
      /\ frames = << >>
  BY <1>2, BufferFacts DEF Stacked
<1> HIDE DEF gone, H, N, W
<1>4. Sound(q, entries) /\ Tidy(q, H \ gone, N \ gone, W \ gone)
  BY <1>1, <1>3, DestroySound, DestroyTidy
<1>5. Tidy(q, H, N, W)
  BY <1>4, TidyWider
<1> HIDE DEF q
<1>6. Tidy(Reclaim(q, NoEntries), H, N, W)
  <2>1. /\ q \in Memory
        /\ \A s \in Slots : q.at[s].owning => q.at[s].buffer \in Buffers
        /\ \A x \in q.numpy : x.frees => x.buffer \in Buffers
    BY <1>4 DEF Sound
  <2> QED BY <1>5, <2>1, ReclaimTidy
<1> QED BY <1>2, <1>3, <1>6, EmptyStack DEF BufferInv, H, N, W

\* map() is called.
LEMMA CallBuffers ==
    ASSUME LInv, BufferInv, Fits, NEW n \in Requests, CallMap(n)
    PROVE  BufferInv'
<1> DEFINE H == Owners(frames, pc)
           N == Operands(frames)
           W == Wrapped(frames)
<1>1. /\ pc = "idle" /\ frames = << >> /\ n \in Names /\ Sound(memory, entries) /\ Room(memory)
      /\ Tidy(memory, H, N, W) /\ StackOK(memory, frames, pc) /\ frames \in Seq(FrameSet)
  BY BufferFacts, LifetimeAssumption DEF CallMap, Start, Stacked
<1>2. H = Caches /\ N = {} /\ W = {}
  BY <1>1, EmptyStack DEF Owners
<1>3. CASE Bound = {} /\ ~Bindable
  BY <1>1, <1>3, RegistryBuffers DEF CallMap
<1>4. CASE ~(Bound = {} /\ ~Bindable) /\ At(Kept(n)) # Blank
  <2>1. memory' = Clone(memory, Kept(n), Result) /\ pc' = "deliver" /\ frames' = frames
    BY <1>4 DEF CallMap, Hit, Go
  <2>2. Kept(n) \in Slots /\ Result \in Slots /\ Result \notin Caches
    BY <1>1, FixedSlots, Apart
  <2>3. Tidy(memory', Caches \cup {Result}, {}, {})
    BY <1>1, <1>2, <2>1, <2>2, CloneTidy
  <2>4. Owners(<< >>, "deliver") = Caches \cup {Result}
    BY EmptyStack DEF Owners
  <2> QED BY <1>1, <2>1, <2>3, <2>4, EmptyStack DEF BufferInv
<1>5. CASE ~(Bound = {} /\ ~Bindable) /\ At(Kept(n)) = Blank
  <2> DEFINE r == Append(frames, Frame(n))
  <2>1. memory' = memory /\ pc' = "eval" /\ frames' = r
    BY <1>5 DEF CallMap, Push, Go
  <2>2. /\ Inputs(r) = Inputs(frames) /\ Operands(r) = N /\ Wrapped(r) = W
        /\ StackOK(memory, r, "eval")
    BY <1>1, PushOwners
  <2> HIDE DEF r
  <2>3. Owners(r, "eval") = H
    BY <1>1, <2>2 DEF Owners
  <2> QED BY <1>1, <2>1, <2>2, <2>3 DEF BufferInv
<1> QED BY <1>3, <1>4, <1>5

\* Python drops an array.
LEMMA DropBuffers ==
    ASSUME LInv, BufferInv, Fits, DropArray
    PROVE  BufferInv'
<1>1. PICK x \in memory.numpy \ dict : memory' = Drop(memory, {x})
  BY DEF DropArray
<1>2. pc # "combine" /\ pc' = pc /\ frames' = frames
  BY DEF DropArray, callVars
<1>3. /\ Sound(memory, entries) /\ StackOK(memory, frames, pc) /\ frames \in Seq(FrameSet)
      /\ Tidy(memory, Owners(frames, pc), Operands(frames), Wrapped(frames))
      /\ {x} \in SUBSET memory.numpy
  BY BufferFacts
<1>4. Tidy(memory', Owners(frames, pc), Operands(frames), Wrapped(frames)) /\ memory'.at = memory.at
  BY <1>1, <1>3, DropTidy
<1>5. StackOK(memory', frames, pc)
  BY <1>3, <1>4, StackKept
<1> QED BY <1>2, <1>4, <1>5 DEF BufferInv

\* A mapping asks for a parameter, or goes on to its own work.
LEMMA EvalBuffers ==
    ASSUME LInv, BufferInv, Fits, EvalParameter \/ EvalOwn
    PROVE  BufferInv'
<1>1. pc = "eval" /\ memory' = memory /\ Len(frames) > 0
  BY DEF EvalParameter, EvalOwn, LInv, Stacked
<1>2. /\ frames \in Seq(FrameSet) /\ StackOK(memory, frames, pc)
      /\ Tidy(memory, Owners(frames, pc), Operands(frames), Wrapped(frames))
      /\ Def.deps \in Seq(Names) /\ Top.done \in Nat
  BY <1>1, BufferFacts, TopFacts
<1>3. CASE EvalParameter
  <2> DEFINE n == Def.deps[Top.done + 1]
             r == Append(frames, Frame(n))
  <2>1. frames' = r /\ pc' = "eval" /\ Top.done < Len(Def.deps)
    BY <1>1, <1>3 DEF EvalParameter, Push
  <2>2. Top.done + 1 \in 1..Len(Def.deps)
    BY <1>2, <2>1, LenProperties
  <2>3. n \in Names
    BY <1>2, <2>2, ElementOfSeq
  <2> HIDE DEF n
  <2>4. /\ Inputs(r) = Inputs(frames) /\ Operands(r) = Operands(frames)
        /\ Wrapped(r) = Wrapped(frames) /\ StackOK(memory, r, "eval")
    BY <1>1, <1>2, <2>3, PushOwners
  <2> HIDE DEF r
  <2>5. Owners(r, "eval") = Owners(frames, pc)
    BY <1>1, <2>4 DEF Owners
  <2> QED BY <1>1, <1>2, <2>1, <2>4, <2>5 DEF BufferInv
<1>4. CASE EvalOwn
  <2>1. frames' = frames /\ pc' = "combine"
    BY <1>4 DEF EvalOwn, Go
  <2>2. \A d \in 1..Len(frames) : frames[d].wrapped = 0
    BY <1>1, <1>2, NothingWrapped
  <2>3. StackOK(memory, frames, "combine")
    BY <1>2, <2>2, Unwrapped
  <2>4. Owners(frames, "combine") = Owners(frames, pc)
    BY <1>1 DEF Owners
  <2>5. Top'.wrapped = 0
    BY <1>1, <1>2, <2>1, <2>2, LenProperties DEF Top, Depth
  <2> QED BY <1>1, <1>2, <2>1, <2>3, <2>4, <2>5 DEF BufferInv
<1> QED BY <1>3, <1>4

\* An array is fetched, made, lent or cloned.
LEMMA FetchBuffers ==
    ASSUME LInv, BufferInv, Fits, Fetch
    PROVE  BufferInv'
<1> DEFINE s == Local(Depth)
           H == Owners(frames, pc)
           N == Operands(frames)
           W == Wrapped(frames)
<1>1. /\ pc = "eval" /\ Len(frames) > 0 /\ Def.kind = "DATA_SOURCE" /\ pc' = "update"
      /\ frames' = frames
  BY DEF Fetch, Go, LInv, Stacked
<1>2. /\ Sound(memory, entries) /\ Room(memory) /\ frames \in Seq(FrameSet)
      /\ Tidy(memory, H, N, W) /\ StackOK(memory, frames, pc)
      /\ s \in Stack /\ s \in Slots /\ Def.types \subseteq Types /\ Def.key \in Keys
  BY <1>1, BufferFacts, TopFacts DEF Stack
<1>3. /\ s # Temp /\ s \notin H /\ s \notin N /\ s \notin W
      /\ Temp \notin H /\ Temp \notin N /\ Temp \notin W
  BY <1>1, Apart, InputsApart DEF Owners
<1>4. Owners(frames, "update") = H \cup {s}
  BY <1>1 DEF Owners, Depth
<1> HIDE DEF s, H, N, W
<1>5. /\ Tidy(memory', H \cup {s}, N, W)
      /\ \A t \in Slots \ {s, Temp} : memory'.at[t] = memory.at[t]
  <2>1. CASE memory' = Assign(Clone(memory, Cached(Def.key), Temp), s, Temp)
    BY <1>2, <1>3, <2>1, FixedSlots, StoreTidy
  <2>2. ASSUME NEW type \in Def.types, NEW empty \in BOOLEAN,
               memory' = Construct(memory, s, type, empty)
        PROVE  /\ Tidy(memory', H \cup {s}, N, W)
               /\ \A t \in Slots \ {s, Temp} : memory'.at[t] = memory.at[t]
    BY <1>2, <1>3, <2>2, ConstructTidy
  <2>3. ASSUME NEW type \in Def.types, FetchLent(type)
        PROVE  /\ Tidy(memory', H \cup {s}, N, W)
               /\ \A t \in Slots \ {s, Temp} : memory'.at[t] = memory.at[t]
    <3>1. type \in Types
      BY <1>2
    <3>2. CASE Contains(entries, Def.key)
      <4>1. memory' = Borrow(memory, s, entries[Def.key], type) /\ entries[Def.key] \in Buffers
        BY <1>2, <2>3, <3>2 DEF FetchLent, s, Contains, Sound
      <4>2. Tidy(memory', H, N, W) /\ \A t \in Slots : t # s => memory'.at[t] = memory.at[t]
        BY <1>2, <1>3, <3>1, <4>1, BorrowTidy
      <4> QED BY <4>2, TidyWider
    <3>3. CASE ~Contains(entries, Def.key)
      <4> DEFINE d == Add(entries, Def.key, Fresh(memory))
                 r == Reclaim([memory EXCEPT !.heap[Fresh(memory)] = "entry"], d)
      <4>1. Sound(r, d)
        BY <1>2, <3>3, EntrySound
      <4>2. Tidy(r, H, N, W) /\ r.at = memory.at
        BY <1>2, EntryTidy
      <4>3. memory' = Borrow(r, s, Fresh(memory), type) /\ Fresh(memory) \in Buffers
        BY <1>2, <2>3, <3>3, FreshFree DEF FetchLent, s
      <4> HIDE DEF d, r
      <4>4. Tidy(memory', H, N, W) /\ \A t \in Slots : t # s => memory'.at[t] = r.at[t]
        BY <1>2, <1>3, <3>1, <4>1, <4>2, <4>3, BorrowTidy
      <4> QED BY <4>2, <4>4, TidyWider
    <3> QED BY <3>2, <3>3
  <2>4. CASE memory' = memory
    BY <1>2, <2>4, TidyWider
  <2> QED BY <2>1, <2>2, <2>3, <2>4 DEF Fetch, s
<1>6. \A t \in N : memory'.at[t].buffer = memory.at[t].buffer
  BY <1>3, <1>5, InputsApart DEF N
<1>7. StackOK(memory', frames, "update")
  <2>1. StackOK(memory, frames, "update")
    BY <1>1, <1>2, NothingWrapped, Unwrapped
  <2> QED BY <1>2, <1>6, <2>1, StackKept DEF N
<1> QED BY <1>1, <1>4, <1>5, <1>7 DEF BufferInv, N, W

\* A fetched array is sliced and kept, and becomes the result.
LEMMA UpdateBuffers ==
    ASSUME LInv, BufferInv, Fits, Update
    PROVE  BufferInv'
<1> DEFINE s == Local(Depth)
           c == Cached(Def.key)
           H == Owners(frames, pc)
           N == Operands(frames)
           W == Wrapped(frames)
           r == SubSeq(frames, 1, Len(frames) - 1)
<1>1. /\ pc = "update" /\ Len(frames) > 0 /\ pc' = "returned" /\ frames' = r
      /\ Def.kind = "DATA_SOURCE"
  BY DEF Update, Go, Pop, Depth, LInv, Stacked, Def, Top
<1>2. /\ Sound(memory, entries) /\ Room(memory) /\ frames \in Seq(FrameSet)
      /\ Tidy(memory, H, N, W) /\ StackOK(memory, frames, pc)
      /\ s \in Stack /\ s \in Slots /\ Def.key \in Keys
  BY <1>1, BufferFacts, TopFacts DEF Stack
<1>3. /\ s # Temp /\ s # Result /\ s \in H /\ s \notin N /\ s \notin W
      /\ Temp \notin H /\ Temp \notin N /\ Temp \notin W
      /\ Result \notin H /\ Result \notin N /\ Result \notin W
  BY <1>1, Apart, InputsApart DEF Owners, Depth
<1>4. c \in Slots /\ c \in Caches /\ c \in H /\ c \notin W /\ c # Temp /\ c # s /\ Result \in Slots
      /\ Result \in Stack
  BY <1>2, FixedSlots, Apart, InputsApart DEF Caches, Owners
<1>5. /\ Wrapped(r) = {} /\ W = {} /\ Inputs(r) = Inputs(frames) /\ Operands(r) = N
      /\ StackOK(memory, r, "returned") /\ r \in Seq(FrameSet)
  <2>1. /\ Inputs(r) = Inputs(frames) \ Arguments(frames)
        /\ Operands(r) = Operands(frames) \ Arguments(frames)
        /\ Wrapped(r) = {} /\ StackOK(memory, r, "returned") /\ r \in Seq(FrameSet)
    BY <1>1, <1>2, PopOwners
  <2>2. Top.done = 0
    <3>1. Len(frames) \in 1..Len(frames)
      BY <1>1, <1>2, LenProperties
    <3> QED BY <1>1, <1>2, <3>1 DEF StackOK, Framed, Kind, Def, Top, Depth
  <2>3. Arguments(frames) = {}
    BY <2>2 DEF Arguments, Top, Depth
  <2>4. W = {}
    BY <1>1, <1>2, NothingWrapped, Unwrapped
  <2> QED BY <2>1, <2>3, <2>4
<1>6. Owners(r, "returned") = Caches \cup Inputs(frames) \cup {Result} /\ H = Caches \cup Inputs(frames) \cup {s}
  BY <1>1, <1>5 DEF Owners, Depth
<1>7. PICK empty \in BOOLEAN, scalar \in BOOLEAN, keep \in BOOLEAN :
         memory' = Swap(Stored(Updated(memory, s, empty, scalar), s, c, keep), s, Result)
  <2>1. PICK empty \in BOOLEAN, scalar \in BOOLEAN :
           memory' = Swap(Stored(Updated(memory, s, empty, scalar), s, c,
                                 ~(Caching /\ At(c) # Blank) /\ Def.key \in Shared), s, Result)
    BY DEF Update
  <2>2. (~(Caching /\ At(c) # Blank) /\ Def.key \in Shared) \in BOOLEAN
    OBVIOUS
  <2> QED BY <2>1, <2>2
<1> DEFINE m == Updated(memory, s, empty, scalar)
           p == Stored(m, s, c, keep)
<1> HIDE DEF s, c, H, N, W, r
<1>8. /\ Sound(m, entries) /\ Room(m) /\ Tidy(m, H, N, W)
      /\ \A t \in Slots : t # s => m.at[t] = memory.at[t]
  BY <1>2, <1>3, SliceSound, SliceTidy DEF Updated, Fits
<1> HIDE DEF m
<1>9. /\ Sound(p, entries) /\ Tidy(p, H, N, W)
      /\ \A t \in Slots \ {c, Temp} : p.at[t] = m.at[t]
  <2>1. CASE keep
    <3>1. p = Assign(Clone(m, s, Temp), c, Temp) /\ H \cup {c} = H
      BY <1>4, <2>1 DEF Stored
    <3>2. /\ Tidy(p, H \cup {c}, N, W) /\ \A t \in Slots \ {c, Temp} : p.at[t] = m.at[t]
      BY <1>2, <1>3, <1>4, <1>8, <3>1, StoreTidy
    <3>3. Sound(p, entries)
      BY <1>2, <1>4, <1>8, <3>1, StoreSound
    <3> QED BY <3>1, <3>2, <3>3
  <2>2. CASE ~keep
    BY <1>8, <2>2 DEF Stored
  <2> QED BY <2>1, <2>2
<1> HIDE DEF p
<1>10. memory' = Swap(p, s, Result)
  BY <1>7 DEF p, m
<1> DEFINE I == Caches \cup Inputs(frames) \cup {Result}
<1>11. Tidy(memory', I, N, W)
  <2>1. /\ H \ {s, Result} \subseteq I /\ Result \in I /\ N \ {s, Result} \subseteq N
        /\ (Result \in H => s \in I)
    BY <1>3, <1>6
  <2> HIDE DEF I
  <2> QED BY <1>2, <1>3, <1>4, <1>9, <1>10, <2>1, SwapTidy
<1>12. \A t \in N : memory'.at[t].buffer = memory.at[t].buffer
  <2>1. \A t \in Slots \ {s, Result} : memory'.at[t] = p.at[t]
    BY <1>2, <1>4, <1>9, <1>10, SwapSound
  <2>2. \A t \in N : t \in Slots /\ t \notin {s, c, Temp, Result}
    BY <1>3, <1>4, InputsApart DEF N
  <2> QED BY <1>8, <1>9, <2>1, <2>2
<1>13. StackOK(memory', r, "returned")
  BY <1>5, <1>12, StackKept
<1> QED BY <1>1, <1>5, <1>6, <1>11, <1>13 DEF BufferInv

\* A mapping returns: its parameters are destroyed.
LEMMA ReturnsBuffers ==
    ASSUME LInv, BufferInv, Fits, pc \in {"combine", "python"}, NEW m, Sound(m, entries),
           Tidy(m, Owners(frames, pc) \cup {Result}, Operands(frames), Wrapped(frames)),
           \A t \in Operands(frames) \ Arguments(frames) : m.at[t].buffer = memory.at[t].buffer,
           Returns(m)
    PROVE  BufferInv'
<1> DEFINE H == Owners(frames, pc) \cup {Result}
           N == Operands(frames)
           W == Wrapped(frames)
           A == Arguments(frames)
           r == SubSeq(frames, 1, Len(frames) - 1)
<1>1. /\ Len(frames) > 0 /\ pc' = "returned" /\ frames' = r /\ frames \in Seq(FrameSet)
      /\ StackOK(memory, frames, pc) /\ memory' = DestroyAll(m, A)
  BY BufferFacts DEF Returns, Go, Pop, Depth, Stacked, Arguments, Top
<1>2. A \in SUBSET Slots
  BY <1>1, TopFacts DEF Arguments, Depth, Top
<1>3. /\ Inputs(r) = Inputs(frames) \ A /\ Operands(r) = N \ A /\ W \subseteq A /\ Wrapped(r) = {}
      /\ StackOK(memory, r, "returned") /\ r \in Seq(FrameSet)
  BY <1>1, PopOwners
<1>4. A \cap Caches = {} /\ Result \notin A
  BY Apart DEF Arguments
<1>5. Owners(r, "returned") = H \ A
  BY <1>3, <1>4 DEF Owners
<1> HIDE DEF H, N, W, A, r
<1>6. Tidy(memory', H \ A, N \ A, W \ A)
  BY <1>1, <1>2, DestroyTidy DEF H, N, W
<1>7. W \ A = {}
  BY <1>3
<1>8. \A t \in N \ A : memory'.at[t].buffer = memory.at[t].buffer
  <2>1. \A t \in Slots : memory'.at[t] = IF t \in A THEN Blank ELSE m.at[t]
    BY <1>1, <1>2, DestroySound
  <2>2. N \subseteq Slots
    BY InputsApart DEF N
  <2> QED BY <2>1, <2>2 DEF N, A
<1>9. StackOK(memory', r, "returned")
  BY <1>3, <1>8, StackKept
<1> QED BY <1>1, <1>3, <1>5, <1>6, <1>7, <1>9 DEF BufferInv

\* An empty parameter ends the expression that asked for it.
LEMMA ReturnEmptyBuffers ==
    ASSUME LInv, BufferInv, Fits, ReturnEmpty
    PROVE  BufferInv'
<1> DEFINE H == Owners(frames, pc)
           N == Operands(frames)
           W == Wrapped(frames)
           A == Arguments(frames)
           r == SubSeq(frames, 1, Len(frames) - 1)
<1>1. /\ Len(frames) > 0 /\ pc = "returned" /\ pc' = "returned" /\ frames' = r
      /\ memory' = DestroyAll(memory, A)
  BY DEF ReturnEmpty, InCall, Pop, Depth, Arguments, Top
<1>2. /\ Sound(memory, entries) /\ frames \in Seq(FrameSet) /\ StackOK(memory, frames, pc)
      /\ Tidy(memory, H, N, W) /\ A \in SUBSET Slots
  BY <1>1, BufferFacts, TopFacts DEF Arguments, Depth, Top
<1>3. /\ Inputs(r) = Inputs(frames) \ A /\ Operands(r) = N \ A /\ W \subseteq A /\ Wrapped(r) = {}
      /\ StackOK(memory, r, "returned") /\ r \in Seq(FrameSet)
  BY <1>1, <1>2, PopOwners
<1>4. A \cap Caches = {} /\ Result \notin A
  BY Apart DEF Arguments
<1>5. Owners(r, "returned") = H \ A
  BY <1>1, <1>3, <1>4 DEF Owners
<1> HIDE DEF H, N, W, A, r
<1>6. Tidy(memory', H \ A, N \ A, W \ A)
  BY <1>1, <1>2, DestroyTidy
<1>7. W \ A = {}
  BY <1>3
<1>8. \A t \in N \ A : memory'.at[t].buffer = memory.at[t].buffer
  <2>1. \A t \in Slots : memory'.at[t] = IF t \in A THEN Blank ELSE memory.at[t]
    BY <1>1, <1>2, DestroySound
  <2>2. N \subseteq Slots
    BY InputsApart DEF N
  <2> QED BY <2>1, <2>2
<1>9. StackOK(memory', r, "returned")
  BY <1>3, <1>8, StackKept
<1> QED BY <1>1, <1>3, <1>5, <1>6, <1>7, <1>9 DEF BufferInv

\* A result becomes a parameter of the mapping that asked for it.  EXPR takes the
\* address of its values after the conversion.
LEMMA TakeBuffers ==
    ASSUME LInv, BufferInv, Fits, TakeOperand \/ TakeInput
    PROVE  BufferInv'
<1> DEFINE n == Len(frames)
           g == frames[n]
           s == Param(n, g.done + 1)
           q == Swap(memory, s, Result)
           N == Operands(frames)
           I == Caches \cup Inputs(frames) \cup {s}
<1>1. /\ pc = "returned" /\ n > 0 /\ pc' = "eval" /\ n \in Nat /\ n \in 1..n
      /\ Sound(memory, entries) /\ Room(memory) /\ frames \in Seq(FrameSet)
      /\ Tidy(memory, Owners(frames, pc), N, Wrapped(frames)) /\ StackOK(memory, frames, pc)
      /\ Framed(memory, g, n)
  <2>1. pc = "returned" /\ n > 0 /\ pc' = "eval"
    BY DEF TakeOperand, TakeInput, InCall, Go, Depth
  <2>2. n \in Nat /\ n \in 1..n
    BY <2>1, BufferFacts, LenProperties
  <2> QED BY <2>1, <2>2, BufferFacts DEF StackOK
<1>2. /\ g \in FrameSet /\ g.done \in Nat /\ s \in Stack /\ s \in Slots /\ Top = g /\ Depth = n
      /\ Result \in Stack /\ Result \in Slots /\ Temp \in Slots
  <2>1. Top = g /\ Depth = n
    BY DEF Top, Depth
  <2>2. g.done + 1 \in 1..Len(Def.deps)
    BY <1>1, <2>1, TopFacts
  <2> QED BY <1>1, <2>1, <2>2, TopFacts, FixedSlots DEF Stack
<1>3. /\ s # Temp /\ s # Result /\ s \notin Caches /\ s \notin Inputs(frames) /\ s \notin N
      /\ Result \notin N /\ Temp \notin N /\ Temp \notin I /\ N \subseteq Slots
  <2>1. s \notin Inputs(frames)
    <3>1. \A d, i : s = Param(d, i) => d = n /\ i = g.done + 1
      BY Apart
    <3>2. g.done + 1 \notin 1..g.done
      BY <1>2
    <3> QED BY <3>1, <3>2 DEF Inputs
  <2> QED BY <2>1, Apart, InputsApart
<1>4. Wrapped(frames) = {}
  BY <1>1, NothingWrapped, Unwrapped
<1>5. Owners(frames, pc) = Caches \cup Inputs(frames) \cup {Result}
  BY <1>1 DEF Owners
<1> HIDE DEF s, N, I
<1>6. /\ Sound(q, entries) /\ Room(q) /\ q.at[s] = memory.at[Result]
      /\ \A t \in Slots \ {s, Result} : q.at[t] = memory.at[t]
  <2>1. /\ Sound(q, entries) /\ q.heap = memory.heap
        /\ q.at[s] = memory.at[Result] /\ \A t \in Slots \ {s, Result} : q.at[t] = memory.at[t]
    BY <1>1, <1>2, SwapSound
  <2> QED BY <1>1, <2>1 DEF Room
<1>7. Tidy(q, I, N, {})
  <2>1. /\ Owners(frames, pc) \ {s, Result} \subseteq I /\ N \ {s, Result} \subseteq N
        /\ s \notin Owners(frames, pc) /\ s \in I
    BY <1>3, <1>5 DEF I
  <2> QED BY <1>1, <1>2, <1>3, <1>4, <2>1, SwapTidy
<1> HIDE DEF q
<1>8. ASSUME NEW m, NEW f \in FrameSet, f.name = g.name, f.done = g.done + 1, f.wrapped = g.wrapped,
             memory' = m, frames' = [frames EXCEPT ![n] = f], Framed(m, f, n),
             Tidy(m, I, IF Kind(f) = "EXPR" THEN N \cup {s} ELSE N, {}),
             \A t \in Slots \ {s, Result, Temp} : m.at[t] = memory.at[t]
      PROVE  BufferInv'
  <2>1. \A t \in N : m.at[t].buffer = memory.at[t].buffer
    BY <1>3, <1>8
  <2> DEFINE u == WithTop(frames, f)
  <2>2. /\ Inputs(u) = Inputs(frames) \cup {s} /\ Wrapped(u) = {}
        /\ Kind(f) = "EXPR" => Operands(u) = N \cup {s}
        /\ Kind(f) # "EXPR" => Operands(u) = N
        /\ StackOK(m, u, "eval")
    <3>1. Param(Len(frames), f.done) = s /\ Param(Len(frames), f.done) \in Slots
      BY <1>2, <1>8 DEF s
    <3>2. /\ pc \notin {"combine", "python"} /\ Framed(m, f, Len(frames))
          /\ \A t \in Operands(frames) : m.at[t].buffer = memory.at[t].buffer
          /\ StackOK(memory, frames, pc) /\ frames \in Seq(FrameSet) /\ Len(frames) > 0
          /\ f.name = frames[Len(frames)].name /\ f.done = frames[Len(frames)].done + 1
          /\ f.wrapped = frames[Len(frames)].wrapped
      BY <1>1, <1>8, <2>1 DEF N
    <3> HIDE DEF u
    <3>3. /\ Inputs(WithTop(frames, f)) = Inputs(frames) \cup {Param(Len(frames), f.done)}
          /\ Kind(f) = "EXPR" =>
                 Operands(WithTop(frames, f)) = Operands(frames) \cup {Param(Len(frames), f.done)}
          /\ Kind(f) # "EXPR" => Operands(WithTop(frames, f)) = Operands(frames)
          /\ Wrapped(WithTop(frames, f)) = {} /\ StackOK(m, WithTop(frames, f), "eval")
      BY <3>1, <3>2, TakeOwners
    <3> QED BY <3>1, <3>3 DEF N, u
  <2>3. frames' = u
    BY <1>8 DEF WithTop
  <2> HIDE DEF u
  <2>4. Owners(u, "eval") = I /\ Operands(u) = IF Kind(f) = "EXPR" THEN N \cup {s} ELSE N
    BY <2>2 DEF Owners, I
  <2> QED BY <1>1, <1>8, <2>2, <2>3, <2>4 DEF BufferInv
<1>9. CASE TakeOperand
  <2> DEFINE m == Converted(q, s)
             x == Append(g.raw, m.at[s].buffer)
             f == WithParameter(g, x)
  <2>1. q.at[s].buffer # None
    <3>1. ~memory.at[Result].empty
      BY <1>9 DEF TakeOperand, At
    <3> QED BY <1>1, <1>2, <1>4, <1>6, <3>1 DEF Tidy, Filled
  <2>2. /\ Tidy(m, I, N \cup {s}, {}) /\ \A t \in Slots \ {s, Temp} : m.at[t] = q.at[t]
        /\ m.at[s].buffer \in Buffers
    <3>1. s \in I
      BY DEF I
    <3> DEFINE W == {}
    <3> HIDE DEF q, s, I, N, W
    <3>2. Sound(q, entries) /\ Room(q) /\ Tidy(q, I, N, W)
      BY <1>6, <1>7 DEF W
    <3>3. s \in Slots /\ s # Temp /\ Temp \notin I /\ Temp \notin N /\ s \notin W /\ Temp \notin W
      BY <1>2, <1>3 DEF W
    <3>4. /\ Tidy(Converted(q, s), I, N \cup {s}, W)
          /\ \A t \in Slots \ {s, Temp} : Converted(q, s).at[t] = q.at[t]
          /\ q.at[s].buffer # None => Converted(q, s).at[s].buffer \in Buffers
      BY <3>1, <3>2, <3>3, ConvertTidy, Z3
    <3> QED BY <2>1, <3>4 DEF W
  <2>3. memory' = m /\ frames' = [frames EXCEPT ![n] = f] /\ Kind(g) = "EXPR"
    BY <1>2, <1>9 DEF TakeOperand, KeepOperand, SetTop, Depth, WithParameter, q, s, InCall, Kind, Def
  <2> HIDE DEF m
  <2>4. /\ x \in Seq(Buffers \cup {None}) /\ Len(g.raw) \in Nat
        /\ Len(x) = Len(g.raw) + 1 /\ x[Len(g.raw) + 1] = m.at[s].buffer
        /\ \A i \in 1..Len(g.raw) : x[i] = g.raw[i]
    <3>1. g.raw \in Seq(Buffers \cup {None})
      BY <1>2 DEF FrameSet
    <3> QED BY <2>2, <3>1, AppendProperties, LenProperties
  <2> HIDE DEF x
  <2>5. /\ f \in FrameSet /\ f.name = g.name /\ f.done = g.done + 1
        /\ f.wrapped = g.wrapped /\ f.raw = x
    BY <1>2, <2>4, FrameFilled
  <2> HIDE DEF f
  <2>6. Framed(m, f, n)
    <3>1. /\ g.wrapped \in Nat /\ g.wrapped <= g.done /\ Len(g.raw) = g.done
          /\ \A i \in 1..g.done : Param(n, i) \in Slots
          /\ \A i \in 1..Len(g.raw) : g.raw[i] \in Buffers /\ memory.at[Param(n, i)].buffer = g.raw[i]
      BY <1>1, <1>2, <2>3 DEF Framed, FrameSet
    <3>2. Kind(f) = "EXPR" /\ 1..f.done = 1..g.done \cup {g.done + 1}
      BY <1>2, <2>3, <2>5 DEF Kind
    <3>3. \A i \in 1..g.done : m.at[Param(n, i)] = memory.at[Param(n, i)]
      <4>1. \A i \in 1..g.done : /\ Param(n, i) \in Slots /\ Param(n, i) # s
                                /\ Param(n, i) # Result /\ Param(n, i) # Temp
        BY <1>2, <3>1, Apart DEF s
      <4> QED BY <1>6, <2>2, <4>1
    <3>4. Len(f.raw) = f.done /\ f.wrapped <= f.done
      BY <1>2, <2>4, <2>5, <3>1
    <3>5. \A i \in 1..f.done : Param(n, i) \in Slots
      BY <1>2, <3>1, <3>2 DEF s
    <3>6. \A i \in 1..f.done : f.raw[i] \in Buffers /\ m.at[Param(n, i)].buffer = f.raw[i]
      <4>1. ASSUME NEW i \in 1..g.done
            PROVE  f.raw[i] \in Buffers /\ m.at[Param(n, i)].buffer = f.raw[i]
        BY <2>4, <2>5, <3>1, <3>3
      <4>2. f.raw[g.done + 1] = m.at[s].buffer
        BY <2>4, <2>5, <3>1
      <4> QED BY <2>2, <3>2, <4>1, <4>2 DEF s
    <3> QED BY <3>2, <3>4, <3>5, <3>6 DEF Framed
  <2>7. Kind(f) = "EXPR"
    BY <2>3, <2>5 DEF Kind
  <2> QED BY <1>6, <1>8, <2>2, <2>3, <2>5, <2>6, <2>7
<1>10. CASE TakeInput
  <2> DEFINE f == [g EXCEPT !.done = @ + 1]
  <2>1. /\ memory' = q /\ frames' = [frames EXCEPT ![n] = f]
        /\ Kind(g) # "EXPR" /\ Kind(g) # "DATA_SOURCE"
    BY <1>2, <1>10 DEF TakeInput, SetTop, Depth, q, s, InCall, Kind, Def
  <2>2. /\ f \in FrameSet /\ f.name = g.name /\ f.done = g.done + 1
        /\ f.wrapped = g.wrapped /\ f.raw = g.raw
    BY <1>2 DEF FrameSet
  <2> HIDE DEF f
  <2>3. Framed(q, f, n)
    <3>1. /\ g.wrapped \in Nat /\ g.wrapped <= g.done /\ Len(g.raw) = 0
          /\ \A i \in 1..g.done : Param(n, i) \in Slots
      BY <1>1, <1>2, <2>1 DEF Framed, FrameSet
    <3>2. Kind(f) = Kind(g) /\ 1..f.done = 1..g.done \cup {g.done + 1} /\ 1..Len(f.raw) = {}
      BY <1>2, <2>2, <3>1 DEF Kind
    <3>3. f.wrapped <= f.done
      BY <1>2, <2>2, <3>1
    <3>4. \A i \in 1..f.done : Param(n, i) \in Slots
      BY <1>2, <3>1, <3>2 DEF s
    <3> QED BY <2>1, <2>2, <3>1, <3>2, <3>3, <3>4 DEF Framed
  <2>4. Kind(f) # "EXPR"
    BY <2>1, <2>2 DEF Kind
  <2> QED BY <1>6, <1>7, <1>8, <2>1, <2>2, <2>3, <2>4
<1> QED BY <1>9, <1>10


\* EXPR, VALUE, DIM, INTERP and CUSTOM make their result, or hand on an input.
LEMMA ReturnBuffers ==
    ASSUME LInv, BufferInv, Fits, ReturnExpr \/ ReturnOther \/ CallLibrary
    PROVE  BufferInv'
<1> DEFINE H == Owners(frames, pc)
           N == Operands(frames)
           W == Wrapped(frames)
           A == Arguments(frames)
<1>1. /\ pc = "combine" /\ Len(frames) > 0 /\ frames \in Seq(FrameSet)
      /\ Sound(memory, entries) /\ Room(memory) /\ Tidy(memory, H, N, W)
      /\ StackOK(memory, frames, pc)
  <2>1. pc = "combine"
    BY DEF ReturnExpr, ReturnOther, CallLibrary, Calling
  <2> QED BY <2>1, BufferFacts DEF Stacked
<1>2. /\ Result \in Slots /\ Result \in Stack /\ Def.types \subseteq Types
      /\ "double" \in Types /\ Top.done \in Nat /\ Len(Def.deps) \in Nat
      /\ Top.done <= Len(Def.deps) /\ \A i \in 1..Len(Def.deps) : Param(Depth, i) \in Stack
  BY <1>1, TopFacts, FixedSlots DEF Types
<1>3. Result \notin H /\ Result \notin N /\ Result \notin W /\ N \subseteq Slots
  BY <1>1, Apart, InputsApart DEF Owners
<1> HIDE DEF H, N, W, A
<1>4. ASSUME NEW m, Sound(m, entries), Tidy(m, H \cup {Result}, N, W),
             \A t \in N \ A : m.at[t].buffer = memory.at[t].buffer, Returns(m)
      PROVE  BufferInv'
  BY <1>1, <1>4, ReturnsBuffers DEF H, N, W, A
<1>5. ASSUME NEW type \in Types, Returns(Construct(memory, Result, type, FALSE))
      PROVE  BufferInv'
  <2> DEFINE empty == FALSE
             m == Construct(memory, Result, type, empty)
  <2>a. empty \in BOOLEAN
    OBVIOUS
  <2> HIDE DEF empty
  <2>1. Sound(m, entries)
    BY <1>1, <1>2, <2>a, ConstructSound
  <2>2. /\ Tidy(m, H \cup {Result}, N, W)
        /\ \A t \in Slots : t # Result => m.at[t] = memory.at[t]
    BY <1>1, <1>2, <1>3, <2>a, ConstructTidy
  <2>3. Returns(m)
    BY <1>5 DEF empty
  <2> HIDE DEF m
  <2> QED BY <1>3, <1>4, <2>1, <2>2, <2>3
<1>6. ASSUME Returns(memory)
      PROVE  BufferInv'
  <2>1. Tidy(memory, H \cup {Result}, N, W)
    BY <1>1, TidyWider
  <2> QED BY <1>1, <1>4, <1>6, <2>1
<1>7. ASSUME Calling(FALSE), NEW i \in 1..Top.done, Returns(Swap(memory, Param(Depth, i), Result))
      PROVE  BufferInv'
  <2> DEFINE s == Param(Depth, i)
             m == Swap(memory, s, Result)
  <2>1. s \in Stack /\ s \in Slots /\ s \in A /\ s \notin N
    <3>1. s \in Stack /\ s \in A
      BY <1>2, <1>7 DEF A, Arguments, Top, Depth
    <3>2. Kind(frames[Len(frames)]) = "CUSTOM"
      BY <1>7 DEF Calling, Kind, Def, Top, Depth
    <3>3. s \notin N
      BY <3>2, Apart DEF N, Operands, Depth
    <3> QED BY <3>1, <3>3 DEF Stack
  <2>2. W = {}
    <3>1. Top \in FrameSet /\ ~(Top.wrapped > 0)
      BY <1>1, <1>7, TopFacts DEF BufferInv, Calling
    <3>2. frames[Len(frames)].wrapped = 0
      BY <3>1 DEF FrameSet, Top, Depth
    <3> QED BY <1>1, <3>2, NothingWrapped, Unwrapped DEF W
  <2>3. s \in H \cup {Result}
    <3>1. s \in Inputs(frames)
      <4>1. Len(frames) \in 1..Len(frames)
        BY <1>1, LenProperties
      <4> QED BY <1>7, <2>1, <4>1 DEF Inputs, Top, Depth
    <3> QED BY <3>1 DEF H, Owners
  <2>4. Returns(m)
    BY <1>7
  <2> HIDE DEF s
  <2>5. /\ Sound(m, entries) /\ \A t \in Slots \ {s, Result} : m.at[t] = memory.at[t]
    BY <1>1, <1>2, <2>1, SwapSound
  <2>6. Tidy(m, H \cup {Result}, N, W)
    <3> DEFINE I == H \cup {Result}
    <3>1. H \ {s, Result} \subseteq I /\ Result \in I /\ s \in I /\ N \ {s, Result} \subseteq N
      BY <2>3
    <3> HIDE DEF I
    <3>2. Tidy(m, I, N, W)
      BY <1>1, <1>2, <1>3, <2>1, <2>2, <3>1, SwapTidy
    <3> QED BY <3>2 DEF I
  <2> HIDE DEF m
  <2> QED BY <1>3, <1>4, <2>1, <2>4, <2>5, <2>6
<1>8. CASE ReturnExpr
  BY <1>2, <1>5, <1>8 DEF ReturnExpr
<1>9. CASE ReturnOther
  BY <1>2, <1>5, <1>6, <1>9 DEF ReturnOther
<1>10. CASE CallLibrary
  BY <1>2, <1>5, <1>7, <1>10 DEF CallLibrary
<1> QED BY <1>8, <1>9, <1>10

\* Exceptions.
LEMMA ThrowBuffers ==
    ASSUME LInv, BufferInv, Fits, Throws \/ RefuseOperand \/ PythonRaises
    PROVE  BufferInv'
<1>1. Unwind(memory)
  BY DEF Throws, RefuseOperand, PythonRaises
<1>2. Operands(frames) \cap Caches = {} /\ Wrapped(frames) \cap Caches = {}
  BY InputsApart
<1> QED BY <1>1, <1>2, BufferFacts, UnwindBuffers

\* An input of a Python function is wrapped.
LEMMA WrapBuffers ==
    ASSUME LInv, BufferInv, Fits, WrapInput \/ WrapInputFails
    PROVE  BufferInv'
<1> DEFINE n == Len(frames)
           g == frames[n]
           f == [g EXCEPT !.wrapped = @ + 1]
           s == Param(n, g.wrapped + 1)
           H == Owners(frames, pc)
           N == Operands(frames)
           W == Wrapped(frames)
<1>1. /\ pc = "combine" /\ n > 0 /\ frames \in Seq(FrameSet) /\ dict \subseteq memory.numpy
      /\ Sound(memory, entries) /\ Tidy(memory, H, N, W) /\ StackOK(memory, frames, "combine")
      /\ g.wrapped < g.done /\ Kind(g) = "CUSTOM" /\ s = NextInput
      /\ Usable(g.name) /\ Target(g.name) \in PythonFunctions
  <2>1. /\ pc = "combine" /\ g.wrapped < g.done /\ Kind(g) = "CUSTOM" /\ s = NextInput
        /\ Usable(g.name) /\ Target(g.name) \in PythonFunctions
    BY DEF WrapInput, WrapInputFails, Calling, Top, Depth, Kind, Def, NextInput
  <2> QED BY <2>1, BufferFacts DEF Stacked
<1>2. /\ f \in FrameSet /\ f.name = g.name /\ f.raw = g.raw /\ f.done = g.done
      /\ f.wrapped = g.wrapped + 1 /\ f.wrapped <= f.done /\ Kind(f) = "CUSTOM"
  <2>1. g \in FrameSet
    BY <1>1, TopFacts DEF Top, Depth
  <2>2. g.wrapped \in Nat /\ g.done \in Nat
    BY <2>1 DEF FrameSet
  <2>3. /\ f \in FrameSet /\ f.name = g.name /\ f.raw = g.raw /\ f.done = g.done
        /\ f.wrapped = g.wrapped + 1
    BY <2>1, <2>2 DEF FrameSet
  <2> QED BY <1>1, <2>2, <2>3 DEF Kind
<1>3. N \cap Caches = {} /\ W \cap Caches = {} /\ N \subseteq Slots
  BY InputsApart
<1> DEFINE u == WithTop(frames, f)
<1>4. ASSUME NEW m, \A t \in N : m.at[t].buffer = memory.at[t].buffer
      PROVE  /\ Inputs(u) = Inputs(frames) /\ Operands(u) = N
             /\ s \in Slots /\ s \notin N /\ s \notin W
             /\ Wrapped(u) = W \cup {s} /\ StackOK(m, u, "combine")
  <2>1. s = Param(Len(frames), f.wrapped)
    BY <1>2
  <2> HIDE DEF f, s, u
  <2> QED BY <1>1, <1>2, <1>4, <2>1, WrapOwners DEF u
<1>5. s \in Slots /\ s \notin N /\ s \notin W
  <2> HIDE DEF s, N, W, u
  <2> QED BY <1>4
<1>6. CASE WrapInput
  <2>1. memory.at[s].type # "unknown" /\ frames' = u /\ pc' = "combine" /\ UNCHANGED functionVars
    BY <1>1, <1>6 DEF WrapInput, SetTop, Top, Depth, At, WithTop
  <2> HIDE DEF f, s, H, N, W, u
  <2>2. memory.at[s].buffer # None
    BY <1>1, <1>5, <2>1 DEF Tidy, Filled
  <2>3. /\ Tidy(memory', H, N, W \cup {s})
        /\ \A t \in Slots : t # s => memory'.at[t] = memory.at[t]
    <3>1. CASE memory' = WrapText(memory, s)
      BY <1>1, <1>5, <3>1, WrapTextTidy
    <3>2. CASE memory' = Wrap(memory, s)
      BY <1>1, <1>5, <2>2, <3>2, WrapTidy
    <3> QED BY <1>1, <1>6, <3>1, <3>2 DEF WrapInput
  <2>4. \A t \in N : memory'.at[t].buffer = memory.at[t].buffer
    BY <1>3, <1>5, <2>3
  <2>5. /\ Inputs(u) = Inputs(frames) /\ Operands(u) = N
        /\ Wrapped(u) = W \cup {s} /\ StackOK(memory', u, "combine")
    BY <1>4, <2>4
  <2>6. Owners(u, "combine") = H
    BY <1>1, <2>5 DEF Owners, H
  <2>7. (Usable(Top.name) /\ Target(Top.name) \in PythonFunctions)'
    <3>1. Top' = f
      <4>1. Len(u) = n /\ u[n] = f
        BY <1>1, <1>2, LenProperties, ExceptSeq DEF u, WithTop
      <4> QED BY <2>1, <4>1 DEF Top, Depth
    <3>2. Top'.name = g.name
      BY <1>2, <3>1
    <3>3. UNCHANGED <<functions, storage, pointer>>
      BY <2>1 DEF functionVars
    <3> QED BY <1>1, <3>2, <3>3 DEF Usable, Target
  <2> QED BY <2>1, <2>3, <2>5, <2>6, <2>7 DEF BufferInv
<1>7. CASE WrapInputFails
  <2> DEFINE m == WrapFails(memory, s)
  <2>1. Unwind(m)
    BY <1>1, <1>7 DEF WrapInputFails
  <2> HIDE DEF f, s, H, N, W, u
  <2>2. Sound(m, entries) /\ m.numpy = memory.numpy /\ Tidy(m, H, N, W \cup {s})
    BY <1>1, <1>5, WrapFailsSound, WrapFailsTidy
  <2>3. (W \cup {s}) \cap Caches = {}
    BY <1>3, Apart DEF s
  <2> DEFINE V == W \cup {s}
  <2> HIDE DEF m, V
  <2>4. Tidy(m, H, N, V) /\ V \cap Caches = {}
    BY <2>2, <2>3 DEF V
  <2> QED BY <1>1, <1>3, <2>1, <2>2, <2>4, UnwindBuffers
<1> QED BY <1>6, <1>7


\* A CUSTOM mapping calls its function.
LEMMA CustomBuffers ==
    ASSUME LInv, BufferInv, Fits, CallUndefined \/ CallPython
    PROVE  BufferInv'
<1>1. /\ pc = "combine" /\ memory' = memory /\ frames' = frames /\ Len(frames) > 0
      /\ frames \in Seq(FrameSet) /\ StackOK(memory, frames, pc)
      /\ Tidy(memory, Owners(frames, pc), Operands(frames), Wrapped(frames))
  <2>1. pc = "combine" /\ memory' = memory /\ frames' = frames
    BY DEF CallUndefined, CallPython, Calling
  <2> QED BY <2>1, BufferFacts DEF Stacked
<1>2. CASE CallUndefined
  <2>1. pc' = "undefined" /\ ~Usable(Top.name)
    BY <1>2 DEF CallUndefined, Go
  <2>2. frames[Len(frames)].wrapped = 0
    <3>1. Top \in FrameSet /\ ~(Top.wrapped > 0)
      BY <1>1, <2>1, TopFacts DEF BufferInv
    <3> QED BY <3>1 DEF FrameSet, Top, Depth
  <2>3. StackOK(memory, frames, "undefined")
    BY <1>1, <2>2, NothingWrapped, Unwrapped
  <2>4. Owners(frames, "undefined") = Owners(frames, pc)
    BY <1>1 DEF Owners
  <2> QED BY <1>1, <2>1, <2>3, <2>4 DEF BufferInv
<1>3. CASE CallPython
  <2>1. pc' = "python"
    BY <1>3 DEF CallPython, Go
  <2>2. StackOK(memory, frames, "python")
    BY <1>1 DEF StackOK, Wraps
  <2>3. Owners(frames, "python") = Owners(frames, pc)
    BY <1>1 DEF Owners
  <2> QED BY <1>1, <2>1, <2>2, <2>3 DEF BufferInv
<1> QED BY <1>2, <1>3

\* A Python function returns.
LEMMA PythonBuffers ==
    ASSUME LInv, BufferInv, Fits, PythonReturns
    PROVE  BufferInv'
<1> DEFINE H == Owners(frames, pc)
           N == Operands(frames)
           W == Wrapped(frames)
<1>1. /\ pc = "python" /\ Len(frames) > 0 /\ dict \subseteq memory.numpy
      /\ Sound(memory, entries) /\ Room(memory) /\ Tidy(memory, H, N, W)
  <2>1. pc = "python"
    BY DEF PythonReturns
  <2> QED BY <2>1, BufferFacts DEF Stacked
<1>2. PICK kept \in SUBSET dict, type \in Def.types :
         Returns(Construct(Drop(memory, dict \ kept), Result, type, FALSE))
  BY DEF PythonReturns
<1>3. Result \notin H /\ Result \notin N /\ N \subseteq Slots
  BY <1>1, Apart, InputsApart DEF Owners
<1> HIDE DEF H, N, W
<1> DEFINE empty == FALSE
           gone == dict \ kept
           r == Drop(memory, gone)
           m == Construct(r, Result, type, empty)
<1>4. gone \in SUBSET memory.numpy /\ empty \in BOOLEAN
  BY <1>1
<1>5. type \in Types /\ Result \in Slots
  BY <1>1, <1>2, TopFacts, FixedSlots
<1>6. Returns(m)
  BY <1>2
<1> HIDE DEF empty, gone
<1>7. Sound(r, entries) /\ Room(r)
  BY <1>1, <1>4, DropSound
<1>8. Tidy(r, H, N, W) /\ r.at = memory.at
  BY <1>1, <1>4, DropTidy
<1> HIDE DEF r
<1>9. Sound(m, entries)
  BY <1>4, <1>5, <1>7, ConstructSound
<1>10. Tidy(m, H \cup {Result}, N, W) /\ \A t \in Slots : t # Result => m.at[t] = r.at[t]
  BY <1>3, <1>4, <1>5, <1>7, <1>8, ConstructTidy
<1> HIDE DEF m
<1>11. \A t \in N : m.at[t].buffer = memory.at[t].buffer
  BY <1>3, <1>8, <1>10
<1> QED BY <1>1, <1>6, <1>9, <1>10, <1>11, ReturnsBuffers DEF H, N, W

\* The result is kept, and delivered.
LEMMA EndBuffers ==
    ASSUME LInv, BufferInv, Fits, Finish \/ Deliver
    PROVE  BufferInv'
<1> DEFINE H == Owners(frames, pc)
<1>1. /\ pc \in {"returned", "deliver"} /\ frames = << >> /\ asked \in Names
      /\ Sound(memory, entries) /\ Room(memory) /\ dict \subseteq memory.numpy
      /\ Tidy(memory, H, {}, {}) /\ H = Caches \cup {Result}
  <2>1. pc \in {"returned", "deliver"} /\ frames = << >>
    BY BufferFacts DEF Finish, Deliver, Stacked
  <2> QED BY <2>1, BufferFacts, EmptyStack DEF Owners, LInv
<1>2. /\ Result \in Slots /\ Kept(asked) \in Slots /\ Kept(asked) \in Caches
      /\ Kept(asked) # Temp /\ Temp \notin H
  BY <1>1, FixedSlots, Apart DEF Caches, MappingCache
<1> HIDE DEF H
<1>3. CASE Finish
  <2> DEFINE keep == Caching /\ asked \in Shared
             c == Kept(asked)
  <2>1. memory' = Stored(memory, Result, c, keep) /\ pc' = "deliver" /\ frames' = << >>
    BY <1>1, <1>3 DEF Finish, Go
  <2> HIDE DEF keep, c
  <2>2. Tidy(memory', H, {}, {})
    <3>1. CASE keep
      <4>1. memory' = Assign(Clone(memory, Result, Temp), c, Temp)
        BY <2>1, <3>1 DEF Stored
      <4>2. c \in Slots /\ c # Temp /\ H \cup {c} = H
        BY <1>1, <1>2 DEF c
      <4>3. Tidy(memory', H \cup {c}, {}, {})
        BY <1>1, <1>2, <4>1, <4>2, StoreTidy
      <4> QED BY <4>2, <4>3
    <3>2. CASE ~keep
      BY <1>1, <2>1, <3>2 DEF Stored
    <3> QED BY <3>1, <3>2
  <2>3. Owners(<< >>, "deliver") = H
    BY <1>1, EmptyStack DEF Owners
  <2> QED BY <2>1, <2>2, <2>3, EmptyStack DEF BufferInv
<1>4. CASE Deliver
  <2> DEFINE V == {} \cup {Result}
             O == {}
  <2>1. V \cap Caches = {} /\ O \cap Caches = {} /\ Result \notin O
    BY Apart
  <2>2. Tidy(memory, H, O, {})
    BY <1>1
  <2>3. \/ Unwind(memory) \/ Unwind(WrapText(memory, Result))
        \/ memory.at[Result].empty = FALSE /\ Unwind(Wrap(memory, Result))
        \/ Unwind(WrapFails(memory, Result))
    <3>1. memory.at[Result].empty \in BOOLEAN
      BY <1>1, <1>2 DEF Sound, Memory, Array
    <3> QED BY <1>4, <3>1 DEF Deliver, At
  <2>4. CASE Unwind(memory)
    <3> HIDE DEF V
    <3> QED BY <1>1, <2>1, <2>2, <2>4, UnwindBuffers DEF O
  <2>5. CASE Unwind(WrapText(memory, Result))
    <3> DEFINE m == WrapText(memory, Result)
    <3>1. Sound(m, entries) /\ m.numpy = memory.numpy
      BY <1>1, <1>2, WrapTextSound
    <3> HIDE DEF O
    <3>2. Tidy(m, H, O, V)
      BY <1>1, <1>2, <2>2, WrapTextTidy
    <3> HIDE DEF m, V
    <3> QED BY <1>1, <2>1, <2>5, <3>1, <3>2, UnwindBuffers DEF m
  <2>6. CASE memory.at[Result].empty = FALSE /\ Unwind(Wrap(memory, Result))
    <3> DEFINE m == Wrap(memory, Result)
    <3>1. Sound(m, entries) /\ m.numpy = memory.numpy \cup {Held(memory, Result)}
      BY <1>1, <1>2, WrapSound
    <3>2. memory.at[Result].buffer # None
      BY <1>2, <2>2, <2>6 DEF Tidy, Filled
    <3> HIDE DEF O
    <3>3. Tidy(m, H, O, V)
      BY <1>1, <1>2, <2>1, <2>2, <3>2, WrapTidy
    <3>4. Unwind(m) /\ dict \subseteq m.numpy
      BY <1>1, <2>6, <3>1
    <3> HIDE DEF m, V
    <3> QED BY <2>1, <3>1, <3>3, <3>4, UnwindBuffers
  <2>7. CASE Unwind(WrapFails(memory, Result))
    <3> DEFINE m == WrapFails(memory, Result)
    <3>1. Sound(m, entries) /\ m.numpy = memory.numpy
      BY <1>1, <1>2, WrapFailsSound
    <3> HIDE DEF O
    <3>2. Tidy(m, H, O, V)
      BY <1>1, <1>2, <2>2, WrapFailsTidy
    <3> HIDE DEF m, V
    <3> QED BY <1>1, <2>1, <2>7, <3>1, <3>2, UnwindBuffers DEF m
  <2> QED BY <2>3, <2>4, <2>5, <2>6, <2>7
<1> QED BY <1>3, <1>4

(***************************************************************************)
(* The theorems                                                            *)
(***************************************************************************)
\* Nothing is allocated at the beginning.
LEMMA BufferStart ==
    ASSUME LifetimeInit
    PROVE  BufferInv
<1>1. memory = NoMemory /\ pc = "idle" /\ frames = << >>
  BY DEF LifetimeInit
<1>2. /\ NoMemory.numpy = {} /\ NoMemory.lost = {} /\ \A s \in Slots : NoMemory.at[s] = Blank
      /\ \A b \in Buffers : NoMemory.heap[b] = "free"
  BY DEF NoMemory
<1>3. ~Blank.owning /\ Blank.empty /\ Blank.type = "unknown"
  BY DEF Blank
<1>4. \A H, N, W : Tidy(NoMemory, H, N, W)
  <2>1. \A b \in Buffers : NoMemory.heap[b] \notin Allocated
    BY <1>2 DEF Allocated
  <2> QED BY <1>2, <1>3, <2>1 DEF Tidy, Placed, Filled
<1> QED BY <1>1, <1>4, EmptyStack DEF BufferInv

\* Every step keeps each buffer with its owner, while there is room.
LEMMA BufferStep ==
    ASSUME LInv, BufferInv, Fits, [Invoke \/ Evaluate \/ Quiet]_vars
    PROVE  BufferInv'
<1>1. CASE UNCHANGED vars
  BY <1>1, RegistryBuffers DEF vars
<1>2. CASE Quiet
  BY <1>2, RegistryBuffers DEF Quiet, vars
<1>3. CASE Invoke
  <2>1. ASSUME NEW q \in Libraries, Provide(q)
        PROVE  BufferInv'
    BY <2>1, RegistryBuffers DEF Provide
  <2>2. ASSUME NEW c \in Customs, Withdraw(FunctionOf[c])
        PROVE  BufferInv'
    BY <2>2, RegistryBuffers DEF Withdraw, Start
  <2>3. ASSUME NEW n \in Requests, CallMap(n)
        PROVE  BufferInv'
    BY <2>3, CallBuffers
  <2> QED BY <1>3, <2>1, <2>2, <2>3, RenewBuffers, DropBuffers DEF Invoke
<1>4. CASE Evaluate
  BY <1>4, EvalBuffers, FetchBuffers, UpdateBuffers, ReturnEmptyBuffers, TakeBuffers,
     ReturnBuffers, ThrowBuffers, WrapBuffers, CustomBuffers, PythonBuffers, EndBuffers
     DEF Evaluate
<1> QED BY <1>1, <1>2, <1>3, <1>4

\* The invariant: each buffer has one owner among the variables that exist, and the
\* parameters of EXPR are where its raw pointers say.
THEOREM BufferInvariant == LifetimeSpec /\ []Fits => []BufferInv
<1>1. LifetimeInit => BufferInv
  BY BufferStart
<1>2. LInv /\ BufferInv /\ Fits /\ [Invoke \/ Evaluate \/ Quiet]_vars => BufferInv'
  BY BufferStep
<1> QED BY <1>1, <1>2, MemoryInvariant, PTL DEF LifetimeSpec

\* Every allocated buffer has an owner that is still to be destroyed, on the error
\* paths too, except those a failing wrap_array released (typed_data_array.hpp).
THEOREM NoBufferLost == LifetimeSpec /\ []Fits => []NothingLost
<1>1. LInv /\ BufferInv => NothingLost
  <2> SUFFICES ASSUME LInv, BufferInv, NEW b \in Buffers, memory.heap[b] \in Allocated
               PROVE  Owning(b) \cap Alive # {} \/ Freeing(b) # {} \/ b \in memory.lost
    BY DEF NothingLost, Allocated
  <2>1. Owners(frames, pc) \subseteq Alive
    <3>1. Inputs(frames) \subseteq UNION {{Param(d, i) : i \in 1..frames[d].done} : d \in 1..Depth}
      BY DEF Inputs, Depth
    <3>2. pc = "update" => Local(Len(frames)) \in {Local(d) : d \in 1..Depth}
      <4>1. pc = "update" => Len(frames) \in 1..Len(frames)
        BY LenProperties DEF LInv, Stacked
      <4> QED BY <4>1 DEF Depth
    <3> QED BY <3>1, <3>2 DEF Owners, Alive
  <2>2. Tidy(memory, Owners(frames, pc), Operands(frames), Wrapped(frames))
    BY DEF BufferInv
  <2>3. CASE \E s \in Slots : Owns(memory, s, b)
    BY <2>1, <2>2, <2>3 DEF Tidy, Placed, Owns, Owning, At
  <2>4. CASE \E x \in memory.numpy : Frees(x, b)
    BY <2>4 DEF Freeing, Frees
  <2> QED BY <2>2, <2>3, <2>4 DEF Tidy, Placed
<1> QED BY <1>1, MemoryInvariant, BufferInvariant, PTL

\* The pointers EXPR put in its symbol table stay valid until it returns, whatever
\* its other parameters do meanwhile (expr_mapping.hpp, raw_data).
THEOREM ExprPointersLive == LifetimeSpec /\ []Fits => []RawPointersLive
<1>1. LInv /\ BufferInv => RawPointersLive
  <2> SUFFICES ASSUME LInv, BufferInv, NEW d \in 1..Depth, NEW i \in DOMAIN frames[d].raw
               PROVE  /\ memory.heap[frames[d].raw[i]] # "free"
                      /\ At(Param(d, i)).buffer = frames[d].raw[i]
    BY DEF RawPointersLive
  <2> DEFINE b == frames[d].raw[i]
             s == Param(d, i)
  <2>1. frames[d] \in FrameSet /\ Framed(memory, frames[d], d)
    BY ElementOfSeq DEF LInv, Stacked, BufferInv, StackOK, Depth
  <2>2. i \in 1..Len(frames[d].raw) /\ i \in 1..frames[d].done
    <3>1. frames[d].raw \in Seq(Buffers \cup {None}) /\ frames[d].done \in Nat
      BY <2>1 DEF FrameSet
    <3>2. i \in 1..Len(frames[d].raw)
      BY <3>1, LenProperties
    <3> QED BY <2>1, <3>1, <3>2 DEF Framed
  <2>3. b \in Buffers /\ memory.at[s].buffer = b /\ s \in Slots
    BY <2>1, <2>2 DEF Framed
  <2> HIDE DEF b, s
  <2>4. Sound(memory, entries) /\ b # None
    BY <2>3, LifetimeAssumption DEF LInv
  <2>5. CASE memory.at[s].owning
    BY <2>3, <2>4, <2>5 DEF Sound, Allocated, At, b, s
  <2>6. CASE ~memory.at[s].owning
    <3>1. PICK k \in Keys : entries[k] = b
      BY <2>3, <2>4, <2>6 DEF Sound
    <3>2. memory.heap[b] = "entry"
      BY <2>4, <3>1 DEF Sound
    <3> QED BY <2>3, <3>2 DEF At, b, s
  <2> QED BY <2>5, <2>6
<1> QED BY <1>1, MemoryInvariant, BufferInvariant, PTL

\* A buffer from new[], which would be released with free() elsewhere, is owned by
\* a parameter of an EXPR mapping that is being evaluated and by nothing else
\* (expr_mapping.hpp, convert).
THEOREM ConvertedIsLocal == LifetimeSpec /\ []Fits => []ConvertedStaysLocal
<1>1. BufferInv => ConvertedStaysLocal
  <2> SUFFICES ASSUME BufferInv, NEW b \in Buffers, memory.heap[b] = "new"
               PROVE  /\ Freeing(b) = {}
                      /\ \A s \in Owning(b) : \E d \in 1..Depth :
                            /\ Mapping[frames[d].name].kind = "EXPR"
                            /\ s \in {Param(d, i) : i \in 1..frames[d].done}
    BY DEF ConvertedStaysLocal
  <2>1. Placed(memory, Owners(frames, pc), Operands(frames))
    BY DEF BufferInv, Tidy
  <2>2. Freeing(b) = {}
    BY <2>1 DEF Freeing, Placed
  <2>3. \A s \in Owning(b) : s \in Operands(frames)
    BY <2>1 DEF Owning, Placed, At
  <2> QED BY <2>2, <2>3 DEF Operands, Kind, Depth
<1> QED BY <1>1, BufferInvariant, PTL
\* Where the call of map() is.
Places == {"idle", "eval", "update", "returned", "combine", "python", "deliver", "undefined"}

ControlInv ==
    binding \in Bindings /\ pc \in Places /\ asked \in Names \cup {None} /\ ops \in 0..MaxOps

\* No step leaves these places, and the bound on calls is kept.
LEMMA ControlStep ==
    ASSUME ControlInv, [Invoke \/ Evaluate \/ Quiet]_vars
    PROVE  ControlInv'
<1>1. CASE UNCHANGED vars \/ Quiet
  BY <1>1 DEF Quiet, vars, callVars, ControlInv
<1>2. CASE Evaluate
  <2>1. ASSUME NEW m, Unwind(m), UNCHANGED <<binding, ops>>
        PROVE  ControlInv'
    BY <2>1 DEF Unwind, Go, ControlInv, Places
  <2>2. ASSUME NEW m, Returns(m), UNCHANGED <<binding, ops, asked>>
        PROVE  ControlInv'
    BY <2>2 DEF Returns, Go, ControlInv, Places
  <2>3. CASE EvalParameter \/ EvalOwn \/ Fetch \/ Update \/ ReturnEmpty \/ TakeOperand
             \/ TakeInput \/ CallUndefined \/ WrapInput \/ CallPython \/ Finish
    <3>1. UNCHANGED <<binding, ops, asked>> /\ pc' \in {pc} \cup Places
      BY <2>3 DEF EvalParameter, EvalOwn, Fetch, Update, ReturnEmpty, TakeOperand, TakeInput,
         CallUndefined, WrapInput, CallPython, Finish, Go, Places
    <3> QED BY <3>1 DEF ControlInv
  <2>4. CASE Throws \/ RefuseOperand \/ WrapInputFails \/ PythonRaises \/ Deliver
    BY <2>1, <2>4 DEF Throws, RefuseOperand, WrapInputFails, PythonRaises, Deliver
  <2>5. CASE ReturnExpr \/ ReturnOther \/ CallLibrary \/ PythonReturns
    BY <2>2, <2>5 DEF ReturnExpr, ReturnOther, CallLibrary, PythonReturns
  <2> QED BY <1>2, <2>3, <2>4, <2>5 DEF Evaluate
<1>3. CASE Invoke
  <2>1. ASSUME Start
        PROVE  ops' \in 0..MaxOps
    BY <2>1, LifetimeAssumption DEF Start, ControlInv
  <2>2. CASE (\E q \in Libraries : Provide(q)) \/ DropArray
    BY <2>2 DEF Provide, DropArray, callVars, ControlInv
  <2>3. CASE (\E c \in Customs : Withdraw(FunctionOf[c])) \/ Renew
    BY <2>1, <2>3 DEF Withdraw, Renew, callVars, ControlInv
  <2>4. ASSUME NEW n \in Requests, CallMap(n)
        PROVE  ControlInv'
    <3>1. /\ ops' \in 0..MaxOps /\ binding' = binding /\ n \in Names
          /\ \/ UNCHANGED <<pc, asked>>
             \/ asked' = n /\ pc' \in {"deliver", "eval"}
      BY <2>1, <2>4, LifetimeAssumption DEF CallMap, Go, callVars
    <3> QED BY <3>1 DEF ControlInv, Places
  <2> QED BY <1>3, <2>2, <2>3, <2>4 DEF Invoke
<1> QED BY <1>1, <1>2, <1>3

\* Where a call of map() can be, and the bound on calls.
THEOREM ControlInvariant == LifetimeSpec => []ControlInv
<1>1. LifetimeInit => ControlInv
  BY LifetimeAssumption DEF LifetimeInit, ControlInv, Places
<1>2. ControlInv /\ [Invoke \/ Evaluate \/ Quiet]_vars => ControlInv'
  BY ControlStep
<1> QED BY <1>1, <1>2, PTL DEF LifetimeSpec

\* Every variable has its type: what is lost, kept by NumPy or on the stack is a
\* buffer that exists, and a call has at most the parameters its mapping names
\* (typed_data_array.hpp, fields).
THEOREM LifetimeTypes == LifetimeSpec /\ []Fits => []LifetimeTypeOK
<1>1. LInv /\ BufferInv /\ FunctionInv /\ ControlInv /\ Fits => LifetimeTypeOK
  <2> SUFFICES ASSUME LInv, BufferInv, FunctionInv, ControlInv, Fits
               PROVE  LifetimeTypeOK
    OBVIOUS
  <2>1. memory \in Memories /\ entries \in [Keys -> Buffers \cup {None}]
    <3>1. /\ memory \in Memory /\ entries \in [Keys -> Buffers \cup {None}]
          /\ \A x \in memory.numpy : x.buffer # None
          /\ None \notin memory.lost
      BY DEF LInv, Sound, BufferInv, Tidy, Filled
    <3>2. memory.numpy \in SUBSET Capsule /\ memory.lost \in SUBSET Buffers
      <4>1. memory.numpy \subseteq Holders /\ memory.lost \subseteq Buffers \cup {None}
        BY <3>1 DEF Memory
      <4>2. ASSUME NEW x \in memory.numpy
            PROVE  x \in Capsule
        BY <3>1, <4>1 DEF Holders, Capsule
      <4> QED BY <3>1, <4>1, <4>2
    <3> QED BY <3>1, <3>2 DEF Memory, Memories
  <2>2. ASSUME NEW d \in 1..Depth
        PROVE  /\ frames[d].name \in Names
               /\ frames[d].done \in 0..Len(Mapping[frames[d].name].deps)
               /\ frames[d].wrapped \in 0..frames[d].done
    <3>1. /\ frames[d] \in FrameSet /\ Framed(memory, frames[d], d)
          /\ frames[d].done <= Needs(frames[d])
      BY <2>2, ElementOfSeq DEF LInv, Stacked, BufferInv, StackOK, Depth
    <3>2. frames[d].name \in Names /\ frames[d].done \in Nat /\ frames[d].wrapped \in Nat
      BY <3>1 DEF FrameSet
    <3>3. Len(Mapping[frames[d].name].deps) \in Nat
      BY <3>2, LifetimeAssumption, LenProperties
    <3> QED BY <3>1, <3>2, <3>3 DEF Framed, Needs
  <2> QED BY <2>1, <2>2 DEF LifetimeTypeOK, LInv, FunctionInv, ControlInv, Places
<1> QED BY <1>1, MemoryInvariant, BufferInvariant, FunctionInvariant, ControlInvariant, PTL


=============================================================================
