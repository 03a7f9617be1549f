------------------------------ MODULE MapPath -------------------------------
(***************************************************************************)
(* From the path of a request to the name of a mapping: extract_indices    *)
(* and find_mapping.                                                       *)
(*                                                                         *)
(* A path is a sequence of tokens, a token a sequence of parts: texts, and *)
(* bracketed numbers, "coil[3]" being <<"coil", 3>>.  In the generalised   *)
(* form Hash stands for "[#]"; a part that is a number is its decimal      *)
(* form.  Texts are taken to hold no "#" of their own.                     *)
(***************************************************************************)
EXTENDS Integers, Sequences, FiniteSets

CONSTANTS Hash,       \* "[#]"
          Keys,       \* texts a path can hold
          MaxIndex    \* the largest int

ASSUME PathAssumption ==
    /\ Hash \notin Keys \cup Nat /\ Keys \cap Nat = {}
    /\ MaxIndex \in Nat

\* Mutant: one match per token, search instead of search_all.
FirstIndex(token) ==
    LET all == SelectSeq(token, LAMBDA part : part \in Nat)
    IN  IF all = << >> THEN << >> ELSE <<all[1]>>

\* search_all: every match, in the order of the token.
Indices(token) ==
    LET found[n \in 0 .. Len(token)] ==
            IF n = 0 THEN << >>
            ELSE IF token[n] \in Nat THEN Append(found[n - 1], token[n])
            ELSE found[n - 1]
    IN  found[Len(token)]

Generalise(token) ==
    [i \in DOMAIN token |-> IF token[i] \in Nat THEN Hash ELSE token[i]]

\* Mutant: numbers are read without a check of their range.
ReadableAlways(token) == TRUE

\* std::stoi throws on a number beyond an int.
Readable(token) == \A i \in DOMAIN token : token[i] \in Nat => token[i] <= MaxIndex

\* Where the hashes of a path are: token and part, in reading order.
Hashes(path) == UNION {{<<i, j>> : j \in {k \in DOMAIN path[i] : path[i][k] = Hash}} :
                        i \in DOMAIN path}
Before(p, q) == p[1] < q[1] \/ (p[1] = q[1] /\ p[2] < q[2])

\* Mutant: find in place of rfind.
FillFirst(path, n) ==
    IF Hashes(path) = {} THEN path
    ELSE LET p == CHOOSE p \in Hashes(path) : \A q \in Hashes(path) : ~Before(q, p)
         IN  [path EXCEPT ![p[1]][p[2]] = n]

\* replace_last_copy(path, "#", n)
FillLast(path, n) ==
    IF Hashes(path) = {} THEN path
    ELSE LET p == CHOOSE p \in Hashes(path) : \A q \in Hashes(path) : ~Before(p, q)
         IN  [path EXCEPT ![p[1]][p[2]] = n]

\* The names generate_map_path tries, in its order: the generalised path, the
\* request's own path, which still begins with the group, and the generalised
\* path with the last index put back.
Attempts(path, indices, full) ==
    IF indices = << >> THEN <<path, full>>
    ELSE <<path, full, FillLast(path, indices[Len(indices)])>>

\* The first attempt that names a mapping; the empty name counts as none.
FindMapping(names, attempts) ==
    LET hits == {i \in DOMAIN attempts : attempts[i] \in names}
        first == CHOOSE i \in hits : \A j \in hits : i <= j
    IN  IF hits = {} THEN << >> ELSE attempts[first]

=============================================================================
