------------------------ MODULE ResolutionProperties ------------------------
(* What resolving a request must satisfy. *)
EXTENDS RequestResolution, Functions

Choice == INSTANCE PartitionChoice WITH
    Starts         <- Experiments \X Groups,
    PartitionLists <- Range(PartitionsOf),
    GivenSets      <- {r.given : r \in Requests},
    stage          <- IF stage = "scan" THEN "level" ELSE stage

\* Types: a scan keeps a subdirectory and an int, indices are ints, and no
\* bracketed number is left in what extract_indices has processed.
ResolutionTypeOK ==
    /\ stage \in Stages /\ phase \in Phases
    /\ level \in 1 .. Len(partitions) + 1
    /\ left \subseteq Subdirectories(at) /\ best \in Names \cup {None}
    /\ measure \in Ints
    /\ indices \in Seq(0 .. MaxIndex)
    /\ \A i \in DOMAIN processed : Indices(processed[i]) = << >>
    /\ Range(places) \subseteq Tree

\* find_partition_directory, scanning subdirectories in any order and in int
\* arithmetic, takes at each level a subdirectory its selector means, or refuses for a
\* cause: it implements PartitionChoice.
ImplementsChoice == Choice!ChoiceSpec

Depth(dir) == Len(dir) - 2
\* The subdirectories among which the call chose the n-th name below the group.
Siblings(dir, n) == Subdirectories(SubSeq(dir, 1, n + 1))

\* What a request reads for every group of its experiment is a directory below that
\* very group, as deep as the partitions say, each of its names meant by that
\* partition's selector for this request's attribute; only a CLOSEST level may have been
\* passed without a name of its own.
EveryLevelChosen ==
    \A g \in DOMAIN places :
        LET dir == places[g]
            list == PartitionsOf[request.exp]
        IN  /\ SubSeq(dir, 1, 2) = <<request.exp, g>>
            /\ \/ Depth(dir) = Len(list)
               \/ Depth(dir) < Len(list) /\ \E i \in DOMAIN list : list[i].selector = "CLOSEST"
            /\ Depth(dir) = Len(list) =>
                 \A n \in DOMAIN list :
                     LET given == request.given[list[n].attribute]
                     IN  Choice!Promised(list[n].selector, given, Siblings(dir, n)) =>
                           dir[n + 2] \in Choice!Meant(list[n].selector, given.is, Siblings(dir, n))

\* Every hash of a path replaced by the index of its rank.
FillAll(path, values) ==
    [i \in DOMAIN path |-> [j \in DOMAIN path[i] |->
        IF path[i][j] = Hash
        THEN values[Cardinality({p \in Hashes(path) : Before(p, <<i, j>>)}) + 1]
        ELSE path[i][j]]]

\* extract_indices loses nothing and mixes nothing up: putting its indices back in
\* order gives the path it has read so far.
IndicesRebuildPath ==
    /\ Cardinality(Hashes(processed)) = Len(indices)
    /\ FillAll(processed, indices) \o tokensLeft = request.path

\* The mapping that answers is one the request names: in its group, with each
\* remaining hash standing for the index at its place in the path, so that a template
\* that says indices[k] for the k-th hash gets the number the caller wrote there.
AnswerNamesRequest ==
    phase = "resolved" =>
        \/ answer = request.path
        \/ FillAll(<<Group>> \o answer, indices) = request.path

\* "Check with the path without generalisation" (mapping_handler.cpp, find_mapping):
\* a mapping named exactly as the request's path below its group is found.
LiteralNameFound ==
    phase = "missing" => Tail(request.path) \notin MappingsIn[places[Group]]

=============================================================================
