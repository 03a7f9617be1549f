-------------------------- MODULE PartitionChoice ---------------------------
(***************************************************************************)
(* What choosing a partition directory promises: at each level one step    *)
(* into a subdirectory that the selector means, or a refusal that has a    *)
(* cause.  Nothing is scanned, and arithmetic is that of the integers.     *)
(***************************************************************************)
EXTENDS PartitionArithmetic

CONSTANTS Starts, PartitionLists, GivenSets   \* arguments of the calls

VARIABLES partitions, attributes, at, level, stage

choiceVars == <<partitions, attributes, at, level, stage>>

ChoiceInit ==
    /\ partitions = << >> /\ attributes = [a \in Attributes |-> None]
    /\ at = << >> /\ level = 1 /\ stage = "idle"

Ask ==
    /\ stage \in {"idle", "found", "refused"}
    /\ partitions' \in PartitionLists /\ attributes' \in GivenSets
    /\ at' \in Starts /\ level' = 1
    /\ stage' = IF at' \in Tree THEN "level" ELSE "refused"

Apart(v, n) == IF v < n THEN n - v ELSE v - n

\* The subdirectories a selector means, of those in dirs.
Meant(selector, v, dirs) ==
    CASE selector = "EXACT" -> {d \in dirs : d = v}
      [] selector = "CLOSEST" ->
           {d \in dirs : \A e \in dirs : Apart(v, Number(d)) <= Apart(v, Number(e))}
      [] selector = "MAX_BELOW" ->
           {d \in dirs : /\ Number(d) < v
                         /\ \A e \in dirs : Number(e) < v => Number(e) <= Number(d)}
      [] selector = "MIN_ABOVE" ->
           {d \in dirs : /\ Number(d) > v
                         /\ \A e \in dirs : Number(e) > v => Number(e) >= Number(d)}

AllNumbers(selector, dirs) == selector = "EXACT" \/ \A d \in dirs : Number(d) # None

\* The choice is promised for values and distances an int can hold; the extreme
\* int of a selector stands for "none yet".
Promised(selector, given, dirs) ==
    /\ given.kind = "integer" => given.is \in Ints
    /\ selector = "CLOSEST"   => \A d \in dirs : Apart(given.is, Number(d)) < IntMax
    /\ selector = "MAX_BELOW" => \A d \in dirs : Number(d) > IntMin
    /\ selector = "MIN_ABOVE" => \A d \in dirs : Number(d) < IntMax

\* At a level: its selector s, the attribute g, the subdirectories D.
Choose(s, g, D) ==
    /\ g # None /\ Accepts(g.kind, s) /\ AllNumbers(s, D)
    /\ \E d \in D : /\ Promised(s, g, D) => d \in Meant(s, g.is, D)
                    /\ at' = Append(at, d)
    /\ level' = level + 1 /\ UNCHANGED stage

\* CLOSEST with nothing to choose from leaves the directory as it is.
Stay(s, g, D) ==
    /\ g # None /\ Accepts(g.kind, s) /\ s = "CLOSEST" /\ AllNumbers(s, D)
    /\ Promised(s, g, D) => D = {}
    /\ level' = level + 1 /\ UNCHANGED <<at, stage>>

Refuse(s, g, D) ==
    /\ \/ g = None \/ ~Accepts(g.kind, s) \/ ~AllNumbers(s, D)
       \/ s # "CLOSEST" /\ (Promised(s, g, D) => Meant(s, g.is, D) = {})
    /\ stage' = "refused" /\ UNCHANGED <<at, level>>

TakeLevel ==
    /\ stage = "level" /\ level <= Len(partitions)
    /\ LET s == partitions[level].selector
           g == attributes[partitions[level].attribute]
           D == Subdirectories(at)
       IN  Choose(s, g, D) \/ Stay(s, g, D) \/ Refuse(s, g, D)
    /\ UNCHANGED <<partitions, attributes>>

Arrive ==
    /\ stage = "level" /\ level > Len(partitions)
    /\ stage' = "found" /\ UNCHANGED <<partitions, attributes, at, level>>

ChoiceNext == Ask \/ TakeLevel \/ Arrive
ChoiceSpec == ChoiceInit /\ [][ChoiceNext]_choiceVars

=============================================================================
