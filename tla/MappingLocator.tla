--------------------------- MODULE MappingLocator ---------------------------
(***************************************************************************)
(* libtokamap::find_partition_directory: from a group's directory down one *)
(* level per partition, each level chosen by a selector among the          *)
(* subdirectories, which are scanned in the order the file system gives.   *)
(***************************************************************************)
EXTENDS PartitionArithmetic

VARIABLES
    partitions, attributes,   \* arguments of the call
    at, level,                \* mapping_dir, and the partition reached
    left, best, measure,      \* one scan: what is not looked at yet, the name
                              \* kept, and its value or distance
    stage                     \* where the call stands

levelVars   == <<partitions, attributes, at, level>>
scanVars    == <<left, best, measure>>
locatorVars == <<levelVars, scanVars, stage>>

Stages == {"idle", "level", "scan", "found", "refused"}

NoScan == left = {} /\ best = None /\ measure = 0

LocatorInit ==
    /\ partitions = << >> /\ attributes = [a \in Attributes |-> None]
    /\ at = << >> /\ level = 1 /\ NoScan
    /\ stage = "idle"

Selector == partitions[level].selector
Given    == attributes[partitions[level].attribute]
AtLevel  == stage = "level" /\ level <= Len(partitions)
Answers  == Given # None /\ Accepts(Given.kind, Selector)

Call(start, list, given) ==
    /\ stage \in {"idle", "found", "refused"}
    /\ partitions' = list /\ attributes' = given
    /\ at' = start /\ level' = 1
    /\ stage' = IF start \in Tree THEN "level" ELSE "refused"
    /\ UNCHANGED scanVars

\* A missing attribute, or one of a type its selector does not take.
RefuseAttribute ==
    /\ AtLevel /\ ~Answers
    /\ stage' = "refused"
    /\ UNCHANGED <<levelVars, scanVars>>

Descend(name) ==
    /\ at' = Append(at, name) /\ level' = level + 1
    /\ UNCHANGED <<partitions, attributes>>

ExactName == IF Given.kind = "integer" THEN ToInt(Given.is) ELSE Given.is

PickExact ==
    /\ AtLevel /\ Answers /\ Selector = "EXACT"
    /\ \/ /\ ExactName \in Subdirectories(at)
          /\ Descend(ExactName) /\ UNCHANGED stage
       \/ /\ ExactName \notin Subdirectories(at)
          /\ stage' = "refused" /\ UNCHANGED levelVars
    /\ UNCHANGED scanVars

Initial(selector) == IF selector = "MAX_BELOW" THEN IntMin ELSE IntMax

BeginScan ==
    /\ AtLevel /\ Answers /\ Selector # "EXACT"
    /\ left' = Subdirectories(at) /\ best' = None /\ measure' = Initial(Selector)
    /\ stage' = "scan"
    /\ UNCHANGED levelVars

Wanted == ToInt(Given.is)

\* std::abs(value - dir_value)
Distance(v, n) == LET d == ToInt(v - n) IN IF d < 0 THEN ToInt(-d) ELSE d

Measured(selector, v, n) == IF selector = "CLOSEST" THEN Distance(v, n) ELSE n

\* Mutant: bounds include the value itself.
BetterOrEqual(selector, v, n, kept) ==
    \/ selector = "CLOSEST"   /\ Distance(v, n) < kept
    \/ selector = "MAX_BELOW" /\ n <= v /\ n > kept
    \/ selector = "MIN_ABOVE" /\ n >= v /\ n < kept

Better(selector, v, n, kept) ==
    \/ selector = "CLOSEST"   /\ Distance(v, n) < kept
    \/ selector = "MAX_BELOW" /\ n < v /\ n > kept
    \/ selector = "MIN_ABOVE" /\ n > v /\ n < kept

Inspect(d) ==
    /\ stage = "scan" /\ Number(d) # None
    /\ left' = left \ {d}
    /\ \/ /\ Better(Selector, Wanted, Number(d), measure)
          /\ best' = d /\ measure' = Measured(Selector, Wanted, Number(d))
       \/ /\ ~Better(Selector, Wanted, Number(d), measure)
          /\ UNCHANGED <<best, measure>>
    /\ UNCHANGED <<levelVars, stage>>

ClearScan == left' = {} /\ best' = None /\ measure' = 0

\* std::stoi throws on a name that does not begin with a number.
InspectThrows(d) ==
    /\ stage = "scan" /\ Number(d) = None
    /\ stage' = "refused"
    /\ ClearScan /\ UNCHANGED levelVars

\* select_closest never throws; without a choice it returns the empty name, and
\* the path stays what it was.
EndScan ==
    /\ stage = "scan" /\ left = {}
    /\ \/ /\ Selector # "CLOSEST" /\ measure = Initial(Selector)
          /\ stage' = "refused" /\ UNCHANGED levelVars
       \/ /\ Selector = "CLOSEST" \/ measure # Initial(Selector)
          /\ at' = IF best = None THEN at ELSE Append(at, best)
          /\ level' = level + 1 /\ stage' = "level"
          /\ UNCHANGED <<partitions, attributes>>
    /\ ClearScan

Return ==
    /\ stage = "level" /\ level > Len(partitions)
    /\ stage' = "found"
    /\ UNCHANGED <<levelVars, scanVars>>

LocatorStep ==
    \/ RefuseAttribute \/ PickExact \/ BeginScan \/ EndScan \/ Return
    \/ \E d \in left : Inspect(d) \/ InspectThrows(d)

=============================================================================
