------------------------- MODULE RequestResolution --------------------------
(***************************************************************************)
(* The first request for an experiment, from its path and attributes to    *)
(* the mapping that answers it: the path is split and its indices taken    *)
(* out, a directory is located and read for every group of the experiment, *)
(* and the name is looked up in the group's mappings.                      *)
(*                                                                         *)
(* MappingHandler takes the outcome as given (a request there is an        *)
(* experiment, a group, names to try and attributes).                      *)
(***************************************************************************)
EXTENDS MappingLocator, MapPath

CONSTANTS
    Requests,        \* [path, exp, given: attributes]
    Experiments,     \* experiments with a mappings.cfg.json
    PartitionsOf,    \* [Experiments -> Seq(Partition)]
    Groups,          \* tokens that name a group
    GroupsOf,        \* [Experiments -> Seq(Groups)]
    MappingsIn       \* [Tree -> the names in mappings.json, None without a file]

ASSUME ResolutionAssumption ==
    /\ \A r \in Requests : /\ r.path \in Seq(Seq(Keys \cup Nat))
                           /\ r.given \in [Attributes -> Values \cup {None}]
    /\ PartitionsOf \in [Experiments -> Seq(Partition)]
    /\ GroupsOf \in [Experiments -> Seq(Groups)]

VARIABLES
    request,
    tokensLeft, processed, indices,   \* extract_indices
    groupsLeft, places,               \* load_experiment: [groups read -> directory]
    answer, phase

pathVars    == <<tokensLeft, processed, indices>>
loadVars    == <<groupsLeft, places>>
requestVars == <<request, pathVars, loadVars, answer>>
resolutionVars == <<locatorVars, requestVars, phase>>

Phases == {"extract", "load", "locate", "resolved", "missing", "failed"}

ResolutionInit ==
    /\ request \in Requests
    /\ tokensLeft = request.path /\ processed = << >> /\ indices = << >>
    /\ groupsLeft = << >> /\ places = << >> /\ answer = << >>
    /\ phase = "extract"
    /\ LocatorInit

ExtractToken ==
    /\ phase = "extract" /\ tokensLeft # << >> /\ Readable(Head(tokensLeft))
    /\ processed' = Append(processed, Generalise(Head(tokensLeft)))
    /\ indices' = indices \o Indices(Head(tokensLeft))
    /\ tokensLeft' = Tail(tokensLeft)
    /\ UNCHANGED <<request, loadVars, answer, phase, locatorVars>>

Fail ==
    /\ phase' = "failed"
    /\ UNCHANGED <<requestVars, locatorVars>>

\* An index beyond an int, an empty path, an experiment that is not registered.
ExtractThrows ==
    /\ phase = "extract"
    /\ \/ tokensLeft # << >> /\ ~Readable(Head(tokensLeft))
       \/ request.path = << >>
       \/ tokensLeft = << >> /\ request.exp \notin Experiments
    /\ Fail

StartLoading ==
    /\ phase = "extract" /\ tokensLeft = << >> /\ processed # << >>
    /\ request.exp \in Experiments
    /\ groupsLeft' = GroupsOf[request.exp]
    /\ phase' = "load"
    /\ UNCHANGED <<request, pathVars, places, answer, locatorVars>>

\* Mutant: the directory of the group is computed once, before the loop.
LocateFirstGroup ==
    /\ phase = "load" /\ groupsLeft # << >>
    /\ Call(<<request.exp, Head(GroupsOf[request.exp])>>, PartitionsOf[request.exp], request.given)
    /\ phase' = "locate"
    /\ UNCHANGED requestVars

LocateGroup ==
    /\ phase = "load" /\ groupsLeft # << >>
    /\ Call(<<request.exp, Head(groupsLeft)>>, PartitionsOf[request.exp], request.given)
    /\ phase' = "locate"
    /\ UNCHANGED requestVars

Locating ==
    /\ phase = "locate" /\ LocatorStep
    /\ UNCHANGED <<requestVars, phase>>

ReadGroup ==
    /\ phase = "locate" /\ stage = "found" /\ MappingsIn[at] # None
    /\ places' = [g \in DOMAIN places \cup {Head(groupsLeft)} |->
                      IF g = Head(groupsLeft) THEN at ELSE places[g]]
    /\ groupsLeft' = Tail(groupsLeft)
    /\ phase' = "load"
    /\ UNCHANGED <<request, pathVars, answer, locatorVars>>

\* No directory, or none with the files: the request fails, whatever its group.
ReadThrows ==
    /\ phase = "locate"
    /\ stage = "refused" \/ (stage = "found" /\ MappingsIn[at] = None)
    /\ Fail

Group == Head(processed)

Lookup ==
    /\ phase = "load" /\ groupsLeft = << >> /\ Group \in DOMAIN places
    /\ answer' = FindMapping(MappingsIn[places[Group]],
                             Attempts(Tail(processed), indices, request.path))
    /\ phase' = IF answer' = << >> THEN "missing" ELSE "resolved"
    /\ UNCHANGED <<request, pathVars, loadVars, locatorVars>>

UnknownGroup ==
    /\ phase = "load" /\ groupsLeft = << >> /\ Group \notin DOMAIN places
    /\ Fail

Resolved ==
    /\ phase \in {"resolved", "missing", "failed"}
    /\ UNCHANGED resolutionVars

ResolutionNext ==
    \/ ExtractToken \/ ExtractThrows \/ StartLoading
    \/ LocateGroup \/ Locating \/ ReadGroup \/ ReadThrows
    \/ Lookup \/ UnknownGroup \/ Resolved

ResolutionSpec == ResolutionInit /\ [][ResolutionNext]_resolutionVars

=============================================================================
