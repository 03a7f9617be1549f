-------------------------- MODULE HandlerProperties --------------------------
(***************************************************************************)
(* What MappingHandler must guarantee, whichever binding drives it.        *)
(***************************************************************************)
EXTENDS MappingHandler

InCall  == {"eval", "callback", "post", "resume"}
Loading == {"load", "define"}

RegisterTypes ==
    /\ initialised \in BOOLEAN /\ register \subseteq Exps
    /\ loaded \in [Exps -> BOOLEAN] /\ store \in [Cells -> Entry \cup {None}]

SourceTypes ==
    /\ sources \in [Sources -> Nat \cup {None}] /\ factories \subseteq Factories
    /\ nextObject \in Nat

CacheTypes ==
    /\ cacheEnabled \in BOOLEAN /\ counts \in [Names -> Nat]
    /\ mappingCache \in [Names -> Reply \cup {None}]
    /\ dsCount \in [Sources \X Args -> Nat] /\ dsCache \in [DsKeys -> Data \cup {None}]

LoaderTypes ==
    /\ steps \in Seq(Steps) /\ groupsLeft \in Seq(Groups) /\ namesLeft \in Seq(Names)
    /\ draft \in Entry \cup {None}

CallTypes ==
    /\ owner \in Threads \cup {None}
    /\ pc \in [Threads -> PcStates] /\ request \in [Threads -> Requests \cup {None}]
    /\ frames \in [Threads -> Seq(Frame)] /\ fetch \in [Threads -> Fetch \cup {None}]
    /\ reply \in [Threads -> Reply \cup {None}]

\* Type invariant of the handler.
TypeOK == RegisterTypes /\ SourceTypes /\ CacheTypes /\ LoaderTypes /\ CallTypes
          /\ ops \in 0..MaxOps

\* An experiment marked loaded holds every one of its groups for one and the
\* same partition, however many earlier attempts to load it failed half way
\* (load_experiment sets is_loaded after the loop).
LoadedComplete ==
    \A e \in Exps : loaded[e] =>
        /\ e \in register
        /\ \E k \in Keys : \A i \in DOMAIN GroupList[e] :
               store[<<e, GroupList[e][i], k>>] # None

\* map() keeps references to the partition's globals and mappings for the whole
\* evaluation, callbacks included: the experiment stays registered and loaded,
\* and every mapping being evaluated stays in the store.
ReferencesValid ==
    \A t \in Threads : pc[t] \in InCall =>
        /\ request[t].exp \in register /\ loaded[request[t].exp]
        /\ HasPartition(request[t]) /\ store[CellOf(t)] # None
        /\ \A i \in DOMAIN frames[t] : Present(CellOf(t), frames[t][i].name)

\* An array in the data source cache was fetched with the rendered arguments
\* and the attributes of the key it is stored under, whoever ran during the
\* fetch, and was sliced and scaled at most once however often it was hit.
CacheKeyFaithful ==
    \A k \in DsKeys : dsCache[k] # None =>
        /\ dsCache[k].text = k.text /\ dsCache[k].attrs = k.attrs
        /\ Len(dsCache[k].posts) <= 1

\* The counts that decide what is cached never fall behind the store: every
\* mapping object that shares a data source request is counted.
CountsCoverStore ==
    \A s \in Sources, a \in Args :
        Cardinality({x \in Cells \X Names :
            /\ Present(x[1], x[2])
            /\ LET d == Mapping[x[1]][x[2]] IN d.source = s /\ d.args = a})
        <= dsCount[<<s, a>>]

(***************************************************************************)
(* The answer to a request                                                 *)
(***************************************************************************)
Answered(t) == pc[t] = "idle" /\ reply[t] # None /\ request[t] # None

\* What the request itself gives a template variable, if it gives anything.
Agrees(r, v, value) ==
    IF v = None THEN value = None ELSE Gives(r, v) => value = r.vals[v]

\* Sliced and scaled as the mapping says, once.
ProcessedOnce(d, data) ==
    IF data.empty \/ (d.slice = None /\ ~d.scale) THEN data.posts = << >>
    ELSE Len(data.posts) = 1 /\ data.posts[1].scaled = d.scale

\* One datum of an answer: fetched and sliced with the request's own attributes
\* and indices.
FetchedFor(r, d, data) ==
    /\ \E arg \in Values \cup {None} :
           Agrees(r, ArgVar[d.args], arg) /\ data.text = ArgText[d.args][arg]
    /\ data.attrs = Sent(r, data.text)
    /\ ProcessedOnce(d, data)
    /\ d.slice # None /\ ~data.empty => Agrees(r, d.slice, data.posts[1].at)

ItemAnswers(r, item) ==
    LET d == Mapping[<<r.exp, r.group, KeyOf(r)>>][item.of] IN
    /\ d # None
    /\ IF item.data = None THEN Agrees(r, d.var, item.var)
                           ELSE FetchedFor(r, d, item.data)

PartsAnswer(r, items) == \A item \in items : ItemAnswers(r, item)

\* Every part of a returned value was computed for this request: with its
\* indices and its attributes and with each transformation applied once.
AnswersRequest ==
    \A t \in Threads : Answered(t) => PartsAnswer(request[t], reply[t].items)

\* With caching off, the arrays of an answer were fetched with the attributes of
\* the call that returns them, even when other callers ran during the fetches.
FetchedWithOwnAttributes ==
    \A t \in Threads : Answered(t) /\ ~cacheEnabled =>
        \A item \in reply[t].items :
            item.data # None => item.data.attrs = Sent(request[t], item.data.text)

\* Scale, offset and slice are applied once to what a mapping returns, also when
\* several mappings share the fetched array through the data source cache.
TransformedOnce ==
    \A t \in Threads : Answered(t) =>
        \A item \in reply[t].items : item.data # None =>
            LET r == request[t]
            IN  ProcessedOnce(Mapping[<<r.exp, r.group, KeyOf(r)>>][item.of], item.data)

\* EXPR returns an empty parameter as its own result.  These are the EXPRs with a
\* parameter that returned an empty array, according to items, or that is in S.
Ends(defs, items, S) ==
    {n \in Names :
        /\ defs[n] # None /\ defs[n].type = "EXPR"
        /\ \E i \in DOMAIN defs[n].deps :
              \/ defs[n].deps[i] \in S
              \/ \E item \in items : item.of = defs[n].deps[i] /\ item.empty}

\* n is an EXPR that an empty array ended, directly or through other EXPRs: it is in
\* the least set that holds the EXPRs its own members end.
Ended(defs, items, n) ==
    \A S \in SUBSET Names : Ends(defs, items, S) \subseteq S => n \in S

Whole(defs, roots, value) ==
    LET got == {item.of : item \in value.items}
    IN  /\ \E n \in roots :
               n \in got \/ (value.empty /\ Ended(defs, value.items, n))
        /\ \A n \in got : \A i \in DOMAIN defs[n].deps :
               \/ defs[n].deps[i] \in got
               \/ Ended(defs, value.items, defs[n].deps[i])
        /\ value.empty => \E item \in value.items : item.empty

WholeTree(r, value) ==
    Whole(Mapping[<<r.exp, r.group, KeyOf(r)>>], {r.lookup[i] : i \in DOMAIN r.lookup}, value)

\* A returned value is the whole tree: it holds the mapping the path names and
\* whatever each mapping in it refers to, save the EXPRs that an empty array ended
\* (DIM and CUSTOM go on with it).  It is empty only when such an array is its cause.
ResultComplete ==
    \A t \in Threads : Answered(t) => WholeTree(request[t], reply[t])

\* What the mapping cache hands out under a name is all that a mapping of that name
\* returned, in one of the groups and partitions that share the cache.
MappingCacheWhole ==
    \A n \in Names : mappingCache[n] # None =>
        \E c \in Cells : /\ Mapping[c] # None /\ Mapping[c][n] # None
                         /\ Whole(Mapping[c], {n}, mappingCache[n])

Params(c, n) ==
    IF Mapping[c][n] = None THEN {}
    ELSE {Mapping[c][n].deps[i] : i \in DOMAIN Mapping[c][n].deps}

\* The mappings from which following the parameters leads back to where one started.
SelfReferring ==
    {x \in {<<c, n>> : c \in Cells, n \in Names} :
        /\ Mapping[x[1]] # None
        /\ \A S \in SUBSET Names :
              Params(x[1], x[2]) \subseteq S /\ (\A m \in S : Params(x[1], m) \subseteq S)
              => x[2] \in S}

\* The places on the stack of a mapping that was already being evaluated.
Reentered(t) ==
    {i \in DOMAIN frames[t] : \E j \in DOMAIN frames[t] :
        j > i /\ frames[t][j].name = frames[t][i].name}

\* Mappings evaluate one another by recursion, and nothing looks for cycles or counts
\* the depth: a mapping is entered while its parameters are being evaluated only
\* when the mapping file makes it refer to itself, and without that no request
\* exhausts the stack.
RecursesOnlyInCycles ==
    \A t \in Threads : pc[t] \in InCall \cup {"exhausted"} =>
        /\ \A i \in Reentered(t) : <<CellOf(t), frames[t][i].name>> \in SelfReferring
        /\ pc[t] = "exhausted" => Reentered(t) # {}

\* The array was handed over by the data source that is registered under the name a
\* mapping of the item's name gives.
FromRegistered(item) ==
    item.data # None =>
        \E c \in Cells :
            /\ Mapping[c] # None /\ Mapping[c][item.of] # None
            /\ Mapping[c][item.of].type = "DATA_SOURCE"
            /\ item.data.object = sources[Mapping[c][item.of].source]

\* The data source a mapping asks exists when it is asked and until it answers, and is
\* the one registered under the mapping's data source name: mappings hold raw pointers
\* into m_data_sources.  So does whatever a call returns come from the registered
\* source of such a mapping, be it fresh or out of either cache.
FetchesLiveSource ==
    \A t \in Threads :
        /\ pc[t] # "undefined"
        /\ pc[t] = "callback" /\ TopDef(t).type = "DATA_SOURCE" =>
               store[CellOf(t)].slots[Top(t).name] = sources[TopDef(t).source]
        /\ Answered(t) => \A item \in reply[t].items : FromRegistered(item)

(***************************************************************************)
(* The service behind map()                                                *)
(***************************************************************************)
Outside == {"idle", "init"}

Answers(r, value) == PartsAnswer(r, value.items) /\ WholeTree(r, value)

Service == INSTANCE MapService WITH
    Callers     <- Threads,
    Experiments <- Exps,
    Correct     <- Answers,
    known       <- register,
    pending     <- [t \in Threads |-> IF pc[t] \in Outside THEN None ELSE request[t]],
    answer      <- [t \in Threads |-> IF pc[t] \in Outside THEN reply[t] ELSE None]

\* Behind a lock and with caching off, loading on first use, the evaluation of a tree
\* with its callbacks and every failure in between come to one step for the caller: an
\* answer that is right for the request, or an exception (MapService).
ImplementsService == Service!Spec

(***************************************************************************)
(* Steps and progress                                                      *)
(***************************************************************************)
\* While a call evaluates, nobody replaces the mapping objects it walks
\* through: only the globals of its partition may change.
EntriesStable ==
    [][\A t \in Threads :
          pc[t] \in InCall /\ pc'[t] \in InCall =>
              /\ store'[CellOf(t)] # None
              /\ store'[CellOf(t)].made = store[CellOf(t)].made
              /\ store'[CellOf(t)].slots = store[CellOf(t)].slots]_vars

\* Once an experiment is loaded, each partition that has a directory for every
\* group of the experiment can be served.
EveryPartitionServed ==
    \A e \in Exps : loaded[e] =>
        \A k \in Keys :
            (\A i \in DOMAIN GroupList[e] : Mapping[<<e, GroupList[e][i], k>>] # None)
            => \A i \in DOMAIN GroupList[e] : store[<<e, GroupList[e][i], k>>] # None

\* Every call of map() and init() returns or throws, whatever fails and
\* whoever else is calling, as long as the mappings do not refer to themselves.
EveryCallReturns == \A t \in Threads : pc[t] # "idle" ~> pc[t] = "idle"
=============================================================================
