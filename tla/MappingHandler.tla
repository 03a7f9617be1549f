--------------------------- MODULE MappingHandler ---------------------------
(***************************************************************************)
(* libtokamap::MappingHandler: the object that owns the experiments found  *)
(* in the mapping directory, the data sources and the two caches, and that *)
(* answers map(experiment, path, attributes) by evaluating a tree of       *)
(* mappings.                                                               *)
(*                                                                         *)
(* One action is one stretch of C++ that no other caller can observe half  *)
(* done.  The only places where the library calls out, and where a Python  *)
(* caller may lose the interpreter lock, are DataSource::get and a custom  *)
(* function: pc = "callback".                                              *)
(*                                                                         *)
(* Data are abstracted: a fetched array is the record of who produced it,  *)
(* from which rendered arguments, and of the slices and scalings applied   *)
(* to it since.                                                            *)
(***************************************************************************)
EXTENDS Integers, Sequences, FiniteSets

CONSTANTS
    None,          \* absent value
    Threads,       \* callers of the handler
    Exclusive,     \* TRUE: one lock around a whole call (Rust Mutex);
                   \* FALSE: the lock is given up during callbacks (Python GIL)
    Api,           \* operations the language binding exposes
    Faults,        \* what may go wrong outside the library: "files", "source",
                   \* "slice", "combine"
    MaxOps,        \* bound: API operations started in a behaviour
    Exps, Groups, Names, Sources, Factories, Args,
    Vars,          \* template variables: attributes, and Indices
    Indices,       \* the variable that holds the indices of the request path
    Values,        \* values of attributes and indices
    PartitionVars, \* attributes that select a partition directory
    GroupList,     \* [Exps -> Seq(Groups)]: "groups" of mappings.cfg.json
    Mapping,       \* [Cells -> mappings.json of the cell, or None: no directory]
    NameOrder,     \* [Cells -> the order nlohmann::json iterates its mappings in]
    Globals,       \* [Cells -> merged globals.json]
    ArgVar,        \* [Args -> the variable a DATA_SOURCE's arguments mention]
    Texts,         \* rendered arguments
    ArgText,       \* [Args -> [value of that variable -> Texts]]
    Spelled,       \* [Texts -> the attributes the arguments give themselves]
    StackLimit,    \* mapping calls there is room for on a thread's stack
    Requests,      \* arguments of map()
    Configs        \* arguments of init()

CacheThreshold == 2        \* MappingCacheThreshold, and CacheThreshold

Keys     == [PartitionVars -> Values]
Cells    == Exps \X Groups \X Keys
MapTypes == {"VALUE", "DATA_SOURCE", "EXPR", "DIM", "INTERP", "CUSTOM", "FORWARD"}
Envs     == [Vars -> Values \cup {None}]
RuntimeVars == Vars \ {Indices}

\* blank: the values of var that make a VALUE an empty array, all of them when it
\* is a list of texts.
Defs == [type: MapTypes, source: Sources \cup {None}, args: Args \cup {None},
         slice: Vars \cup {None}, scale: BOOLEAN, var: Vars \cup {None},
         blank: SUBSET (Values \cup {None}), deps: Seq(Names)]

\* One registration of init(): a factory, or a data source made by a factory.
Steps == [source: Sources \cup {None}, factory: Factories]

ASSUME HandlerAssumption ==
    /\ None \notin Names /\ None \notin Sources /\ None \notin Args /\ None \notin Nat
    /\ None \notin Vars /\ None \notin Values /\ None \notin Threads /\ Values # {}
    /\ Exclusive \in BOOLEAN /\ MaxOps \in Nat
    /\ Indices \in Vars /\ PartitionVars \subseteq RuntimeVars
    /\ GroupList \in [Exps -> Seq(Groups)] 
    /\ \A c \in Cells : Mapping[c] = None \/ Mapping[c] \in [Names -> Defs \cup {None}]
    /\ \A c \in Cells, n \in Names :
           Mapping[c] # None /\ Mapping[c][n] # None /\ Mapping[c][n].type = "DATA_SOURCE"
           => Mapping[c][n].source # None /\ Mapping[c][n].args # None
    /\ \A c \in Cells : Mapping[c] # None =>
           NameOrder[c] \in Seq({n \in Names : Mapping[c][n] # None})
    /\ Globals \in [Cells -> Envs]
    /\ ArgVar \in [Args -> Vars \cup {None}]
    /\ ArgText \in [Args -> [Values \cup {None} -> Texts]]
    /\ Spelled \in [Texts -> SUBSET RuntimeVars]
    /\ Requests \subseteq [exp: Exps, group: Groups, lookup: Seq(Names), vals: Envs]
    /\ Configs \subseteq [cache: BOOLEAN, steps: Seq(Steps)]

\* The Python binding, which gives the interpreter lock up during callbacks,
\* does not expose reset(); the Rust binding holds its Mutex.
ASSUME ResetIsExclusive == Exclusive \/ "reset" \notin Api

\* A DATA_SOURCE refers to no mapping, and no other type names a data source.
ASSUME DataSourceAssumption ==
    \A c \in Cells, n \in Names :
        Mapping[c] # None /\ Mapping[c][n] # None =>
            LET d == Mapping[c][n]
            IN  IF d.type = "DATA_SOURCE" THEN d.deps = << >>
                                          ELSE d.source = None /\ d.args = None

\* Only a VALUE is an empty array by what its mapping says.
ASSUME BlankAssumption ==
    \A c \in Cells, n \in Names :
        Mapping[c] # None /\ Mapping[c][n] # None /\ Mapping[c][n].blank # {}
        => Mapping[c][n].type = "VALUE"

\* A stack has room for every mapping of a file once.
ASSUME StackAssumption ==
    IsFiniteSet(Names) /\ StackLimit \in Nat /\ Cardinality(Names) < StackLimit

(***************************************************************************)
(* State                                                                   *)
(***************************************************************************)
VARIABLES
    initialised, register, loaded, store,     \* m_init, m_experiment_register
    sources, factories, nextObject,           \* m_data_sources, m_data_source_factories
    cacheEnabled, counts, mappingCache,       \* m_cache_enabled, m_mapping_counts, ...
    dsCount, dsCache,                         \* the statics of DataSourceMapping
    steps, groupsLeft, namesLeft, draft,      \* locals of init() and load_experiment()
    owner, pc, request, frames, fetch, reply, \* the calls in progress
    ops

registerVars == <<initialised, register, loaded, store>>
sourceVars   == <<sources, factories, nextObject>>
cacheVars    == <<cacheEnabled, counts, mappingCache, dsCount, dsCache>>
loaderVars   == <<steps, groupsLeft, namesLeft, draft>>
callVars     == <<owner, pc, request, frames, fetch, reply>>
vars == <<registerVars, sourceVars, cacheVars, loaderVars, callVars, ops>>

Attrs  == [RuntimeVars -> Values \cup {None}]
Post   == [scaled: BOOLEAN, at: Values \cup {None}]
DsKeys == [source: Sources, text: Texts, attrs: Attrs]
Data   == [object: Nat, text: Texts, attrs: Attrs, posts: Seq(Post), empty: BOOLEAN]

\* What a mapping contributed to a value, and whether it returned an empty array.
Item   == [of: Names, data: Data \cup {None}, var: Values \cup {None}, empty: BOOLEAN]
Reply  == [items: SUBSET Item, empty: BOOLEAN]
Fetch  == [key: DsKeys, data: Data \cup {None}, hit: BOOLEAN]
Frame  == [name: Names, rest: Seq(Names), items: SUBSET Item, empty: BOOLEAN]

\* slots: the MappingStore; an absent name is None, a mapping without a data
\* source is 0, a DataSourceMapping is the object its raw pointer designates.
\* made tells the mapping objects of one load from those of another.
Entry == [env: Envs, slots: [Names -> Nat \cup {None}], made: Nat]

\* The absent value is none of the records it stands beside.
ASSUME NoneIsNoRecord ==
    /\ None \notin Entry /\ None \notin Requests
    /\ None \notin Reply /\ None \notin Fetch /\ None \notin Data

PcStates == {"idle", "init", "load", "define", "lookup", "eval", "callback",
             "post", "resume",
             "undefined",     \* a deleted data source was called
             "exhausted"}     \* the stack overflowed

NoFrames == << >>
BlankStore == [c \in Cells |-> None]

Init ==
    /\ initialised = FALSE /\ register = {}
    /\ loaded = [e \in Exps |-> FALSE] /\ store = BlankStore
    /\ sources = [s \in Sources |-> None] /\ factories = {} /\ nextObject = 1
    /\ cacheEnabled = FALSE
    /\ counts = [n \in Names |-> 0] /\ mappingCache = [n \in Names |-> None]
    /\ dsCount = [k \in Sources \X Args |-> 0] /\ dsCache = [k \in DsKeys |-> None]
    /\ steps = << >> /\ groupsLeft = << >> /\ namesLeft = << >> /\ draft = None
    /\ owner = None
    /\ pc = [t \in Threads |-> "idle"] /\ request = [t \in Threads |-> None]
    /\ frames = [t \in Threads |-> NoFrames] /\ fetch = [t \in Threads |-> None]
    /\ reply = [t \in Threads |-> None]
    /\ ops = 0

(***************************************************************************)
(* Calls                                                                   *)
(***************************************************************************)
KeyOf(r)  == [v \in PartitionVars |-> r.vals[v]]
CellOf(t) == <<request[t].exp, request[t].group, KeyOf(request[t])>>
HasPartition(r) == \A v \in PartitionVars : r.vals[v] # None

\* The attributes a data source is sent, and keyed by, beside its arguments: those
\* of the request that the arguments do not give themselves.
Sent(r, text) == [v \in RuntimeVars |-> IF v \in Spelled[text] THEN None ELSE r.vals[v]]

Start(op) ==
    /\ op \in Api /\ owner = None /\ ops < MaxOps
    /\ ops' = ops + 1

Holds(t, at) == owner = t /\ pc[t] = at

Goto(t, at) == pc' = [pc EXCEPT ![t] = at]

\* The call returns to its caller, with a result or (None) with an exception.
Leave(t, result) ==
    /\ Goto(t, "idle")
    /\ owner' = None
    /\ frames' = [frames EXCEPT ![t] = NoFrames]
    /\ fetch' = [fetch EXCEPT ![t] = None]
    /\ reply' = [reply EXCEPT ![t] = result]
    /\ UNCHANGED request

ClearLoader == steps' = << >> /\ groupsLeft' = << >> /\ namesLeft' = << >> /\ draft' = None
Throw(t) == Leave(t, None) /\ ClearLoader

(***************************************************************************)
(* Data sources and factories                                              *)
(***************************************************************************)
AddSource(s) ==
    /\ sources' = [sources EXCEPT ![s] = nextObject]
    /\ nextObject' = nextObject + 1
    /\ UNCHANGED factories

AddFactory(f) ==
    /\ factories' = factories \cup {f}
    /\ UNCHANGED <<sources, nextObject>>

Registrable(i) ==
    IF i.source = None THEN i.factory \notin factories
                       ELSE sources[i.source] = None /\ i.factory \in factories

Registers(i) == IF i.source = None THEN AddFactory(i.factory) ELSE AddSource(i.source)

\* Mutant: the check that the name is free is dropped.
RegisterSourceReplacing(s) ==
    /\ Start("register_data_source") /\ AddSource(s)
    /\ UNCHANGED <<registerVars, cacheVars, loaderVars, callVars>>

\* register_data_source(name, unique_ptr): throws, changing nothing, when the
\* name is taken.
RegisterSource(s) ==
    /\ Start("register_data_source")
    /\ IF sources[s] = None THEN AddSource(s) ELSE UNCHANGED sourceVars
    /\ UNCHANGED <<registerVars, cacheVars, loaderVars, callVars>>

\* register_data_source_factory, and register_data_source through a factory.
RegisterThrough(i) ==
    /\ Start("register_factory")
    /\ IF Registrable(i) THEN Registers(i) ELSE UNCHANGED sourceVars
    /\ UNCHANGED <<registerVars, cacheVars, loaderVars, callVars>>

UnregisterSource(s) ==
    /\ Start("unregister_data_source")
    /\ sources' = [sources EXCEPT ![s] = None]
    /\ UNCHANGED <<factories, nextObject, registerVars, cacheVars, loaderVars, callVars>>

(***************************************************************************)
(* init and reset                                                          *)
(***************************************************************************)
Reset ==
    /\ Start("reset")
    /\ initialised' = FALSE /\ register' = {}
    /\ loaded' = [e \in Exps |-> FALSE] /\ store' = BlankStore
    /\ UNCHANGED <<sourceVars, cacheVars, loaderVars, callVars>>

\* A second init returns at once; a bad configuration or mapping directory
\* throws before anything is assigned.
InitIgnored ==
    /\ Start("init")
    /\ initialised \/ register # {} \/ "files" \in Faults
    /\ UNCHANGED <<registerVars, sourceVars, cacheVars, loaderVars, callVars>>

\* Mutant: a second init is not ignored.
InitLocateAgain(t, c) ==
    /\ pc[t] = "idle" /\ Start("init")
    /\ register' = Exps /\ loaded' = [e \in Exps |-> FALSE] /\ store' = BlankStore
    /\ initialised' = TRUE /\ cacheEnabled' = c.cache
    /\ steps' = << >>
    /\ owner' = t /\ Goto(t, "init")
    /\ UNCHANGED <<sourceVars, counts, mappingCache, dsCount, dsCache, groupsLeft,
                   namesLeft, draft, request, frames, fetch, reply>>

\* The mapping directory is scanned; m_init is set before the libraries,
\* factories and sources of the configuration are registered.
InitLocate(t, c) ==
    /\ pc[t] = "idle" /\ Start("init")
    /\ ~initialised /\ register = {}
    /\ register' = Exps /\ loaded' = [e \in Exps |-> FALSE] /\ store' = BlankStore
    /\ initialised' = TRUE /\ cacheEnabled' = c.cache
    /\ steps' = c.steps
    /\ owner' = t /\ Goto(t, "init")
    /\ UNCHANGED <<sourceVars, counts, mappingCache, dsCount, dsCache, groupsLeft,
                   namesLeft, draft, request, frames, fetch, reply>>

InitRegister(t) ==
    /\ Holds(t, "init") /\ steps # << >>
    /\ Registrable(Head(steps)) /\ Registers(Head(steps))
    /\ steps' = Tail(steps)
    /\ UNCHANGED <<registerVars, cacheVars, groupsLeft, namesLeft, draft, callVars, ops>>

InitThrow(t) ==
    /\ Holds(t, "init") /\ steps # << >>
    /\ ~Registrable(Head(steps)) \/ "files" \in Faults
    /\ Throw(t)
    /\ UNCHANGED <<registerVars, sourceVars, cacheVars, ops>>

InitReturn(t) ==
    /\ Holds(t, "init") /\ steps = << >>
    /\ Leave(t, None)
    /\ UNCHANGED <<registerVars, sourceVars, cacheVars, loaderVars, ops>>

(***************************************************************************)
(* map(): loading the experiment on first use                              *)
(***************************************************************************)
\* Mutant: the experiment is loaded on every call.
CallMapReloading(t, r) ==
    /\ pc[t] = "idle" /\ Start("map") /\ r.exp \in register
    /\ request' = [request EXCEPT ![t] = r]
    /\ reply' = [reply EXCEPT ![t] = None]
    /\ owner' = t /\ Goto(t, "load") /\ groupsLeft' = GroupList[r.exp]
    /\ UNCHANGED <<registerVars, sourceVars, cacheVars, steps, namesLeft, draft,
                   frames, fetch>>

CallMap(t, r) ==
    /\ pc[t] = "idle" /\ Start("map")
    /\ request' = [request EXCEPT ![t] = r]
    /\ reply' = [reply EXCEPT ![t] = None]
    /\ IF r.exp \notin register
       THEN UNCHANGED <<owner, pc, groupsLeft>>
       ELSE /\ owner' = t
            /\ Goto(t, IF loaded[r.exp] THEN "lookup" ELSE "load")
            /\ groupsLeft' = IF loaded[r.exp] THEN << >> ELSE GroupList[r.exp]
    /\ UNCHANGED <<registerVars, sourceVars, cacheVars, steps, namesLeft, draft,
                   frames, fetch>>

GroupCell(t) == <<request[t].exp, Head(groupsLeft), KeyOf(request[t])>>

\* The group's partition directory is selected and its two files are read.
LoadGroup(t) ==
    /\ Holds(t, "load") /\ groupsLeft # << >>
    /\ HasPartition(request[t]) /\ Mapping[GroupCell(t)] # None
    /\ draft' = [env |-> Globals[GroupCell(t)], slots |-> [n \in Names |-> None],
                 made |-> nextObject]
    /\ nextObject' = nextObject + 1
    /\ namesLeft' = NameOrder[GroupCell(t)]
    /\ Goto(t, "define")
    /\ UNCHANGED <<registerVars, sources, factories, cacheVars, steps, groupsLeft,
                   owner, request, frames, fetch, reply, ops>>

Unregistered(d) == d.type = "DATA_SOURCE" /\ sources[d.source] = None

\* Mutant: the count of a data source request is set, not incremented.
DsCountedOnce(d) ==
    IF d.type = "DATA_SOURCE" THEN [dsCount EXCEPT ![<<d.source, d.args>>] = 1]
                              ELSE dsCount

DsCounted(d) ==
    IF d.type = "DATA_SOURCE" THEN [dsCount EXCEPT ![<<d.source, d.args>>] = @ + 1]
                              ELSE dsCount

Occurrences(n, q) == Cardinality({i \in DOMAIN q : q[i] = n})

\* One iteration of init_mappings: the mapping object is stored, and what it
\* refers to and the mapping itself are counted.  An unknown map_type stores
\* nothing and is counted all the same.
Define(t) ==
    /\ Holds(t, "define") /\ namesLeft # << >>
    /\ LET n == Head(namesLeft)
           d == Mapping[GroupCell(t)][n]
       IN  /\ ~Unregistered(d)
           /\ draft' = [draft EXCEPT !.slots[n] =
                            CASE d.type = "DATA_SOURCE" -> sources[d.source]
                              [] d.type = "FORWARD"     -> None
                              [] OTHER                  -> 0]
           /\ dsCount' = DsCounted(d)
           /\ counts' = [m \in Names |-> counts[m] + Occurrences(m, d.deps)
                                          + (IF m = n THEN 1 ELSE 0)]
    /\ namesLeft' = Tail(namesLeft)
    /\ UNCHANGED <<registerVars, sourceVars, cacheEnabled, mappingCache, dsCache,
                   steps, groupsLeft, callVars, ops>>

StoreGroup(t) ==
    /\ Holds(t, "define") /\ namesLeft = << >>
    /\ store' = [store EXCEPT ![GroupCell(t)] = draft]
    /\ groupsLeft' = Tail(groupsLeft) /\ draft' = None
    /\ Goto(t, "load")
    /\ UNCHANGED <<initialised, register, loaded, sourceVars, cacheVars, steps, namesLeft,
                   owner, request, frames, fetch, reply, ops>>

\* A missing attribute, directory or file, a malformed mapping, or a data source
\* nobody registered.
LoadFails(t) ==
    \/ /\ Holds(t, "load") /\ groupsLeft # << >>
       /\ IF HasPartition(request[t])
          THEN Mapping[GroupCell(t)] = None \/ "files" \in Faults
          ELSE TRUE
    \/ /\ Holds(t, "define") /\ namesLeft # << >>
       /\ Unregistered(Mapping[GroupCell(t)][Head(namesLeft)]) \/ "files" \in Faults

\* Mutant: is_loaded is set before the groups are loaded.
LoadThrowMarked(t) ==
    /\ LoadFails(t) /\ Throw(t)
    /\ loaded' = [loaded EXCEPT ![request[t].exp] = TRUE]
    /\ UNCHANGED <<initialised, register, store, sourceVars, cacheVars, ops>>

\* The groups stored and the counts made so far remain.
LoadThrow(t) ==
    /\ LoadFails(t) /\ Throw(t)
    /\ UNCHANGED <<registerVars, sourceVars, cacheVars, ops>>

FinishLoad(t) ==
    /\ Holds(t, "load") /\ groupsLeft = << >>
    /\ loaded' = [loaded EXCEPT ![request[t].exp] = TRUE]
    /\ Goto(t, "lookup")
    /\ UNCHANGED <<initialised, register, store, sourceVars, cacheVars, loaderVars,
                   owner, request, frames, fetch, reply, ops>>

(***************************************************************************)
(* map(): finding the mapping                                              *)
(***************************************************************************)
Present(c, n) == store[c] # None /\ store[c].slots[n] # None

\* The first of the spellings of the path (module MapPath) that names a mapping.
Found(t, n) ==
    \E i \in DOMAIN request[t].lookup :
        /\ n = request[t].lookup[i]
        /\ Present(CellOf(t), n)
        /\ \A j \in 1..(i - 1) : ~Present(CellOf(t), request[t].lookup[j])

Locatable(t) == HasPartition(request[t]) /\ store[CellOf(t)] # None

LookupThrow(t) ==
    /\ Holds(t, "lookup")
    /\ ~(Locatable(t) /\ \E n \in Names : Found(t, n))
    /\ Throw(t)
    /\ UNCHANGED <<registerVars, sourceVars, cacheVars, ops>>

\* The cache is consulted whether or not caching is enabled.
LookupHit(t, n) ==
    /\ Holds(t, "lookup") /\ Locatable(t) /\ Found(t, n)
    /\ mappingCache[n] # None
    /\ Leave(t, mappingCache[n])
    /\ UNCHANGED <<registerVars, sourceVars, cacheVars, loaderVars, ops>>

\* Mutant: the first parameter is skipped.
OpenSkipping(c, n) ==
    [name |-> n, rest |-> IF Mapping[c][n].deps = << >> THEN << >> ELSE Tail(Mapping[c][n].deps),
     items |-> {}, empty |-> FALSE]

Open(c, n) == [name |-> n, rest |-> Mapping[c][n].deps, items |-> {}, empty |-> FALSE]

\* What a request gives a template variable: its indices, of which there may be
\* none, and the attributes it has.
Gives(r, v) == v = Indices \/ r.vals[v] # None

\* Mutant: emplace instead of assignment, a variable keeps its first value.
LookupMissKeeping(t, n) ==
    /\ Holds(t, "lookup") /\ Locatable(t) /\ Found(t, n)
    /\ mappingCache[n] = None
    /\ store' = [store EXCEPT ![CellOf(t)].env =
            [v \in Vars |-> IF @[v] = None THEN request[t].vals[v] ELSE @[v]]]
    /\ frames' = [frames EXCEPT ![t] = <<Open(CellOf(t), n)>>]
    /\ Goto(t, "eval")
    /\ UNCHANGED <<initialised, register, loaded, sourceVars, cacheVars, loaderVars,
                   owner, request, fetch, reply, ops>>

\* The request's indices and attributes are written into the partition's
\* globals, where they stay, and the mapping is evaluated.
LookupMiss(t, n) ==
    /\ Holds(t, "lookup") /\ Locatable(t) /\ Found(t, n)
    /\ mappingCache[n] = None
    /\ store' = [store EXCEPT ![CellOf(t)].env =
            [v \in Vars |-> IF Gives(request[t], v) THEN request[t].vals[v] ELSE @[v]]]
    /\ frames' = [frames EXCEPT ![t] = <<Open(CellOf(t), n)>>]
    /\ Goto(t, "eval")
    /\ UNCHANGED <<initialised, register, loaded, sourceVars, cacheVars, loaderVars,
                   owner, request, fetch, reply, ops>>

(***************************************************************************)
(* map(): evaluating the mapping tree                                      *)
(***************************************************************************)
Top(t) == Head(frames[t])
TopDef(t) == Mapping[CellOf(t)][Top(t).name]
Env(t) == store[CellOf(t)].env

Rendered(e, v) == IF v = None THEN None ELSE e[v]
Renders(e, v) == v # None => e[v] # None

AtFrame(t, at) == Holds(t, at) /\ frames[t] # NoFrames

\* The mapping on top of the stack returns value to the one below it.
Deliver(t, value) ==
    /\ frames' = [frames EXCEPT ![t] = Tail(@)]
    /\ reply' = [reply EXCEPT ![t] = value]
    /\ Goto(t, "resume")

\* Mutant: the parameter is looked up under the mapping's own name.
EvalDependencySelf(t) ==
    /\ AtFrame(t, "eval") /\ Top(t).rest # << >>
    /\ Present(CellOf(t), Head(Top(t).rest)) /\ Len(frames[t]) < StackLimit
    /\ frames' = [frames EXCEPT ![t] = <<Open(CellOf(t), Top(t).name)>> \o @]
    /\ UNCHANGED <<registerVars, sourceVars, cacheVars, loaderVars,
                   owner, pc, request, fetch, reply, ops>>

EvalDependency(t) ==
    /\ AtFrame(t, "eval") /\ Top(t).rest # << >>
    /\ Present(CellOf(t), Head(Top(t).rest)) /\ Len(frames[t]) < StackLimit
    /\ frames' = [frames EXCEPT ![t] = <<Open(CellOf(t), Head(Top(t).rest))>> \o @]
    /\ UNCHANGED <<registerVars, sourceVars, cacheVars, loaderVars,
                   owner, pc, request, fetch, reply, ops>>

\* Mappings evaluate one another by recursion and nothing counts the depth.
EvalExhausted(t) ==
    /\ AtFrame(t, "eval") /\ Top(t).rest # << >>
    /\ Present(CellOf(t), Head(Top(t).rest)) /\ Len(frames[t]) >= StackLimit
    /\ Goto(t, "exhausted")
    /\ UNCHANGED <<registerVars, sourceVars, cacheVars, loaderVars,
                   owner, request, frames, fetch, reply, ops>>

\* Mutant: the template is not rendered.
OwnItemUnrendered(t, empty) ==
    [of |-> Top(t).name, data |-> None, var |-> TopDef(t).var, empty |-> empty]

OwnItem(t, empty) ==
    [of |-> Top(t).name, data |-> None, var |-> Rendered(Env(t), TopDef(t).var),
     empty |-> empty]

\* The mapping on top of the stack returns its own part and those of its parameters.
ReturnOwn(t, empty) ==
    Deliver(t, [items |-> Top(t).items \cup {OwnItem(t, empty)}, empty |-> empty])

Combines == {"VALUE", "EXPR", "DIM", "INTERP"}

IsBlank(t) == Rendered(Env(t), TopDef(t).var) \in TopDef(t).blank

\* VALUE, EXPR, DIM and INTERP, once their parameters are there.
EvalCombine(t) ==
    /\ AtFrame(t, "eval") /\ Top(t).rest = << >>
    /\ TopDef(t).type \in Combines
    /\ Renders(Env(t), TopDef(t).var)
    /\ ~(TopDef(t).type = "INTERP" /\ Top(t).empty)
    /\ ReturnOwn(t, IsBlank(t))
    /\ UNCHANGED <<registerVars, sourceVars, cacheVars, loaderVars,
                   owner, request, fetch, ops>>

\* A parameter that is not a mapping, a template variable nobody defined, an
\* empty INTERP argument, an expression that does not compile, arrays that
\* cannot be combined, which EXPR finds out as soon as one has returned.
EvalThrow(t) ==
    /\ AtFrame(t, "eval")
    /\ \/ Top(t).rest # << >> /\ ~Present(CellOf(t), Head(Top(t).rest))
       \/ /\ Top(t).rest # TopDef(t).deps /\ TopDef(t).type = "EXPR"
          /\ "combine" \in Faults
       \/ /\ Top(t).rest = << >> /\ TopDef(t).type \in Combines
          /\ \/ ~Renders(Env(t), TopDef(t).var)
             \/ TopDef(t).type = "INTERP" /\ Top(t).empty
             \/ TopDef(t).type # "DIM" /\ "combine" \in Faults
       \/ TopDef(t).type = "DATA_SOURCE" /\ ~Renders(Env(t), ArgVar[TopDef(t).args])
    /\ Throw(t)
    /\ UNCHANGED <<registerVars, sourceVars, cacheVars, ops>>

Lend == owner' = IF Exclusive THEN owner ELSE None
Retake(t) ==
    /\ pc[t] = "callback" /\ owner = IF Exclusive THEN t ELSE None
    /\ owner' = t

EvalCallFunction(t) ==
    /\ AtFrame(t, "eval") /\ Top(t).rest = << >> /\ TopDef(t).type = "CUSTOM"
    /\ Lend /\ Goto(t, "callback")
    /\ UNCHANGED <<registerVars, sourceVars, cacheVars, loaderVars,
                   request, frames, fetch, reply, ops>>

\* A custom function returns an array, possibly an empty one.
FunctionReturns(t) ==
    /\ Retake(t) /\ TopDef(t).type = "CUSTOM"
    /\ \E empty \in BOOLEAN : (empty => "source" \in Faults) /\ ReturnOwn(t, empty)
    /\ UNCHANGED <<registerVars, sourceVars, cacheVars, loaderVars, request, fetch, ops>>

RenderedArgs(t) == ArgText[TopDef(t).args][Rendered(Env(t), ArgVar[TopDef(t).args])]

\* Mutant: the attributes sent to the source are those in the shared globals.
KeyForShared(t) == [source |-> TopDef(t).source, text |-> RenderedArgs(t),
                    attrs |-> [v \in RuntimeVars |-> Env(t)[v]]]

KeyFor(t) == [source |-> TopDef(t).source, text |-> RenderedArgs(t),
              attrs |-> Sent(request[t], RenderedArgs(t))]

Live(object) == \E s \in Sources : sources[s] = object

\* DataSourceMapping::map up to the fetch: from the cache, or from the source
\* its pointer was given at load time.
EvalFetch(t) ==
    /\ AtFrame(t, "eval") /\ TopDef(t).type = "DATA_SOURCE"
    /\ Renders(Env(t), ArgVar[TopDef(t).args])
    /\ LET hit == cacheEnabled /\ dsCache[KeyFor(t)] # None
       IN  /\ fetch' = [fetch EXCEPT ![t] =
                   [key |-> KeyFor(t), hit |-> hit,
                    data |-> IF hit THEN dsCache[KeyFor(t)] ELSE None]]
           /\ \/ hit /\ Goto(t, "post") /\ UNCHANGED owner
              \/ ~hit /\ Live(store[CellOf(t)].slots[Top(t).name])
                      /\ Goto(t, "callback") /\ Lend
              \/ ~hit /\ ~Live(store[CellOf(t)].slots[Top(t).name])
                      /\ Goto(t, "undefined") /\ UNCHANGED owner
    /\ UNCHANGED <<registerVars, sourceVars, cacheVars, loaderVars,
                   request, frames, reply, ops>>

\* DataSource::get returns an array, possibly an empty one.
SourceReturns(t) ==
    /\ Retake(t) /\ TopDef(t).type = "DATA_SOURCE"
    /\ \E empty \in BOOLEAN :
        /\ empty => "source" \in Faults
        /\ fetch' = [fetch EXCEPT ![t].data =
               [object |-> store[CellOf(t)].slots[Top(t).name],
                text |-> fetch[t].key.text, attrs |-> fetch[t].key.attrs,
                posts |-> << >>, empty |-> empty]]
    /\ Goto(t, "post")
    /\ UNCHANGED <<registerVars, sourceVars, cacheVars, loaderVars,
                   request, frames, reply, ops>>

CallbackThrows(t) ==
    /\ pc[t] = "callback" /\ owner = IF Exclusive THEN t ELSE None
    /\ "source" \in Faults
    /\ Throw(t)
    /\ UNCHANGED <<registerVars, sourceVars, cacheVars, ops>>

\* update_array: slice (rendered now, after the fetch), then scale and offset.
Processed(d, data, e) ==
    IF data.empty \/ (d.slice = None /\ ~d.scale) THEN data
    ELSE [data EXCEPT !.posts =
             Append(@, [scaled |-> d.scale, at |-> Rendered(e, d.slice)])]

Sliceable(d, data, e) == d.slice # None => Renders(e, d.slice) /\ ~data.empty

\* Mutant: an array that came from the cache is put back after processing.
PostProcessAgain(t) ==
    /\ AtFrame(t, "post")
    /\ Sliceable(TopDef(t), fetch[t].data, Env(t))
    /\ LET data == Processed(TopDef(t), fetch[t].data, Env(t))
       IN  /\ dsCache' = [dsCache EXCEPT ![fetch[t].key] = data]
           /\ Deliver(t, [items |-> {[OwnItem(t, data.empty) EXCEPT !.data = data]},
                          empty |-> data.empty])
    /\ fetch' = [fetch EXCEPT ![t] = None]
    /\ UNCHANGED <<registerVars, sourceVars, cacheEnabled, counts, mappingCache, dsCount,
                   loaderVars, owner, request, ops>>

PostProcess(t) ==
    /\ AtFrame(t, "post")
    /\ Sliceable(TopDef(t), fetch[t].data, Env(t))
    /\ LET data == Processed(TopDef(t), fetch[t].data, Env(t))
       IN  /\ dsCache' = IF /\ ~fetch[t].hit
                            /\ dsCount[<<TopDef(t).source, TopDef(t).args>>] >= CacheThreshold
                         THEN [dsCache EXCEPT ![fetch[t].key] = data] ELSE dsCache
           /\ Deliver(t, [items |-> {[OwnItem(t, data.empty) EXCEPT !.data = data]},
                          empty |-> data.empty])
    /\ fetch' = [fetch EXCEPT ![t] = None]
    /\ UNCHANGED <<registerVars, sourceVars, cacheEnabled, counts, mappingCache, dsCount,
                   loaderVars, owner, request, ops>>

PostThrow(t) ==
    /\ AtFrame(t, "post") /\ TopDef(t).slice # None
    /\ ~Sliceable(TopDef(t), fetch[t].data, Env(t)) \/ "slice" \in Faults
    /\ Throw(t)
    /\ UNCHANGED <<registerVars, sourceVars, cacheVars, ops>>

\* Mutant: the parameter that returned is asked for again.
ResumeAgain(t) ==
    /\ AtFrame(t, "resume") /\ Goto(t, "eval")
    /\ UNCHANGED <<registerVars, sourceVars, cacheVars, loaderVars,
                   owner, request, frames, fetch, reply, ops>>

\* A parameter has returned.  EXPR returns an empty one as its own result.
Resume(t) ==
    /\ AtFrame(t, "resume")
    /\ IF TopDef(t).type = "EXPR" /\ reply[t].empty
       THEN /\ frames' = [frames EXCEPT ![t] = Tail(@)]
            /\ UNCHANGED pc
       ELSE /\ frames' = [frames EXCEPT ![t] =
                   <<[Top(t) EXCEPT !.rest  = Tail(@),
                                    !.items = @ \cup reply[t].items,
                                    !.empty = @ \/ reply[t].empty]>> \o Tail(@)]
            /\ Goto(t, "eval")
    /\ UNCHANGED <<registerVars, sourceVars, cacheVars, loaderVars,
                   owner, request, fetch, reply, ops>>

\* Mutant: the value is kept under the first spelling of the path.
FinishAsAsked(t, n) ==
    /\ Holds(t, "resume") /\ frames[t] = NoFrames /\ Found(t, n)
    /\ mappingCache' = IF cacheEnabled /\ counts[n] >= CacheThreshold
                       THEN [mappingCache EXCEPT ![request[t].lookup[1]] = reply[t]]
                       ELSE mappingCache
    /\ Leave(t, reply[t])
    /\ UNCHANGED <<registerVars, sourceVars, cacheEnabled, counts, dsCount, dsCache,
                   loaderVars, ops>>

Finish(t, n) ==
    /\ Holds(t, "resume") /\ frames[t] = NoFrames /\ Found(t, n)
    /\ mappingCache' = IF cacheEnabled /\ counts[n] >= CacheThreshold
                       THEN [mappingCache EXCEPT ![n] = reply[t]] ELSE mappingCache
    /\ Leave(t, reply[t])
    /\ UNCHANGED <<registerVars, sourceVars, cacheEnabled, counts, dsCount, dsCache,
                   loaderVars, ops>>

(***************************************************************************)
(* Specification                                                           *)
(***************************************************************************)
Step(t) ==
    \/ InitRegister(t) \/ InitThrow(t) \/ InitReturn(t)
    \/ LoadGroup(t) \/ Define(t) \/ StoreGroup(t) \/ LoadThrow(t) \/ FinishLoad(t)
    \/ LookupThrow(t)
    \/ \E n \in Names : LookupHit(t, n) \/ LookupMiss(t, n) \/ Finish(t, n)
    \/ EvalDependency(t) \/ EvalExhausted(t) \/ EvalCombine(t) \/ EvalThrow(t)
    \/ EvalCallFunction(t) \/ FunctionReturns(t)
    \/ EvalFetch(t) \/ SourceReturns(t) \/ CallbackThrows(t)
    \/ PostProcess(t) \/ PostThrow(t) \/ Resume(t)

Invoke ==
    \/ \E s \in Sources : RegisterSource(s) \/ UnregisterSource(s)
    \/ \E i \in Steps : RegisterThrough(i)
    \/ Reset \/ InitIgnored
    \/ \E t \in Threads : \/ \E c \in Configs : InitLocate(t, c)
                          \/ \E r \in Requests : CallMap(t, r)

\* The bound on operations is reached and every call has returned, or the
\* process is past a call through a dangling pointer or out of stack.
Quiet ==
    /\ \/ ops = MaxOps /\ \A t \in Threads : pc[t] = "idle"
       \/ \E t \in Threads : pc[t] \in {"undefined", "exhausted"}
    /\ UNCHANGED vars

Next == Invoke \/ (\E t \in Threads : Step(t)) \/ Quiet

Spec == Init /\ [][Next]_vars

\* A running call takes its next step, and a data source or a custom function
\* that was called returns or throws.
FairSpec == Spec /\ \A t \in Threads : WF_vars(Step(t))
=============================================================================
