---------------------------- MODULE HandlerProofs ----------------------------
(***************************************************************************)
(* Proofs, for every instance of the constants, that MappingHandler keeps  *)
(* its types, its references and its loading discipline.                   *)
(***************************************************************************)
EXTENDS HandlerProperties, FiniteSetTheorems, SequenceTheorems, TLAPS

(***************************************************************************)
(* The inductive invariant                                                 *)
(***************************************************************************)
\* What is stored for a cell comes from the cell's mappings.json.
StoreOK ==
    \A c \in Cells : store[c] # None =>
        /\ Mapping[c] # None
        /\ \A n \in Names : store[c].slots[n] # None => Mapping[c][n] # None

\* A call in progress has a request for a registered experiment.
Requested(t) == request[t] # None /\ request[t].exp \in register

\* The groups not yet loaded are the last ones of the experiment's list, and the
\* earlier ones are stored for the request's partition.
Progress(t) ==
    LET all  == GroupList[request[t].exp]
        done == Len(all) - Len(groupsLeft)
    IN  /\ done >= 0
        /\ \A i \in 1..Len(groupsLeft) : groupsLeft[i] = all[done + i]
        /\ done > 0 => HasPartition(request[t])
        /\ \A i \in 1..done : store[<<request[t].exp, all[i], KeyOf(request[t])>>] # None

\* The draft of the group being loaded.
Drafted(t) ==
    /\ groupsLeft # << >> /\ HasPartition(request[t])
    /\ Mapping[GroupCell(t)] # None /\ draft # None
    /\ \A n \in Names : draft.slots[n] # None => Mapping[GroupCell(t)][n] # None
    /\ \A i \in 1..Len(namesLeft) : Mapping[GroupCell(t)][namesLeft[i]] # None

\* The evaluation stack of a call: every mapping on it is in the store, and all
\* but the top one wait for a parameter.
Evaluating(t) ==
    /\ loaded[request[t].exp]
    /\ HasPartition(request[t]) /\ store[CellOf(t)] # None
    /\ \A i \in 1..Len(frames[t]) : Present(CellOf(t), frames[t][i].name)
    /\ \A i \in 2..Len(frames[t]) : frames[t][i].rest # << >>

Fetching(t) == TopDef(t).type = "DATA_SOURCE" /\ fetch[t] # None

ThreadOK(t) ==
    /\ pc[t] \notin {"idle", "callback"} => owner = t
    /\ pc[t] = "callback" /\ Exclusive => owner = t
    /\ pc[t] \notin {"idle", "init"} => Requested(t)
    /\ pc[t] \in Loading => ~loaded[request[t].exp] /\ Progress(t)
    /\ pc[t] = "define" => Drafted(t)
    /\ pc[t] = "lookup" => loaded[request[t].exp]
    /\ pc[t] \in InCall \cup {"exhausted"} => Evaluating(t)
    /\ pc[t] = "exhausted" => Len(frames[t]) >= StackLimit
    /\ pc[t] \in {"eval", "callback", "post"} => frames[t] # NoFrames
    /\ pc[t] = "callback" => TopDef(t).type = "CUSTOM" \/ Fetching(t)
    /\ pc[t] = "post" => Fetching(t) /\ fetch[t].data # None
    /\ pc[t] = "resume" => reply[t] # None /\ (frames[t] # NoFrames => Top(t).rest # << >>)

IInv ==
    /\ TypeOK
    /\ LoadedComplete
    /\ StoreOK
    /\ \A t \in Threads : ThreadOK(t)

(***************************************************************************)
(* Steps of other callers                                                  *)
(***************************************************************************)
\* A step leaves alone what a caller inside a callback comes back to.
KeepsCall(u) ==
    /\ request[u].exp \in register' /\ loaded'[request[u].exp]
    /\ store'[CellOf(u)] # None
    /\ store'[CellOf(u)].slots = store[CellOf(u)].slots

\* A caller that does not hold the lock is not disturbed by a step of another
\* one that keeps what its call refers to.
LEMMA Others ==
    ASSUME NEW u \in Threads, ThreadOK(u), owner # u,
           pc'[u] = pc[u], request'[u] = request[u],
           frames'[u] = frames[u], fetch'[u] = fetch[u],
           pc[u] = "callback" => KeepsCall(u)
    PROVE  ThreadOK(u)'
<1>1. pc[u] \in {"idle", "callback"} /\ (pc[u] = "callback" => ~Exclusive)
  BY DEF ThreadOK
<1>2. CASE pc[u] = "idle"
  BY <1>2 DEF ThreadOK, Loading, InCall
<1>3. CASE pc[u] = "callback"
  <2>1. CellOf(u)' = CellOf(u) /\ HasPartition(request'[u]) = HasPartition(request[u])
    BY DEF CellOf, KeyOf, HasPartition
  <2>2. Requested(u)'
    BY <1>3 DEF ThreadOK, Requested, KeepsCall
  <2>3. Evaluating(u)'
    BY <1>3, <2>1 DEF ThreadOK, InCall, Evaluating, Present, KeepsCall
  <2>4. TopDef(u)' = TopDef(u) /\ (Fetching(u) => Fetching(u)')
    BY <2>1 DEF TopDef, Top, Fetching
  <2> QED
    BY <1>1, <1>3, <2>2, <2>3, <2>4 DEF ThreadOK, Loading, InCall
<1> QED BY <1>1, <1>2, <1>3

(***************************************************************************)
(* Types of what the actions compute                                       *)
(***************************************************************************)
LEMMA NoneDistinct ==
    /\ None \notin Names /\ None \notin Sources /\ None \notin Args /\ None \notin Nat
    /\ None \notin Vars /\ None \notin Values /\ None \notin Threads
BY HandlerAssumption

\* The parts of a request have the types of their constants.
LEMMA RequestType ==
    ASSUME NEW r \in Requests
    PROVE  /\ r.exp \in Exps /\ r.group \in Groups /\ r.lookup \in Seq(Names)
           /\ r.vals \in [Vars -> Values \cup {None}]
           /\ \A text \in Texts : Sent(r, text) \in Attrs
           /\ HasPartition(r) => KeyOf(r) \in Keys
<1>1. r \in [exp: Exps, group: Groups, lookup: Seq(Names), vals: Envs]
  BY HandlerAssumption
<1>2. PartitionVars \subseteq RuntimeVars /\ RuntimeVars \subseteq Vars
  BY HandlerAssumption DEF RuntimeVars
<1>3. r.vals \in [Vars -> Values \cup {None}]
  BY <1>1 DEF Envs
<1>4. \A text \in Texts : Sent(r, text) \in Attrs
  BY <1>2, <1>3 DEF Sent, Attrs
<1>5. HasPartition(r) => KeyOf(r) \in Keys
  BY <1>2, <1>3 DEF HasPartition, KeyOf, Keys
<1> QED BY <1>1, <1>3, <1>4, <1>5

\* A request that has its partition attributes designates a cell.
LEMMA CellType ==
    ASSUME TypeOK, NEW t \in Threads, request[t] # None
    PROVE  /\ request[t] \in Requests
           /\ HasPartition(request[t]) => CellOf(t) \in Cells
           /\ groupsLeft # << >> =>
                  /\ Head(groupsLeft) \in Groups
                  /\ HasPartition(request[t]) => GroupCell(t) \in Cells
<1>1. request[t] \in Requests
  BY DEF TypeOK, CallTypes
<1>2. groupsLeft # << >> => Head(groupsLeft) \in Groups
  BY DEF TypeOK, LoaderTypes
<1> QED BY <1>1, <1>2, RequestType DEF CellOf, GroupCell, Cells

\* A mapping definition is a record of Defs.
LEMMA DefType ==
    ASSUME NEW c \in Cells, NEW n \in Names, Mapping[c] # None, Mapping[c][n] # None
    PROVE  /\ Mapping[c][n] \in Defs
           /\ Mapping[c][n].type = "DATA_SOURCE" =>
                  Mapping[c][n].source \in Sources /\ Mapping[c][n].args \in Args
<1>1. Mapping[c] \in [Names -> Defs \cup {None}]
  BY HandlerAssumption
<1>2. Mapping[c][n] \in Defs
  BY <1>1
<1>3. Mapping[c][n].type = "DATA_SOURCE" => Mapping[c][n].source # None /\ Mapping[c][n].args # None
  BY HandlerAssumption
<1> QED BY <1>2, <1>3 DEF Defs

(***************************************************************************)
(* Steps of one caller                                                     *)
(***************************************************************************)
\* The callers other than t are where they were.
OthersStay(t) ==
    \A u \in Threads \ {t} :
        /\ pc'[u] = pc[u] /\ request'[u] = request[u]
        /\ frames'[u] = frames[u] /\ fetch'[u] = fetch[u]

\* A step of the caller that holds the lock, or that nobody keeps from it, is
\* checked on that caller alone as long as suspended calls keep their ground.
LEMMA OwnStep ==
    ASSUME IInv, NEW t \in Threads, owner \in {t, None}, OthersStay(t),
           \A u \in Threads \ {t} : pc[u] = "callback" => KeepsCall(u),
           TypeOK', LoadedComplete', StoreOK', ThreadOK(t)'
    PROVE  IInv'
<1>1. ASSUME NEW u \in Threads, u # t PROVE ThreadOK(u)'
  <2>1. ThreadOK(u) /\ owner # u
    BY <1>1, NoneDistinct DEF IInv
  <2>2. /\ pc'[u] = pc[u] /\ request'[u] = request[u]
        /\ frames'[u] = frames[u] /\ fetch'[u] = fetch[u]
        /\ pc[u] = "callback" => KeepsCall(u)
    BY <1>1 DEF OthersStay
  <2> QED BY <2>1, <2>2, Others
<1> QED BY <1>1 DEF IInv

\* Most steps leave the experiment register as it is.
LEMMA QuietStep ==
    ASSUME IInv, NEW t \in Threads, owner \in {t, None}, OthersStay(t),
           UNCHANGED registerVars, TypeOK', ThreadOK(t)'
    PROVE  IInv'
<1>1. LoadedComplete' /\ StoreOK'
  BY DEF IInv, LoadedComplete, StoreOK, registerVars
<1>2. ASSUME NEW u \in Threads, pc[u] = "callback" PROVE KeepsCall(u)
  BY <1>2 DEF IInv, ThreadOK, Requested, Evaluating, KeepsCall, InCall, registerVars
<1> QED BY <1>1, <1>2, OwnStep

\* A call that returns or throws leaves its caller idle.
LEMMA Returning ==
    ASSUME IInv, NEW t \in Threads, owner \in {t, None},
           NEW result, result \in Reply \cup {None}, Leave(t, result),
           UNCHANGED registerVars, SourceTypes', CacheTypes', LoaderTypes', UNCHANGED ops
    PROVE  IInv'
<1>1. CallTypes /\ RegisterTypes /\ ops \in 0..MaxOps
  BY DEF IInv, TypeOK
<1>2. CallTypes'
  BY <1>1 DEF CallTypes, Leave, Goto, PcStates, NoFrames
<1>3. RegisterTypes' /\ ops' \in 0..MaxOps
  BY <1>1 DEF RegisterTypes, registerVars
<1>4. TypeOK'
  BY <1>2, <1>3 DEF TypeOK
<1>5. OthersStay(t)
  BY <1>1 DEF Leave, Goto, OthersStay, CallTypes
<1>6. pc'[t] = "idle"
  BY <1>1 DEF Leave, Goto, CallTypes
<1>7. ThreadOK(t)'
  BY <1>6 DEF ThreadOK, Loading, InCall
<1> QED BY <1>4, <1>5, <1>7, QuietStep

\* A call that throws leaves the invariant as it was.
LEMMA Throwing ==
    ASSUME IInv, NEW t \in Threads, owner \in {t, None}, Throw(t),
           UNCHANGED <<registerVars, sourceVars, cacheVars, ops>>
    PROVE  IInv'
<1>1. SourceTypes' /\ CacheTypes'
  BY DEF IInv, TypeOK, SourceTypes, CacheTypes, sourceVars, cacheVars
<1>2. LoaderTypes'
  BY DEF Throw, ClearLoader, LoaderTypes
<1> QED BY <1>1, <1>2, Returning DEF Throw
(***************************************************************************)
(* Registration, init and reset                                            *)
(***************************************************************************)
LEMMA StartTypes ==
    ASSUME TypeOK, NEW op, Start(op)
    PROVE  ops' \in 0..MaxOps /\ owner = None
BY HandlerAssumption DEF TypeOK, Start

\* What registering a step of the configuration does to the registries.
LEMMA RegistersTypes ==
    ASSUME SourceTypes, NEW i \in Steps, Registers(i)
    PROVE  SourceTypes'
BY DEF SourceTypes, Steps, Registers, AddFactory, AddSource

\* An operation that only touches the registries.
LEMMA Unmoved ==
    ASSUME IInv, SourceTypes', ops' \in 0..MaxOps,
           UNCHANGED <<registerVars, cacheVars, loaderVars, callVars>>
    PROVE  IInv'
<1>1. TypeOK'
  BY DEF IInv, TypeOK, RegisterTypes, CacheTypes, LoaderTypes, CallTypes,
     registerVars, cacheVars, loaderVars, callVars
<1>2. LoadedComplete' /\ StoreOK'
  BY DEF IInv, LoadedComplete, StoreOK, registerVars
<1>3. ASSUME NEW t \in Threads PROVE ThreadOK(t)'
  <2>1. Requested(t)' = Requested(t) /\ Progress(t)' = Progress(t)
    BY DEF Requested, Progress, HasPartition, KeyOf, registerVars, loaderVars, callVars
  <2>2. Drafted(t)' = Drafted(t)
    BY DEF Drafted, HasPartition, KeyOf, GroupCell, loaderVars, callVars
  <2>3. Evaluating(t)' = Evaluating(t)
    BY DEF Evaluating, Present, CellOf, KeyOf, HasPartition, registerVars, callVars
  <2>4. Fetching(t)' = Fetching(t) /\ TopDef(t)' = TopDef(t) /\ Top(t)' = Top(t)
    BY DEF Fetching, TopDef, Top, CellOf, KeyOf, callVars
  <2>5. /\ pc'[t] = pc[t] /\ owner' = owner /\ loaded'[request'[t].exp] = loaded[request[t].exp]
        /\ frames'[t] = frames[t] /\ fetch'[t] = fetch[t] /\ reply'[t] = reply[t]
    BY DEF registerVars, callVars
  <2>6. ThreadOK(t)
    BY DEF IInv
  <2> QED BY <2>1, <2>2, <2>3, <2>4, <2>5, <2>6 DEF ThreadOK
<1> QED BY <1>1, <1>2, <1>3 DEF IInv

\* A step on the sources and factories alone keeps the invariant.
LEMMA RegistryStep ==
    ASSUME IInv, NEW op, Start(op), SourceTypes',
           UNCHANGED <<registerVars, cacheVars, loaderVars, callVars>>
    PROVE  IInv'
<1>1. ops' \in 0..MaxOps
  BY StartTypes DEF IInv
<1> QED BY <1>1, Unmoved

\* So does a step that changes nothing.
LEMMA Stuttering ==
    ASSUME IInv,
           UNCHANGED <<registerVars, sourceVars, cacheVars, loaderVars, callVars, ops>>
    PROVE  IInv'
<1>1. SourceTypes' /\ ops' \in 0..MaxOps
  BY DEF IInv, TypeOK, SourceTypes, sourceVars
<1> QED BY <1>1, Unmoved

\* register_data_source, its factory forms, unregister_data_source, and an
\* init that is ignored.
LEMMA RegistrySteps ==
    ASSUME IInv,
           \/ \E s \in Sources : RegisterSource(s) \/ UnregisterSource(s)
           \/ \E i \in Steps : RegisterThrough(i)
           \/ InitIgnored
    PROVE  IInv'
<1>1. SourceTypes
  BY DEF IInv, TypeOK
<1>2. ASSUME NEW s \in Sources, RegisterSource(s) PROVE IInv'
  <2>1. SourceTypes'
    BY <1>1, <1>2 DEF SourceTypes, RegisterSource, AddSource, sourceVars
  <2> QED BY <1>2, <2>1, RegistryStep DEF RegisterSource
<1>3. ASSUME NEW s \in Sources, UnregisterSource(s) PROVE IInv'
  <2>1. SourceTypes'
    BY <1>1, <1>3 DEF SourceTypes, UnregisterSource
  <2> QED BY <1>3, <2>1, RegistryStep DEF UnregisterSource
<1>4. ASSUME NEW i \in Steps, RegisterThrough(i) PROVE IInv'
  <2>1. SourceTypes'
    BY <1>1, <1>4, RegistersTypes DEF SourceTypes, RegisterThrough, sourceVars
  <2> QED BY <1>4, <2>1, RegistryStep DEF RegisterThrough
<1>5. CASE InitIgnored
  <2>1. SourceTypes'
    BY <1>1, <1>5 DEF SourceTypes, InitIgnored, sourceVars
  <2> QED BY <1>5, <2>1, RegistryStep DEF InitIgnored
<1> QED BY <1>2, <1>3, <1>4, <1>5

\* The register is emptied: nothing is loaded or stored any more.
LEMMA Emptied ==
    ASSUME loaded' = [e \in Exps |-> FALSE], store' = BlankStore
    PROVE  /\ loaded' \in [Exps -> BOOLEAN]
           /\ store' \in [Cells -> Entry \cup {None}]
           /\ LoadedComplete' /\ StoreOK'
BY DEF LoadedComplete, StoreOK, BlankStore

\* reset() is called under a lock that spans whole calls, so that no call is
\* suspended in a callback while the register is emptied.
LEMMA ResetStep ==
    ASSUME IInv, Reset
    PROVE  IInv'
<1>1. owner = None /\ Exclusive /\ ops' \in 0..MaxOps
  BY StartTypes, ResetIsExclusive, HandlerAssumption DEF IInv, Reset, Start
<1>2. \A t \in Threads : pc[t] = "idle"
  BY <1>1, NoneDistinct DEF IInv, ThreadOK, TypeOK, CallTypes, PcStates
<1>3. TypeOK' /\ LoadedComplete' /\ StoreOK'
  BY <1>1, Emptied DEF IInv, TypeOK, RegisterTypes, SourceTypes, CacheTypes, LoaderTypes,
     CallTypes, Reset, sourceVars, cacheVars, loaderVars, callVars
<1>4. \A t \in Threads : ThreadOK(t)'
  BY <1>2 DEF ThreadOK, Loading, InCall, Reset, callVars
<1> QED BY <1>3, <1>4 DEF IInv

\* init() fills an empty register, so that again no call is in progress.
LEMMA LocateStep ==
    ASSUME IInv, NEW t \in Threads, NEW c \in Configs, InitLocate(t, c)
    PROVE  IInv'
<1>1. c.cache \in BOOLEAN /\ c.steps \in Seq(Steps)
  BY HandlerAssumption
<1>2. /\ CallTypes /\ owner = None /\ owner' = t /\ ops' \in 0..MaxOps
      /\ OthersStay(t) /\ pc'[t] = "init"
  BY StartTypes DEF IInv, TypeOK, InitLocate, Goto, CallTypes, OthersStay
<1>3. \A u \in Threads \ {t} : pc[u] # "callback"
  BY DEF IInv, ThreadOK, Requested, InitLocate
<1>4. TypeOK' /\ LoadedComplete' /\ StoreOK'
  BY <1>1, <1>2, Emptied DEF IInv, TypeOK, RegisterTypes, SourceTypes, CacheTypes,
     LoaderTypes, CallTypes, InitLocate, Goto, PcStates, sourceVars
<1>5. ThreadOK(t)'
  BY <1>2 DEF ThreadOK, Loading, InCall
<1> QED BY <1>2, <1>3, <1>4, <1>5, OwnStep

\* The rest of init: registrations, and its return with or without an exception.
LEMMA InitSteps ==
    ASSUME IInv, NEW t \in Threads, InitRegister(t) \/ InitThrow(t) \/ InitReturn(t)
    PROVE  IInv'
<1>1. owner = t /\ pc[t] = "init" /\ TypeOK
  BY DEF IInv, InitRegister, InitThrow, InitReturn, Holds
<1>2. CASE InitRegister(t)
  <2>1. Head(steps) \in Steps /\ Tail(steps) \in Seq(Steps)
    BY <1>1, <1>2 DEF TypeOK, LoaderTypes, InitRegister
  <2>2. SourceTypes'
    BY <1>1, <1>2, <2>1, RegistersTypes DEF TypeOK, InitRegister
  <2>3. TypeOK'
    BY <1>1, <1>2, <2>1, <2>2 DEF TypeOK, RegisterTypes, CacheTypes, LoaderTypes, CallTypes,
       InitRegister, registerVars, cacheVars, callVars
  <2>4. OthersStay(t)
    BY <1>2 DEF OthersStay, InitRegister, callVars
  <2>5. ThreadOK(t)'
    BY <1>1, <1>2 DEF ThreadOK, Loading, InCall, InitRegister, callVars
  <2> QED BY <1>1, <1>2, <2>3, <2>4, <2>5, QuietStep DEF InitRegister
<1>3. CASE InitThrow(t)
  BY <1>1, <1>3, Throwing DEF InitThrow
<1>4. CASE InitReturn(t)
  <2>1. SourceTypes' /\ CacheTypes' /\ LoaderTypes'
    BY <1>1, <1>4 DEF TypeOK, SourceTypes, CacheTypes, LoaderTypes, InitReturn,
       sourceVars, cacheVars, loaderVars
  <2> QED BY <1>1, <1>4, <2>1, Returning DEF InitReturn
<1> QED BY <1>2, <1>3, <1>4
(***************************************************************************)
(* Loading an experiment                                                   *)
(***************************************************************************)
LEMMA CallMapStep ==
    ASSUME IInv, NEW t \in Threads, NEW r \in Requests, CallMap(t, r)
    PROVE  IInv'
<1>1. TypeOK /\ owner = None /\ ops' \in 0..MaxOps /\ pc[t] = "idle"
  BY StartTypes DEF IInv, CallMap
<1>2. r # None /\ r.exp \in Exps /\ GroupList[r.exp] \in Seq(Groups)
  BY NoneIsNoRecord, RequestType, HandlerAssumption
<1>3. request'[t] = r /\ OthersStay(t)
  BY <1>1 DEF TypeOK, CallTypes, CallMap, Goto, OthersStay
<1>4. LoaderTypes'
  <2>1. groupsLeft' \in {groupsLeft, << >>, GroupList[r.exp]}
    BY DEF CallMap
  <2>2. groupsLeft' \in Seq(Groups)
    BY <1>1, <1>2, <2>1, EmptySeq DEF TypeOK, LoaderTypes
  <2> QED BY <1>1, <2>2 DEF TypeOK, LoaderTypes, CallMap
<1>5. CallTypes'
  BY <1>1 DEF TypeOK, CallTypes, CallMap, Goto, PcStates
<1>6. TypeOK'
  BY <1>1, <1>4, <1>5 DEF TypeOK, RegisterTypes, SourceTypes, CacheTypes, CallMap,
     registerVars, sourceVars, cacheVars
<1>7. ThreadOK(t)'
  <2>1. CASE r.exp \notin register
    BY <1>1, <2>1 DEF CallMap, ThreadOK, Loading, InCall
  <2>2. CASE r.exp \in register /\ loaded[r.exp]
    <3>1. pc'[t] = "lookup" /\ owner' = t /\ register' = register /\ loaded' = loaded
      BY <1>1, <2>2 DEF CallMap, Goto, TypeOK, CallTypes, registerVars
    <3> QED BY <1>2, <1>3, <2>2, <3>1 DEF ThreadOK, Requested, Loading, InCall
  <2>3. CASE r.exp \in register /\ ~loaded[r.exp]
    <3>1. /\ pc'[t] = "load" /\ owner' = t /\ register' = register /\ loaded' = loaded
          /\ groupsLeft' = GroupList[r.exp]
      BY <1>1, <2>3 DEF CallMap, Goto, TypeOK, CallTypes, registerVars
    <3>2. Progress(t)'
      BY <1>2, <1>3, <3>1 DEF Progress
    <3> QED BY <1>2, <1>3, <2>3, <3>1, <3>2 DEF ThreadOK, Requested, Loading, InCall
  <2> QED BY <2>1, <2>2, <2>3
<1> QED BY <1>1, <1>3, <1>6, <1>7, QuietStep DEF CallMap

\* What a call knows while it loads.
LEMMA Loader ==
    ASSUME IInv, NEW t \in Threads, pc[t] \in Loading
    PROVE  /\ TypeOK /\ owner = t /\ Requested(t) /\ request[t] \in Requests
           /\ ~loaded[request[t].exp] /\ Progress(t)
           /\ pc[t] = "define" => Drafted(t)
BY CellType DEF IInv, ThreadOK, Requested, Loading

\* load_experiment opens the directory of one group.
LEMMA LoadGroupStep ==
    ASSUME IInv, NEW t \in Threads, LoadGroup(t)
    PROVE  IInv'
<1>1. pc[t] = "load" /\ groupsLeft # << >> /\ HasPartition(request[t])
  BY DEF LoadGroup, Holds
<1>2. /\ TypeOK /\ owner = t /\ Requested(t) /\ Progress(t)
      /\ request[t] \in Requests /\ ~loaded[request[t].exp]
  BY <1>1, Loader DEF Loading
<1>3. GroupCell(t) \in Cells /\ Mapping[GroupCell(t)] # None
  BY <1>1, <1>2, CellType DEF Requested, LoadGroup
<1>4. Globals[GroupCell(t)] \in Envs
  BY <1>3, HandlerAssumption
<1>5. /\ draft' \in Entry /\ \A n \in Names : draft'.slots[n] = None
  BY <1>2, <1>4 DEF LoadGroup, Entry, TypeOK, SourceTypes
<1>6. /\ namesLeft' \in Seq({n \in Names : Mapping[GroupCell(t)][n] # None})
      /\ namesLeft' \in Seq(Names)
  <2>1. namesLeft' \in Seq({n \in Names : Mapping[GroupCell(t)][n] # None})
    BY <1>3, HandlerAssumption DEF LoadGroup
  <2> QED BY <2>1, SeqMonotonic
<1>7. pc'[t] = "define" /\ OthersStay(t)
  BY <1>2 DEF LoadGroup, Goto, TypeOK, CallTypes, OthersStay
<1>8. TypeOK'
  BY <1>2, <1>5, <1>6 DEF TypeOK, RegisterTypes, SourceTypes, CacheTypes, LoaderTypes,
     CallTypes, PcStates, LoadGroup, Goto, registerVars, cacheVars
<1>9. GroupCell(t)' = GroupCell(t) /\ HasPartition(request[t])'
  BY <1>1 DEF LoadGroup, GroupCell, KeyOf, HasPartition
<1>10. Drafted(t)'
  BY <1>1, <1>3, <1>5, <1>6, <1>9, NoneIsNoRecord DEF LoadGroup, Drafted
<1>11. Progress(t)' /\ Requested(t)' /\ ~loaded'[request'[t].exp]
  BY <1>2 DEF Progress, Requested, HasPartition, KeyOf, LoadGroup, registerVars
<1>12. ThreadOK(t)'
  BY <1>2, <1>7, <1>10, <1>11 DEF LoadGroup, ThreadOK, InCall
<1> QED BY <1>2, <1>7, <1>8, <1>12, QuietStep DEF LoadGroup

\* How often a name occurs in a parameter list is a natural number.
LEMMA OccurrencesType ==
    ASSUME NEW n, NEW q \in Seq(Names)
    PROVE  Occurrences(n, q) \in Nat
<1>1. DOMAIN q = 1..Len(q) /\ Len(q) \in Nat
  BY LenProperties
<1>2. IsFiniteSet(1..Len(q))
  BY <1>1, FS_Interval
<1>3. IsFiniteSet({i \in DOMAIN q : q[i] = n})
  BY <1>1, <1>2, FS_Subset
<1> QED BY <1>3, FS_CardinalityType DEF Occurrences

\* init_mappings stores one mapping in the draft.
LEMMA DefineStep ==
    ASSUME IInv, NEW t \in Threads, Define(t)
    PROVE  IInv'
<1> DEFINE n == Head(namesLeft)
           d == Mapping[GroupCell(t)][n]
<1>1. pc[t] = "define" /\ namesLeft # << >>
  BY DEF Define, Holds
<1>2. /\ TypeOK /\ owner = t /\ Requested(t) /\ Progress(t) /\ Drafted(t)
      /\ request[t] \in Requests /\ ~loaded[request[t].exp]
  BY <1>1, Loader DEF Loading
<1>3. /\ n \in Names /\ n = namesLeft[1] /\ Len(namesLeft) > 0
      /\ Tail(namesLeft) \in Seq(Names) /\ Len(Tail(namesLeft)) = Len(namesLeft) - 1
      /\ \A i \in 1..Len(Tail(namesLeft)) : Tail(namesLeft)[i] = namesLeft[i + 1]
  BY <1>1, <1>2, HeadTailProperties DEF TypeOK, LoaderTypes
<1>4. GroupCell(t) \in Cells /\ Mapping[GroupCell(t)] # None /\ d # None
  BY <1>2, <1>3, CellType DEF Drafted, Requested
<1>5. d \in Defs /\ (d.type = "DATA_SOURCE" => d.source \in Sources /\ d.args \in Args)
  BY <1>3, <1>4, DefType
<1>6. draft \in Entry
  BY <1>2 DEF Drafted, TypeOK, LoaderTypes
<1>7. \E slot \in Nat \cup {None} : draft' = [draft EXCEPT !.slots[n] = slot]
  <2>1. ~Unregistered(d)
    BY DEF Define
  <2>2. d.type = "DATA_SOURCE" => sources[d.source] \in Nat
    BY <1>2, <1>5, <2>1 DEF Unregistered, TypeOK, SourceTypes
  <2> QED BY <2>2 DEF Define
<1>8. /\ draft' \in Entry
      /\ \A m \in Names : draft'.slots[m] # None => m = n \/ draft.slots[m] # None
  BY <1>3, <1>6, <1>7 DEF Entry
<1>9. dsCount' \in [Sources \X Args -> Nat]
  <2>1. dsCount' = DsCounted(d)
    BY DEF Define
  <2> QED BY <1>2, <1>5, <2>1 DEF DsCounted, TypeOK, CacheTypes
<1>10. counts' \in [Names -> Nat]
  <2>1. \A m \in Names : Occurrences(m, d.deps) \in Nat
    BY <1>5, OccurrencesType DEF Defs
  <2> QED BY <1>2, <2>1 DEF Define, TypeOK, CacheTypes
<1>11. TypeOK'
  BY <1>2, <1>3, <1>8, <1>9, <1>10 DEF TypeOK, RegisterTypes, SourceTypes, CacheTypes,
     LoaderTypes, CallTypes, Define, registerVars, sourceVars, callVars
<1>12. OthersStay(t) /\ pc'[t] = "define" /\ owner' = t
  BY <1>1, <1>2 DEF Define, callVars, OthersStay
<1>13. GroupCell(t)' = GroupCell(t) /\ HasPartition(request[t])' = HasPartition(request[t])
  BY DEF Define, GroupCell, KeyOf, HasPartition, callVars
<1>14. \A i \in 1..Len(namesLeft') : Mapping[GroupCell(t)][namesLeft'[i]] # None
  BY <1>2, <1>3 DEF Define, Drafted, TypeOK, LoaderTypes
<1>15. Drafted(t)'
  BY <1>2, <1>4, <1>8, <1>13, <1>14, NoneIsNoRecord DEF Drafted, Define
<1>16. Progress(t)' /\ Requested(t)' /\ ~loaded'[request'[t].exp]
  BY <1>2 DEF Progress, Requested, HasPartition, KeyOf, Define, registerVars, callVars
<1>17. ThreadOK(t)'
  BY <1>12, <1>15, <1>16 DEF ThreadOK, InCall
<1> QED BY <1>2, <1>11, <1>12, <1>17, QuietStep DEF Define

\* A store that differs only for experiments not yet loaded.
LEMMA SuspendedKeep ==
    ASSUME IInv, register' = register,
           NEW c \in Cells, ~loaded[c[1]], NEW e, store' = [store EXCEPT ![c] = e],
           \A x \in Exps : loaded[x] => loaded'[x],
           NEW u \in Threads, pc[u] = "callback"
    PROVE  KeepsCall(u)
<1>1. Requested(u) /\ Evaluating(u) /\ request[u] \in Requests
  BY CellType DEF IInv, ThreadOK, InCall, Requested
<1>2. CellOf(u) \in Cells /\ CellOf(u)[1] = request[u].exp /\ request[u].exp \in Exps
  BY <1>1, CellType, RequestType DEF IInv, Requested, Evaluating, CellOf
<1>3. CellOf(u) # c
  BY <1>1, <1>2 DEF Evaluating
<1>4. store'[CellOf(u)] = store[CellOf(u)]
  BY <1>2, <1>3 DEF IInv, TypeOK, RegisterTypes
<1> QED BY <1>1, <1>2, <1>4 DEF Requested, Evaluating, KeepsCall

\* The draft becomes the group's partition.  Besides reset and init only
\* this step replaces a stored partition: nobody evaluates in the experiment, it is
\* not loaded.
LEMMA StoreGroupStep ==
    ASSUME IInv, NEW t \in Threads, StoreGroup(t)
    PROVE  IInv'
<1> DEFINE c == GroupCell(t)
           all == GroupList[request[t].exp]
           done == Len(all) - Len(groupsLeft)
<1>1. pc[t] = "define" /\ store' = [store EXCEPT ![c] = draft]
  BY DEF StoreGroup, Holds
<1>2. /\ TypeOK /\ owner = t /\ Requested(t) /\ Progress(t) /\ Drafted(t)
      /\ request[t] \in Requests /\ ~loaded[request[t].exp] /\ draft \in Entry
  BY <1>1, Loader DEF Loading, Drafted, TypeOK, LoaderTypes
<1>3. c \in Cells /\ c[1] = request[t].exp /\ c = <<request[t].exp, Head(groupsLeft), KeyOf(request[t])>>
  BY <1>2, CellType DEF Drafted, Requested, GroupCell
<1>4. request[t].exp \in Exps /\ all \in Seq(Groups)
  BY <1>2, RequestType, HandlerAssumption
<1>5. /\ groupsLeft \in Seq(Groups) /\ Len(groupsLeft) > 0 /\ Head(groupsLeft) = groupsLeft[1]
      /\ groupsLeft' = Tail(groupsLeft) /\ Len(groupsLeft') = Len(groupsLeft) - 1
      /\ groupsLeft' \in Seq(Groups)
      /\ \A i \in 1..Len(groupsLeft') : groupsLeft'[i] = groupsLeft[i + 1]
  BY <1>2, HeadTailProperties DEF Drafted, TypeOK, LoaderTypes, StoreGroup
<1>6. store' \in [Cells -> Entry \cup {None}] /\ store'[c] # None
  BY <1>1, <1>2, <1>3, NoneIsNoRecord DEF TypeOK, RegisterTypes
<1>7. \A x \in Cells : x # c => store'[x] = store[x]
  BY <1>1, <1>2, <1>3 DEF TypeOK, RegisterTypes
<1>8. TypeOK'
  <2>1. RegisterTypes'
    BY <1>2, <1>6 DEF TypeOK, RegisterTypes, StoreGroup
  <2>2. LoaderTypes'
    BY <1>2, <1>5 DEF TypeOK, LoaderTypes, StoreGroup
  <2>3. CallTypes'
    BY <1>2 DEF TypeOK, CallTypes, PcStates, StoreGroup, Goto
  <2> QED BY <1>2, <2>1, <2>2, <2>3 DEF TypeOK, SourceTypes, CacheTypes, StoreGroup,
             sourceVars, cacheVars
<1>9. LoadedComplete'
  <2>1. ASSUME NEW x \in Exps, NEW k \in Keys, NEW i \in DOMAIN GroupList[x],
               store[<<x, GroupList[x][i], k>>] # None
        PROVE  store'[<<x, GroupList[x][i], k>>] # None
    <3>1. GroupList[x] \in Seq(Groups)
      BY HandlerAssumption
    <3>2. <<x, GroupList[x][i], k>> \in Cells
      BY <3>1 DEF Cells
    <3> QED BY <1>6, <1>7, <2>1, <3>2
  <2> QED BY <2>1 DEF IInv, LoadedComplete, StoreGroup
<1>10. StoreOK'
  BY <1>1, <1>2, <1>3, <1>7 DEF IInv, StoreOK, Drafted, TypeOK, RegisterTypes
<1>11. Progress(t)'
  <2>1. request'[t] = request[t]
    BY DEF StoreGroup
  <2>2. done >= 0 /\ HasPartition(request[t]) /\ all[done + 1] = Head(groupsLeft)
    BY <1>2, <1>5 DEF Progress, Drafted
  <2>3. /\ Len(all) \in Nat /\ Len(groupsLeft) \in Nat /\ Len(groupsLeft) > 0
        /\ done \in Nat /\ done + 1 <= Len(all)
    <3>1. Len(all) \in Nat /\ Len(groupsLeft) \in Nat /\ Len(groupsLeft) > 0
      BY <1>4, <1>5, LenProperties
    <3> QED BY <2>2, <3>1
  <2>4. ASSUME NEW i \in 1..(done + 1)
        PROVE  store'[<<request[t].exp, all[i], KeyOf(request[t])>>] # None
    <3>1. CASE i = done + 1
      BY <1>3, <1>6, <2>2, <3>1
    <3>2. CASE i # done + 1
      <4>1. i \in 1..done /\ i \in 1..Len(all)
        BY <2>3, <3>2
      <4>2. store[<<request[t].exp, all[i], KeyOf(request[t])>>] # None
        BY <1>2, <4>1 DEF Progress
      <4>3. <<request[t].exp, all[i], KeyOf(request[t])>> \in Cells
        BY <1>2, <1>4, <2>2, <4>1, RequestType, ElementOfSeq DEF Cells
      <4> QED BY <1>6, <1>7, <4>2, <4>3
    <3> QED BY <3>1, <3>2
  <2>5. Len(all) - Len(groupsLeft') = done + 1
    BY <1>5, <2>3
  <2>6. ASSUME NEW i \in 1..Len(groupsLeft')
        PROVE  groupsLeft'[i] = all[(done + 1) + i]
    <3>1. i + 1 \in 1..Len(groupsLeft) /\ groupsLeft'[i] = groupsLeft[i + 1]
      BY <1>5, <2>3, <2>6
    <3>2. groupsLeft[i + 1] = all[done + (i + 1)]
      BY <1>2, <3>1 DEF Progress
    <3>3. i \in Nat
      BY <1>5, <2>3, <2>6
    <3>4. \A a, b \in Nat : a + (b + 1) = (a + 1) + b
      OBVIOUS
    <3> QED BY <2>3, <3>1, <3>2, <3>3, <3>4
  <2>7. HasPartition(request'[t]) /\ KeyOf(request'[t]) = KeyOf(request[t])
    BY <2>1, <2>2
  <2>8. done + 1 > 0 /\ done + 1 >= 0
    BY <2>3
  <2> DEFINE now == done + 1
  <2> HIDE DEF now
  <2>9. now = Len(all) - Len(groupsLeft')
    BY <2>5 DEF now
  <2>10. /\ now >= 0 /\ \A i \in 1..Len(groupsLeft') : groupsLeft'[i] = all[now + i]
         /\ \A i \in 1..now : store'[<<request[t].exp, all[i], KeyOf(request[t])>>] # None
    BY <2>4, <2>6, <2>8 DEF now
  <2> QED BY <2>1, <2>7, <2>9, <2>10 DEF Progress
<1>12. OthersStay(t) /\ pc'[t] = "load" /\ owner' = t
  BY <1>2 DEF StoreGroup, Goto, TypeOK, CallTypes, OthersStay
<1>13. ThreadOK(t)'
  BY <1>2, <1>11, <1>12 DEF ThreadOK, InCall, Requested, StoreGroup
<1>14. \A u \in Threads \ {t} : pc[u] = "callback" => KeepsCall(u)
  BY <1>1, <1>2, <1>3, SuspendedKeep DEF StoreGroup
<1> QED BY <1>2, <1>8, <1>9, <1>10, <1>12, <1>13, <1>14, OwnStep

\* is_loaded is set when every group has been stored.
LEMMA FinishLoadStep ==
    ASSUME IInv, NEW t \in Threads, FinishLoad(t)
    PROVE  IInv'
<1> DEFINE x == request[t].exp
<1>1. pc[t] = "load" /\ groupsLeft = << >>
  BY DEF FinishLoad, Holds
<1>2. /\ TypeOK /\ owner = t /\ Requested(t) /\ Progress(t)
      /\ request[t] \in Requests /\ ~loaded[x]
  BY <1>1, Loader DEF Loading
<1>3. x \in Exps /\ x \in register /\ GroupList[x] \in Seq(Groups)
  BY <1>2, RequestType, HandlerAssumption DEF Requested
<1>4. /\ loaded' \in [Exps -> BOOLEAN] /\ loaded'[x]
      /\ \A y \in Exps : y # x => loaded'[y] = loaded[y]
  BY <1>2, <1>3 DEF FinishLoad, TypeOK, RegisterTypes
<1>5. TypeOK'
  BY <1>2, <1>4 DEF TypeOK, RegisterTypes, SourceTypes, CacheTypes, LoaderTypes, CallTypes,
     PcStates, FinishLoad, Goto, sourceVars, cacheVars, loaderVars
<1>6. \E k \in Keys : \A i \in DOMAIN GroupList[x] : store[<<x, GroupList[x][i], k>>] # None
  <2>1. /\ DOMAIN GroupList[x] = 1..Len(GroupList[x]) /\ Len(GroupList[x]) \in Nat
        /\ Len(groupsLeft) = 0
    BY <1>1, <1>3, EmptySeq, LenProperties
  <2>2. CASE GroupList[x] = << >>
    <3>1. PICK v \in Values : TRUE
      BY HandlerAssumption
    <3>2. [p \in PartitionVars |-> v] \in Keys
      BY DEF Keys
    <3> QED BY <2>1, <2>2, <3>2
  <2>3. CASE GroupList[x] # << >>
    <3>1. Len(GroupList[x]) > 0
      BY <1>3, <2>3, EmptySeq
    <3>2. HasPartition(request[t]) /\ KeyOf(request[t]) \in Keys
      BY <1>2, <2>1, <3>1, RequestType DEF Progress
    <3>3. \A i \in DOMAIN GroupList[x] : store[<<x, GroupList[x][i], KeyOf(request[t])>>] # None
      BY <1>2, <2>1 DEF Progress
    <3> QED BY <3>2, <3>3
  <2> QED BY <2>2, <2>3
<1>7. LoadedComplete' /\ StoreOK'
  <2>1. register' = register /\ store' = store
    BY DEF FinishLoad
  <2>2. ASSUME NEW y \in Exps, loaded'[y]
        PROVE  /\ y \in register
               /\ \E k \in Keys : \A i \in DOMAIN GroupList[y] :
                      store[<<y, GroupList[y][i], k>>] # None
    BY <1>3, <1>4, <1>6, <2>2 DEF IInv, LoadedComplete
  <2> QED BY <2>1, <2>2 DEF IInv, LoadedComplete, StoreOK
<1>8. OthersStay(t) /\ pc'[t] = "lookup" /\ owner' = t
  BY <1>2 DEF FinishLoad, Goto, TypeOK, CallTypes, OthersStay
<1>9. ThreadOK(t)'
  BY <1>2, <1>4, <1>8 DEF ThreadOK, InCall, Loading, Requested, FinishLoad
<1>10. ASSUME NEW u \in Threads \ {t}, pc[u] = "callback" PROVE KeepsCall(u)
  <2>1. Requested(u) /\ Evaluating(u) /\ request[u] \in Requests
    BY <1>10, CellType DEF IInv, ThreadOK, InCall, Requested
  <2> QED BY <1>4, <2>1, RequestType DEF Requested, Evaluating, KeepsCall, FinishLoad
<1> QED BY <1>2, <1>5, <1>7, <1>8, <1>9, <1>10, OwnStep

\* The steps of load_experiment.
LEMMA LoadSteps ==
    ASSUME IInv, NEW t \in Threads,
           LoadGroup(t) \/ Define(t) \/ StoreGroup(t) \/ LoadThrow(t) \/ FinishLoad(t)
    PROVE  IInv'
<1>1. CASE LoadThrow(t)
  BY <1>1, Throwing DEF LoadThrow, LoadFails, Holds
<1> QED BY <1>1, LoadGroupStep, DefineStep, StoreGroupStep, FinishLoadStep
(***************************************************************************)
(* Finding the mapping                                                     *)
(***************************************************************************)
\* What a call that locates or evaluates a mapping knows of its partition.
LEMMA Located ==
    ASSUME IInv, NEW t \in Threads, Requested(t), Locatable(t)
    PROVE  /\ request[t] \in Requests /\ CellOf(t) \in Cells
           /\ store[CellOf(t)] \in Entry /\ Env(t) \in Envs
           /\ Mapping[CellOf(t)] # None
           /\ \A n \in Names : Present(CellOf(t), n) =>
                  /\ Mapping[CellOf(t)][n] # None /\ Mapping[CellOf(t)][n] \in Defs
                  /\ store[CellOf(t)].slots[n] \in Nat
                  /\ Mapping[CellOf(t)][n].type = "DATA_SOURCE" =>
                         /\ Mapping[CellOf(t)][n].source \in Sources
                         /\ Mapping[CellOf(t)][n].args \in Args
<1>1. request[t] \in Requests /\ CellOf(t) \in Cells
  BY CellType DEF IInv, Requested, Locatable
<1>2. store[CellOf(t)] # None /\ store[CellOf(t)] \in Entry /\ Env(t) \in Envs
  BY <1>1 DEF IInv, TypeOK, RegisterTypes, Locatable, Env, Entry
<1>3. /\ Mapping[CellOf(t)] # None
      /\ \A n \in Names : Present(CellOf(t), n) => Mapping[CellOf(t)][n] # None
  BY <1>1, <1>2 DEF IInv, StoreOK, Present
<1>4. \A n \in Names : Present(CellOf(t), n) => store[CellOf(t)].slots[n] \in Nat
  BY <1>2 DEF Entry, Present
<1> QED BY <1>1, <1>2, <1>3, <1>4, DefType

\* The frame of a mapping about to be evaluated.
LEMMA OpenType ==
    ASSUME NEW c, NEW n \in Names, Mapping[c][n] \in Defs
    PROVE  Open(c, n) \in Frame /\ Open(c, n).name = n
BY DEF Open, Frame, Defs

\* The caller's indices and attributes go into the globals of its partition; the
\* mappings stored beside them stay.
LEMMA LookupMissStep ==
    ASSUME IInv, NEW t \in Threads, NEW n \in Names, LookupMiss(t, n)
    PROVE  IInv'
<1> DEFINE c == CellOf(t)
<1>1. /\ pc[t] = "lookup" /\ owner = t /\ Locatable(t) /\ Present(c, n) /\ TypeOK
      /\ Requested(t) /\ loaded[request[t].exp] /\ HasPartition(request[t])
  BY DEF IInv, ThreadOK, LookupMiss, Holds, Found, Locatable
<1>2. /\ request[t] \in Requests /\ c \in Cells /\ store[c] \in Entry
      /\ Mapping[c][n] \in Defs
  BY <1>1, Located
<1>3. PICK env : env = [v \in Vars |-> IF Gives(request[t], v) THEN request[t].vals[v]
                                                       ELSE store[c].env[v]]
  OBVIOUS
<1>4. env \in Envs
  BY <1>2, <1>3, RequestType DEF Envs, Entry
<1>5. store' = [store EXCEPT ![c] = [@ EXCEPT !.env = env]]
  BY <1>3 DEF LookupMiss
<1>6. /\ store'[c] \in Entry /\ store'[c].slots = store[c].slots
      /\ \A x \in Cells : x # c => store'[x] = store[x]
      /\ store' \in [Cells -> Entry \cup {None}]
  BY <1>1, <1>2, <1>4, <1>5 DEF TypeOK, RegisterTypes, Entry
<1>7. /\ store[c] # None /\ store'[c] # None
      /\ \A x \in Cells : /\ store'[x] # None <=> store[x] # None
                          /\ store[x] # None => store'[x].slots = store[x].slots
  BY <1>2, <1>6, NoneIsNoRecord
<1>8. LoadedComplete'
  <2>1. ASSUME NEW x \in Exps, NEW k \in Keys, NEW i \in DOMAIN GroupList[x],
               store[<<x, GroupList[x][i], k>>] # None
        PROVE  store'[<<x, GroupList[x][i], k>>] # None
    <3>1. GroupList[x] \in Seq(Groups)
      BY HandlerAssumption
    <3>2. <<x, GroupList[x][i], k>> \in Cells
      BY <3>1 DEF Cells
    <3> QED BY <1>7, <2>1, <3>2
  <2> QED BY <2>1 DEF IInv, LoadedComplete, LookupMiss
<1>9. StoreOK'
  BY <1>7 DEF IInv, StoreOK
<1>10. frames'[t] = <<Open(c, n)>> /\ <<Open(c, n)>> \in Seq(Frame)
  BY <1>1, <1>2, OpenType DEF LookupMiss, TypeOK, CallTypes
<1>11. OthersStay(t) /\ pc'[t] = "eval" /\ owner' = t
  BY <1>1 DEF LookupMiss, Goto, TypeOK, CallTypes, OthersStay
<1>12. TypeOK'
  <2>1. CallTypes'
    BY <1>1, <1>10 DEF TypeOK, CallTypes, PcStates, LookupMiss, Goto
  <2> QED BY <1>1, <1>6, <2>1 DEF TypeOK, RegisterTypes, SourceTypes, CacheTypes,
             LoaderTypes, LookupMiss, sourceVars, cacheVars, loaderVars
<1>13. Evaluating(t)'
  <2>1. CellOf(t)' = c /\ request' = request /\ loaded' = loaded
    BY DEF LookupMiss, CellOf, KeyOf
  <2>2. store'[c] # None /\ store'[c].slots[n] # None
    BY <1>1, <1>2, <1>7 DEF Present
  <2>3. Len(frames'[t]) = 1 /\ frames'[t][1].name = n
    BY <1>2, <1>10, OpenType
  <2> QED BY <1>1, <2>1, <2>2, <2>3 DEF Evaluating, HasPartition, Present
<1>14. ThreadOK(t)'
  <2>1. frames'[t] # << >>
    BY <1>10, EmptySeq
  <2>2. Requested(t)'
    BY <1>1 DEF Requested, LookupMiss
  <2> QED BY <1>11, <1>13, <2>1, <2>2 DEF ThreadOK, Loading, NoFrames
<1>15. ASSUME NEW u \in Threads \ {t}, pc[u] = "callback" PROVE KeepsCall(u)
  <2>1. Requested(u) /\ Evaluating(u) /\ request[u] \in Requests /\ CellOf(u) \in Cells
    BY <1>15, CellType DEF IInv, ThreadOK, InCall, Requested, Evaluating
  <2> QED BY <1>7, <2>1 DEF Requested, Evaluating, KeepsCall, LookupMiss
<1> QED BY <1>1, <1>8, <1>9, <1>11, <1>12, <1>14, <1>15, OwnStep

\* The steps of the path lookup and of the mapping cache.
LEMMA LookupSteps ==
    ASSUME IInv, NEW t \in Threads,
           LookupThrow(t) \/ \E n \in Names : LookupHit(t, n) \/ LookupMiss(t, n)
    PROVE  IInv'
<1>1. CASE LookupThrow(t)
  BY <1>1, Throwing DEF LookupThrow, Holds
<1>2. ASSUME NEW n \in Names, LookupHit(t, n) PROVE IInv'
  <2>1. mappingCache[n] \in Reply /\ owner = t
    BY <1>2 DEF IInv, TypeOK, CacheTypes, LookupHit, Holds
  <2>2. SourceTypes' /\ CacheTypes' /\ LoaderTypes'
    BY <1>2 DEF IInv, TypeOK, SourceTypes, CacheTypes, LoaderTypes, LookupHit,
       sourceVars, cacheVars, loaderVars
  <2> QED BY <1>2, <2>1, <2>2, Returning DEF LookupHit
<1> QED BY <1>1, <1>2, LookupMissStep
(***************************************************************************)
(* Evaluating                                                              *)
(***************************************************************************)
\* What a call knows of the mapping on top of its stack.
LEMMA Evaluator ==
    ASSUME IInv, NEW t \in Threads, pc[t] \in InCall
    PROVE  /\ TypeOK /\ Requested(t) /\ Locatable(t) /\ Evaluating(t)
           /\ request[t] \in Requests /\ CellOf(t) \in Cells /\ Env(t) \in Envs
           /\ Mapping[CellOf(t)] # None
           /\ frames[t] \in Seq(Frame)
           /\ frames[t] # NoFrames =>
                  /\ Top(t) \in Frame /\ Present(CellOf(t), Top(t).name)
                  /\ TopDef(t) \in Defs
                  /\ store[CellOf(t)].slots[Top(t).name] \in Nat
                  /\ TopDef(t).type = "DATA_SOURCE" =>
                         TopDef(t).source \in Sources /\ TopDef(t).args \in Args
<1>1. TypeOK /\ Requested(t) /\ Evaluating(t) /\ frames[t] \in Seq(Frame)
  BY DEF IInv, ThreadOK, InCall, TypeOK, CallTypes
<1>2. Locatable(t)
  BY <1>1 DEF Evaluating, Locatable
<1>3. ASSUME frames[t] # NoFrames
      PROVE  Top(t) \in Frame /\ Top(t).name \in Names /\ Present(CellOf(t), Top(t).name)
  <2>1. Len(frames[t]) > 0 /\ Head(frames[t]) = frames[t][1] /\ Head(frames[t]) \in Frame
    BY <1>1, <1>3 DEF NoFrames
  <2> QED BY <1>1, <2>1 DEF Top, Frame, Evaluating
<1> QED BY <1>1, <1>2, <1>3, Located DEF TopDef

\* A step of an evaluation, after which the stack is as it should be and the
\* call is where its program counter says.
LEMMA EvalStep ==
    ASSUME IInv, NEW t \in Threads, pc[t] \in InCall, owner \in {t, None},
           UNCHANGED <<registerVars, sourceVars, loaderVars, request, ops>>,
           CacheTypes', CallTypes', OthersStay(t),
           NEW at \in InCall \cup {"undefined", "exhausted"}, pc'[t] = at,
           owner' = t \/ (at = "callback" /\ ~Exclusive),
           at = "exhausted" => Len(frames'[t]) >= StackLimit,
           \A i \in 1..Len(frames'[t]) : Present(CellOf(t), frames'[t][i].name),
           \A i \in 2..Len(frames'[t]) : frames'[t][i].rest # << >>,
           at \in {"eval", "callback", "post"} => frames'[t] # NoFrames,
           at \in {"callback", "post"} => TopDef(t)' = TopDef(t),
           at = "callback" => TopDef(t).type = "CUSTOM" \/ Fetching(t)',
           at = "post" => Fetching(t)' /\ fetch'[t].data # None,
           at = "resume" => /\ reply'[t] # None
                            /\ frames'[t] # NoFrames => Head(frames'[t]).rest # << >>
    PROVE  IInv'
<1>1. TypeOK'
  BY DEF IInv, TypeOK, RegisterTypes, SourceTypes, LoaderTypes,
     registerVars, sourceVars, loaderVars
<1>2. Requested(t) /\ Evaluating(t)
  BY Evaluator
<1>3. Requested(t)'
  BY <1>2 DEF Requested, registerVars
<1>4. Evaluating(t)'
  <2>1. CellOf(t)' = CellOf(t) /\ request' = request /\ loaded' = loaded /\ store' = store
    BY DEF registerVars, CellOf, KeyOf
  <2> QED BY <1>2, <2>1 DEF Evaluating, Present, HasPartition
<1>5. ThreadOK(t)'
  BY <1>3, <1>4 DEF ThreadOK, Loading, InCall, Top
<1> QED BY <1>1, <1>5, QuietStep

\* The top of the stack is done and delivers its value to the mapping below.
LEMMA Delivering ==
    ASSUME IInv, NEW t \in Threads, pc[t] \in InCall, owner \in {t, None}, owner' = t,
           frames[t] # NoFrames, NEW value \in Reply, Deliver(t, value),
           UNCHANGED <<registerVars, sourceVars, loaderVars, request, ops>>,
           CacheTypes', fetch' = fetch \/ fetch' = [fetch EXCEPT ![t] = None]
    PROVE  IInv'
<1>1. TypeOK /\ Evaluating(t) /\ frames[t] \in Seq(Frame)
  BY Evaluator
<1>2. /\ Tail(frames[t]) \in Seq(Frame) /\ Len(frames[t]) \in Nat
      /\ Len(Tail(frames[t])) = Len(frames[t]) - 1
      /\ \A i \in 1..Len(Tail(frames[t])) : Tail(frames[t])[i] = frames[t][i + 1]
  BY <1>1, HeadTailProperties, LenProperties DEF NoFrames
<1>3. /\ frames'[t] = Tail(frames[t]) /\ reply'[t] = value /\ pc'[t] = "resume"
      /\ OthersStay(t) /\ CallTypes'
  BY <1>1, <1>2 DEF TypeOK, CallTypes, Deliver, Goto, PcStates, OthersStay
<1>4. ASSUME NEW i \in 1..Len(frames'[t])
      PROVE  Present(CellOf(t), frames'[t][i].name) /\ frames'[t][i].rest # << >>
  <2>1. i + 1 \in 1..Len(frames[t]) /\ i + 1 \in 2..Len(frames[t])
        /\ frames'[t][i] = frames[t][i + 1]
    BY <1>2, <1>3, <1>4
  <2> QED BY <1>1, <2>1 DEF Evaluating
<1>5. Len(frames'[t]) \in Nat
  BY <1>2, <1>3, LenProperties
<1>6. \A i \in 2..Len(frames'[t]) : frames'[t][i].rest # << >>
  BY <1>4, <1>5
<1>7. frames'[t] # NoFrames => Head(frames'[t]).rest # << >>
  <2>1. ASSUME frames'[t] # NoFrames PROVE Len(frames'[t]) > 0 /\ Head(frames'[t]) = frames'[t][1]
    BY <1>2, <1>3, <2>1 DEF NoFrames
  <2> QED BY <1>4, <1>5, <2>1
<1>8. reply'[t] # None
  BY <1>3, NoneIsNoRecord
<1> QED BY <1>3, <1>4, <1>6, <1>7, <1>8, EvalStep DEF InCall

\* A frame on top of a stack makes a stack.
LEMMA PushType ==
    ASSUME NEW f \in Frame, NEW q \in Seq(Frame)
    PROVE  /\ <<f>> \o q \in Seq(Frame) /\ Len(<<f>> \o q) = Len(q) + 1 /\ Len(q) \in Nat
           /\ (<<f>> \o q)[1] = f
           /\ \A i \in 2..(Len(q) + 1) : i - 1 \in 1..Len(q) /\ (<<f>> \o q)[i] = q[i - 1]
<1>1. <<f>> \in Seq(Frame) /\ Len(<<f>>) = 1 /\ <<f>>[1] = f /\ Len(q) \in Nat
  BY LenProperties
<1> QED BY <1>1, ConcatProperties

\* A mapping asks for its next parameter.
LEMMA DependencyStep ==
    ASSUME IInv, NEW t \in Threads, EvalDependency(t)
    PROVE  IInv'
<1> DEFINE c == CellOf(t)
           n == Head(Top(t).rest)
           new == <<Open(c, n)>> \o frames[t]
<1>1. pc[t] = "eval" /\ owner = t /\ frames[t] # NoFrames /\ Top(t).rest # << >> /\ Present(c, n)
  BY DEF EvalDependency, AtFrame, Holds
<1>2. /\ TypeOK /\ Requested(t) /\ Locatable(t) /\ Evaluating(t)
      /\ frames[t] \in Seq(Frame) /\ Top(t) \in Frame
  BY <1>1, Evaluator DEF InCall
<1>3. n \in Names
  BY <1>1, <1>2 DEF Frame
<1>4. Open(c, n) \in Frame /\ Open(c, n).name = n
  BY <1>1, <1>2, <1>3, Located, OpenType
<1>5. /\ new \in Seq(Frame) /\ Len(new) = Len(frames[t]) + 1 /\ Len(frames[t]) \in Nat
      /\ new[1] = Open(c, n)
      /\ \A i \in 2..Len(new) : i - 1 \in 1..Len(frames[t]) /\ new[i] = frames[t][i - 1]
  BY <1>2, <1>4, PushType
<1>6. /\ frames'[t] = new /\ pc'[t] = "eval" /\ owner' = t /\ OthersStay(t) /\ CallTypes'
  BY <1>1, <1>2, <1>5 DEF TypeOK, CallTypes, EvalDependency, OthersStay
<1>7. ASSUME NEW i \in 1..Len(new) PROVE Present(c, new[i].name)
  <2>1. CASE i = 1
    BY <1>1, <1>4, <1>5, <2>1
  <2>2. CASE i # 1
    BY <1>2, <1>5, <2>2 DEF Evaluating
  <2> QED BY <2>1, <2>2
<1>8. ASSUME NEW i \in 2..Len(new) PROVE new[i].rest # << >>
  <2>1. CASE i = 2
    <3>1. new[2] = frames[t][1] /\ frames[t][1] = Top(t)
      BY <1>1, <1>2, <1>5, <2>1 DEF Top, NoFrames
    <3> QED BY <1>1, <2>1, <3>1
  <2>2. CASE i # 2
    <3>1. i - 1 \in 2..Len(frames[t]) /\ new[i] = frames[t][i - 1]
      BY <1>5, <2>2
    <3> QED BY <1>2, <3>1 DEF Evaluating
  <2> QED BY <2>1, <2>2
<1>9. new # NoFrames
  BY <1>5, EmptySeq DEF NoFrames
<1>10. CacheTypes'
  BY <1>2 DEF TypeOK, CacheTypes, EvalDependency, cacheVars
<1> HIDE DEF new
<1>11. /\ \A i \in 1..Len(frames'[t]) : Present(CellOf(t), frames'[t][i].name)
       /\ \A i \in 2..Len(frames'[t]) : frames'[t][i].rest # << >>
       /\ frames'[t] # NoFrames
  BY <1>6, <1>7, <1>8, <1>9
<1> QED BY <1>1, <1>6, <1>10, <1>11, EvalStep DEF InCall, EvalDependency

\* What a mapping adds to the value of its parameters.
LEMMA OwnItemType ==
    ASSUME NEW t \in Threads, Env(t) \in Envs, TopDef(t) \in Defs, Top(t) \in Frame
    PROVE  \A empty \in BOOLEAN :
               /\ OwnItem(t, empty) \in Item
               /\ \A data \in Data : [OwnItem(t, empty) EXCEPT !.data = data] \in Item
<1>1. Rendered(Env(t), TopDef(t).var) \in Values \cup {None}
  BY DEF Rendered, Envs, Defs
<1>2. Top(t).name \in Names
  BY DEF Frame
<1> QED BY <1>1, <1>2 DEF OwnItem, Item

\* VALUE, EXPR, DIM and INTERP return, and so does a custom function.
LEMMA CombineSteps ==
    ASSUME IInv, NEW t \in Threads, EvalCombine(t) \/ FunctionReturns(t)
    PROVE  IInv'
<1>0. PICK empty \in BOOLEAN : ReturnOwn(t, empty)
  <2>1. IsBlank(t) \in BOOLEAN
    BY DEF IsBlank
  <2> QED BY <2>1 DEF EvalCombine, FunctionReturns
<1> DEFINE value == [items |-> Top(t).items \cup {OwnItem(t, empty)}, empty |-> empty]
<1>1. /\ pc[t] \in InCall /\ owner \in {t, None} /\ owner' = t /\ Deliver(t, value)
      /\ UNCHANGED <<registerVars, sourceVars, cacheVars, loaderVars, request, fetch, ops>>
  BY <1>0 DEF EvalCombine, FunctionReturns, ReturnOwn, AtFrame, Holds, Retake, InCall
<1>2. frames[t] # NoFrames
  BY DEF IInv, ThreadOK, EvalCombine, AtFrame, FunctionReturns, Retake
<1>3. TypeOK /\ Env(t) \in Envs /\ TopDef(t) \in Defs /\ Top(t) \in Frame
  BY <1>1, <1>2, Evaluator
<1>4. value \in Reply
  BY <1>3, OwnItemType DEF Frame, Reply
<1>5. CacheTypes'
  BY <1>1, <1>3 DEF TypeOK, CacheTypes, cacheVars
<1> HIDE DEF value
<1> QED BY <1>1, <1>2, <1>4, <1>5, Delivering

\* A call that keeps its stack while it goes to a callback or comes back.
LEMMA SameStack ==
    ASSUME IInv, NEW t \in Threads, pc[t] \in {"eval", "callback"}, owner \in {t, None},
           frames[t] # NoFrames,
           UNCHANGED <<registerVars, sourceVars, cacheVars, loaderVars, request, frames, reply, ops>>,
           NEW at \in {"callback", "post", "undefined", "exhausted"}, Goto(t, at),
           owner' = t \/ (at = "callback" /\ ~Exclusive /\ owner' = None),
           at = "exhausted" => Len(frames[t]) >= StackLimit,
           NEW f \in Fetch \cup {None}, fetch' = [fetch EXCEPT ![t] = f],
           at = "callback" => TopDef(t).type = "CUSTOM" \/ (TopDef(t).type = "DATA_SOURCE" /\ f \in Fetch),
           at = "post" => TopDef(t).type = "DATA_SOURCE" /\ f \in Fetch /\ f.data # None
    PROVE  IInv'
<1>1. TypeOK /\ Evaluating(t)
  BY Evaluator DEF InCall
<1>2. pc'[t] = at /\ fetch'[t] = f /\ frames'[t] = frames[t] /\ OthersStay(t) /\ CallTypes'
  BY <1>1 DEF TypeOK, CallTypes, Goto, PcStates, OthersStay
<1>3. CacheTypes'
  BY <1>1 DEF TypeOK, CacheTypes, cacheVars
<1>4. TopDef(t)' = TopDef(t)
  BY DEF TopDef, Top, CellOf, KeyOf
<1>5. f \in Fetch /\ TopDef(t).type = "DATA_SOURCE" => Fetching(t)'
  BY <1>2, <1>4, NoneIsNoRecord DEF Fetching
<1> QED BY <1>1, <1>2, <1>3, <1>4, <1>5, EvalStep DEF InCall, Evaluating

\* The key of a data source request.
LEMMA KeyForType ==
    ASSUME IInv, NEW t \in Threads, pc[t] \in InCall, frames[t] # NoFrames,
           TopDef(t).type = "DATA_SOURCE"
    PROVE  KeyFor(t) \in DsKeys
<1>1. /\ request[t] \in Requests /\ Env(t) \in Envs
      /\ TopDef(t).source \in Sources /\ TopDef(t).args \in Args
  BY Evaluator
<1>2. ArgVar[TopDef(t).args] \in Vars \cup {None}
  BY <1>1, HandlerAssumption
<1>3. Rendered(Env(t), ArgVar[TopDef(t).args]) \in Values \cup {None}
  BY <1>1, <1>2 DEF Rendered, Envs
<1>4. RenderedArgs(t) \in Texts
  BY <1>1, <1>3, HandlerAssumption DEF RenderedArgs
<1>5. Sent(request[t], RenderedArgs(t)) \in Attrs
  BY <1>1, <1>4, RequestType
<1> QED BY <1>1, <1>4, <1>5 DEF KeyFor, DsKeys

\* The stack has no room for the parameter.
LEMMA ExhaustedStep ==
    ASSUME IInv, NEW t \in Threads, EvalExhausted(t)
    PROVE  IInv'
<1>1. /\ pc[t] = "eval" /\ owner = t /\ frames[t] # NoFrames /\ Len(frames[t]) >= StackLimit
      /\ Goto(t, "exhausted") /\ owner' = t
      /\ UNCHANGED <<registerVars, sourceVars, cacheVars, loaderVars, request, frames, fetch,
                     reply, ops>>
  BY DEF EvalExhausted, AtFrame, Holds
<1>2. fetch[t] \in Fetch \cup {None} /\ fetch' = [fetch EXCEPT ![t] = fetch[t]]
  BY <1>1 DEF IInv, TypeOK, CallTypes
<1> QED BY <1>1, <1>2, SameStack

\* A data source or a custom function is called, or the array is cached.
LEMMA CallOutSteps ==
    ASSUME IInv, NEW t \in Threads, EvalCallFunction(t) \/ EvalFetch(t)
    PROVE  IInv'
<1>1. pc[t] = "eval" /\ owner = t /\ frames[t] # NoFrames
  BY DEF EvalCallFunction, EvalFetch, AtFrame, Holds
<1>2. TypeOK
  BY DEF IInv
<1>3. CASE EvalCallFunction(t)
  <2>1. fetch[t] \in Fetch \cup {None} /\ fetch' = [fetch EXCEPT ![t] = fetch[t]]
    BY <1>2, <1>3 DEF TypeOK, CallTypes, EvalCallFunction
  <2>2. owner' = t \/ (~Exclusive /\ owner' = None)
    BY <1>1, <1>3 DEF EvalCallFunction, Lend
  <2> QED BY <1>1, <1>3, <2>1, <2>2, SameStack DEF EvalCallFunction
<1>4. CASE EvalFetch(t)
  <2> DEFINE hit == cacheEnabled /\ dsCache[KeyFor(t)] # None
             f == [key |-> KeyFor(t), hit |-> hit,
                   data |-> IF hit THEN dsCache[KeyFor(t)] ELSE None]
  <2>1. TopDef(t).type = "DATA_SOURCE" /\ KeyFor(t) \in DsKeys
    BY <1>1, <1>4, KeyForType DEF EvalFetch, InCall
  <2>2. hit \in BOOLEAN /\ dsCache[KeyFor(t)] \in Data \cup {None}
    BY <1>2, <2>1 DEF TypeOK, CacheTypes
  <2>3. f \in Fetch /\ (hit => f.data # None)
    BY <2>1, <2>2 DEF Fetch
  <2>4. fetch' = [fetch EXCEPT ![t] = f]
    BY <1>4 DEF EvalFetch
  <2>5. UNCHANGED <<registerVars, sourceVars, cacheVars, loaderVars, request, frames, reply, ops>>
    BY <1>4 DEF EvalFetch
  <2>6. \/ hit /\ Goto(t, "post") /\ UNCHANGED owner
        \/ Goto(t, "callback") /\ Lend
        \/ Goto(t, "undefined") /\ UNCHANGED owner
    BY <1>4 DEF EvalFetch
  <2> HIDE DEF hit, f
  <2>7. CASE hit /\ Goto(t, "post") /\ UNCHANGED owner
    BY <1>1, <2>1, <2>3, <2>4, <2>5, <2>7, SameStack
  <2>8. CASE Goto(t, "callback") /\ Lend
    <3>1. owner' = t \/ (~Exclusive /\ owner' = None)
      BY <1>1, <2>8 DEF Lend
    <3> QED BY <1>1, <2>1, <2>3, <2>4, <2>5, <2>8, <3>1, SameStack
  <2>9. CASE Goto(t, "undefined") /\ UNCHANGED owner
    BY <1>1, <2>1, <2>3, <2>4, <2>5, <2>9, SameStack
  <2> QED BY <2>6, <2>7, <2>8, <2>9
<1> QED BY <1>3, <1>4

\* What a call suspended in a data source comes back with.
LEMMA FetchType ==
    ASSUME IInv, NEW t \in Threads, pc[t] \in {"callback", "post"},
           TopDef(t).type = "DATA_SOURCE"
    PROVE  /\ frames[t] # NoFrames /\ fetch[t] \in Fetch
           /\ pc[t] = "post" => fetch[t].data \in Data
<1>1. frames[t] # NoFrames /\ fetch[t] # None /\ (pc[t] = "post" => fetch[t].data # None)
  BY DEF IInv, ThreadOK, Fetching
<1>2. fetch[t] \in Fetch
  BY <1>1 DEF IInv, TypeOK, CallTypes
<1> QED BY <1>1, <1>2 DEF Fetch

\* A data source returns an array.
LEMMA SourceReturnsStep ==
    ASSUME IInv, NEW t \in Threads, SourceReturns(t)
    PROVE  IInv'
<1>1. /\ pc[t] = "callback" /\ owner \in {t, None} /\ owner' = t
      /\ TopDef(t).type = "DATA_SOURCE"
  BY DEF SourceReturns, Retake
<1>2. frames[t] # NoFrames /\ fetch[t] \in Fetch
  BY <1>1, FetchType
<1>3. TypeOK /\ store[CellOf(t)].slots[Top(t).name] \in Nat
  BY <1>1, <1>2, Evaluator DEF InCall
<1>4. PICK empty \in BOOLEAN : fetch' = [fetch EXCEPT ![t].data =
           [object |-> store[CellOf(t)].slots[Top(t).name],
            text |-> fetch[t].key.text, attrs |-> fetch[t].key.attrs,
            posts |-> << >>, empty |-> empty]]
  BY DEF SourceReturns
<1> DEFINE data == [object |-> store[CellOf(t)].slots[Top(t).name],
                    text |-> fetch[t].key.text, attrs |-> fetch[t].key.attrs,
                    posts |-> << >>, empty |-> empty]
           f == [fetch[t] EXCEPT !.data = data]
<1>5. data \in Data
  BY <1>2, <1>3 DEF Fetch, DsKeys, Data
<1>6. f \in Fetch /\ f.data # None
  BY <1>2, <1>5, NoneIsNoRecord DEF Fetch
<1>7. fetch' = [fetch EXCEPT ![t] = f]
  BY <1>4
<1> HIDE DEF f
<1> QED BY <1>1, <1>2, <1>6, <1>7, SameStack DEF SourceReturns

\* A sliced and scaled array.
LEMMA ProcessedType ==
    ASSUME IInv, NEW t \in Threads, PostProcess(t)
    PROVE  Processed(TopDef(t), fetch[t].data, Env(t)) \in Data
<1>1. pc[t] = "post" /\ frames[t] # NoFrames
  BY DEF PostProcess, AtFrame, Holds
<1>2. TopDef(t).type = "DATA_SOURCE"
  BY <1>1 DEF IInv, ThreadOK, Fetching
<1>3. fetch[t] \in Fetch /\ fetch[t].data \in Data
  BY <1>1, <1>2, FetchType
<1>4. Env(t) \in Envs /\ TopDef(t) \in Defs
  BY <1>1, Evaluator DEF InCall
<1>5. Rendered(Env(t), TopDef(t).slice) \in Values \cup {None}
  BY <1>4 DEF Rendered, Envs, Defs
<1> DEFINE post == [scaled |-> TopDef(t).scale, at |-> Rendered(Env(t), TopDef(t).slice)]
<1>6. post \in Post
  BY <1>4, <1>5 DEF Post, Defs
<1>7. Processed(TopDef(t), fetch[t].data, Env(t))
          \in {fetch[t].data, [fetch[t].data EXCEPT !.posts = Append(@, post)]}
  BY DEF Processed
<1> HIDE DEF post
<1>8. Append(fetch[t].data.posts, post) \in Seq(Post)
  BY <1>3, <1>6 DEF Data
<1>9. [fetch[t].data EXCEPT !.posts = Append(@, post)] \in Data
  BY <1>3, <1>8 DEF Data
<1> QED BY <1>3, <1>7, <1>9

\* The array is sliced, scaled, perhaps cached, and delivered.
LEMMA PostProcessStep ==
    ASSUME IInv, NEW t \in Threads, PostProcess(t)
    PROVE  IInv'
<1> DEFINE data == Processed(TopDef(t), fetch[t].data, Env(t))
           value == [items |-> {[OwnItem(t, data.empty) EXCEPT !.data = data]}, empty |-> data.empty]
<1>1. /\ pc[t] = "post" /\ owner = t /\ owner' = t /\ frames[t] # NoFrames
      /\ Deliver(t, value) /\ fetch' = [fetch EXCEPT ![t] = None]
      /\ UNCHANGED <<registerVars, sourceVars, loaderVars, request, ops>>
  BY DEF PostProcess, AtFrame, Holds
<1>2. TopDef(t).type = "DATA_SOURCE"
  BY <1>1 DEF IInv, ThreadOK, Fetching
<1>3. fetch[t] \in Fetch /\ fetch[t].data \in Data
  BY <1>1, <1>2, FetchType
<1>4. TypeOK /\ Env(t) \in Envs /\ TopDef(t) \in Defs /\ Top(t) \in Frame
  BY <1>1, Evaluator DEF InCall
<1>5. data \in Data
  BY ProcessedType
<1>6. value \in Reply
  <2>1. data.empty \in BOOLEAN
    BY <1>5 DEF Data
  <2>2. [OwnItem(t, data.empty) EXCEPT !.data = data] \in Item
    BY <1>4, <1>5, <2>1, OwnItemType
  <2> QED BY <2>1, <2>2 DEF Reply
<1>7. CacheTypes'
  <2>1. dsCache' = [dsCache EXCEPT ![fetch[t].key] = data] \/ dsCache' = dsCache
    BY DEF PostProcess
  <2>2. dsCache' \in [DsKeys -> Data \cup {None}]
    BY <1>3, <1>4, <1>5, <2>1 DEF TypeOK, CacheTypes, Fetch
  <2> QED BY <1>4, <2>2 DEF TypeOK, CacheTypes, PostProcess
<1> HIDE DEF value
<1> QED BY <1>1, <1>6, <1>7, Delivering DEF InCall

\* A parameter is delivered to the mapping that asked for it.
LEMMA ResumeStep ==
    ASSUME IInv, NEW t \in Threads, Resume(t)
    PROVE  IInv'
<1>1. /\ pc[t] = "resume" /\ owner = t /\ frames[t] # NoFrames /\ Top(t).rest # << >>
      /\ reply[t] # None /\ OthersStay(t) /\ owner' = t
      /\ UNCHANGED <<registerVars, sourceVars, cacheVars, loaderVars, request, fetch, reply, ops>>
  BY DEF IInv, ThreadOK, Resume, AtFrame, Holds, OthersStay, TypeOK, CallTypes, Goto
<1>2. TypeOK /\ Evaluating(t) /\ frames[t] \in Seq(Frame) /\ Top(t) \in Frame
  BY <1>1, Evaluator DEF InCall
<1>3. reply[t] \in Reply
  BY <1>1, <1>2 DEF TypeOK, CallTypes
<1>4. CASE TopDef(t).type = "EXPR" /\ reply[t].empty
  <2>1. Deliver(t, reply[t])
    BY <1>1, <1>2, <1>4 DEF Resume, Deliver, Goto, TypeOK, CallTypes
  <2>2. CacheTypes'
    BY <1>1, <1>2 DEF TypeOK, CacheTypes, cacheVars
  <2> QED BY <1>1, <1>3, <2>1, <2>2, Delivering DEF InCall
<1>5. CASE ~(TopDef(t).type = "EXPR" /\ reply[t].empty)
  <2> DEFINE top == [Top(t) EXCEPT !.rest  = Tail(@),
                                   !.items = @ \cup reply[t].items,
                                   !.empty = @ \/ reply[t].empty]
             new == <<top>> \o Tail(frames[t])
  <2>1. frames' = [frames EXCEPT ![t] = new] /\ Goto(t, "eval")
    BY <1>5 DEF Resume
  <2>2. Tail(Top(t).rest) \in Seq(Names)
    BY <1>1, <1>2 DEF Frame
  <2>3. top \in Frame /\ top.name = Top(t).name
    BY <1>2, <1>3, <2>2 DEF Frame, Reply
  <2>4. /\ Tail(frames[t]) \in Seq(Frame) /\ Len(frames[t]) \in Nat
        /\ Len(Tail(frames[t])) = Len(frames[t]) - 1
        /\ \A i \in 1..Len(Tail(frames[t])) : Tail(frames[t])[i] = frames[t][i + 1]
        /\ Top(t) = frames[t][1] /\ Len(frames[t]) > 0
    BY <1>1, <1>2, HeadTailProperties, LenProperties DEF NoFrames, Top
  <2> HIDE DEF top
  <2>5. /\ new \in Seq(Frame) /\ Len(new) = Len(frames[t]) /\ new[1] = top
        /\ \A i \in 2..Len(new) : new[i] = frames[t][i]
    <3>1. /\ new \in Seq(Frame) /\ Len(new) = Len(Tail(frames[t])) + 1 /\ new[1] = top
          /\ \A i \in 2..Len(new) : i - 1 \in 1..Len(Tail(frames[t]))
                                    /\ new[i] = Tail(frames[t])[i - 1]
      BY <2>3, <2>4, PushType
    <3> QED BY <2>4, <3>1
  <2>6. \A i \in 1..Len(new) : Present(CellOf(t), new[i].name)
    BY <1>2, <2>3, <2>4, <2>5 DEF Evaluating
  <2>7. \A i \in 2..Len(new) : new[i].rest # << >>
    BY <1>2, <2>5 DEF Evaluating
  <2>8. new # NoFrames
    BY <2>4, <2>5, EmptySeq DEF NoFrames
  <2> HIDE DEF new
  <2>9. frames'[t] = new /\ pc'[t] = "eval" /\ CallTypes'
    BY <1>1, <1>2, <2>1, <2>5 DEF TypeOK, CallTypes, Goto, PcStates
  <2>10. CacheTypes'
    BY <1>1, <1>2 DEF TypeOK, CacheTypes, cacheVars
  <2> QED BY <1>1, <2>6, <2>7, <2>8, <2>9, <2>10, EvalStep DEF InCall
<1> QED BY <1>4, <1>5

\* The tree is evaluated, map() returns.
LEMMA FinishStep ==
    ASSUME IInv, NEW t \in Threads, NEW n \in Names, Finish(t, n)
    PROVE  IInv'
<1>1. pc[t] = "resume" /\ owner = t /\ TypeOK
  BY DEF IInv, Finish, Holds
<1>2. reply[t] \in Reply
  BY <1>1 DEF IInv, ThreadOK, TypeOK, CallTypes
<1>3. SourceTypes' /\ CacheTypes' /\ LoaderTypes'
  BY <1>1, <1>2 DEF TypeOK, SourceTypes, CacheTypes, LoaderTypes, Finish,
     sourceVars, loaderVars
<1> QED BY <1>1, <1>2, <1>3, Returning DEF Finish

\* The steps of an evaluation.
LEMMA EvalSteps ==
    ASSUME IInv, NEW t \in Threads,
           \/ EvalDependency(t) \/ EvalExhausted(t) \/ EvalCombine(t) \/ EvalThrow(t)
           \/ EvalCallFunction(t) \/ FunctionReturns(t)
           \/ EvalFetch(t) \/ SourceReturns(t) \/ CallbackThrows(t)
           \/ PostProcess(t) \/ PostThrow(t) \/ Resume(t)
           \/ \E n \in Names : Finish(t, n)
    PROVE  IInv'
<1>1. CASE EvalThrow(t)
  BY <1>1, Throwing DEF EvalThrow, AtFrame, Holds
<1>2. CASE PostThrow(t)
  BY <1>2, Throwing DEF PostThrow, AtFrame, Holds
<1>3. CASE CallbackThrows(t)
  BY <1>3, Throwing DEF CallbackThrows
<1> QED BY <1>1, <1>2, <1>3, DependencyStep, ExhaustedStep, CombineSteps, CallOutSteps,
           SourceReturnsStep, PostProcessStep, ResumeStep, FinishStep

(***************************************************************************)
(* The theorems                                                            *)
(***************************************************************************)
LEMMA Initially == Init => IInv
<1> SUFFICES ASSUME Init PROVE IInv
  OBVIOUS
<1>1. TypeOK
  <2>1. RegisterTypes /\ SourceTypes /\ CacheTypes
    BY DEF Init, RegisterTypes, SourceTypes, CacheTypes, BlankStore
  <2>2. LoaderTypes
    BY DEF Init, LoaderTypes
  <2>3. CallTypes
    BY DEF Init, CallTypes, PcStates, NoFrames
  <2>4. ops \in 0..MaxOps
    BY HandlerAssumption DEF Init
  <2> QED BY <2>1, <2>2, <2>3, <2>4 DEF TypeOK
<1>2. LoadedComplete /\ StoreOK
  BY DEF Init, LoadedComplete, StoreOK, BlankStore
<1>3. \A t \in Threads : ThreadOK(t)
  BY DEF Init, ThreadOK, Loading, InCall
<1> QED BY <1>1, <1>2, <1>3 DEF IInv

\* Every step keeps the invariant.
LEMMA Inductive == IInv /\ [Next]_vars => IInv'
<1> SUFFICES ASSUME IInv, [Next]_vars PROVE IInv'
  OBVIOUS
<1>1. CASE UNCHANGED vars
  <2>1. UNCHANGED <<registerVars, sourceVars, cacheVars, loaderVars, callVars, ops>>
    BY <1>1 DEF vars
  <2> QED BY <2>1, Stuttering
<1>2. CASE Invoke
  BY <1>2, RegistrySteps, ResetStep, LocateStep, CallMapStep DEF Invoke
<1>3. ASSUME NEW t \in Threads, Step(t) PROVE IInv'
  BY <1>3, InitSteps, LoadSteps, LookupSteps, EvalSteps DEF Step
<1> QED BY <1>1, <1>2, <1>3 DEF Next, Quiet

\* Types, loading discipline, what the store holds, and where each call stands,
\* at every moment of map(), init() and the other operations of MappingHandler.
THEOREM InductiveInvariant == Spec => []IInv
BY Initially, Inductive, PTL DEF Spec

\* Every variable keeps its type, in particular the stacks of the evaluations
\* and the arrays in the two caches.
THEOREM TypeCorrect == Spec => []TypeOK
<1>1. IInv => TypeOK
  BY DEF IInv
<1> QED BY <1>1, InductiveInvariant, PTL

\* load_experiment: an experiment is marked loaded only when every one of its
\* groups is stored for one partition, whatever earlier attempts left behind.
THEOREM LoadingIsComplete == Spec => []LoadedComplete
<1>1. IInv => LoadedComplete
  BY DEF IInv
<1> QED BY <1>1, InductiveInvariant, PTL

\* map(): the experiment, the partition and every mapping under evaluation stay
\* in place until the call returns, also while it waits in a data source or a
\* custom function and other callers run.
THEOREM ReferencesStayValid == Spec => []ReferencesValid
<1>1. ASSUME IInv PROVE ReferencesValid
  <2>1. ASSUME NEW t \in Threads, pc[t] \in InCall
        PROVE  /\ request[t].exp \in register /\ loaded[request[t].exp]
               /\ HasPartition(request[t]) /\ store[CellOf(t)] # None
               /\ \A i \in DOMAIN frames[t] : Present(CellOf(t), frames[t][i].name)
    <3>1. Requested(t) /\ Evaluating(t) /\ DOMAIN frames[t] = 1..Len(frames[t])
      BY <1>1, <2>1, Evaluator, LenProperties
    <3> QED BY <3>1 DEF Requested, Evaluating
  <2> QED BY <2>1 DEF ReferencesValid
<1> QED BY <1>1, InductiveInvariant, PTL
=============================================================================
