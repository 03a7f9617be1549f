-------------------------- MODULE HandlerCacheProofs --------------------------
(***************************************************************************)
(* Proofs, for every instance of the constants, of what the data source     *)
(* cache, the counts and the store of MappingHandler hold, and of what a   *)
(* call may count on while it is suspended.                                *)
(***************************************************************************)
EXTENDS HandlerProofs

(***************************************************************************)
(* What a step may touch                                                   *)
(***************************************************************************)
\* The actions that change one of the caches or a count.
LEMMA CacheWriters ==
    ASSUME [Next]_vars
    PROVE  \/ UNCHANGED <<counts, dsCount, mappingCache, dsCache>>
           \/ \E t \in Threads : Define(t) \/ PostProcess(t) \/ \E n \in Names : Finish(t, n)
<1>1. CASE UNCHANGED vars
  BY <1>1 DEF vars, cacheVars
<1>2. CASE Invoke
  BY <1>2 DEF Invoke, RegisterSource, UnregisterSource, RegisterThrough, Reset, InitIgnored,
     InitLocate, CallMap, cacheVars
<1>3. ASSUME NEW t \in Threads, Step(t)
      PROVE  \/ UNCHANGED <<counts, dsCount, mappingCache, dsCache>>
             \/ Define(t) \/ PostProcess(t) \/ \E n \in Names : Finish(t, n)
  <2>1. CASE InitRegister(t) \/ InitThrow(t) \/ InitReturn(t)
    BY <2>1 DEF InitRegister, InitThrow, InitReturn, cacheVars
  <2>2. CASE LoadGroup(t) \/ StoreGroup(t) \/ LoadThrow(t) \/ FinishLoad(t)
    BY <2>2 DEF LoadGroup, StoreGroup, LoadThrow, FinishLoad, cacheVars
  <2>3. CASE LookupThrow(t) \/ \E n \in Names : LookupHit(t, n) \/ LookupMiss(t, n)
    BY <2>3 DEF LookupThrow, LookupHit, LookupMiss, cacheVars
  <2>4. CASE EvalDependency(t) \/ EvalExhausted(t) \/ EvalCombine(t) \/ EvalThrow(t) \/ EvalCallFunction(t)
             \/ FunctionReturns(t)
    BY <2>4 DEF EvalDependency, EvalExhausted, EvalCombine, ReturnOwn, EvalThrow, EvalCallFunction, FunctionReturns,
       cacheVars
  <2>5. CASE EvalFetch(t) \/ SourceReturns(t) \/ CallbackThrows(t) \/ PostThrow(t) \/ Resume(t)
    BY <2>5 DEF EvalFetch, SourceReturns, CallbackThrows, PostThrow, Resume, cacheVars
  <2> QED BY <1>3, <2>1, <2>2, <2>3, <2>4, <2>5 DEF Step
<1> QED BY <1>1, <1>2, <1>3 DEF Next, Quiet

\* A step of one caller is not seen in the call of another.
LEMMA StepIsOwn ==
    ASSUME IInv, NEW t \in Threads, Step(t)
    PROVE  /\ OthersStay(t) /\ owner \in {t, None} /\ cacheEnabled' = cacheEnabled
           /\ \A u \in Threads \ {t} : reply'[u] = reply[u]
<1> USE DEF OthersStay, Holds, Goto, Leave, Throw, callVars, cacheVars
<1>1. CallTypes
  BY DEF IInv, TypeOK
<1>2. CASE InitRegister(t) \/ InitThrow(t) \/ InitReturn(t)
  BY <1>1, <1>2 DEF InitRegister, InitThrow, InitReturn, CallTypes
<1>3. CASE LoadGroup(t) \/ Define(t) \/ StoreGroup(t) \/ LoadThrow(t) \/ FinishLoad(t)
  BY <1>1, <1>3 DEF LoadGroup, Define, StoreGroup, LoadThrow, LoadFails, FinishLoad, CallTypes
<1>4. CASE LookupThrow(t) \/ \E n \in Names : LookupHit(t, n) \/ LookupMiss(t, n) \/ Finish(t, n)
  BY <1>1, <1>4 DEF LookupThrow, LookupHit, LookupMiss, Finish, CallTypes
<1>5. CASE EvalDependency(t) \/ EvalExhausted(t) \/ EvalCombine(t) \/ EvalThrow(t) \/ EvalCallFunction(t)
           \/ FunctionReturns(t)
  BY <1>1, <1>5 DEF EvalDependency, EvalExhausted, EvalCombine, ReturnOwn, EvalThrow, EvalCallFunction,
     FunctionReturns, AtFrame, Retake, Deliver, CallTypes
<1>6. CASE EvalFetch(t) \/ SourceReturns(t) \/ CallbackThrows(t)
  BY <1>1, <1>6 DEF EvalFetch, SourceReturns, CallbackThrows, AtFrame, Retake, CallTypes
<1>7. CASE PostProcess(t) \/ PostThrow(t) \/ Resume(t)
  BY <1>1, <1>7 DEF PostProcess, PostThrow, Resume, AtFrame, Deliver, CallTypes
<1> QED BY <1>2, <1>3, <1>4, <1>5, <1>6, <1>7 DEF Step

(***************************************************************************)
(* Counts, and what is fetched                                             *)
(***************************************************************************)
\* What is counted is never forgotten, not even by reset.
LEMMA CountsGrow ==
    ASSUME IInv, [Next]_vars
    PROVE  /\ \A n \in Names : counts'[n] >= counts[n]
           /\ \A k \in Sources \X Args : dsCount'[k] >= dsCount[k]
<1>1. CacheTypes
  BY DEF IInv, TypeOK
<1>2. CASE UNCHANGED <<counts, dsCount>>
  BY <1>1, <1>2 DEF CacheTypes
<1>3. ASSUME NEW t \in Threads, Define(t)
      PROVE  /\ \A n \in Names : counts'[n] >= counts[n]
             /\ \A k \in Sources \X Args : dsCount'[k] >= dsCount[k]
  <2> DEFINE n == Head(namesLeft)
             d == Mapping[GroupCell(t)][n]
  <2>1. pc[t] = "define" /\ namesLeft # << >>
    BY <1>3 DEF Define, Holds
  <2>2. TypeOK /\ Requested(t) /\ Drafted(t)
    BY <2>1, Loader DEF Loading
  <2>3. n \in Names /\ n = namesLeft[1] /\ Len(namesLeft) > 0
    BY <2>1, <2>2, HeadTailProperties DEF TypeOK, LoaderTypes
  <2>4. GroupCell(t) \in Cells /\ Mapping[GroupCell(t)] # None /\ d # None
    BY <2>2, <2>3, CellType DEF Drafted, Requested
  <2>5. d \in Defs /\ (d.type = "DATA_SOURCE" => d.source \in Sources /\ d.args \in Args)
    BY <2>3, <2>4, DefType
  <2>6. \A m \in Names : Occurrences(m, d.deps) \in Nat
    BY <2>5, OccurrencesType DEF Defs
  <2>7. \A m \in Names : counts'[m] = counts[m] + Occurrences(m, d.deps) + (IF m = n THEN 1 ELSE 0)
    BY <1>3 DEF Define
  <2>8. dsCount' = DsCounted(d)
    BY <1>3 DEF Define
  <2> HIDE DEF d, n
  <2>9. \A k \in Sources \X Args : dsCount'[k] >= dsCount[k]
    BY <1>1, <2>5, <2>8 DEF DsCounted, CacheTypes
  <2>10. ASSUME NEW m \in Names PROVE counts'[m] >= counts[m]
    BY <1>1, <2>6, <2>7 DEF CacheTypes
  <2> QED BY <2>9, <2>10
<1>4. ASSUME NEW t \in Threads, PostProcess(t) \/ \E n \in Names : Finish(t, n)
      PROVE  UNCHANGED <<counts, dsCount>>
  BY <1>4 DEF PostProcess, Finish
<1> QED BY <1>2, <1>3, <1>4, CacheWriters

\* A call suspended in a data source, or back from it, holds the array of the key
\* it asked for.
FetchOK(t) ==
    pc[t] \in {"callback", "post"} /\ TopDef(t).type = "DATA_SOURCE" =>
        LET key  == fetch[t].key
            data == fetch[t].data
        IN  /\ key.source = TopDef(t).source
            /\ key.attrs = Sent(request[t], key.text)
            /\ pc[t] = "post" =>
                 /\ data.text = key.text /\ data.attrs = key.attrs
                 /\ Len(data.posts) <= 1
                 /\ ~fetch[t].hit => data.posts = << >>

CacheInv ==
    /\ IInv
    /\ CacheKeyFaithful
    /\ \A t \in Threads : FetchOK(t)

\* What PostProcess makes of an array keeps its origin.
LEMMA ProcessedOrigin ==
    ASSUME NEW d, NEW data \in Data, NEW e
    PROVE  /\ Processed(d, data, e).text = data.text
           /\ Processed(d, data, e).attrs = data.attrs
           /\ Processed(d, data, e).empty = data.empty
           /\ Processed(d, data, e).object = data.object
           /\ data.posts = << >> => Len(Processed(d, data, e).posts) <= 1
<1> DEFINE post == [scaled |-> d.scale, at |-> Rendered(e, d.slice)]
           more == [data EXCEPT !.posts = Append(@, post)]
<1>1. /\ more.text = data.text /\ more.attrs = data.attrs
      /\ more.empty = data.empty /\ more.object = data.object
      /\ more.posts = Append(data.posts, post)
  BY DEF Data
<1>2. Processed(d, data, e) \in {data, more}
  BY DEF Processed
<1>3. data.posts = << >> => Len(data.posts) = 0 /\ Len(Append(data.posts, post)) = 1
  OBVIOUS
<1> HIDE DEF more, post
<1> QED BY <1>1, <1>2, <1>3

\* The array a call delivers, and whether it is put into the cache.
LEMMA PostProcessCaches ==
    ASSUME IInv, NEW t \in Threads, PostProcess(t)
    PROVE  /\ TopDef(t).type = "DATA_SOURCE" /\ pc[t] = "post"
           /\ fetch[t] \in Fetch /\ fetch[t].data \in Data /\ fetch[t].key \in DsKeys
           /\ mappingCache' = mappingCache /\ counts' = counts /\ dsCount' = dsCount
           /\ \/ dsCache' = dsCache
              \/ /\ ~fetch[t].hit
                 /\ dsCount[<<TopDef(t).source, TopDef(t).args>>] >= CacheThreshold
                 /\ dsCache' = [dsCache EXCEPT ![fetch[t].key] =
                                   Processed(TopDef(t), fetch[t].data, Env(t))]
<1>1. pc[t] = "post" /\ TopDef(t).type = "DATA_SOURCE"
  BY DEF IInv, ThreadOK, Fetching, PostProcess, AtFrame, Holds
<1>2. fetch[t] \in Fetch /\ fetch[t].data \in Data
  BY <1>1, FetchType
<1>3. fetch[t].key \in DsKeys
  BY <1>2 DEF Fetch
<1> QED BY <1>1, <1>2, <1>3 DEF PostProcess

\* What is put into the data source cache was fetched for its key.
LEMMA KeyFaithfulStep ==
    ASSUME CacheInv, [Next]_vars
    PROVE  CacheKeyFaithful'
<1>1. IInv /\ CacheTypes /\ CacheKeyFaithful
  BY DEF CacheInv, IInv, TypeOK
<1>2. CASE dsCache' = dsCache
  BY <1>1, <1>2 DEF CacheKeyFaithful
<1>3. ASSUME NEW t \in Threads, PostProcess(t) PROVE CacheKeyFaithful'
  <2> DEFINE key  == fetch[t].key
             data == Processed(TopDef(t), fetch[t].data, Env(t))
  <2>1. CASE dsCache' # dsCache
    <3>1. /\ key \in DsKeys /\ fetch[t].data \in Data /\ ~fetch[t].hit
          /\ dsCache' = [dsCache EXCEPT ![key] = data]
      BY <1>1, <1>3, <2>1, PostProcessCaches
    <3>2. /\ fetch[t].data.text = key.text /\ fetch[t].data.attrs = key.attrs
          /\ fetch[t].data.posts = << >>
      BY <1>1, <1>3, <3>1, PostProcessCaches DEF CacheInv, FetchOK
    <3>3. data.text = key.text /\ data.attrs = key.attrs /\ Len(data.posts) <= 1
      BY <3>1, <3>2, ProcessedOrigin
    <3> HIDE DEF key, data
    <3>4. ASSUME NEW k \in DsKeys, dsCache'[k] # None
          PROVE  /\ dsCache'[k].text = k.text /\ dsCache'[k].attrs = k.attrs
                 /\ Len(dsCache'[k].posts) <= 1
      <4>1. CASE k = key
        <5>1. dsCache'[k] = data
          BY <1>1, <3>1, <4>1 DEF CacheTypes
        <5> QED BY <3>3, <4>1, <5>1
      <4>2. CASE k # key
        <5>1. dsCache'[k] = dsCache[k]
          BY <1>1, <3>1, <4>2 DEF CacheTypes
        <5> QED BY <1>1, <3>4, <5>1 DEF CacheKeyFaithful
      <4> QED BY <4>1, <4>2
    <3> QED BY <3>4 DEF CacheKeyFaithful
  <2> QED BY <1>2, <2>1
<1>4. ASSUME NEW t \in Threads, Define(t) \/ \E n \in Names : Finish(t, n)
      PROVE  dsCache' = dsCache
  BY <1>4 DEF Define, Finish
<1> QED BY <1>2, <1>3, <1>4, CacheWriters

\* The steps after which a call waits for a data source or a function, has its
\* array, or has called a source that is gone.
LEMMA CalledOut ==
    ASSUME IInv, NEW t \in Threads, Step(t), pc'[t] \in {"callback", "post", "undefined"}
    PROVE  EvalCallFunction(t) \/ EvalFetch(t) \/ SourceReturns(t)
<1>1. CallTypes
  BY DEF IInv, TypeOK
<1>2. CASE InitRegister(t) \/ InitThrow(t) \/ InitReturn(t)
  BY <1>1, <1>2 DEF InitRegister, InitThrow, InitReturn, Holds, Throw, Leave, Goto, callVars,
     CallTypes
<1>3. CASE LoadGroup(t) \/ Define(t) \/ StoreGroup(t) \/ LoadThrow(t) \/ FinishLoad(t)
  BY <1>1, <1>3 DEF LoadGroup, Define, StoreGroup, LoadThrow, FinishLoad, Holds, Throw, Leave,
     Goto, callVars, CallTypes
<1>4. CASE LookupThrow(t) \/ \E n \in Names : LookupHit(t, n) \/ LookupMiss(t, n) \/ Finish(t, n)
  BY <1>1, <1>4 DEF LookupThrow, LookupHit, LookupMiss, Finish, Throw, Leave, Goto, CallTypes
<1>5. CASE EvalDependency(t) \/ EvalExhausted(t) \/ EvalCombine(t) \/ EvalThrow(t) \/ FunctionReturns(t)
  BY <1>1, <1>5 DEF EvalDependency, EvalExhausted, EvalCombine, ReturnOwn, EvalThrow, FunctionReturns, AtFrame, Holds,
     Deliver, Throw, Leave, Goto, CallTypes
<1>6. CASE CallbackThrows(t) \/ PostProcess(t) \/ PostThrow(t) \/ Resume(t)
  BY <1>1, <1>6 DEF CallbackThrows, PostProcess, PostThrow, Resume, AtFrame, Holds, Deliver,
     Throw, Leave, Goto, CallTypes
<1> QED BY <1>2, <1>3, <1>4, <1>5, <1>6 DEF Step

\* What an evaluation's fetch is made of.
LEMMA FetchMade ==
    ASSUME IInv, NEW t \in Threads, EvalFetch(t)
    PROVE  /\ KeyFor(t) \in DsKeys /\ TopDef(t).type = "DATA_SOURCE" /\ TopDef(t)' = TopDef(t)
           /\ fetch'[t].key = KeyFor(t)
           /\ fetch'[t].hit = (cacheEnabled /\ dsCache[KeyFor(t)] # None)
           /\ pc'[t] = "post" => cacheEnabled /\ dsCache[KeyFor(t)] # None
                                 /\ fetch'[t].data = dsCache[KeyFor(t)]
<1>1. pc[t] = "eval" /\ frames[t] # NoFrames /\ TopDef(t).type = "DATA_SOURCE" /\ CallTypes
  BY DEF IInv, TypeOK, EvalFetch, AtFrame, Holds
<1>2. KeyFor(t) \in DsKeys
  BY <1>1, KeyForType DEF InCall
<1>3. TopDef(t)' = TopDef(t)
  BY DEF EvalFetch, TopDef, Top, CellOf, KeyOf
<1> DEFINE hit == cacheEnabled /\ dsCache[KeyFor(t)] # None
           f == [key |-> KeyFor(t), hit |-> hit,
                 data |-> IF hit THEN dsCache[KeyFor(t)] ELSE None]
<1>4. fetch'[t] = f
  BY <1>1 DEF EvalFetch, CallTypes
<1>5. pc'[t] = "post" => hit
  BY <1>1 DEF EvalFetch, Goto, CallTypes
<1> QED BY <1>1, <1>2, <1>3, <1>4, <1>5

\* The array a data source hands over is labelled with the key it was asked for.
LEMMA SourceLabels ==
    ASSUME IInv, NEW t \in Threads, SourceReturns(t)
    PROVE  /\ pc[t] = "callback" /\ TopDef(t).type = "DATA_SOURCE" /\ TopDef(t)' = TopDef(t)
           /\ fetch[t] \in Fetch
           /\ fetch'[t].key = fetch[t].key /\ fetch'[t].hit = fetch[t].hit
           /\ fetch'[t].data.text = fetch[t].key.text
           /\ fetch'[t].data.attrs = fetch[t].key.attrs /\ fetch'[t].data.posts = << >>
           /\ fetch'[t].data.object = store[CellOf(t)].slots[Top(t).name]
<1>1. pc[t] = "callback" /\ TopDef(t).type = "DATA_SOURCE" /\ CallTypes
  BY DEF IInv, TypeOK, SourceReturns, Retake
<1>2. fetch[t] \in Fetch
  BY <1>1, FetchType
<1>3. TopDef(t)' = TopDef(t)
  BY DEF SourceReturns, TopDef, Top, CellOf, KeyOf
<1>4. PICK empty \in BOOLEAN : fetch' = [fetch EXCEPT ![t].data =
           [object |-> store[CellOf(t)].slots[Top(t).name],
            text |-> fetch[t].key.text, attrs |-> fetch[t].key.attrs,
            posts |-> << >>, empty |-> empty]]
  BY DEF SourceReturns
<1> DEFINE data == [object |-> store[CellOf(t)].slots[Top(t).name],
                    text |-> fetch[t].key.text, attrs |-> fetch[t].key.attrs,
                    posts |-> << >>, empty |-> empty]
<1>5. fetch'[t] = [fetch[t] EXCEPT !.data = data]
  BY <1>1, <1>4 DEF CallTypes
<1>6. fetch'[t].key = fetch[t].key /\ fetch'[t].hit = fetch[t].hit /\ fetch'[t].data = data
  BY <1>2, <1>5 DEF Fetch
<1> QED BY <1>1, <1>2, <1>3, <1>6

\* A call that stays where it is keeps its fetch.
LEMMA FetchUndisturbed ==
    ASSUME NEW u \in Threads, FetchOK(u), pc'[u] = pc[u], request'[u] = request[u],
           frames'[u] = frames[u], fetch'[u] = fetch[u]
    PROVE  FetchOK(u)'
BY DEF FetchOK, TopDef, Top, CellOf, KeyOf, Sent

LEMMA FetchStep ==
    ASSUME CacheInv, [Next]_vars
    PROVE  \A t \in Threads : FetchOK(t)'
<1>1. IInv /\ CacheKeyFaithful /\ \A t \in Threads : FetchOK(t)
  BY DEF CacheInv
<1>2. ASSUME NEW t \in Threads, Step(t) PROVE FetchOK(t)'
  <2>1. CASE EvalCallFunction(t)
    <3>1. TopDef(t)' = TopDef(t) /\ TopDef(t).type = "CUSTOM"
      BY <2>1 DEF EvalCallFunction, TopDef, Top, CellOf, KeyOf
    <3> QED BY <3>1 DEF FetchOK
  <2>2. CASE EvalFetch(t)
    <3>1. request'[t] = request[t]
      BY <2>2 DEF EvalFetch
    <3>2. /\ KeyFor(t).source = TopDef(t).source
          /\ KeyFor(t).attrs = Sent(request[t], KeyFor(t).text)
      BY DEF KeyFor
    <3>3. dsCache[KeyFor(t)] # None =>
            /\ dsCache[KeyFor(t)].text = KeyFor(t).text
            /\ dsCache[KeyFor(t)].attrs = KeyFor(t).attrs
            /\ Len(dsCache[KeyFor(t)].posts) <= 1
      BY <1>1, <2>2, FetchMade DEF CacheKeyFaithful
    <3> QED BY <1>1, <2>2, <3>1, <3>2, <3>3, FetchMade DEF FetchOK, Sent
  <2>3. CASE SourceReturns(t)
    <3>1. request'[t] = request[t]
      BY <2>3 DEF SourceReturns
    <3>2. /\ fetch[t].key.source = TopDef(t).source
          /\ fetch[t].key.attrs = Sent(request[t], fetch[t].key.text)
      BY <1>1, <2>3, SourceLabels DEF FetchOK
    <3>3. Len(<< >>) <= 1
      OBVIOUS
    <3> QED BY <1>1, <2>3, <3>1, <3>2, <3>3, SourceLabels DEF FetchOK, Sent
  <2> QED BY <1>1, <1>2, <2>1, <2>2, <2>3, CalledOut DEF FetchOK
<1>3. ASSUME NEW t \in Threads, Step(t), NEW u \in Threads \ {t} PROVE FetchOK(u)'
  BY <1>1, <1>3, StepIsOwn, FetchUndisturbed DEF OthersStay
<1>4. CASE UNCHANGED vars
  BY <1>1, <1>4, FetchUndisturbed DEF vars, callVars
<1>5. ASSUME Invoke, NEW u \in Threads PROVE FetchOK(u)'
  <2>1. CASE UNCHANGED callVars
    BY <1>1, <2>1, FetchUndisturbed DEF callVars
  <2>2. ASSUME NEW t \in Threads, NEW c \in Configs, InitLocate(t, c) PROVE FetchOK(u)'
    <3>1. u = t => pc'[u] = "init"
      BY <1>1, <2>2 DEF IInv, TypeOK, CallTypes, InitLocate, Goto
    <3>2. u # t => pc'[u] = pc[u]
      BY <1>1, <2>2 DEF IInv, TypeOK, CallTypes, InitLocate, Goto
    <3>3. request' = request /\ frames' = frames /\ fetch' = fetch
      BY <2>2 DEF InitLocate
    <3>4. CASE u = t
      BY <3>1, <3>4 DEF FetchOK
    <3>5. CASE u # t
      BY <1>1, <3>2, <3>3, <3>5, FetchUndisturbed
    <3> QED BY <3>4, <3>5
  <2>3. ASSUME NEW t \in Threads, NEW r \in Requests, CallMap(t, r) PROVE FetchOK(u)'
    <3>1. u = t => pc'[u] \in {"idle", "lookup", "load"}
      BY <1>1, <2>3 DEF IInv, TypeOK, CallTypes, CallMap, Goto
    <3>2. u # t => pc'[u] = pc[u] /\ request'[u] = request[u]
      BY <1>1, <2>3 DEF IInv, TypeOK, CallTypes, CallMap, Goto
    <3>3. frames' = frames /\ fetch' = fetch
      BY <2>3 DEF CallMap
    <3>4. CASE u = t
      BY <3>1, <3>4 DEF FetchOK
    <3>5. CASE u # t
      BY <1>1, <3>2, <3>3, <3>5, FetchUndisturbed
    <3> QED BY <3>4, <3>5
  <2> QED BY <1>5, <2>1, <2>2, <2>3 DEF Invoke, RegisterSource, UnregisterSource,
             RegisterThrough, Reset, InitIgnored
<1> QED BY <1>2, <1>3, <1>4, <1>5 DEF Next, Quiet

LEMMA CacheInitially == Init => CacheInv
<1> SUFFICES ASSUME Init PROVE CacheInv
  OBVIOUS
<1>1. CacheKeyFaithful
  BY DEF Init, CacheKeyFaithful, DsKeys
<1>2. \A t \in Threads : FetchOK(t)
  BY DEF Init, FetchOK
<1> QED BY <1>1, <1>2, Initially DEF CacheInv

LEMMA CacheInductive == CacheInv /\ [Next]_vars => CacheInv'
<1> SUFFICES ASSUME CacheInv, [Next]_vars PROVE CacheInv'
  OBVIOUS
<1>1. IInv'
  BY Inductive DEF CacheInv
<1> QED BY <1>1, KeyFaithfulStep, FetchStep DEF CacheInv

THEOREM CacheInvariant == Spec => []CacheInv
BY CacheInitially, CacheInductive, PTL DEF Spec

\* DataSourceMapping::map: the array kept for a key was fetched for that key, with
\* any number of callers running while it was fetched, and was sliced and scaled at
\* most once.
THEOREM CacheKeysFaithful == Spec => []CacheKeyFaithful
<1>1. CacheInv => CacheKeyFaithful
  BY DEF CacheInv
<1> QED BY <1>1, CacheInvariant, PTL

(***************************************************************************)
(* The store                                                               *)
(***************************************************************************)
\* The steps that change the store.
LEMMA StoreWriters ==
    ASSUME IInv, [Next]_vars
    PROVE  \/ store' = store
           \/ store' = BlankStore /\ \A t \in Threads : pc[t] \notin InCall
           \/ \E t \in Threads : StoreGroup(t) \/ \E n \in Names : LookupMiss(t, n)
<1>1. CASE UNCHANGED vars
  BY <1>1 DEF vars, registerVars
<1>2. CASE Invoke
  <2>1. CASE Reset
    <3>1. owner = None /\ Exclusive
      BY <2>1, ResetIsExclusive, HandlerAssumption DEF Reset, Start
    <3>2. \A t \in Threads : pc[t] = "idle"
      BY <3>1, NoneDistinct DEF IInv, ThreadOK, TypeOK, CallTypes, PcStates
    <3> QED BY <2>1, <3>2 DEF Reset, InCall
  <2>2. ASSUME NEW t \in Threads, NEW c \in Configs, InitLocate(t, c)
        PROVE  store' = BlankStore /\ \A u \in Threads : pc[u] \notin InCall
    BY <2>2 DEF InitLocate, IInv, ThreadOK, Requested, InCall
  <2> QED BY <1>2, <2>1, <2>2 DEF Invoke, RegisterSource, UnregisterSource, RegisterThrough,
             InitIgnored, CallMap, registerVars
<1>3. ASSUME NEW t \in Threads, Step(t)
      PROVE  store' = store \/ StoreGroup(t) \/ \E n \in Names : LookupMiss(t, n)
  <2>1. CASE InitRegister(t) \/ InitThrow(t) \/ InitReturn(t)
    BY <2>1 DEF InitRegister, InitThrow, InitReturn, registerVars
  <2>2. CASE LoadGroup(t) \/ Define(t) \/ LoadThrow(t) \/ FinishLoad(t)
    BY <2>2 DEF LoadGroup, Define, LoadThrow, FinishLoad, registerVars
  <2>3. CASE LookupThrow(t) \/ \E n \in Names : LookupHit(t, n) \/ Finish(t, n)
    BY <2>3 DEF LookupThrow, LookupHit, Finish, registerVars
  <2>4. CASE EvalDependency(t) \/ EvalExhausted(t) \/ EvalCombine(t) \/ EvalThrow(t) \/ EvalCallFunction(t)
             \/ FunctionReturns(t)
    BY <2>4 DEF EvalDependency, EvalExhausted, EvalCombine, ReturnOwn, EvalThrow, EvalCallFunction, FunctionReturns,
       registerVars
  <2>5. CASE EvalFetch(t) \/ SourceReturns(t) \/ CallbackThrows(t) \/ PostProcess(t)
             \/ PostThrow(t) \/ Resume(t)
    BY <2>5 DEF EvalFetch, SourceReturns, CallbackThrows, PostProcess, PostThrow, Resume,
       registerVars
  <2> QED BY <1>3, <2>1, <2>2, <2>3, <2>4, <2>5 DEF Step
<1> QED BY <1>1, <1>2, <1>3 DEF Next, Quiet

\* A lookup writes into the globals of its partition and nowhere else.
LEMMA LookupWrites ==
    ASSUME IInv, NEW t \in Threads, NEW n \in Names, LookupMiss(t, n)
    PROVE  /\ store'[CellOf(t)].env = [v \in Vars |-> IF Gives(request[t], v)
                                          THEN request[t].vals[v] ELSE Env(t)[v]]
           /\ \A c \in Cells :
                /\ store[c] # None <=> store'[c] # None
                /\ store[c] # None => /\ store'[c].slots = store[c].slots
                                      /\ store'[c].made = store[c].made
                /\ c # CellOf(t) => store'[c] = store[c]
<1> DEFINE c == CellOf(t)
           env == [v \in Vars |-> IF Gives(request[t], v) THEN request[t].vals[v]
                                                       ELSE store[c].env[v]]
           entry == [store[c] EXCEPT !.env = env]
<1>1. pc[t] = "lookup" /\ owner = t /\ Locatable(t) /\ TypeOK /\ Requested(t)
  BY DEF IInv, ThreadOK, LookupMiss, Holds
<1>2. c \in Cells /\ store[c] \in Entry /\ store \in [Cells -> Entry \cup {None}]
  BY <1>1, Located DEF TypeOK, RegisterTypes
<1>3. request[t] \in Requests /\ env \in Envs
  BY <1>1, <1>2, Located, RequestType DEF Entry, Envs
<1>4. store' = [store EXCEPT ![c] = entry]
  BY DEF LookupMiss
<1>5. entry \in Entry /\ entry.env = env /\ entry.slots = store[c].slots /\ entry.made = store[c].made
  BY <1>2, <1>3 DEF Entry
<1> HIDE DEF entry, env
<1>6. store'[c] = entry /\ \A x \in Cells : x # c => store'[x] = store[x]
  BY <1>2, <1>4
<1>7. store'[c].env = env
  BY <1>5, <1>6
<1> QED BY <1>2, <1>5, <1>6, <1>7, NoneIsNoRecord DEF env, Env

\* No step replaces the mapping objects a call in progress walks through.
LEMMA EntriesStay ==
    ASSUME IInv, [Next]_vars, NEW t \in Threads, pc[t] \in InCall
    PROVE  /\ store'[CellOf(t)] # None
           /\ store'[CellOf(t)].made = store[CellOf(t)].made
           /\ store'[CellOf(t)].slots = store[CellOf(t)].slots
<1>1. /\ CellOf(t) \in Cells /\ store[CellOf(t)] # None /\ loaded[request[t].exp]
      /\ request[t] \in Requests /\ TypeOK
  BY Evaluator DEF Evaluating
<1>2. ASSUME NEW u \in Threads, StoreGroup(u) PROVE store'[CellOf(t)] = store[CellOf(t)]
  <2>1. pc[u] = "define" /\ store' = [store EXCEPT ![GroupCell(u)] = draft]
    BY <1>2 DEF StoreGroup, Holds
  <2>2. ~loaded[request[u].exp] /\ Requested(u) /\ Drafted(u)
    BY <2>1, Loader DEF Loading
  <2>3. GroupCell(u) \in Cells /\ GroupCell(u)[1] = request[u].exp
    BY <1>1, <2>2, CellType DEF Drafted, Requested, GroupCell
  <2>4. CellOf(t)[1] = request[t].exp
    BY DEF CellOf
  <2>5. CellOf(t) # GroupCell(u)
    BY <1>1, <2>2, <2>3, <2>4
  <2> QED BY <1>1, <2>1, <2>3, <2>5 DEF TypeOK, RegisterTypes
<1>3. ASSUME NEW u \in Threads, NEW n \in Names, LookupMiss(u, n)
      PROVE  /\ store'[CellOf(t)] # None
             /\ store'[CellOf(t)].made = store[CellOf(t)].made
             /\ store'[CellOf(t)].slots = store[CellOf(t)].slots
  BY <1>1, <1>3, LookupWrites
<1> QED BY <1>1, <1>2, <1>3, StoreWriters

\* map() holds references into the store while it evaluates: no step of any caller
\* replaces or removes the mapping objects of the partition it evaluates in.
THEOREM EntriesStayStable == Spec => EntriesStable
<1>1. IInv /\ [Next]_vars =>
        [\A t \in Threads :
            pc[t] \in InCall /\ pc'[t] \in InCall =>
                /\ store'[CellOf(t)] # None
                /\ store'[CellOf(t)].made = store[CellOf(t)].made
                /\ store'[CellOf(t)].slots = store[CellOf(t)].slots]_vars
  BY EntriesStay
<1> QED BY <1>1, InductiveInvariant, PTL DEF Spec, EntriesStable

\* A group is being read after the step that opens it, or one that reads a mapping.
LEMMA Drafting ==
    ASSUME IInv, [Next]_vars, NEW u \in Threads, pc'[u] = "define"
    PROVE  LoadGroup(u) \/ Define(u) \/ UNCHANGED vars
<1>1. CallTypes /\ (pc[u] = "define" => owner = u)
  BY DEF IInv, TypeOK, ThreadOK
<1>2. ASSUME Invoke PROVE FALSE
  <2>1. owner = None
    BY <1>2 DEF Invoke, RegisterSource, UnregisterSource, RegisterThrough, Reset, InitIgnored,
       InitLocate, CallMap, Start
  <2>2. pc[u] # "define"
    BY <1>1, <2>1, NoneDistinct
  <2>3. \/ pc' = pc
        \/ \E t \in Threads : \E at \in {"init", "lookup", "load"} : Goto(t, at)
    BY <1>2 DEF Invoke, RegisterSource, UnregisterSource, RegisterThrough, Reset, InitIgnored,
       InitLocate, CallMap, callVars
  <2> QED BY <1>1, <2>2, <2>3 DEF Goto, CallTypes
<1>3. ASSUME NEW t \in Threads, Step(t) PROVE LoadGroup(u) \/ Define(u)
  <2>1. u = t
    <3>1. u # t => pc'[u] = pc[u] /\ owner # u
      BY <1>3, StepIsOwn, NoneDistinct DEF OthersStay
    <3> QED BY <1>1, <3>1
  <2>2. CASE InitRegister(t) \/ InitThrow(t) \/ InitReturn(t) \/ StoreGroup(t) \/ LoadThrow(t)
             \/ FinishLoad(t)
    BY <1>1, <2>1, <2>2 DEF InitRegister, InitThrow, InitReturn, StoreGroup, LoadThrow,
       FinishLoad, Holds, Throw, Leave, Goto, callVars, CallTypes
  <2>3. CASE LookupThrow(t) \/ \E n \in Names : LookupHit(t, n) \/ LookupMiss(t, n) \/ Finish(t, n)
    BY <1>1, <2>1, <2>3 DEF LookupThrow, LookupHit, LookupMiss, Finish, Throw, Leave, Goto, CallTypes
  <2>4. CASE EvalDependency(t) \/ EvalExhausted(t) \/ EvalCombine(t) \/ EvalThrow(t) \/ FunctionReturns(t)
             \/ EvalCallFunction(t)
    BY <1>1, <2>1, <2>4 DEF EvalDependency, EvalExhausted, EvalCombine, ReturnOwn, EvalThrow, FunctionReturns,
       EvalCallFunction, AtFrame, Holds, Deliver, Throw, Leave, Goto, CallTypes
  <2>5. CASE EvalFetch(t) \/ SourceReturns(t)
    BY <1>1, <2>1, <2>5 DEF EvalFetch, SourceReturns, Goto, CallTypes
  <2>6. CASE CallbackThrows(t) \/ PostProcess(t) \/ PostThrow(t) \/ Resume(t)
    BY <1>1, <2>1, <2>6 DEF CallbackThrows, PostProcess, PostThrow, Resume, AtFrame, Holds,
       Deliver, Throw, Leave, Goto, CallTypes
  <2> QED BY <1>3, <2>1, <2>2, <2>3, <2>4, <2>5, <2>6 DEF Step
<1> QED BY <1>2, <1>3 DEF Next, Quiet

(***************************************************************************)
(* The data sources that mappings point to                                 *)
(***************************************************************************)
\* The pointers of a mapping store to data sources, against the registry srcs.
Slotted(c, slots, srcs) ==
    \A n \in Names : slots[n] # None /\ Mapping[c][n].type = "DATA_SOURCE"
        => slots[n] = srcs[Mapping[c][n].source]

SourcesKept ==
    /\ IInv
    /\ \A c \in Cells : store[c] # None => Slotted(c, store[c].slots, sources)
    /\ \A t \in Threads : pc[t] = "define" => Slotted(GroupCell(t), draft.slots, sources)
    /\ \A t \in Threads : pc[t] # "undefined"

\* The handler as both bindings expose it: no data source is ever unregistered.
NoUnregister == "unregister_data_source" \notin Api

\* A registered data source is neither replaced nor removed.
LEMMA SourcesStay ==
    ASSUME IInv, [Next]_vars, NoUnregister
    PROVE  \A s \in Sources : sources[s] # None => sources'[s] = sources[s]
<1>1. SourceTypes
  BY DEF IInv, TypeOK
<1>2. ASSUME NEW i \in Steps, Registrable(i), Registers(i)
      PROVE  \A s \in Sources : sources[s] # None => sources'[s] = sources[s]
  BY <1>1, <1>2 DEF Steps, SourceTypes, Registrable, Registers, AddSource, AddFactory
<1>3. CASE UNCHANGED vars
  BY <1>3 DEF vars, sourceVars
<1>4. CASE Invoke
  <2>1. ASSUME NEW s \in Sources, RegisterSource(s)
        PROVE  \A x \in Sources : sources[x] # None => sources'[x] = sources[x]
    BY <1>1, <2>1 DEF RegisterSource, AddSource, SourceTypes, sourceVars
  <2>2. ASSUME NEW s \in Sources, UnregisterSource(s) PROVE FALSE
    BY <2>2 DEF UnregisterSource, Start, NoUnregister
  <2>3. ASSUME NEW i \in Steps, RegisterThrough(i)
        PROVE  \A x \in Sources : sources[x] # None => sources'[x] = sources[x]
    BY <1>2, <2>3 DEF RegisterThrough, sourceVars
  <2> QED BY <1>4, <2>1, <2>2, <2>3 DEF Invoke, Reset, InitIgnored, InitLocate, CallMap, sourceVars
<1>5. ASSUME NEW t \in Threads, Step(t)
      PROVE  sources' = sources \/ InitRegister(t)
  <2>1. CASE InitThrow(t) \/ InitReturn(t) \/ LoadGroup(t) \/ Define(t) \/ StoreGroup(t)
             \/ LoadThrow(t) \/ FinishLoad(t)
    BY <2>1 DEF InitThrow, InitReturn, LoadGroup, Define, StoreGroup, LoadThrow, FinishLoad,
       sourceVars
  <2>2. CASE LookupThrow(t) \/ \E n \in Names : LookupHit(t, n) \/ LookupMiss(t, n) \/ Finish(t, n)
    BY <2>2 DEF LookupThrow, LookupHit, LookupMiss, Finish, sourceVars
  <2>3. CASE EvalDependency(t) \/ EvalExhausted(t) \/ EvalCombine(t) \/ EvalThrow(t) \/ EvalCallFunction(t)
             \/ FunctionReturns(t)
    BY <2>3 DEF EvalDependency, EvalExhausted, EvalCombine, ReturnOwn, EvalThrow, EvalCallFunction, FunctionReturns,
       sourceVars
  <2>4. CASE EvalFetch(t) \/ SourceReturns(t) \/ CallbackThrows(t) \/ PostProcess(t)
             \/ PostThrow(t) \/ Resume(t)
    BY <2>4 DEF EvalFetch, SourceReturns, CallbackThrows, PostProcess, PostThrow, Resume,
       sourceVars
  <2> QED BY <1>5, <2>1, <2>2, <2>3, <2>4 DEF Step
<1>6. ASSUME NEW t \in Threads, InitRegister(t)
      PROVE  \A s \in Sources : sources[s] # None => sources'[s] = sources[s]
  <2>1. Head(steps) \in Steps
    BY <1>6 DEF InitRegister, IInv, TypeOK, LoaderTypes
  <2> QED BY <1>2, <1>6, <2>1 DEF InitRegister
<1> QED BY <1>3, <1>4, <1>5, <1>6 DEF Next, Quiet

\* A registry that only grows leaves the pointers into it right.
LEMMA SlottedStays ==
    ASSUME IInv, [Next]_vars, NoUnregister,
           NEW c \in Cells, Mapping[c] # None, NEW slots, Slotted(c, slots, sources),
           \A n \in Names : slots[n] # None => Mapping[c][n] # None
    PROVE  Slotted(c, slots, sources')
<1>1. ASSUME NEW n \in Names, slots[n] # None, Mapping[c][n].type = "DATA_SOURCE"
      PROVE  slots[n] = sources'[Mapping[c][n].source]
  <2>1. Mapping[c][n].source \in Sources
    BY <1>1, DefType
  <2>2. slots[n] = sources[Mapping[c][n].source]
    BY <1>1 DEF Slotted
  <2> QED BY <1>1, <2>1, <2>2, SourcesStay
<1> QED BY <1>1 DEF Slotted

\* The mapping objects in the store keep pointing to registered data sources.
LEMMA StoreSlotted ==
    ASSUME SourcesKept, [Next]_vars, NoUnregister
    PROVE  \A c \in Cells : store'[c] # None => Slotted(c, store'[c].slots, sources')
<1>1. IInv /\ TypeOK /\ StoreOK
  BY DEF SourcesKept, IInv
<1>2. ASSUME NEW c \in Cells, store[c] # None PROVE Slotted(c, store[c].slots, sources')
  BY <1>1, <1>2, SlottedStays DEF SourcesKept, StoreOK
<1>3. CASE store' = store
  BY <1>2, <1>3
<1>4. CASE store' = BlankStore
  BY <1>4 DEF BlankStore
<1>5. ASSUME NEW t \in Threads, StoreGroup(t)
      PROVE  \A c \in Cells : store'[c] # None => Slotted(c, store'[c].slots, sources')
  <2>1. Slotted(GroupCell(t), draft.slots, sources)
    BY <1>5 DEF SourcesKept, StoreGroup, Holds
  <2>2. store' = [store EXCEPT ![GroupCell(t)] = draft] /\ sources' = sources
    BY <1>5 DEF StoreGroup, sourceVars
  <2> QED BY <1>1, <1>2, <2>1, <2>2 DEF TypeOK, RegisterTypes
<1>6. ASSUME NEW t \in Threads, NEW n \in Names, LookupMiss(t, n)
      PROVE  \A c \in Cells : store'[c] # None => Slotted(c, store'[c].slots, sources')
  BY <1>1, <1>2, <1>6, LookupWrites
<1> QED BY <1>1, <1>3, <1>4, <1>5, <1>6, StoreWriters

\* So do the mapping objects of the group being read.
LEMMA DraftSlotted ==
    ASSUME SourcesKept, [Next]_vars, NoUnregister, NEW t \in Threads, pc'[t] = "define"
    PROVE  Slotted(GroupCell(t), draft.slots, sources)'
<1>1. IInv /\ TypeOK
  BY DEF SourcesKept, IInv
<1>2. CASE LoadGroup(t)
  BY <1>2 DEF LoadGroup, Slotted
<1>3. CASE Define(t)
  <2> DEFINE n == Head(namesLeft)
             c == GroupCell(t)
  <2>1. pc[t] = "define" /\ namesLeft # << >> /\ sources' = sources /\ c' = c
    BY <1>3 DEF Define, Holds, GroupCell, KeyOf, callVars, sourceVars
  <2>2. draft # None /\ draft \in Entry
    BY <1>1, <2>1 DEF IInv, ThreadOK, Drafted, TypeOK, LoaderTypes
  <2>3. Slotted(c, draft.slots, sources)
    BY <2>1 DEF SourcesKept
  <2>4. PICK value : /\ draft' = [draft EXCEPT !.slots[n] = value]
                     /\ Mapping[c][n].type = "DATA_SOURCE" => value = sources[Mapping[c][n].source]
    BY <1>3 DEF Define
  <2>5. draft'.slots = [draft.slots EXCEPT ![n] = value]
    BY <2>2, <2>4 DEF Entry
  <2>6. draft.slots \in [Names -> Nat \cup {None}]
    BY <2>2 DEF Entry
  <2> HIDE DEF c, n
  <2>7. Slotted(c, draft'.slots, sources)
    BY <2>3, <2>4, <2>5, <2>6 DEF Slotted
  <2>8. GroupCell(t)' = c
    BY <2>1 DEF c
  <2> QED BY <2>1, <2>7, <2>8 DEF Slotted
<1>4. CASE UNCHANGED vars
  <2>1. /\ pc[t] = "define" /\ draft' = draft /\ sources' = sources
        /\ GroupCell(t)' = GroupCell(t)
    BY <1>4 DEF vars, callVars, loaderVars, sourceVars, GroupCell, KeyOf
  <2> QED BY <2>1 DEF SourcesKept, Slotted
<1> QED BY <1>1, <1>2, <1>3, <1>4, Drafting

\* The source of the mapping a call evaluates is the registered one.
LEMMA PointsToRegistered ==
    ASSUME SourcesKept, NEW t \in Threads, pc[t] \in {"eval", "callback"}, frames[t] # NoFrames,
           TopDef(t).type = "DATA_SOURCE"
    PROVE  /\ TopDef(t).source \in Sources
           /\ store[CellOf(t)].slots[Top(t).name] = sources[TopDef(t).source]
<1>1. /\ CellOf(t) \in Cells /\ Present(CellOf(t), Top(t).name) /\ Top(t).name \in Names
      /\ TopDef(t).source \in Sources
  BY Evaluator DEF SourcesKept, InCall, Frame
<1> QED BY <1>1 DEF SourcesKept, Slotted, Present, TopDef

LEMMA NoneUndefined ==
    ASSUME SourcesKept, [Next]_vars
    PROVE  \A t \in Threads : pc'[t] # "undefined"
<1>1. IInv /\ CallTypes /\ \A t \in Threads : pc[t] # "undefined"
  BY DEF SourcesKept, IInv, TypeOK
<1>2. CASE UNCHANGED vars
  BY <1>1, <1>2 DEF vars, callVars
<1>3. CASE Invoke
  <2>1. \/ pc' = pc
        \/ \E t \in Threads : \E at \in {"init", "lookup", "load"} : Goto(t, at)
    BY <1>3 DEF Invoke, RegisterSource, UnregisterSource, RegisterThrough, Reset, InitIgnored,
       InitLocate, CallMap, callVars
  <2> QED BY <1>1, <2>1 DEF Goto, CallTypes
<1>4. ASSUME NEW t \in Threads, Step(t), NEW u \in Threads PROVE pc'[u] # "undefined"
  <2>1. CASE u # t
    BY <1>1, <1>4, <2>1, StepIsOwn DEF OthersStay
  <2>2. CASE EvalFetch(t)
    <3>1. pc[t] = "eval" /\ frames[t] # NoFrames /\ TopDef(t).type = "DATA_SOURCE"
      BY <2>2 DEF EvalFetch, AtFrame, Holds
    <3>2. Live(store[CellOf(t)].slots[Top(t).name])
      BY <3>1, PointsToRegistered DEF Live
    <3>3. Goto(t, "post") \/ Goto(t, "callback")
      BY <2>2, <3>2 DEF EvalFetch
    <3> QED BY <1>1, <2>1, <3>3 DEF Goto, CallTypes
  <2>3. CASE EvalCallFunction(t) \/ SourceReturns(t)
    BY <1>1, <2>1, <2>3 DEF EvalCallFunction, SourceReturns, Goto, CallTypes
  <2> QED BY <1>1, <1>4, <2>1, <2>2, <2>3, CalledOut
<1> QED BY <1>2, <1>3, <1>4 DEF Next, Quiet

LEMMA SourcesInductive ==
    ASSUME NoUnregister
    PROVE  /\ Init => SourcesKept
           /\ SourcesKept /\ [Next]_vars => SourcesKept'
<1>1. ASSUME Init PROVE SourcesKept
  BY <1>1, Initially DEF Init, SourcesKept, BlankStore
<1>2. ASSUME SourcesKept, [Next]_vars PROVE SourcesKept'
  <2>1. IInv'
    BY <1>2, Inductive DEF SourcesKept
  <2>2. \A c \in Cells : store'[c] # None => Slotted(c, store'[c].slots, sources')
    BY <1>2, StoreSlotted
  <2>3. \A t \in Threads : pc'[t] = "define" => Slotted(GroupCell(t), draft.slots, sources)'
    BY <1>2, DraftSlotted
  <2>4. \A t \in Threads : pc'[t] # "undefined"
    BY <1>2, NoneUndefined
  <2> QED BY <2>1, <2>2, <2>3, <2>4 DEF SourcesKept
<1> QED BY <1>1, <1>2

(***************************************************************************)
(* The counts and the store                                                *)
(***************************************************************************)
\* The mapping objects in the store that ask data source s with arguments a, and
\* those of a group being read.
Sharers(s, a) ==
    {x \in Cells \X Names :
        /\ Present(x[1], x[2])
        /\ LET d == Mapping[x[1]][x[2]] IN d.source = s /\ d.args = a}

Drafts(c, slots, s, a) ==
    {n \in Names : slots[n] # None /\ Mapping[c][n].source = s /\ Mapping[c][n].args = a}

\* The count covers what is stored and what the group being read will add.
Covered(s, a) ==
    /\ IsFiniteSet(Sharers(s, a)) /\ Cardinality(Sharers(s, a)) <= dsCount[<<s, a>>]
    /\ \A t \in Threads : pc[t] = "define" =>
           LET drafts == Drafts(GroupCell(t), draft.slots, s, a)
           IN  /\ IsFiniteSet(drafts)
               /\ Cardinality(Sharers(s, a)) + Cardinality(drafts) <= dsCount[<<s, a>>]

CoverInv == IInv /\ \A s \in Sources, a \in Args : Covered(s, a)

LEMMA SubsetSize ==
    ASSUME NEW S, IsFiniteSet(S), NEW T, T \subseteq S
    PROVE  IsFiniteSet(T) /\ Cardinality(T) \in Nat /\ Cardinality(S) \in Nat
           /\ Cardinality(T) <= Cardinality(S)
BY FS_Subset, FS_CardinalityType

\* A step that stores nothing new, while no group is read, keeps the cover.
LEMMA CoverKept ==
    ASSUME CoverInv, [Next]_vars, NEW s \in Sources, NEW a \in Args,
           Sharers(s, a)' \subseteq Sharers(s, a)
    PROVE  /\ IsFiniteSet(Sharers(s, a)') /\ Cardinality(Sharers(s, a)') \in Nat
           /\ Cardinality(Sharers(s, a)') <= Cardinality(Sharers(s, a))
           /\ Cardinality(Sharers(s, a)) \in Nat
           /\ dsCount[<<s, a>>] \in Nat /\ dsCount'[<<s, a>>] \in Nat
           /\ dsCount'[<<s, a>>] >= dsCount[<<s, a>>]
           /\ Cardinality(Sharers(s, a)') <= dsCount'[<<s, a>>]
<1>1. /\ IInv /\ IsFiniteSet(Sharers(s, a))
      /\ Cardinality(Sharers(s, a)) <= dsCount[<<s, a>>]
  BY DEF CoverInv, Covered
<1>2. /\ IsFiniteSet(Sharers(s, a)') /\ Cardinality(Sharers(s, a)') \in Nat
      /\ Cardinality(Sharers(s, a)') <= Cardinality(Sharers(s, a))
      /\ Cardinality(Sharers(s, a)) \in Nat
  BY <1>1, SubsetSize
<1>3. dsCount[<<s, a>>] \in Nat /\ dsCount'[<<s, a>>] \in Nat
  BY <1>1, Inductive DEF IInv, TypeOK, CacheTypes
<1>4. dsCount'[<<s, a>>] >= dsCount[<<s, a>>]
  BY <1>1, CountsGrow
<1> QED BY <1>1, <1>2, <1>3, <1>4

\* init_mappings: what a mapping adds to the group being read is counted.
LEMMA DefineCounts ==
    ASSUME IInv, NEW t \in Threads, Define(t), NEW s \in Sources, NEW a \in Args
    PROVE  \E n \in Names :
             LET before == Drafts(GroupCell(t), draft.slots, s, a)
                 after  == Drafts(GroupCell(t), draft.slots, s, a)'
             IN  \/ after \subseteq before
                 \/ /\ after \subseteq before \cup {n}
                    /\ dsCount'[<<s, a>>] = dsCount[<<s, a>>] + 1
<1> DEFINE n == Head(namesLeft)
           c == GroupCell(t)
           d == Mapping[c][n]
           before == Drafts(c, draft.slots, s, a)
           after  == Drafts(c, draft'.slots, s, a)
<1>1. pc[t] = "define" /\ namesLeft # << >> /\ c' = c
  BY DEF Define, Holds, GroupCell, KeyOf, callVars
<1>2. TypeOK /\ Requested(t) /\ Drafted(t)
  BY <1>1, Loader DEF Loading
<1>3. n \in Names /\ n = namesLeft[1] /\ Len(namesLeft) > 0
  BY <1>1, <1>2, HeadTailProperties DEF TypeOK, LoaderTypes
<1>4. c \in Cells /\ Mapping[c] # None /\ d # None
  BY <1>2, <1>3, CellType DEF Drafted, Requested
<1>5. d \in Defs /\ (d.type # "DATA_SOURCE" => d.source = None)
  BY <1>3, <1>4, DefType, DataSourceAssumption
<1>6. draft \in Entry /\ draft.slots \in [Names -> Nat \cup {None}]
  BY <1>2 DEF Drafted, TypeOK, LoaderTypes, Entry
<1>7. PICK value : draft' = [draft EXCEPT !.slots[n] = value]
  BY DEF Define
<1>8. draft'.slots = [draft.slots EXCEPT ![n] = value]
  BY <1>6, <1>7 DEF Entry
<1>9. dsCount' = DsCounted(d) /\ dsCount \in [Sources \X Args -> Nat]
  BY <1>2 DEF Define, TypeOK, CacheTypes
<1>10. after = Drafts(GroupCell(t), draft.slots, s, a)'
  BY <1>1 DEF Drafts
<1> HIDE DEF c, n
<1>11. \A m \in Names : m # n => draft'.slots[m] = draft.slots[m]
  BY <1>6, <1>8
<1>12. after \subseteq before \cup {n}
  BY <1>11 DEF Drafts
<1>13. CASE d.source = s /\ d.args = a
  <2>1. d.type = "DATA_SOURCE"
    BY <1>5, <1>13, NoneDistinct
  <2>2. dsCount' = [dsCount EXCEPT ![<<s, a>>] = @ + 1]
    BY <1>9, <1>13, <2>1 DEF DsCounted
  <2>3. dsCount'[<<s, a>>] = dsCount[<<s, a>>] + 1
    BY <1>9, <2>2
  <2> QED BY <1>3, <1>10, <1>12, <2>3 DEF c
<1>14. CASE ~(d.source = s /\ d.args = a)
  <2>1. after \subseteq before
    BY <1>11, <1>14 DEF Drafts
  <2> QED BY <1>3, <1>10, <2>1 DEF c
<1> QED BY <1>13, <1>14

\* Reading one more mapping of a group.
LEMMA CoverDefine ==
    ASSUME CoverInv, [Next]_vars, NEW t \in Threads, Define(t),
           NEW s \in Sources, NEW a \in Args
    PROVE  Covered(s, a)'
<1> DEFINE before == Drafts(GroupCell(t), draft.slots, s, a)
           after  == Drafts(GroupCell(t), draft.slots, s, a)'
<1>1. store' = store /\ pc' = pc /\ owner' = owner /\ pc[t] = "define"
  BY DEF Define, Holds, callVars, registerVars
<1>2. Sharers(s, a)' = Sharers(s, a)
  BY <1>1 DEF Sharers, Present
<1>3. \A u \in Threads : pc'[u] = "define" => u = t
  BY <1>1, NoneDistinct DEF CoverInv, IInv, ThreadOK
<1>4. /\ IsFiniteSet(before)
      /\ Cardinality(Sharers(s, a)) + Cardinality(before) <= dsCount[<<s, a>>]
  BY <1>1 DEF CoverInv, Covered
<1>5. PICK n \in Names : \/ after \subseteq before
                         \/ /\ after \subseteq before \cup {n}
                            /\ dsCount'[<<s, a>>] = dsCount[<<s, a>>] + 1
  BY DefineCounts DEF CoverInv
<1> HIDE DEF before, after
<1>6. IsFiniteSet(after) /\ Cardinality(Sharers(s, a)) + Cardinality(after) <= dsCount'[<<s, a>>]
  <2>1. /\ Cardinality(Sharers(s, a)) \in Nat /\ dsCount[<<s, a>>] \in Nat
        /\ dsCount'[<<s, a>>] \in Nat /\ dsCount'[<<s, a>>] >= dsCount[<<s, a>>]
    BY <1>2, CoverKept
  <2>2. CASE after \subseteq before
    BY <1>4, <2>1, <2>2, SubsetSize
  <2>3. CASE after \subseteq before \cup {n} /\ dsCount'[<<s, a>>] = dsCount[<<s, a>>] + 1
    <3>1. /\ IsFiniteSet(before \cup {n}) /\ Cardinality(before) \in Nat
          /\ Cardinality(before \cup {n}) <= Cardinality(before) + 1
      <4>1. Cardinality(before) \in Nat
        BY <1>4, FS_CardinalityType
      <4>2. /\ IsFiniteSet(before \cup {n})
            /\ Cardinality(before \cup {n}) =
                   IF n \in before THEN Cardinality(before) ELSE Cardinality(before) + 1
        BY <1>4, FS_AddElement
      <4> QED BY <4>1, <4>2
    <3>2. /\ IsFiniteSet(after) /\ Cardinality(after) \in Nat
          /\ Cardinality(after) <= Cardinality(before \cup {n})
          /\ Cardinality(before \cup {n}) \in Nat
      BY <2>3, <3>1, SubsetSize
    <3> QED BY <1>4, <2>1, <2>3, <3>1, <3>2
  <2> QED BY <1>5, <2>2, <2>3
<1>7. IsFiniteSet(Sharers(s, a)') /\ Cardinality(Sharers(s, a)') <= dsCount'[<<s, a>>]
  BY <1>2, CoverKept
<1> QED BY <1>2, <1>3, <1>6, <1>7 DEF Covered, after

\* Storing the group.
LEMMA CoverStore ==
    ASSUME CoverInv, [Next]_vars, NEW t \in Threads, StoreGroup(t),
           NEW s \in Sources, NEW a \in Args
    PROVE  Covered(s, a)'
<1> DEFINE c == GroupCell(t)
           drafts == Drafts(c, draft.slots, s, a)
<1>1. /\ pc[t] = "define" /\ owner = t /\ pc' = [pc EXCEPT ![t] = "load"] /\ dsCount' = dsCount
      /\ store' = [store EXCEPT ![c] = draft]
  BY DEF StoreGroup, Holds, Goto, cacheVars
<1>2. TypeOK /\ Requested(t) /\ Drafted(t)
  BY <1>1, Loader DEF Loading, CoverInv
<1>3. c \in Cells
  BY <1>2, CellType DEF Drafted, Requested
<1>4. /\ IsFiniteSet(drafts) /\ IsFiniteSet(Sharers(s, a))
      /\ Cardinality(Sharers(s, a)) + Cardinality(drafts) <= dsCount[<<s, a>>]
  BY <1>1 DEF CoverInv, Covered
<1> HIDE DEF c
<1>5. Sharers(s, a)' \subseteq Sharers(s, a) \cup ({c} \X drafts)
  <2>1. ASSUME NEW x \in Cells \X Names, x \in Sharers(s, a)', x[1] # c
        PROVE  x \in Sharers(s, a)
    BY <1>1, <1>2, <2>1 DEF Sharers, Present, TypeOK, RegisterTypes
  <2>2. ASSUME NEW x \in Cells \X Names, x \in Sharers(s, a)', x[1] = c
        PROVE  x \in {c} \X drafts
    BY <1>1, <1>2, <1>3, <2>2 DEF Sharers, Present, Drafts, TypeOK, RegisterTypes
  <2> QED BY <2>1, <2>2 DEF Sharers
<1>6. IsFiniteSet({c} \X drafts) /\ Cardinality({c} \X drafts) = Cardinality(drafts)
  <2>1. IsFiniteSet({c}) /\ Cardinality({c}) = 1 /\ Cardinality(drafts) \in Nat
    BY <1>4, FS_Singleton, FS_CardinalityType
  <2>2. /\ IsFiniteSet({c} \X drafts)
        /\ Cardinality({c} \X drafts) = Cardinality({c}) * Cardinality(drafts)
    BY <1>4, <2>1, FS_Product
  <2> QED BY <2>1, <2>2
<1> HIDE DEF drafts
<1>7. /\ IsFiniteSet(Sharers(s, a) \cup ({c} \X drafts))
      /\ Cardinality(Sharers(s, a) \cup ({c} \X drafts)) <=
             Cardinality(Sharers(s, a)) + Cardinality(drafts)
  <2>1. /\ IsFiniteSet(Sharers(s, a) \cup ({c} \X drafts))
        /\ Cardinality(Sharers(s, a) \cup ({c} \X drafts)) =
               Cardinality(Sharers(s, a)) + Cardinality({c} \X drafts)
               - Cardinality(Sharers(s, a) \cap ({c} \X drafts))
    BY <1>4, <1>6, FS_Union
  <2>2. /\ Cardinality(Sharers(s, a)) \in Nat /\ Cardinality(drafts) \in Nat
        /\ Cardinality(Sharers(s, a) \cap ({c} \X drafts)) \in Nat
    BY <1>4, SubsetSize, FS_CardinalityType
  <2> QED BY <1>6, <2>1, <2>2
<1>8. /\ IsFiniteSet(Sharers(s, a)') /\ Cardinality(Sharers(s, a)') \in Nat
      /\ Cardinality(Sharers(s, a)') <= Cardinality(Sharers(s, a) \cup ({c} \X drafts))
      /\ Cardinality(Sharers(s, a) \cup ({c} \X drafts)) \in Nat
  BY <1>5, <1>7, SubsetSize
<1>9. dsCount[<<s, a>>] \in Nat /\ Cardinality(Sharers(s, a)) \in Nat /\ Cardinality(drafts) \in Nat
  BY <1>2, <1>4, FS_CardinalityType DEF TypeOK, CacheTypes
<1>10. Cardinality(Sharers(s, a)') <= dsCount'[<<s, a>>]
  BY <1>1, <1>4, <1>7, <1>8, <1>9
<1>11. \A u \in Threads : pc'[u] # "define"
  BY <1>1, <1>2, NoneDistinct DEF CoverInv, IInv, ThreadOK, TypeOK, CallTypes
<1> QED BY <1>8, <1>10, <1>11 DEF Covered

LEMMA CoverInductive == CoverInv /\ [Next]_vars => CoverInv'
<1> SUFFICES ASSUME CoverInv, [Next]_vars, NEW s \in Sources, NEW a \in Args
             PROVE  Covered(s, a)'
  BY Inductive DEF CoverInv
<1>1. ASSUME NEW t \in Threads, pc'[t] = "define", ~Define(t), store' = store
      PROVE  LET drafts == Drafts(GroupCell(t), draft.slots, s, a)'
             IN  /\ IsFiniteSet(drafts)
                 /\ Cardinality(Sharers(s, a)') + Cardinality(drafts) <= dsCount'[<<s, a>>]
  <2>1. Sharers(s, a)' = Sharers(s, a)
    BY <1>1 DEF Sharers, Present
  <2>2. CASE LoadGroup(t)
    <3>1. Drafts(GroupCell(t), draft.slots, s, a)' = {}
      BY <2>2 DEF LoadGroup, Drafts
    <3> QED BY <2>1, <3>1, CoverKept, FS_EmptySet
  <2>3. CASE UNCHANGED vars
    <3>1. pc[t] = "define" /\ dsCount' = dsCount
      BY <1>1, <2>3 DEF vars, callVars, cacheVars
    <3>2. Drafts(GroupCell(t), draft.slots, s, a)' = Drafts(GroupCell(t), draft.slots, s, a)
      BY <2>3 DEF vars, callVars, loaderVars, Drafts, GroupCell, KeyOf
    <3> QED BY <2>1, <3>1, <3>2 DEF CoverInv, Covered
  <2> QED BY <1>1, <2>2, <2>3, Drafting DEF CoverInv
<1>2. CASE store' = store
  <2>1. Sharers(s, a)' = Sharers(s, a)
    BY <1>2 DEF Sharers, Present
  <2> QED BY <1>1, <1>2, <2>1, CoverKept, CoverDefine DEF Covered
<1>3. CASE store' = BlankStore /\ store' # store
  <2>1. Sharers(s, a)' = {}
    BY <1>3 DEF Sharers, Present, BlankStore
  <2>2. \A t \in Threads : pc'[t] # "define"
    BY <1>3, Drafting DEF CoverInv, LoadGroup, Define, registerVars, vars
  <2> QED BY <2>1, <2>2, CoverKept DEF Covered
<1>4. ASSUME NEW t \in Threads, NEW n \in Names, LookupMiss(t, n) PROVE Covered(s, a)'
  <2>1. Sharers(s, a)' = Sharers(s, a)
    BY <1>4, LookupWrites DEF CoverInv, Sharers, Present
  <2>2. \A u \in Threads : pc'[u] # "define"
    <3>1. owner = t /\ pc[t] = "lookup" /\ pc' = [pc EXCEPT ![t] = "eval"]
      BY <1>4 DEF LookupMiss, Holds, Goto
    <3> QED BY <3>1, NoneDistinct DEF CoverInv, IInv, ThreadOK, TypeOK, CallTypes
  <2> QED BY <2>1, <2>2, CoverKept DEF Covered
<1> QED BY <1>2, <1>3, <1>4, CoverStore, StoreWriters DEF CoverInv

\* The count of a data source request, which decides whether its array is cached,
\* is never behind the mapping objects in the store that share the request: not
\* after a load that failed half way, a reset, or a second load.
THEOREM CountsCover == Spec => []CountsCoverStore
<1>1. Init => CoverInv
  <2> SUFFICES ASSUME Init, NEW s \in Sources, NEW a \in Args PROVE Covered(s, a)
    BY Initially DEF CoverInv
  <2>1. Sharers(s, a) = {} /\ dsCount[<<s, a>>] = 0
    BY DEF Init, Sharers, Present, BlankStore
  <2> QED BY <2>1, FS_EmptySet DEF Init, Covered
<1>2. CoverInv => CountsCoverStore
  BY DEF CoverInv, Covered, Sharers, CountsCoverStore
<1> QED BY <1>1, <1>2, CoverInductive, PTL DEF Spec
=============================================================================
