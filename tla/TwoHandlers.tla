----------------------------- MODULE TwoHandlers -----------------------------
(***************************************************************************)
(* Two MappingHandler objects in one process.  Each has its registers, its *)
(* data sources, its mapping cache and its callers; m_data_source_count    *)
(* and m_data_source_cache are static, so dsCount and dsCache are common   *)
(* to both.  Handler A is the handler of module MappingHandler; the        *)
(* variables of B have names of their own.                                 *)
(***************************************************************************)
EXTENDS HandlerProperties

VARIABLES
    initialisedB, registerB, loadedB, storeB, sourcesB, factoriesB, cacheEnabledB, countsB,
    mappingCacheB, stepsB, groupsLeftB, namesLeftB, draftB, ownerB, pcB, requestB, framesB,
    fetchB, replyB, opsB

B == INSTANCE HandlerProperties WITH
    initialised <- initialisedB, register <- registerB, loaded <- loadedB, store <- storeB,
    sources <- sourcesB, factories <- factoriesB,
    cacheEnabled <- cacheEnabledB, counts <- countsB, mappingCache <- mappingCacheB,
    steps <- stepsB, groupsLeft <- groupsLeftB, namesLeft <- namesLeftB, draft <- draftB,
    owner <- ownerB, pc <- pcB, request <- requestB, frames <- framesB, fetch <- fetchB,
    reply <- replyB, ops <- opsB

ownA == <<registerVars, sources, factories, cacheEnabled, counts, mappingCache, loaderVars,
          callVars, ops>>
ownB == <<initialisedB, registerB, loadedB, storeB, sourcesB, factoriesB, cacheEnabledB,
          countsB, mappingCacheB, stepsB, groupsLeftB, namesLeftB, draftB, ownerB, pcB,
          requestB, framesB, fetchB, replyB, opsB>>
statics == <<dsCount, dsCache, nextObject>>

TwoInit == Init /\ B!Init

\* One handler takes a step; the other sees at most the statics change.
TwoNext ==
    \/ Next /\ UNCHANGED ownB
    \/ B!Next /\ UNCHANGED ownA

TwoSpec == TwoInit /\ [][TwoNext]_<<ownA, ownB, statics>>

\* The arrays in an answer were fetched from a data source registered with the
\* handler that was asked (python/tests/test_bindings.py:386, a skipped test;
\* rust/README.md:276 advises a handler for each thread).
AnswersFromOwnSources ==
    /\ \A t \in Threads : Answered(t) => \A item \in reply[t].items :
          item.data # None => Live(item.data.object)
    /\ \A t \in Threads : B!Answered(t) => \A item \in replyB[t].items :
          item.data # None => B!Live(item.data.object)
=============================================================================
