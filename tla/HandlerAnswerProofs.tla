------------------------- MODULE HandlerAnswerProofs -------------------------
(***************************************************************************)
(* Proofs, for every instance of the constants, of what an answer of map() *)
(* is made of.                                                             *)
(***************************************************************************)
EXTENDS HandlerCacheProofs, WellFoundedInduction

(***************************************************************************)
(* The steps of a call                                                     *)
(***************************************************************************)
\* The call of u is where it was.
SameCall(u) ==
    /\ pc'[u] = pc[u] /\ request'[u] = request[u] /\ frames'[u] = frames[u]
    /\ fetch'[u] = fetch[u] /\ reply'[u] = reply[u]

\* A call moves by its own steps alone.
LEMMA Movers ==
    ASSUME IInv, [Next]_vars, NEW u \in Threads
    PROVE  \/ Step(u)
           \/ SameCall(u)
           \/ \E c \in Configs : InitLocate(u, c) /\ pc'[u] = "init"
           \/ \E r \in Requests :
                  CallMap(u, r) /\ pc'[u] \in {"idle", "lookup", "load"} /\ reply'[u] = None
<1>1. CallTypes
  BY DEF IInv, TypeOK
<1>2. CASE UNCHANGED vars
  BY <1>2 DEF vars, callVars, SameCall
<1>3. ASSUME NEW t \in Threads, Step(t) PROVE t = u \/ SameCall(u)
  BY <1>3, StepIsOwn DEF OthersStay, SameCall
<1>4. CASE Invoke
  <2>1. CASE UNCHANGED callVars
    BY <2>1 DEF callVars, SameCall
  <2>2. ASSUME NEW t \in Threads, NEW c \in Configs, InitLocate(t, c)
        PROVE  IF t = u THEN pc'[u] = "init" ELSE SameCall(u)
    BY <1>1, <2>2 DEF InitLocate, Goto, CallTypes, SameCall
  <2>3. ASSUME NEW t \in Threads, NEW r \in Requests, CallMap(t, r)
        PROVE  IF t = u THEN pc'[u] \in {"idle", "lookup", "load"} /\ reply'[u] = None
                        ELSE SameCall(u)
    BY <1>1, <2>3 DEF CallMap, Goto, CallTypes, SameCall
  <2> QED BY <1>4, <2>1, <2>2, <2>3 DEF Invoke, RegisterSource, UnregisterSource,
             RegisterThrough, Reset, InitIgnored
<1> QED BY <1>2, <1>3, <1>4 DEF Next, Quiet

\* The steps after which a call is evaluating.
LEMMA EvaluatingSteps ==
    ASSUME IInv, NEW t \in Threads, Step(t), pc'[t] \in InCall
    PROVE  /\ request'[t] = request[t] /\ CellOf(t)' = CellOf(t) /\ pc[t] \in InCall \cup {"lookup"}
           /\ \/ pc[t] = "lookup" /\ \E n \in Names : LookupMiss(t, n)
              \/ /\ pc[t] \in InCall /\ store' = store
                 /\ \/ EvalDependency(t) \/ EvalCombine(t) \/ FunctionReturns(t)
                    \/ EvalCallFunction(t) \/ EvalFetch(t) \/ SourceReturns(t)
                    \/ PostProcess(t) \/ Resume(t)
<1>1. CallTypes
  BY DEF IInv, TypeOK
<1> USE DEF InCall
<1>2. CASE InitRegister(t) \/ InitThrow(t) \/ InitReturn(t)
  BY <1>1, <1>2 DEF InitRegister, InitThrow, InitReturn, Holds, Throw, Leave, Goto, callVars,
     CallTypes
<1>3. CASE LoadGroup(t) \/ Define(t) \/ StoreGroup(t) \/ LoadThrow(t) \/ FinishLoad(t)
  BY <1>1, <1>3 DEF LoadGroup, Define, StoreGroup, LoadThrow, FinishLoad, Holds, Throw, Leave,
     Goto, callVars, CallTypes
<1>4. CASE LookupThrow(t) \/ \E n \in Names : LookupHit(t, n) \/ Finish(t, n)
  BY <1>1, <1>4 DEF LookupThrow, LookupHit, Finish, Throw, Leave, Goto, CallTypes
<1>5. CASE EvalThrow(t) \/ CallbackThrows(t) \/ PostThrow(t)
  BY <1>1, <1>5 DEF EvalThrow, CallbackThrows, PostThrow, Throw, Leave, Goto, CallTypes
<1>6. ASSUME NEW n \in Names, LookupMiss(t, n)
      PROVE  pc[t] = "lookup" /\ request' = request
  BY <1>6 DEF LookupMiss, Holds
<1>7. CASE EvalDependency(t) \/ EvalCombine(t) \/ EvalCallFunction(t) \/ FunctionReturns(t)
  BY <1>1, <1>7 DEF EvalDependency, EvalCombine, EvalCallFunction, FunctionReturns, AtFrame,
     Retake, Holds, ReturnOwn, Deliver, registerVars, CellOf, KeyOf
<1>8. CASE EvalFetch(t) \/ SourceReturns(t)
  BY <1>1, <1>8 DEF EvalFetch, SourceReturns, AtFrame, Retake, Holds, registerVars, CellOf, KeyOf
<1>9. CASE PostProcess(t) \/ Resume(t)
  BY <1>1, <1>9 DEF PostProcess, Resume, AtFrame, Holds, registerVars, CellOf, KeyOf
<1>10. ~EvalExhausted(t)
  BY <1>1 DEF EvalExhausted, Goto, CallTypes
<1> QED BY <1>2, <1>3, <1>4, <1>5, <1>6, <1>7, <1>8, <1>9, <1>10 DEF Step, CellOf, KeyOf

\* The steps by which a call returns or throws.
LEMMA ReturningSteps ==
    ASSUME IInv, NEW t \in Threads, Step(t), pc'[t] = "idle"
    PROVE  /\ request'[t] = request[t]
           /\ \/ reply'[t] = None
              \/ \E n \in Names : LookupHit(t, n) /\ reply'[t] = mappingCache[n]
              \/ /\ \E n \in Names : Finish(t, n)
                 /\ reply'[t] = reply[t] /\ pc[t] = "resume" /\ frames[t] = NoFrames
<1>1. CallTypes
  BY DEF IInv, TypeOK
<1>2. CASE InitRegister(t) \/ InitThrow(t) \/ InitReturn(t)
  BY <1>1, <1>2 DEF InitRegister, InitThrow, InitReturn, Holds, Throw, Leave, Goto, callVars,
     CallTypes
<1>3. CASE LoadGroup(t) \/ Define(t) \/ StoreGroup(t) \/ LoadThrow(t) \/ FinishLoad(t)
  BY <1>1, <1>3 DEF LoadGroup, Define, StoreGroup, LoadThrow, FinishLoad, Holds, Throw, Leave,
     Goto, callVars, CallTypes
<1>4. CASE LookupThrow(t) \/ \E n \in Names : LookupHit(t, n) \/ Finish(t, n) \/ LookupMiss(t, n)
  BY <1>1, <1>4 DEF LookupThrow, LookupHit, Finish, LookupMiss, Holds, Throw, Leave, Goto, CallTypes
<1>5. CASE EvalThrow(t) \/ CallbackThrows(t) \/ PostThrow(t)
  BY <1>1, <1>5 DEF EvalThrow, CallbackThrows, PostThrow, Throw, Leave, Goto, CallTypes
<1>6. CASE EvalDependency(t) \/ EvalExhausted(t) \/ EvalCombine(t) \/ EvalCallFunction(t)
           \/ FunctionReturns(t)
  BY <1>1, <1>6 DEF EvalDependency, EvalExhausted, EvalCombine, EvalCallFunction,
     FunctionReturns, AtFrame, Holds, ReturnOwn, Deliver, Goto, CallTypes
<1>7. CASE EvalFetch(t) \/ SourceReturns(t)
  BY <1>1, <1>7 DEF EvalFetch, SourceReturns, Goto, CallTypes
<1>8. CASE PostProcess(t) \/ Resume(t)
  BY <1>1, <1>8 DEF PostProcess, Resume, AtFrame, Holds, Deliver, Goto, CallTypes
<1> QED BY <1>2, <1>3, <1>4, <1>5, <1>6, <1>7, <1>8 DEF Step

(***************************************************************************)
(* With and without caching                                                *)
(***************************************************************************)
\* The binding has no reset(), or every configuration agrees on cache_enabled.
CacheModeFixed == "reset" \notin Api \/ \A c, d \in Configs : c.cache = d.cache

\* No configuration enables the cache.
NoCaching == \A c \in Configs : ~c.cache

\* While caching is off nothing is in the mapping cache, and before the first
\* init() nobody has an answer.
Mode ==
    /\ cacheEnabled => \E c \in Configs : c.cache
    /\ ~cacheEnabled => \A n \in Names : mappingCache[n] = None
    /\ "reset" \notin Api /\ register = {} =>
           /\ \A n \in Names : mappingCache[n] = None
           /\ \A t \in Threads : reply[t] = None

\* A step of a call neither registers experiments nor gives anybody an answer
\* before there are any.
LEMMA StepNeedsExperiments ==
    ASSUME IInv, NEW t \in Threads, Step(t), register = {}
    PROVE  register' = {} /\ reply'[t] \in {None, reply[t]} /\ mappingCache' = mappingCache
<1>1. pc[t] \in {"idle", "init"} /\ CallTypes
  BY DEF IInv, ThreadOK, TypeOK, CallTypes, Requested
<1>2. CASE InitRegister(t) \/ InitThrow(t) \/ InitReturn(t)
  BY <1>1, <1>2 DEF InitRegister, InitThrow, InitReturn, Throw, Leave, Goto, registerVars,
     cacheVars, callVars, CallTypes
<1>3. CASE LoadGroup(t) \/ Define(t) \/ StoreGroup(t) \/ LoadThrow(t) \/ FinishLoad(t)
  BY <1>1, <1>3 DEF LoadGroup, Define, StoreGroup, LoadThrow, LoadFails, FinishLoad, Holds
<1>4. CASE LookupThrow(t) \/ \E n \in Names : LookupHit(t, n) \/ LookupMiss(t, n) \/ Finish(t, n)
  BY <1>1, <1>4 DEF LookupThrow, LookupHit, LookupMiss, Finish, Holds
<1>5. CASE EvalDependency(t) \/ EvalExhausted(t) \/ EvalCombine(t) \/ EvalThrow(t) \/ EvalCallFunction(t)
           \/ FunctionReturns(t) \/ EvalFetch(t) \/ SourceReturns(t) \/ CallbackThrows(t)
           \/ PostProcess(t) \/ PostThrow(t) \/ Resume(t)
  BY <1>1, <1>5 DEF EvalDependency, EvalExhausted, EvalCombine, EvalThrow, EvalCallFunction, FunctionReturns,
     EvalFetch, SourceReturns, CallbackThrows, PostProcess, PostThrow, Resume, AtFrame, Holds,
     Retake
<1> QED BY <1>2, <1>3, <1>4, <1>5 DEF Step

\* A step of a call neither registers experiments nor changes a request.
LEMMA StepKeeps ==
    ASSUME NEW t \in Threads, Step(t)
    PROVE  register' = register /\ request' = request
<1> USE DEF Leave, Throw, callVars, registerVars
<1>1. CASE InitRegister(t) \/ InitThrow(t) \/ InitReturn(t) \/ LoadGroup(t) \/ Define(t)
           \/ StoreGroup(t) \/ LoadThrow(t) \/ FinishLoad(t)
  BY <1>1 DEF InitRegister, InitThrow, InitReturn, LoadGroup, Define, StoreGroup, LoadThrow,
     FinishLoad
<1>2. CASE LookupThrow(t) \/ \E n \in Names : LookupHit(t, n) \/ LookupMiss(t, n) \/ Finish(t, n)
  BY <1>2 DEF LookupThrow, LookupHit, LookupMiss, Finish
<1>3. CASE EvalDependency(t) \/ EvalExhausted(t) \/ EvalCombine(t) \/ EvalThrow(t) \/ EvalCallFunction(t)
           \/ FunctionReturns(t)
  BY <1>3 DEF EvalDependency, EvalExhausted, EvalCombine, EvalThrow, EvalCallFunction, FunctionReturns
<1>4. CASE EvalFetch(t) \/ SourceReturns(t) \/ CallbackThrows(t) \/ PostProcess(t)
           \/ PostThrow(t) \/ Resume(t)
  BY <1>4 DEF EvalFetch, SourceReturns, CallbackThrows, PostProcess, PostThrow, Resume
<1> QED BY <1>1, <1>2, <1>3, <1>4 DEF Step

\* An experiment stays registered until reset().
LEMMA RegisterStays ==
    ASSUME IInv, [Next]_vars, register' = {}
    PROVE  register = {} \/ "reset" \in Api
<1>1. CASE Reset
  BY <1>1 DEF Reset, Start
<1>2. ASSUME NEW t \in Threads, NEW c \in Configs, InitLocate(t, c) PROVE register = {}
  BY <1>2 DEF InitLocate
<1>3. ASSUME NEW t \in Threads, Step(t) PROVE register' = register
  BY <1>3, StepKeeps
<1>4. CASE UNCHANGED registerVars
  BY <1>4 DEF registerVars
<1>5. ASSUME Invoke
      PROVE  \/ UNCHANGED registerVars \/ Reset
             \/ \E t \in Threads, c \in Configs : InitLocate(t, c)
  BY <1>5 DEF Invoke, RegisterSource, UnregisterSource, RegisterThrough, InitIgnored, CallMap
<1> QED BY <1>1, <1>2, <1>3, <1>4, <1>5 DEF Next, Quiet, vars

LEMMA ModeStep ==
    ASSUME IInv, Mode, [Next]_vars, CacheModeFixed
    PROVE  Mode'
<1>1. CacheTypes /\ CallTypes
  BY DEF IInv, TypeOK
<1>2. ASSUME NEW t \in Threads, NEW c \in Configs, InitLocate(t, c) PROVE Mode'
  <2>1. /\ register = {} /\ cacheEnabled' = c.cache /\ c.cache \in BOOLEAN
        /\ mappingCache' = mappingCache /\ reply' = reply
    BY <1>2, HandlerAssumption DEF InitLocate
  <2>2. ~c.cache => \A n \in Names : mappingCache[n] = None
    BY <2>1 DEF CacheModeFixed, Mode
  <2> QED BY <2>1, <2>2 DEF Mode
<1>3. ASSUME NEW t \in Threads, Step(t) PROVE Mode'
  <2>1. cacheEnabled' = cacheEnabled /\ \A u \in Threads \ {t} : reply'[u] = reply[u]
    BY <1>3, StepIsOwn
  <2>2. ~cacheEnabled => mappingCache' = mappingCache
    <3>1. ASSUME NEW u \in Threads, NEW n \in Names, Finish(u, n), ~cacheEnabled
          PROVE  mappingCache' = mappingCache
      BY <3>1 DEF Finish
    <3> QED BY <3>1, CacheWriters DEF Define, PostProcess
  <2>3. "reset" \notin Api /\ register' = {} => register = {}
    BY RegisterStays
  <2>4. register = {} => reply'[t] \in {None, reply[t]} /\ mappingCache' = mappingCache
    BY <1>3, StepNeedsExperiments
  <2> QED BY <2>1, <2>2, <2>3, <2>4 DEF Mode
<1>4. ASSUME NEW t \in Threads, NEW r \in Requests, CallMap(t, r) PROVE Mode'
  <2>1. /\ cacheEnabled' = cacheEnabled /\ mappingCache' = mappingCache /\ register' = register
        /\ \A u \in Threads : reply'[u] \in {None, reply[u]}
    BY <1>1, <1>4 DEF CallMap, CallTypes, cacheVars, registerVars
  <2> QED BY <2>1 DEF Mode
<1>5. CASE UNCHANGED <<cacheVars, callVars>>
  <2>1. "reset" \notin Api /\ register' = {} => register = {}
    BY RegisterStays
  <2> QED BY <1>5, <2>1 DEF Mode, cacheVars, callVars
<1>6. ASSUME Invoke
      PROVE  \/ UNCHANGED <<cacheVars, callVars>>
             \/ \E t \in Threads, c \in Configs : InitLocate(t, c)
             \/ \E t \in Threads, r \in Requests : CallMap(t, r)
  BY <1>6 DEF Invoke, RegisterSource, UnregisterSource, RegisterThrough, InitIgnored, Reset
<1> QED BY <1>2, <1>3, <1>4, <1>5, <1>6 DEF Next, Quiet, vars

(***************************************************************************)
(* What an evaluation has gathered                                         *)
(***************************************************************************)
\* Everything the mappings of a stack have got from their parameters.
Gathered(stack) == UNION {stack[i].items : i \in 1..Len(stack)}

LEMMA GatheredTop ==
    ASSUME NEW q \in Seq(Frame), q # << >>
    PROVE  /\ Head(q).items \subseteq Gathered(q) /\ Gathered(Tail(q)) \subseteq Gathered(q)
           /\ Tail(q) \in Seq(Frame) /\ Head(q) \in Frame
<1>1. /\ Len(q) \in Nat /\ Len(q) > 0 /\ Head(q) = q[1] /\ Tail(q) \in Seq(Frame)
      /\ Len(Tail(q)) = Len(q) - 1 /\ Head(q) \in Frame
      /\ \A i \in 1..Len(Tail(q)) : Tail(q)[i] = q[i + 1]
  BY HeadTailProperties, LenProperties
<1>2. \A i \in 1..Len(Tail(q)) : i + 1 \in 1..Len(q) /\ Tail(q)[i].items = q[i + 1].items
  BY <1>1
<1> QED BY <1>1, <1>2 DEF Gathered

LEMMA GatheredPush ==
    ASSUME NEW f \in Frame, NEW q \in Seq(Frame)
    PROVE  Gathered(<<f>> \o q) \subseteq f.items \cup Gathered(q)
<1>1. /\ Len(<<f>> \o q) = Len(q) + 1 /\ Len(q) \in Nat /\ (<<f>> \o q)[1] = f
      /\ \A i \in 2..(Len(q) + 1) : i - 1 \in 1..Len(q) /\ (<<f>> \o q)[i] = q[i - 1]
  BY PushType
<1>2. ASSUME NEW i \in 1..Len(<<f>> \o q)
      PROVE  (<<f>> \o q)[i].items \subseteq f.items \cup Gathered(q)
  <2>1. CASE i = 1
    BY <1>1, <2>1
  <2>2. CASE i # 1
    <3>1. i - 1 \in 1..Len(q) /\ (<<f>> \o q)[i].items = q[i - 1].items
      BY <1>1, <2>2
    <3> QED BY <3>1 DEF Gathered
  <2> QED BY <2>1, <2>2
<1> QED BY <1>2 DEF Gathered

\* What the stack of a call holds after a step of its evaluation.
LEMMA GatheredStep ==
    ASSUME IInv, NEW t \in Threads, Step(t), pc'[t] \in InCall
    PROVE  /\ pc[t] \in InCall =>
                Gathered(frames[t])' \subseteq Gathered(frames[t])
                    \cup (IF pc[t] = "resume" THEN reply[t].items ELSE {})
           /\ pc[t] \notin InCall => Gathered(frames[t])' = {}
<1>1. CallTypes
  BY DEF IInv, TypeOK
<1>2. ASSUME NEW n \in Names, LookupMiss(t, n) PROVE Gathered(frames[t])' = {}
  <2>1. frames'[t] = <<Open(CellOf(t), n)>>
    BY <1>1, <1>2 DEF LookupMiss, CallTypes
  <2> QED BY <2>1 DEF Gathered, Open
<1>3. CASE EvalDependency(t)
  <2> DEFINE n == Head(Top(t).rest)
  <2>1. /\ pc[t] = "eval" /\ frames[t] # NoFrames /\ Top(t).rest # << >>
        /\ Present(CellOf(t), n) /\ frames'[t] = <<Open(CellOf(t), n)>> \o frames[t]
    BY <1>1, <1>3 DEF EvalDependency, AtFrame, Holds, CallTypes
  <2>2. /\ frames[t] \in Seq(Frame) /\ Requested(t) /\ Locatable(t) /\ Top(t) \in Frame
    BY <2>1, Evaluator DEF InCall
  <2>3. n \in Names
    BY <2>1, <2>2 DEF Frame
  <2>4. Open(CellOf(t), n) \in Frame /\ Open(CellOf(t), n).items = {}
    BY <2>1, <2>2, <2>3, Located, OpenType DEF Open
  <2> QED BY <2>1, <2>2, <2>4, GatheredPush DEF InCall
<1>4. ASSUME NEW value, Deliver(t, value), frames[t] # NoFrames, pc[t] \in InCall
      PROVE  Gathered(frames[t])' \subseteq Gathered(frames[t])
  <2>1. frames'[t] = Tail(frames[t]) /\ frames[t] \in Seq(Frame)
    BY <1>1, <1>4 DEF Deliver, CallTypes
  <2> QED BY <1>4, <2>1, GatheredTop DEF NoFrames
<1>5. CASE EvalCombine(t) \/ FunctionReturns(t) \/ PostProcess(t)
  <2>1. pc[t] \in InCall /\ frames[t] # NoFrames /\ \E value : Deliver(t, value)
    BY <1>5 DEF EvalCombine, FunctionReturns, ReturnOwn, PostProcess, AtFrame, Holds, Retake,
       InCall, IInv, ThreadOK
  <2> QED BY <1>4, <2>1
<1>6. CASE EvalCallFunction(t) \/ EvalFetch(t) \/ SourceReturns(t)
  <2>1. frames' = frames /\ pc[t] \in InCall
    BY <1>6 DEF EvalCallFunction, EvalFetch, SourceReturns, AtFrame, Holds, Retake, InCall
  <2> QED BY <2>1 DEF Gathered
<1>7. CASE Resume(t)
  <2>1. pc[t] = "resume" /\ frames[t] # NoFrames /\ reply[t] # None
    BY <1>7 DEF Resume, AtFrame, Holds, IInv, ThreadOK
  <2>2. /\ frames[t] \in Seq(Frame) /\ reply[t] \in Reply /\ Tail(frames[t]) \in Seq(Frame)
        /\ Gathered(Tail(frames[t])) \subseteq Gathered(frames[t])
        /\ Top(t) \in Frame /\ Top(t).items \subseteq Gathered(frames[t])
    BY <1>1, <2>1, GatheredTop DEF CallTypes, NoFrames, Top
  <2>3. CASE TopDef(t).type = "EXPR" /\ reply[t].empty
    <3>1. frames'[t] = Tail(frames[t])
      BY <1>1, <1>7, <2>3 DEF Resume, CallTypes
    <3> QED BY <2>1, <2>2, <3>1 DEF InCall
  <2>4. CASE ~(TopDef(t).type = "EXPR" /\ reply[t].empty)
    <3> DEFINE top == [Top(t) EXCEPT !.rest  = Tail(@),
                                     !.items = @ \cup reply[t].items,
                                     !.empty = @ \/ reply[t].empty]
    <3>1. frames'[t] = <<top>> \o Tail(frames[t])
      BY <1>1, <1>7, <2>4 DEF Resume, CallTypes
    <3>2. Top(t).rest # << >>
      BY <2>1 DEF IInv, ThreadOK
    <3>3. Tail(Top(t).rest) \in Seq(Names)
      BY <2>2, <3>2 DEF Frame
    <3>4. top \in Frame /\ top.items = Top(t).items \cup reply[t].items
      BY <2>2, <3>3 DEF Frame, Reply
    <3> HIDE DEF top
    <3>5. Gathered(<<top>> \o Tail(frames[t])) \subseteq top.items \cup Gathered(Tail(frames[t]))
      BY <2>2, <3>4, GatheredPush
    <3>6. Gathered(frames[t])' = Gathered(<<top>> \o Tail(frames[t]))
      BY <3>1 DEF Gathered
    <3> QED BY <2>1, <2>2, <3>4, <3>5, <3>6 DEF InCall
  <2> QED BY <2>3, <2>4
<1>8. pc[t] = "lookup" => pc[t] \notin InCall
  BY DEF InCall
<1> QED BY <1>2, <1>3, <1>5, <1>6, <1>7, <1>8, EvaluatingSteps

\* What a call gets back from the mapping it evaluates.
LEMMA RepliedStep ==
    ASSUME IInv, NEW t \in Threads, Step(t), pc'[t] = "resume"
    PROVE  \/ /\ EvalCombine(t) \/ FunctionReturns(t)
              /\ frames[t] # NoFrames /\ pc[t] \in InCall
              /\ \E empty \in BOOLEAN : /\ reply'[t].items = Top(t).items \cup {OwnItem(t, empty)}
                                        /\ reply'[t].empty = empty
           \/ /\ PostProcess(t) /\ frames[t] # NoFrames /\ pc[t] = "post"
              /\ LET data == Processed(TopDef(t), fetch[t].data, Env(t))
                 IN  /\ reply'[t].items = {[OwnItem(t, data.empty) EXCEPT !.data = data]}
                     /\ reply'[t].empty = data.empty
           \/ /\ Resume(t) /\ reply'[t] = reply[t] /\ pc[t] = "resume" /\ frames[t] # NoFrames
              /\ TopDef(t).type = "EXPR" /\ reply[t].empty
<1>1. CallTypes /\ pc'[t] \in InCall
  BY DEF IInv, TypeOK, InCall
<1>2. ASSUME NEW value, Deliver(t, value) PROVE reply'[t] = value
  BY <1>1, <1>2 DEF Deliver, CallTypes
<1>3. CASE EvalCombine(t) \/ FunctionReturns(t)
  <2>1. PICK empty \in BOOLEAN : ReturnOwn(t, empty)
    <3>1. IsBlank(t) \in BOOLEAN
      BY DEF IsBlank
    <3> QED BY <1>3, <3>1 DEF EvalCombine, FunctionReturns
  <2>2. /\ reply'[t].items = Top(t).items \cup {OwnItem(t, empty)}
        /\ reply'[t].empty = empty
    BY <1>2, <2>1 DEF ReturnOwn
  <2> QED BY <1>3, <2>2 DEF EvalCombine, FunctionReturns, AtFrame, Holds, Retake, InCall, IInv,
             ThreadOK
<1>4. CASE PostProcess(t)
  BY <1>2, <1>4 DEF PostProcess, AtFrame, Holds
<1>5. CASE Resume(t)
  BY <1>1, <1>5 DEF Resume, AtFrame, Holds, Goto, CallTypes
<1>6. ASSUME NEW n \in Names, LookupMiss(t, n) PROVE FALSE
  BY <1>1, <1>6 DEF LookupMiss, Goto, CallTypes
<1>7. ~EvalDependency(t) /\ ~EvalCallFunction(t) /\ ~EvalFetch(t) /\ ~SourceReturns(t)
  BY <1>1 DEF EvalDependency, EvalCallFunction, EvalFetch, SourceReturns, AtFrame, Holds, Goto,
     CallTypes
<1> QED BY <1>1, <1>3, <1>4, <1>5, <1>6, <1>7, EvaluatingSteps

(***************************************************************************)
(* Where the arrays come from                                              *)
(***************************************************************************)
\* FromRegistered, against the registry srcs.
From(item, srcs) ==
    item.data # None =>
        \E c \in Cells :
            /\ item.of \in Names /\ Mapping[c] # None /\ Mapping[c][item.of] # None
            /\ Mapping[c][item.of].type = "DATA_SOURCE"
            /\ srcs[Mapping[c][item.of].source] # None
            /\ item.data.object = srcs[Mapping[c][item.of].source]

FromAll(items, srcs) == \A item \in items : From(item, srcs)

\* A registry that only grows has what it had.
Extends(srcs, more) == \A s \in Sources : srcs[s] # None => more[s] = srcs[s]

LEMMA FromGrows ==
    ASSUME NEW srcs, NEW more, Extends(srcs, more), NEW items, FromAll(items, srcs)
    PROVE  FromAll(items, more)
<1> SUFFICES ASSUME NEW item \in items, item.data # None PROVE From(item, more)
  BY DEF FromAll, From
<1>1. PICK c \in Cells :
        /\ item.of \in Names /\ Mapping[c] # None /\ Mapping[c][item.of] # None
        /\ Mapping[c][item.of].type = "DATA_SOURCE"
        /\ srcs[Mapping[c][item.of].source] # None
        /\ item.data.object = srcs[Mapping[c][item.of].source]
  BY DEF FromAll, From
<1>2. Mapping[c][item.of].source \in Sources
  BY <1>1, DefType
<1> QED BY <1>1, <1>2 DEF From, Extends

\* The caches and the calls hold arrays of the sources in srcs.
CachedFrom(srcs) ==
    /\ \A k \in DsKeys : dsCache[k] # None => dsCache[k].object = srcs[k.source]
    /\ \A n \in Names : mappingCache[n] # None => FromAll(mappingCache[n].items, srcs)

GatheredFrom(t, srcs) ==
    /\ pc[t] = "post" => fetch[t].data.object = srcs[TopDef(t).source]
    /\ pc[t] \in InCall => FromAll(Gathered(frames[t]), srcs)
    /\ pc[t] = "resume" \/ Answered(t) => FromAll(reply[t].items, srcs)

OriginInv ==
    /\ CacheInv /\ SourcesKept
    /\ CachedFrom(sources) /\ \A t \in Threads : GatheredFrom(t, sources)

\* Whoever registers a source during a callback leaves the arrays at hand with theirs.
LEMMA OriginGrows ==
    ASSUME OriginInv, NEW more, Extends(sources, more)
    PROVE  CachedFrom(more) /\ \A t \in Threads : GatheredFrom(t, more)
<1>1. IInv /\ CacheTypes /\ CachedFrom(sources) /\ \A t \in Threads : GatheredFrom(t, sources)
  BY DEF OriginInv, CacheInv, IInv, TypeOK
<1>2. ASSUME NEW k \in DsKeys, dsCache[k] # None PROVE dsCache[k].object = more[k.source]
  <2>1. dsCache[k].object = sources[k.source]
    BY <1>1, <1>2 DEF CachedFrom
  <2>2. dsCache[k].object \in Nat /\ k.source \in Sources
    BY <1>1, <1>2 DEF CacheTypes, Data, DsKeys
  <2>3. sources[k.source] # None
    BY <2>1, <2>2, NoneDistinct
  <2> QED BY <2>1, <2>2, <2>3 DEF Extends
<1>3. CachedFrom(more)
  BY <1>1, <1>2, FromGrows DEF CachedFrom
<1>4. ASSUME NEW t \in Threads, pc[t] = "post"
      PROVE  fetch[t].data.object = more[TopDef(t).source]
  <2>1. fetch[t].data.object = sources[TopDef(t).source]
    BY <1>1, <1>4 DEF GatheredFrom
  <2>2. /\ TopDef(t).type = "DATA_SOURCE" /\ fetch[t].data \in Data /\ frames[t] # NoFrames
    BY <1>1, <1>4, FetchType DEF IInv, ThreadOK, Fetching
  <2>3. TopDef(t).source \in Sources
    BY <1>1, <1>4, <2>2, Evaluator DEF InCall
  <2>4. fetch[t].data.object \in Nat
    BY <2>2 DEF Data
  <2>5. sources[TopDef(t).source] # None
    BY <2>1, <2>4, NoneDistinct
  <2> QED BY <2>1, <2>3, <2>5 DEF Extends
<1>5. \A t \in Threads : GatheredFrom(t, more)
  BY <1>1, <1>4, FromGrows DEF GatheredFrom
<1> QED BY <1>3, <1>5

\* What a call adds of its own: no array, or the one its data source handed over.
LEMMA OwnItemFrom ==
    ASSUME NEW t \in Threads, NEW empty, NEW srcs PROVE From(OwnItem(t, empty), srcs)
BY DEF From, OwnItem

LEMMA PostItemFrom ==
    ASSUME OriginInv, NEW t \in Threads, PostProcess(t)
    PROVE  \A empty : From([OwnItem(t, empty) EXCEPT
                               !.data = Processed(TopDef(t), fetch[t].data, Env(t))], sources)
<1> TAKE empty
<1> DEFINE raw == fetch[t].data
           data == Processed(TopDef(t), raw, Env(t))
           item == [OwnItem(t, empty) EXCEPT !.data = data]
<1>1. IInv /\ GatheredFrom(t, sources)
  BY DEF OriginInv, CacheInv
<1>2. pc[t] = "post" /\ TopDef(t).type = "DATA_SOURCE" /\ raw \in Data
  BY <1>1, PostProcessCaches
<1>3. frames[t] # NoFrames
  BY DEF PostProcess, AtFrame
<1>4. /\ Requested(t) /\ Locatable(t) /\ Present(CellOf(t), Top(t).name) /\ Top(t) \in Frame
      /\ CellOf(t) \in Cells /\ TopDef(t).source \in Sources
  BY <1>1, <1>2, <1>3, Evaluator DEF InCall
<1>5. Top(t).name \in Names
  BY <1>4 DEF Frame
<1>6. Mapping[CellOf(t)] # None /\ TopDef(t) # None
  BY <1>1, <1>4, <1>5, Located DEF TopDef
<1>7. data.object = sources[TopDef(t).source]
  BY <1>1, <1>2, ProcessedOrigin DEF GatheredFrom
<1>8. sources[TopDef(t).source] # None
  <2>1. raw.object \in Nat /\ raw.object = sources[TopDef(t).source]
    BY <1>1, <1>2 DEF GatheredFrom, Data
  <2> QED BY <2>1, NoneDistinct
<1>9. item.data = data /\ item.of = Top(t).name
  BY DEF OwnItem
<1> HIDE DEF item, data
<1>10. From(item, sources)
  BY <1>2, <1>4, <1>5, <1>6, <1>7, <1>8, <1>9 DEF From, TopDef
<1> QED BY <1>10 DEF item, data

\* What a call holds after one of its own steps.
LEMMA GatheredFromOwnStep ==
    ASSUME OriginInv, NEW srcs, Extends(sources, srcs), NEW t \in Threads, Step(t)
    PROVE  GatheredFrom(t, srcs)'
<1>1. IInv /\ SourcesKept /\ GatheredFrom(t, srcs) /\ CachedFrom(srcs)
  BY OriginGrows DEF OriginInv, CacheInv
<1>2. ASSUME pc'[t] = "post" PROVE fetch'[t].data.object = srcs[TopDef(t)'.source]
  <2>1. CASE EvalFetch(t)
    <3>1. /\ KeyFor(t) \in DsKeys /\ TopDef(t)' = TopDef(t) /\ dsCache[KeyFor(t)] # None
          /\ fetch'[t].data = dsCache[KeyFor(t)]
      BY <1>1, <1>2, <2>1, FetchMade
    <3>2. KeyFor(t).source = TopDef(t).source
      BY DEF KeyFor
    <3> QED BY <1>1, <3>1, <3>2 DEF CachedFrom
  <2>2. CASE SourceReturns(t)
    <3>1. /\ pc[t] = "callback" /\ TopDef(t).type = "DATA_SOURCE" /\ TopDef(t)' = TopDef(t)
          /\ fetch'[t].data.object = store[CellOf(t)].slots[Top(t).name]
      BY <1>1, <2>2, SourceLabels
    <3>2. frames[t] # NoFrames
      BY <1>1, <3>1, FetchType
    <3>3. /\ TopDef(t).source \in Sources
          /\ store[CellOf(t)].slots[Top(t).name] = sources[TopDef(t).source]
      BY <1>1, <3>1, <3>2, PointsToRegistered
    <3>4. store[CellOf(t)].slots[Top(t).name] \in Nat
      BY <1>1, <3>1, <3>2, Evaluator DEF InCall
    <3>5. sources[TopDef(t).source] # None
      BY <3>3, <3>4, NoneDistinct
    <3> QED BY <3>1, <3>3, <3>5 DEF Extends
  <2>3. CASE EvalCallFunction(t)
    BY <1>1, <1>2, <2>3 DEF EvalCallFunction, Goto, IInv, TypeOK, CallTypes
  <2> QED BY <1>1, <1>2, <2>1, <2>2, <2>3, CalledOut
<1>3. ASSUME pc'[t] \in InCall PROVE FromAll(Gathered(frames[t])', srcs)
  BY <1>1, <1>3, GatheredStep DEF GatheredFrom, FromAll
<1>4. ASSUME pc'[t] = "resume" PROVE FromAll(reply'[t].items, srcs)
  <2>1. CASE EvalCombine(t) \/ FunctionReturns(t)
    <3>1. /\ frames[t] # NoFrames /\ pc[t] \in InCall
          /\ \E empty \in BOOLEAN : reply'[t].items = Top(t).items \cup {OwnItem(t, empty)}
      BY <1>1, <1>4, <2>1, RepliedStep DEF EvalCombine, FunctionReturns, AtFrame, Holds, Retake,
         PostProcess, Resume
    <3>2. Top(t).items \subseteq Gathered(frames[t])
      BY <1>1, <3>1, GatheredTop DEF Top, IInv, TypeOK, CallTypes, NoFrames
    <3> QED BY <1>1, <3>1, <3>2, OwnItemFrom DEF GatheredFrom, FromAll
  <2>2. CASE PostProcess(t)
    <3> DEFINE data == Processed(TopDef(t), fetch[t].data, Env(t))
               item == [OwnItem(t, data.empty) EXCEPT !.data = data]
    <3>1. reply'[t].items = {item}
      BY <1>1, <1>4, <2>2, RepliedStep DEF EvalCombine, FunctionReturns, AtFrame, Holds, Retake,
         PostProcess, Resume
    <3>2. From(item, sources)
      BY <2>2, PostItemFrom
    <3> HIDE DEF item
    <3>3. FromAll({item}, sources)
      BY <3>2 DEF FromAll
    <3> QED BY <3>1, <3>3, FromGrows
  <2>3. CASE reply'[t] = reply[t] /\ pc[t] = "resume"
    BY <1>1, <2>3 DEF GatheredFrom
  <2> QED BY <1>1, <1>4, <2>1, <2>2, <2>3, RepliedStep
<1>5. ASSUME Answered(t)' PROVE FromAll(reply'[t].items, srcs)
  <2>1. pc'[t] = "idle" /\ reply'[t] # None
    BY <1>5 DEF Answered
  <2>2. CASE \E n \in Names : LookupHit(t, n) /\ reply'[t] = mappingCache[n]
    BY <1>1, <2>1, <2>2 DEF CachedFrom
  <2>3. CASE reply'[t] = reply[t] /\ pc[t] = "resume"
    BY <1>1, <2>3 DEF GatheredFrom
  <2> QED BY <1>1, <2>1, <2>2, <2>3, ReturningSteps
<1> QED BY <1>2, <1>3, <1>4, <1>5 DEF GatheredFrom

\* What is put into a cache.
LEMMA CachedFromStep ==
    ASSUME OriginInv, [Next]_vars, NEW srcs, Extends(sources, srcs)
    PROVE  CachedFrom(srcs)'
<1>1. /\ IInv /\ CacheTypes /\ CachedFrom(srcs) /\ \A t \in Threads : FetchOK(t)
      /\ \A t \in Threads : GatheredFrom(t, srcs)
  BY OriginGrows DEF OriginInv, CacheInv, IInv, TypeOK
<1>2. CASE UNCHANGED <<mappingCache, dsCache>>
  BY <1>1, <1>2 DEF CachedFrom
<1>3. ASSUME NEW t \in Threads, PostProcess(t) PROVE CachedFrom(srcs)'
  <2> DEFINE key  == fetch[t].key
             data == Processed(TopDef(t), fetch[t].data, Env(t))
  <2>1. /\ TopDef(t).type = "DATA_SOURCE" /\ pc[t] = "post" /\ fetch[t].data \in Data
        /\ mappingCache' = mappingCache
        /\ dsCache' = dsCache \/ dsCache' = [dsCache EXCEPT ![key] = data]
    BY <1>1, <1>3, PostProcessCaches
  <2>2. key.source = TopDef(t).source
    BY <1>1, <2>1 DEF FetchOK
  <2>3. data.object = srcs[key.source]
    BY <1>1, <2>1, <2>2, ProcessedOrigin DEF GatheredFrom
  <2> HIDE DEF key, data
  <2>4. \A k \in DsKeys : dsCache'[k] = dsCache[k] \/ (k = key /\ dsCache'[k] = data)
    BY <1>1, <2>1 DEF CacheTypes
  <2> QED BY <1>1, <2>1, <2>3, <2>4 DEF CachedFrom
<1>4. ASSUME NEW t \in Threads, NEW n \in Names, Finish(t, n) PROVE CachedFrom(srcs)'
  <2>1. pc[t] = "resume" /\ dsCache' = dsCache
    BY <1>4 DEF Finish, Holds
  <2>2. FromAll(reply[t].items, srcs)
    BY <1>1, <2>1 DEF GatheredFrom
  <2>3. \A m \in Names : mappingCache'[m] \in {mappingCache[m], reply[t]}
    BY <1>1, <1>4 DEF Finish, CacheTypes
  <2> QED BY <1>1, <2>1, <2>2, <2>3 DEF CachedFrom
<1>5. ASSUME NEW t \in Threads, Define(t) PROVE UNCHANGED <<mappingCache, dsCache>>
  BY <1>5 DEF Define
<1> QED BY <1>1, <1>2, <1>3, <1>4, <1>5, CacheWriters

LEMMA OriginInductive ==
    ASSUME NoUnregister
    PROVE  /\ Init => OriginInv
           /\ OriginInv /\ [Next]_vars => OriginInv'
<1>1. ASSUME Init PROVE OriginInv
  <2>1. CachedFrom(sources) /\ \A t \in Threads : GatheredFrom(t, sources)
    BY <1>1 DEF Init, CachedFrom, GatheredFrom, Answered, InCall
  <2> QED BY <1>1, <2>1, CacheInitially, SourcesInductive DEF OriginInv
<1>2. ASSUME OriginInv, [Next]_vars PROVE OriginInv'
  <2>1. CacheInv' /\ SourcesKept' /\ IInv
    BY <1>2, CacheInductive, SourcesInductive DEF OriginInv, CacheInv
  <2>2. Extends(sources, sources')
    BY <1>2, <2>1, SourcesStay DEF Extends
  <2>3. CachedFrom(sources)'
    BY <1>2, <2>2, CachedFromStep DEF CachedFrom
  <2>4. ASSUME NEW t \in Threads PROVE GatheredFrom(t, sources)'
    <3>1. GatheredFrom(t, sources')
      BY <1>2, <2>2, OriginGrows
    <3>2. CASE SameCall(t)
      <4>1. TopDef(t)' = TopDef(t) /\ Gathered(frames[t])' = Gathered(frames[t])
        BY <3>2 DEF SameCall, TopDef, Top, CellOf, KeyOf, Gathered
      <4> QED BY <3>1, <3>2, <4>1 DEF SameCall, GatheredFrom, Answered
    <3>3. CASE Step(t)
      BY <1>2, <2>2, <3>3, GatheredFromOwnStep DEF GatheredFrom
    <3>4. CASE pc'[t] = "init" \/ (pc'[t] \in {"idle", "lookup", "load"} /\ reply'[t] = None)
      BY <3>4 DEF GatheredFrom, Answered, InCall
    <3> QED BY <1>2, <2>1, <3>2, <3>3, <3>4, Movers
  <2> QED BY <2>1, <2>3, <2>4 DEF OriginInv
<1> QED BY <1>1, <1>2

\* DataSourceMapping keeps a raw pointer to its data source, the caches keep what the
\* source returned, and reset keeps the caches: as long as nobody unregisters a source,
\* the one a mapping asks is the one registered under the name the mapping gives, when
\* it is asked and until it answers, and so is the one that handed over whatever array
\* a call returns, be it read or cached before a reset.
THEOREM SourcesStayLive ==
    ASSUME NoUnregister PROVE Spec => []FetchesLiveSource
<1>1. ASSUME OriginInv PROVE FetchesLiveSource
  <2>1. SourcesKept /\ IInv
    BY <1>1 DEF OriginInv, CacheInv
  <2>2. ASSUME NEW t \in Threads, pc[t] = "callback", TopDef(t).type = "DATA_SOURCE"
        PROVE  store[CellOf(t)].slots[Top(t).name] = sources[TopDef(t).source]
    <3>1. frames[t] # NoFrames
      BY <2>1, <2>2, FetchType
    <3> QED BY <2>1, <2>2, <3>1, PointsToRegistered
  <2>3. ASSUME NEW t \in Threads, Answered(t), NEW item \in reply[t].items
        PROVE  FromRegistered(item)
    <3>1. From(item, sources)
      BY <1>1, <2>3 DEF OriginInv, GatheredFrom, FromAll
    <3> QED BY <3>1 DEF From, FromRegistered
  <2>4. \A t \in Threads : pc[t] # "undefined"
    BY <2>1 DEF SourcesKept
  <2> QED BY <2>2, <2>3, <2>4 DEF FetchesLiveSource
<1>2. (Init => OriginInv) /\ (OriginInv /\ [Next]_vars => OriginInv')
  BY OriginInductive
<1> QED BY <1>1, <1>2, PTL DEF Spec

(***************************************************************************)
(* The parts of an answer                                                  *)
(***************************************************************************)
\* What a part of an answer to r must be: fetched with the attributes of r and,
\* when calls do not overlap and nothing is cached, computed for r throughout.
Yields(r, item) ==
    /\ item.data # None => item.data.attrs = Sent(r, item.data.text)
    /\ Exclusive /\ NoCaching => ItemAnswers(r, item)

AllYield(r, items) == \A item \in items : Yields(r, item)

\* The globals a call renders its templates with are its own.
EnvOwn(t) ==
    pc[t] \in InCall /\ Exclusive => \A v \in Vars : Agrees(request[t], v, Env(t)[v])

\* The arguments args, rendered with the values of r.
ArgsFor(r, args, text) ==
    \E arg \in Values \cup {None} : Agrees(r, ArgVar[args], arg) /\ text = ArgText[args][arg]

\* The array a call asked for carries its own indices.
FetchOwn(t) ==
    /\ pc[t] \in {"callback", "post"} /\ TopDef(t).type = "DATA_SOURCE"
    /\ Exclusive /\ NoCaching
    => ~fetch[t].hit /\ ArgsFor(request[t], TopDef(t).args, fetch[t].key.text)

Answering(t) ==
    /\ pc[t] \in InCall => AllYield(request[t], Gathered(frames[t]))
    /\ pc[t] = "resume" => AllYield(request[t], reply[t].items)
    /\ Answered(t) /\ ~cacheEnabled => AllYield(request[t], reply[t].items)

AnswerInv ==
    /\ CacheInv /\ Mode
    /\ \A t \in Threads : EnvOwn(t) /\ FetchOwn(t) /\ Answering(t)

\* Under a lock around the whole call, the globals of its partition are the
\* caller's from the lookup to the answer.
LEMMA EnvOwnStep ==
    ASSUME IInv, [Next]_vars, NEW t \in Threads, EnvOwn(t)
    PROVE  EnvOwn(t)'
<1> SUFFICES ASSUME pc'[t] \in InCall, Exclusive
             PROVE  \A v \in Vars : Agrees(request'[t], v, Env(t)'[v])
  BY DEF EnvOwn
<1>1. ASSUME NEW n \in Names, LookupMiss(t, n)
      PROVE  \A v \in Vars : Agrees(request'[t], v, Env(t)'[v])
  <2>1. request' = request /\ CellOf(t)' = CellOf(t)
    BY <1>1 DEF LookupMiss, CellOf, KeyOf
  <2>2. Env(t)' = [v \in Vars |-> IF Gives(request[t], v) THEN request[t].vals[v]
                                                       ELSE Env(t)[v]]
    BY <1>1, <2>1, LookupWrites DEF Env
  <2> QED BY <2>1, <2>2, NoneDistinct DEF Agrees
<1>2. ASSUME pc[t] \in InCall, request'[t] = request[t], store' = store
      PROVE  \A v \in Vars : Agrees(request'[t], v, Env(t)'[v])
  BY <1>2 DEF EnvOwn, Env, CellOf, KeyOf
<1>3. ASSUME pc[t] \in InCall PROVE store' = store
  <2>1. owner = t
    BY <1>3 DEF IInv, ThreadOK, InCall
  <2>2. ASSUME NEW u \in Threads, NEW n \in Names, StoreGroup(u) \/ LookupMiss(u, n) PROVE FALSE
    <3>1. owner = u /\ pc[u] \in {"define", "lookup"}
      BY <2>2 DEF StoreGroup, LookupMiss, Holds
    <3> QED BY <1>3, <2>1, <3>1 DEF InCall
  <2>3. ASSUME NEW u \in Threads, StoreGroup(u) PROVE FALSE
    BY <1>3, <2>1, <2>3 DEF StoreGroup, Holds, InCall
  <2> QED BY <1>3, <2>2, <2>3, StoreWriters
<1>4. CASE SameCall(t)
  BY <1>2, <1>3, <1>4 DEF SameCall
<1>5. CASE Step(t)
  BY <1>1, <1>2, <1>3, <1>5, EvaluatingSteps
<1> QED BY <1>4, <1>5, Movers DEF InCall

LEMMA FetchOwnStep ==
    ASSUME AnswerInv, [Next]_vars, NEW t \in Threads
    PROVE  FetchOwn(t)'
<1> SUFFICES ASSUME pc'[t] \in {"callback", "post"}, TopDef(t)'.type = "DATA_SOURCE",
                    Exclusive, NoCaching
             PROVE  /\ ~fetch'[t].hit
                    /\ ArgsFor(request'[t], TopDef(t)'.args, fetch'[t].key.text)
  BY DEF FetchOwn
<1>1. IInv /\ ~cacheEnabled /\ EnvOwn(t) /\ FetchOwn(t)
  BY DEF AnswerInv, CacheInv, Mode, NoCaching
<1>2. CASE SameCall(t)
  <2>1. TopDef(t)' = TopDef(t)
    BY <1>2 DEF SameCall, TopDef, Top, CellOf, KeyOf
  <2> QED BY <1>1, <1>2, <2>1 DEF SameCall, FetchOwn
<1>3. CASE EvalCallFunction(t)
  <2>1. TopDef(t)' = TopDef(t) /\ TopDef(t).type = "CUSTOM"
    BY <1>3 DEF EvalCallFunction, TopDef, Top, CellOf, KeyOf
  <2> QED BY <2>1
<1>4. CASE EvalFetch(t)
  <2>1. pc[t] = "eval" /\ frames[t] # NoFrames /\ request' = request
    BY <1>4 DEF EvalFetch, AtFrame, Holds
  <2>2. TopDef(t).args \in Args /\ ArgVar[TopDef(t).args] \in Vars \cup {None}
    BY <1>1, <1>4, <2>1, FetchMade, Evaluator, HandlerAssumption DEF InCall
  <2> DEFINE arg == Rendered(Env(t), ArgVar[TopDef(t).args])
  <2>3. Env(t) \in Envs
    BY <1>1, <2>1, Evaluator DEF InCall
  <2>4. arg \in Values \cup {None} /\ Agrees(request[t], ArgVar[TopDef(t).args], arg)
    BY <1>1, <2>1, <2>2, <2>3 DEF EnvOwn, Envs, InCall, Rendered, Agrees
  <2>5. KeyFor(t).text = ArgText[TopDef(t).args][arg]
    BY DEF KeyFor, RenderedArgs
  <2> HIDE DEF arg
  <2>6. ArgsFor(request[t], TopDef(t).args, KeyFor(t).text)
    BY <2>4, <2>5 DEF ArgsFor
  <2> QED BY <1>1, <1>4, <2>1, <2>6, FetchMade
<1>5. CASE SourceReturns(t)
  <2>1. request' = request
    BY <1>5 DEF SourceReturns
  <2> QED BY <1>1, <1>5, <2>1, SourceLabels DEF FetchOwn
<1>6. Step(t) \/ SameCall(t)
  BY <1>1, Movers
<1> QED BY <1>1, <1>2, <1>3, <1>4, <1>5, <1>6, CalledOut

\* What a mapping adds of its own is rendered with the caller's values.
LEMMA OwnItemYields ==
    ASSUME IInv, NEW t \in Threads, EnvOwn(t), pc[t] \in InCall, frames[t] # NoFrames,
           NEW empty
    PROVE  Yields(request[t], OwnItem(t, empty))
<1>1. /\ Requested(t) /\ Locatable(t) /\ Present(CellOf(t), Top(t).name) /\ Top(t) \in Frame
      /\ TopDef(t) \in Defs
  BY Evaluator
<1>2. Top(t).name \in Names
  BY <1>1 DEF Frame
<1>3. TopDef(t) # None /\ TopDef(t).var \in Vars \cup {None}
  BY <1>1, <1>2, Located DEF TopDef, Defs
<1>4. /\ OwnItem(t, empty).data = None /\ OwnItem(t, empty).of = Top(t).name
      /\ OwnItem(t, empty).var = Rendered(Env(t), TopDef(t).var)
  BY DEF OwnItem
<1>5. Exclusive => Agrees(request[t], TopDef(t).var, OwnItem(t, empty).var)
  BY <1>3, <1>4 DEF EnvOwn, Rendered, Agrees
<1> QED BY <1>3, <1>4, <1>5 DEF Yields, ItemAnswers, TopDef, CellOf

\* An array fetched for the caller, sliced and scaled once.
LEMMA PostItemYields ==
    ASSUME AnswerInv, NEW t \in Threads, PostProcess(t)
    PROVE  \A empty : Yields(request[t], [OwnItem(t, empty) EXCEPT
                                 !.data = Processed(TopDef(t), fetch[t].data, Env(t))])
<1> TAKE empty
<1> DEFINE d == TopDef(t)
           raw == fetch[t].data
           data == Processed(d, raw, Env(t))
           item == [OwnItem(t, empty) EXCEPT !.data = data]
<1>1. IInv /\ EnvOwn(t) /\ FetchOwn(t) /\ FetchOK(t)
  BY DEF AnswerInv, CacheInv
<1>2. pc[t] = "post" /\ d.type = "DATA_SOURCE" /\ raw \in Data /\ fetch[t] \in Fetch
  BY <1>1, PostProcessCaches
<1>3. frames[t] # NoFrames /\ Sliceable(d, raw, Env(t))
  BY DEF PostProcess, AtFrame
<1>4. /\ Requested(t) /\ Locatable(t) /\ Present(CellOf(t), Top(t).name) /\ Top(t) \in Frame
      /\ d \in Defs /\ Env(t) \in Envs
  BY <1>1, <1>2, <1>3, Evaluator DEF InCall
<1>5. Top(t).name \in Names
  BY <1>4 DEF Frame
<1>6. d # None /\ d.slice \in Vars \cup {None}
  BY <1>1, <1>4, <1>5, Located DEF TopDef, Defs
<1>7. item.data = data /\ item.of = Top(t).name
  BY DEF OwnItem
<1>8. data.text = raw.text /\ data.attrs = raw.attrs /\ data.empty = raw.empty
  BY <1>2, ProcessedOrigin
<1>9. /\ raw.text = fetch[t].key.text /\ raw.attrs = Sent(request[t], raw.text)
      /\ ~fetch[t].hit => raw.posts = << >>
  BY <1>1, <1>2 DEF FetchOK
<1>10. ASSUME Exclusive, NoCaching PROVE FetchedFor(request[t], d, data)
  <2>1. raw.posts = << >> /\ ArgsFor(request[t], d.args, data.text)
    BY <1>1, <1>2, <1>8, <1>9, <1>10 DEF FetchOwn
  <2>2. ProcessedOnce(d, data)
        /\ (d.slice # None /\ ~data.empty => Agrees(request[t], d.slice, data.posts[1].at))
    <3>1. CASE raw.empty \/ (d.slice = None /\ ~d.scale)
      <4>1. data = raw
        BY <3>1 DEF Processed
      <4> QED BY <2>1, <3>1, <4>1, <1>3 DEF ProcessedOnce, Sliceable
    <3>2. CASE ~(raw.empty \/ (d.slice = None /\ ~d.scale))
      <4> DEFINE post == [scaled |-> d.scale, at |-> Rendered(Env(t), d.slice)]
      <4>1. data.posts = Append(raw.posts, post)
        BY <1>2, <3>2 DEF Processed, Data
      <4>2. Len(data.posts) = 1 /\ data.posts[1] = post
        BY <2>1, <4>1
      <4>3. Agrees(request[t], d.slice, post.at)
        BY <1>1, <1>2, <1>6, <1>10 DEF EnvOwn, InCall, Rendered, Agrees
      <4> QED BY <1>8, <3>2, <4>2, <4>3 DEF ProcessedOnce
    <3> QED BY <3>1, <3>2
  <2> QED BY <1>8, <1>9, <2>1, <2>2 DEF FetchedFor, ArgsFor
<1>11. data # None
  <2>1. data \in Data
    BY <1>1, ProcessedType
  <2> QED BY <2>1, NoneIsNoRecord
<1> HIDE DEF item, data
<1>12. Exclusive /\ NoCaching => ItemAnswers(request[t], item)
  BY <1>6, <1>7, <1>10, <1>11 DEF ItemAnswers, TopDef, CellOf
<1>13. item.data.attrs = Sent(request[t], item.data.text)
  BY <1>7, <1>8, <1>9
<1>14. Yields(request[t], item)
  BY <1>12, <1>13 DEF Yields
<1> QED BY <1>14 DEF item, data

\* What a call has gathered, and what it returns, after one of its own steps.
LEMMA AnsweringOwnStep ==
    ASSUME AnswerInv, Mode', NEW t \in Threads, Step(t)
    PROVE  Answering(t)'
<1>1. IInv /\ EnvOwn(t) /\ Answering(t) /\ Mode
  BY DEF AnswerInv, CacheInv
<1>2. ASSUME pc'[t] \in InCall PROVE AllYield(request'[t], Gathered(frames[t])')
  <2>1. request'[t] = request[t]
    BY <1>1, <1>2, EvaluatingSteps
  <2> QED BY <1>1, <1>2, <2>1, GatheredStep DEF Answering, AllYield
<1>3. ASSUME pc'[t] = "resume" PROVE AllYield(request'[t], reply'[t].items)
  <2>1. request'[t] = request[t]
    BY <1>1, <1>3, EvaluatingSteps DEF InCall
  <2>2. CASE EvalCombine(t) \/ FunctionReturns(t)
    <3>1. /\ frames[t] # NoFrames /\ pc[t] \in InCall
          /\ \E empty \in BOOLEAN : reply'[t].items = Top(t).items \cup {OwnItem(t, empty)}
      BY <1>1, <1>3, <2>2, RepliedStep DEF EvalCombine, FunctionReturns, AtFrame, Holds, Retake,
         PostProcess, Resume
    <3>2. Top(t).items \subseteq Gathered(frames[t])
      BY <1>1, <3>1, GatheredTop DEF Top, IInv, TypeOK, CallTypes, NoFrames
    <3>3. \A empty : Yields(request[t], OwnItem(t, empty))
      BY <1>1, <3>1, OwnItemYields
    <3> QED BY <1>1, <2>1, <3>1, <3>2, <3>3 DEF Answering, AllYield
  <2>3. CASE PostProcess(t)
    <3> DEFINE data == Processed(TopDef(t), fetch[t].data, Env(t))
               item == [OwnItem(t, data.empty) EXCEPT !.data = data]
    <3>1. reply'[t].items = {item}
      BY <1>1, <1>3, <2>3, RepliedStep DEF EvalCombine, FunctionReturns, AtFrame, Holds, Retake,
         PostProcess, Resume
    <3>2. Yields(request[t], item)
      BY <2>3, PostItemYields
    <3> HIDE DEF item
    <3> QED BY <2>1, <3>1, <3>2 DEF AllYield
  <2>4. CASE reply'[t] = reply[t] /\ pc[t] = "resume"
    BY <1>1, <2>1, <2>4 DEF Answering
  <2> QED BY <1>1, <1>3, <2>2, <2>3, <2>4, RepliedStep
<1>4. ASSUME Answered(t)', ~cacheEnabled' PROVE AllYield(request'[t], reply'[t].items)
  <2>1. pc'[t] = "idle" /\ reply'[t] # None
    BY <1>4 DEF Answered
  <2>2. cacheEnabled' = cacheEnabled
    BY <1>1, StepIsOwn
  <2>3. ASSUME NEW n \in Names, LookupHit(t, n) PROVE FALSE
    BY <1>1, <1>4, <2>2, <2>3 DEF Mode, LookupHit
  <2>4. request'[t] = request[t] /\ reply'[t] = reply[t] /\ pc[t] = "resume"
    BY <1>1, <2>1, <2>3, ReturningSteps
  <2> QED BY <1>1, <2>4 DEF Answering
<1> QED BY <1>2, <1>3, <1>4 DEF Answering

LEMMA AnsweringStep ==
    ASSUME AnswerInv, Mode', [Next]_vars, CacheModeFixed, NEW t \in Threads
    PROVE  Answering(t)'
<1>1. IInv /\ Answering(t) /\ Mode
  BY DEF AnswerInv, CacheInv
<1>2. CASE SameCall(t)
  <2>1. /\ pc'[t] \in InCall => AllYield(request'[t], Gathered(frames[t])')
        /\ pc'[t] = "resume" => AllYield(request'[t], reply'[t].items)
    BY <1>1, <1>2 DEF SameCall, Answering, Gathered
  <2>2. ASSUME Answered(t)', ~cacheEnabled' PROVE AllYield(request'[t], reply'[t].items)
    <3>1. Answered(t)
      BY <1>2, <2>2 DEF Answered, SameCall
    <3>2. ~cacheEnabled
      <4>1. ASSUME NEW u \in Threads, NEW c \in Configs, InitLocate(u, c), cacheEnabled PROVE FALSE
        <5>1. register = {} /\ ~c.cache
          BY <2>2, <4>1 DEF InitLocate
        <5>2. "reset" \in Api
          BY <1>1, <3>1, <5>1 DEF Mode, Answered
        <5> QED BY <1>1, <4>1, <5>1, <5>2 DEF Mode, CacheModeFixed
      <4>2. ASSUME NEW u \in Threads, Step(u) PROVE cacheEnabled' = cacheEnabled
        BY <1>1, <4>2, StepIsOwn
      <4>3. ASSUME Invoke
            PROVE  cacheEnabled' = cacheEnabled \/ \E u \in Threads, c \in Configs : InitLocate(u, c)
        BY <4>3 DEF Invoke, RegisterSource, UnregisterSource, RegisterThrough, InitIgnored,
           Reset, CallMap, cacheVars
      <4> QED BY <2>2, <4>1, <4>2, <4>3 DEF Next, Quiet, vars, cacheVars
    <3> QED BY <1>1, <1>2, <3>1, <3>2 DEF SameCall, Answering
  <2> QED BY <2>1, <2>2 DEF Answering
<1>3. CASE pc'[t] = "init"
  BY <1>3 DEF Answering, InCall, Answered
<1>4. CASE pc'[t] \in {"idle", "lookup", "load"} /\ reply'[t] = None
  BY <1>4 DEF Answering, InCall, Answered
<1> QED BY <1>1, <1>2, <1>3, <1>4, AnsweringOwnStep, Movers

LEMMA AnswerInductive ==
    ASSUME CacheModeFixed
    PROVE  /\ Init => AnswerInv
           /\ AnswerInv /\ [Next]_vars => AnswerInv'
<1>1. ASSUME Init PROVE AnswerInv
  <2>1. Mode /\ \A t \in Threads : EnvOwn(t) /\ FetchOwn(t) /\ Answering(t)
    BY <1>1 DEF Init, Mode, EnvOwn, FetchOwn, Answering, Answered, InCall
  <2> QED BY <1>1, <2>1, CacheInitially DEF AnswerInv
<1>2. ASSUME AnswerInv, [Next]_vars PROVE AnswerInv'
  <2>1. CacheInv'
    BY <1>2, CacheInductive DEF AnswerInv
  <2>2. Mode'
    BY <1>2, ModeStep DEF AnswerInv, CacheInv
  <2>3. \A t \in Threads : EnvOwn(t)' /\ FetchOwn(t)' /\ Answering(t)'
    BY <1>2, <2>2, EnvOwnStep, FetchOwnStep, AnsweringStep DEF AnswerInv, CacheInv
  <2> QED BY <2>1, <2>2, <2>3 DEF AnswerInv
<1> QED BY <1>1, <1>2

\* map() with caching off: the arrays of an answer were fetched with the attributes
\* of the call that returns them, with any number of callers running during the
\* fetches.  Turning caching off by a reset and a new init would not do: the mapping
\* cache is consulted all the same.
THEOREM OwnAttributes ==
    ASSUME CacheModeFixed PROVE Spec => []FetchedWithOwnAttributes
<1>1. AnswerInv => FetchedWithOwnAttributes
  BY DEF AnswerInv, Answering, AllYield, Yields, FetchedWithOwnAttributes
<1>2. (Init => AnswerInv) /\ (AnswerInv /\ [Next]_vars => AnswerInv')
  BY AnswerInductive
<1> QED BY <1>1, <1>2, PTL DEF Spec

LEMMA AnswersOwned == ASSUME Exclusive, NoCaching, AnswerInv PROVE AnswersRequest
BY DEF AnswerInv, Mode, NoCaching, Answering, AllYield, Yields, AnswersRequest, PartsAnswer

\* map() with caching off, under a lock around the whole call: every part of an
\* answer was rendered, fetched, sliced and scaled for the request it answers,
\* whatever earlier requests left in the globals of the partition.
THEOREM AnswersAreOwn ==
    ASSUME Exclusive, NoCaching PROVE Spec => []AnswersRequest
<1>1. CacheModeFixed
  BY HandlerAssumption DEF CacheModeFixed, NoCaching
<1>2. AnswerInv => AnswersRequest
  BY AnswersOwned
<1>3. (Init => AnswerInv) /\ (AnswerInv /\ [Next]_vars => AnswerInv')
  BY <1>1, AnswerInductive
<1> QED BY <1>2, <1>3, PTL DEF Spec

(***************************************************************************)
(* The whole tree                                                          *)
(***************************************************************************)
Got(items) == {item.of : item \in items}

HasEmpty(items) == \E item \in items : item.empty

\* A mapping is in the value, or an empty array ended it.
Given(defs, n, items) == n \in Got(items) \/ Ended(defs, items, n)

\* Everything in the value has its parameters there.
Closed(defs, items) ==
    \A n \in Got(items) : \A i \in DOMAIN defs[n].deps : Given(defs, defs[n].deps[i], items)

\* The value that mapping n returned.
Returned(defs, n, value) ==
    /\ Closed(defs, value.items)
    /\ value.empty => HasEmpty(value.items)
    /\ \/ \E item \in value.items : item.of = n /\ item.empty = value.empty
       \/ value.empty /\ Ended(defs, value.items, n)

\* q is what is left of p after its first m elements.
Rest(q, p, m) ==
    /\ m \in Nat /\ m = Len(p) - Len(q)
    /\ \A i \in 1..Len(q) : q[i] = p[m + i]

\* A mapping under evaluation has the parameters it no longer waits for.
FrameComplete(defs, f) ==
    /\ \E m \in Nat :
           /\ Rest(f.rest, defs[f.name].deps, m)
           /\ \A i \in 1..m : Given(defs, defs[f.name].deps[i], f.items)
    /\ Closed(defs, f.items)

\* Each mapping of a stack was asked for by the one below it.
Chained(defs, q) ==
    /\ \A i \in 1..Len(q) : FrameComplete(defs, q[i])
    /\ \A i \in 2..Len(q) : Head(q[i].rest) = q[i - 1].name

\* The lowest one was asked for by the request.
Linked(defs, roots, q) ==
    /\ Chained(defs, q)
    /\ q # << >> => q[Len(q)].name \in roots

\* A call evaluates n for the mapping on top of its stack or, when there is none, for
\* the request.
WaitedFor(roots, q, n) == IF q = << >> THEN n \in roots ELSE n = Head(Head(q).rest)

\* What the path of the request finds, which is at most one mapping.
Roots(t) == {n \in Names : Found(t, n)}

\* The stack of a call, and what it has just got back from the mapping it called.
Building(t) ==
    LET defs == Mapping[CellOf(t)]
    IN  /\ pc[t] \in InCall => Linked(defs, Roots(t), frames[t])
        /\ pc[t] = "exhausted" => Chained(defs, frames[t])
        /\ pc[t] = "callback" /\ TopDef(t).type = "CUSTOM" => Top(t).rest = << >>
        /\ pc[t] = "resume" => \E n \in Names : /\ WaitedFor(Roots(t), frames[t], n)
                                                /\ Returned(defs, n, reply[t])

\* An answer is what a mapping the path names returned.
Completed(t) ==
    Answered(t) => \E j \in DOMAIN request[t].lookup :
                       Returned(Mapping[CellOf(t)], request[t].lookup[j], reply[t])

\* The stacks are what they should be whether or not values are cached; the answers
\* only without the mapping cache.
TreeInv == IInv /\ \A t \in Threads : Building(t)

CompleteInv == TreeInv /\ Mode /\ \A t \in Threads : Completed(t)

\* Whatever is whole in the sense of Returned is so in that of Whole.
LEMMA ReturnedWhole ==
    ASSUME NEW defs, NEW roots, NEW n \in roots, NEW value, Returned(defs, n, value)
    PROVE  Whole(defs, roots, value)
BY DEF Whole, Returned, Closed, Given, Got, HasEmpty

LEMMA EndedMore ==
    ASSUME NEW defs, NEW n, NEW items, NEW more, items \subseteq more, Ended(defs, items, n)
    PROVE  Ended(defs, more, n)
<1>1. ASSUME NEW S \in SUBSET Names, Ends(defs, more, S) \subseteq S PROVE n \in S
  <2>1. Ends(defs, items, S) \subseteq Ends(defs, more, S)
    BY DEF Ends
  <2> QED BY <1>1, <2>1 DEF Ended
<1> QED BY <1>1 DEF Ended

LEMMA GivenMore ==
    ASSUME NEW defs, NEW n, NEW items, NEW more, items \subseteq more, Given(defs, n, items)
    PROVE  Given(defs, n, more)
BY EndedMore DEF Given, Got

\* An EXPR whose parameter returned an empty array is ended by it.
LEMMA EndedByParameter ==
    ASSUME NEW defs, NEW n \in Names, defs[n] # None, defs[n].type = "EXPR",
           NEW i \in DOMAIN defs[n].deps, NEW value, value.empty,
           Returned(defs, defs[n].deps[i], value)
    PROVE  Ended(defs, value.items, n)
<1>1. ASSUME NEW S \in SUBSET Names, Ends(defs, value.items, S) \subseteq S PROVE n \in S
  <2>1. \/ defs[n].deps[i] \in S
        \/ \E item \in value.items : item.of = defs[n].deps[i] /\ item.empty
    BY <1>1 DEF Returned, Ended
  <2>2. n \in Ends(defs, value.items, S)
    BY <2>1 DEF Ends
  <2> QED BY <1>1, <2>2
<1> QED BY <1>1 DEF Ended

LEMMA ClosedUnion ==
    ASSUME NEW defs, NEW A, NEW B, Closed(defs, A), Closed(defs, B)
    PROVE  Closed(defs, A \cup B)
<1>1. ASSUME NEW n \in Got(A \cup B), NEW i \in DOMAIN defs[n].deps
      PROVE  Given(defs, defs[n].deps[i], A \cup B)
  <2>1. n \in Got(A) \/ n \in Got(B)
    BY DEF Got
  <2>2. Given(defs, defs[n].deps[i], A) \/ Given(defs, defs[n].deps[i], B)
    BY <2>1 DEF Closed
  <2> QED BY <2>2, GivenMore
<1> QED BY <1>1 DEF Closed

\* A mapping that has all its parameters closes its value.
LEMMA ClosedOwn ==
    ASSUME NEW defs, NEW f \in Frame, FrameComplete(defs, f), f.rest = << >>,
           defs[f.name].deps \in Seq(Names), NEW item, item.of = f.name
    PROVE  Closed(defs, f.items \cup {item})
<1>1. /\ Len(f.rest) = 0 /\ Len(defs[f.name].deps) \in Nat
      /\ DOMAIN defs[f.name].deps = 1..Len(defs[f.name].deps)
  BY LenProperties
<1>2. ASSUME NEW i \in DOMAIN defs[f.name].deps
      PROVE  Given(defs, defs[f.name].deps[i], f.items \cup {item})
  <2>1. Given(defs, defs[f.name].deps[i], f.items)
    <3>1. PICK m \in Nat : /\ Rest(f.rest, defs[f.name].deps, m)
                           /\ \A j \in 1..m : Given(defs, defs[f.name].deps[j], f.items)
      BY DEF FrameComplete
    <3>2. m = Len(defs[f.name].deps)
      BY <1>1, <3>1 DEF Rest
    <3> QED BY <1>1, <3>1, <3>2
  <2> QED BY <2>1, GivenMore
<1>3. ASSUME NEW n \in Got(f.items), NEW i \in DOMAIN defs[n].deps
      PROVE  Given(defs, defs[n].deps[i], f.items \cup {item})
  <2>1. Given(defs, defs[n].deps[i], f.items)
    BY DEF FrameComplete, Closed
  <2> QED BY <2>1, GivenMore
<1>4. Got(f.items \cup {item}) = Got(f.items) \cup {f.name}
  BY DEF Got
<1> QED BY <1>2, <1>3, <1>4 DEF Closed

\* A mapping about to be evaluated has nothing yet.
LEMMA OpenComplete ==
    ASSUME NEW c, NEW n, Mapping[c][n].deps \in Seq(Names)
    PROVE  FrameComplete(Mapping[c], Open(c, n))
<1>1. Len(Mapping[c][n].deps) \in Nat
  BY LenProperties
<1>2. Rest(Mapping[c][n].deps, Mapping[c][n].deps, 0)
  BY <1>1 DEF Rest
<1> QED BY <1>2 DEF FrameComplete, Open, Closed, Got

\* What is left after one more element.
LEMMA RestTail ==
    ASSUME NEW p \in Seq(Names), NEW q \in Seq(Names), q # << >>, NEW m, Rest(q, p, m)
    PROVE  m \in Nat /\ p[m + 1] = Head(q) /\ Rest(Tail(q), p, m + 1)
<1>1. /\ Len(q) \in Nat /\ Len(q) > 0 /\ Len(p) \in Nat /\ Head(q) = q[1]
      /\ Len(Tail(q)) = Len(q) - 1
      /\ \A i \in 1..Len(Tail(q)) : Tail(q)[i] = q[i + 1]
  BY HeadTailProperties, LenProperties
<1>2. PICK k \in Nat, l \in Nat : k = Len(q) /\ l = Len(p)
  BY <1>1
<1>3. m = l - k /\ k > 0 /\ Len(Tail(q)) = k - 1 /\ m \in Nat
  BY <1>1, <1>2 DEF Rest
<1>4. m + 1 = l - (k - 1) /\ 1 \in 1..k
  BY <1>3
<1>5. \A i \in 1..(k - 1) : i + 1 \in 1..k /\ m + (i + 1) = (m + 1) + i
  BY <1>3, <1>4
<1>6. \A i \in 1..k : q[i] = p[m + i]
  BY <1>2 DEF Rest
<1>7. ASSUME NEW i \in 1..(k - 1) PROVE q[i + 1] = p[(m + 1) + i]
  BY <1>5, <1>6
<1> QED BY <1>1, <1>2, <1>3, <1>4, <1>6, <1>7 DEF Rest

\* What a mapping waits for is one of its parameters.
LEMMA NextParameter ==
    ASSUME NEW defs, NEW f \in Frame, FrameComplete(defs, f), f.rest # << >>,
           defs[f.name].deps \in Seq(Names)
    PROVE  \E j \in DOMAIN defs[f.name].deps : Head(f.rest) = defs[f.name].deps[j]
<1>1. f.rest \in Seq(Names)
  BY DEF Frame
<1>2. PICK m \in Nat : Rest(f.rest, defs[f.name].deps, m)
  BY DEF FrameComplete
<1>3. defs[f.name].deps[m + 1] = Head(f.rest)
  BY <1>1, <1>2, RestTail
<1>4. /\ Len(f.rest) \in Nat /\ Len(f.rest) > 0 /\ Len(defs[f.name].deps) \in Nat
      /\ DOMAIN defs[f.name].deps = 1..Len(defs[f.name].deps)
  BY <1>1, LenProperties, HeadTailProperties
<1>5. PICK left \in Nat, all \in Nat : left = Len(f.rest) /\ all = Len(defs[f.name].deps)
  BY <1>4
<1>6. m = all - left /\ left > 0
  BY <1>2, <1>4, <1>5 DEF Rest
<1>7. m + 1 \in 1..all
  BY <1>6
<1> QED BY <1>3, <1>4, <1>5, <1>7

\* A mapping that gets the parameter it waited for.
LEMMA ReceiveComplete ==
    ASSUME NEW defs, NEW f \in Frame, FrameComplete(defs, f), f.rest # << >>,
           defs[f.name].deps \in Seq(Names), NEW value \in Reply,
           Returned(defs, Head(f.rest), value),
           NEW g \in Frame, g.name = f.name, g.rest = Tail(f.rest),
           g.items = f.items \cup value.items
    PROVE  FrameComplete(defs, g)
<1>1. f.rest \in Seq(Names)
  BY DEF Frame
<1>2. PICK m \in Nat :
          /\ Rest(f.rest, defs[f.name].deps, m)
          /\ \A i \in 1..m : Given(defs, defs[f.name].deps[i], f.items)
  BY DEF FrameComplete
<1>3. defs[f.name].deps[m + 1] = Head(f.rest) /\ Rest(Tail(f.rest), defs[f.name].deps, m + 1)
  BY <1>1, <1>2, RestTail
<1>4. m + 1 \in Nat /\ \A i \in 1..(m + 1) : i = m + 1 \/ i \in 1..m
  OBVIOUS
<1>5. Closed(defs, g.items)
  BY ClosedUnion DEF Returned, FrameComplete
<1>6. Given(defs, Head(f.rest), g.items)
  <2>1. Given(defs, Head(f.rest), value.items)
    BY DEF Returned, Given, Got
  <2> QED BY <2>1, GivenMore
<1>7. \A i \in 1..m : Given(defs, defs[f.name].deps[i], g.items)
  BY <1>2, GivenMore
<1>8. \A i \in 1..(m + 1) : Given(defs, defs[g.name].deps[i], g.items)
  BY <1>3, <1>4, <1>6, <1>7
<1> QED BY <1>3, <1>4, <1>5, <1>8 DEF FrameComplete

LEMMA LinkedPop ==
    ASSUME NEW defs, NEW roots, NEW q \in Seq(Frame), q # << >>, Linked(defs, roots, q)
    PROVE  /\ Tail(q) \in Seq(Frame) /\ Linked(defs, roots, Tail(q))
           /\ WaitedFor(roots, Tail(q), Head(q).name)
           /\ Head(q) \in Frame /\ FrameComplete(defs, Head(q))
<1>1. /\ Len(q) \in Nat /\ Len(q) > 0 /\ Head(q) = q[1] /\ Tail(q) \in Seq(Frame)
      /\ Len(Tail(q)) = Len(q) - 1 /\ Head(q) \in Frame
      /\ \A i \in 1..Len(Tail(q)) : Tail(q)[i] = q[i + 1]
  BY HeadTailProperties, LenProperties
<1>2. PICK k \in Nat : k = Len(q) /\ k > 0
  BY <1>1
<1>3. /\ \A i \in 1..k : FrameComplete(defs, q[i])
      /\ \A i \in 2..k : Head(q[i].rest) = q[i - 1].name
      /\ q[k].name \in roots
  BY <1>2 DEF Linked, Chained
<1>4. /\ Len(Tail(q)) = k - 1 /\ \A i \in 1..(k - 1) : Tail(q)[i] = q[i + 1]
      /\ Tail(q) = << >> => k = 1
      /\ Tail(q) # << >> => k - 1 \in 1..(k - 1) /\ 1 \in 1..(k - 1) /\ Head(Tail(q)) = Tail(q)[1]
  <2>1. Tail(q) # << >> => Len(Tail(q)) > 0 /\ Head(Tail(q)) = Tail(q)[1]
    BY <1>1, HeadTailProperties, LenProperties
  <2>2. Len(Tail(q)) = k - 1
    BY <1>1, <1>2
  <2>3. Tail(q) = << >> => Len(Tail(q)) = 0
    <3>1. Len(<< >>) = 0
      BY EmptySeq
    <3> QED BY ONLY <3>1
  <2>4. (Len(Tail(q)) = 0 => k = 1)
        /\ (Len(Tail(q)) > 0 => k - 1 \in 1..(k - 1) /\ 1 \in 1..(k - 1))
    BY <1>2, <2>2
  <2>5. \A i \in 1..(k - 1) : Tail(q)[i] = q[i + 1]
    BY <1>1, <2>2
  <2> QED BY <2>1, <2>2, <2>3, <2>4, <2>5
<1>5. \A i \in 1..(k - 1) : FrameComplete(defs, Tail(q)[i])
  <2>1. \A i \in 1..(k - 1) : i + 1 \in 1..k
    BY <1>2
  <2> QED BY <1>3, <1>4, <2>1
<1>6. \A i \in 2..(k - 1) : Head(Tail(q)[i].rest) = Tail(q)[i - 1].name
  <2>1. \A i \in 2..(k - 1) :
            /\ i + 1 \in 2..k /\ (i + 1) - 1 = i /\ (i - 1) + 1 = i
            /\ i \in 1..(k - 1) /\ i - 1 \in 1..(k - 1)
    BY <1>2
  <2> QED BY <1>3, <1>4, <2>1
<1>7. Tail(q) # << >> => Tail(q)[k - 1] = q[k] /\ Head(Tail(q)) = q[2] /\ 2 \in 2..k
  <2>1. (k - 1) + 1 = k /\ 1 + 1 = 2 /\ (1 \in 1..(k - 1) => 2 \in 2..k)
    BY <1>2
  <2> QED BY <1>4, <2>1
<1>8. Linked(defs, roots, Tail(q))
  BY <1>3, <1>4, <1>5, <1>6, <1>7 DEF Linked, Chained
<1>9. WaitedFor(roots, Tail(q), Head(q).name)
  <2>1. CASE Tail(q) = << >>
    BY <1>1, <1>3, <1>4, <2>1 DEF WaitedFor
  <2>2. CASE Tail(q) # << >>
    <3>1. Head(q[2].rest) = q[2 - 1].name /\ 2 - 1 = 1
      BY <1>3, <1>7, <2>2
    <3> QED BY <1>1, <1>7, <2>2, <3>1 DEF WaitedFor
  <2> QED BY <2>1, <2>2
<1>10. FrameComplete(defs, Head(q))
  <2>1. 1 \in 1..k
    BY <1>2
  <2> QED BY <1>1, <1>3, <2>1
<1> QED BY <1>1, <1>8, <1>9, <1>10

LEMMA LinkedPush ==
    ASSUME NEW defs, NEW roots, NEW q \in Seq(Frame), Linked(defs, roots, q),
           NEW f \in Frame, FrameComplete(defs, f), WaitedFor(roots, q, f.name)
    PROVE  Linked(defs, roots, <<f>> \o q)
<1> DEFINE p == <<f>> \o q
<1>1. /\ Len(p) = Len(q) + 1 /\ Len(q) \in Nat /\ p[1] = f
      /\ \A i \in 2..(Len(q) + 1) : i - 1 \in 1..Len(q) /\ p[i] = q[i - 1]
  BY PushType
<1>2. q # << >> => Len(q) > 0 /\ Head(q) = q[1]
  BY HeadTailProperties, LenProperties
<1>3. q = << >> => Len(q) = 0
  BY LenProperties
<1> HIDE DEF p
<1>4. PICK k \in Nat : k = Len(q)
  BY <1>1
<1>5. Len(p) = k + 1 /\ \A i \in 2..(k + 1) : i - 1 \in 1..k /\ p[i] = q[i - 1]
  BY <1>1, <1>4
<1>6. /\ \A i \in 1..k : FrameComplete(defs, q[i])
      /\ \A i \in 2..k : Head(q[i].rest) = q[i - 1].name
      /\ q # << >> => q[k].name \in roots
  BY <1>4 DEF Linked, Chained
<1>7. ASSUME NEW i \in 1..(k + 1) PROVE FrameComplete(defs, p[i])
  <2>1. i = 1 \/ i \in 2..(k + 1)
    BY <1>4
  <2> QED BY <1>1, <1>5, <1>6, <2>1
<1>8. ASSUME NEW i \in 2..(k + 1) PROVE Head(p[i].rest) = p[i - 1].name
  <2>1. CASE i = 2
    <3>1. q # << >> /\ p[2] = q[1] /\ Head(q) = q[1] /\ 2 - 1 = 1
      BY <1>2, <1>3, <1>4, <1>5, <2>1
    <3> QED BY <1>1, <2>1, <3>1 DEF WaitedFor
  <2>2. CASE i # 2
    <3>1. i - 1 \in 2..k /\ i - 1 \in 2..(k + 1)
      BY <1>4, <2>2
    <3>2. p[i] = q[i - 1] /\ p[i - 1] = q[(i - 1) - 1]
      BY <1>5, <3>1
    <3> QED BY <1>6, <3>1, <3>2
  <2> QED BY <2>1, <2>2
<1>9. p[k + 1].name \in roots
  <2>1. CASE q = << >>
    <3>1. k + 1 = 1
      BY <1>3, <1>4, <2>1
    <3> QED BY <1>1, <2>1, <3>1 DEF WaitedFor
  <2>2. CASE q # << >>
    <3>1. k + 1 \in 2..(k + 1) /\ (k + 1) - 1 = k
      BY <1>2, <1>4, <2>2
    <3> QED BY <1>5, <1>6, <2>2, <3>1
  <2> QED BY <2>1, <2>2
<1>10. Linked(defs, roots, p)
  BY <1>5, <1>7, <1>8, <1>9 DEF Linked, Chained
<1> QED BY <1>10 DEF p

\* A mapping goes on, or starts, to be evaluated.
LEMMA LinkedStep ==
    ASSUME TreeInv, NEW t \in Threads, Step(t), pc'[t] \in InCall \ {"resume"}
    PROVE  Linked(Mapping[CellOf(t)], Roots(t), frames'[t])
<1> DEFINE defs  == Mapping[CellOf(t)]
           roots == Roots(t)
<1>1. IInv /\ CallTypes /\ Building(t) /\ pc'[t] \in InCall /\ pc'[t] # "resume"
  BY DEF TreeInv, IInv, TypeOK
<1>2. ASSUME NEW n \in Names, LookupMiss(t, n) PROVE Linked(defs, roots, frames'[t])
  <2>1. /\ pc[t] = "lookup" /\ Locatable(t) /\ Found(t, n) /\ Present(CellOf(t), n)
        /\ frames'[t] = <<Open(CellOf(t), n)>>
    BY <1>1, <1>2 DEF LookupMiss, Holds, Found, CallTypes
  <2>2. Requested(t)
    BY <1>1, <2>1 DEF IInv, ThreadOK
  <2>3. defs[n] \in Defs /\ defs[n].deps \in Seq(Names)
    BY <1>1, <2>1, <2>2, Located DEF Defs
  <2>4. /\ Open(CellOf(t), n) \in Frame /\ Open(CellOf(t), n).name = n
        /\ FrameComplete(defs, Open(CellOf(t), n))
    BY <2>3, OpenType, OpenComplete
  <2>5. n \in roots
    BY <2>1 DEF Roots
  <2> DEFINE f == Open(CellOf(t), n)
  <2> HIDE DEF f
  <2>6. /\ Len(<<f>>) = 1 /\ <<f>>[1] = f
        /\ \A i \in 1..1 : i = 1
        /\ \A i \in 2..1 : FALSE
    OBVIOUS
  <2>7. Linked(defs, roots, <<f>>)
    BY <2>4, <2>5, <2>6 DEF Linked, Chained, f
  <2> QED BY <2>1, <2>7 DEF f
<1>3. ASSUME pc[t] \in InCall PROVE Linked(defs, roots, frames[t]) /\ frames[t] \in Seq(Frame)
  BY <1>1, <1>3 DEF Building, CallTypes
<1>4. CASE EvalDependency(t)
  <2> DEFINE n == Head(Top(t).rest)
  <2>1. /\ pc[t] \in InCall /\ frames[t] # NoFrames /\ Top(t).rest # << >>
        /\ Present(CellOf(t), n) /\ frames'[t] = <<Open(CellOf(t), n)>> \o frames[t]
    BY <1>1, <1>4 DEF EvalDependency, AtFrame, Holds, CallTypes, InCall
  <2>2. Requested(t) /\ Locatable(t) /\ Top(t) \in Frame
    BY <1>1, <2>1, Evaluator
  <2>3. n \in Names
    BY <2>1, <2>2 DEF Frame
  <2>4. defs[n] \in Defs /\ defs[n].deps \in Seq(Names)
    BY <1>1, <2>1, <2>2, <2>3, Located DEF Defs
  <2>5. /\ Open(CellOf(t), n) \in Frame /\ Open(CellOf(t), n).name = n
        /\ FrameComplete(defs, Open(CellOf(t), n))
    BY <2>3, <2>4, OpenType, OpenComplete
  <2>6. WaitedFor(roots, frames[t], n)
    BY <2>1 DEF WaitedFor, Top, NoFrames
  <2> HIDE DEF n
  <2> QED BY <1>3, <2>1, <2>5, <2>6, LinkedPush
<1>5. CASE EvalCallFunction(t) \/ EvalFetch(t) \/ SourceReturns(t)
  <2>1. frames' = frames /\ pc[t] \in InCall
    BY <1>5 DEF EvalCallFunction, EvalFetch, SourceReturns, AtFrame, Holds, Retake, InCall
  <2> QED BY <1>3, <2>1
<1>6. CASE Resume(t)
  <2>1. /\ pc[t] = "resume" /\ pc[t] \in InCall /\ frames[t] # NoFrames /\ frames[t] # << >>
        /\ reply[t] # None /\ Top(t).rest # << >>
    BY <1>1, <1>6 DEF Resume, AtFrame, Holds, IInv, ThreadOK, InCall, NoFrames
  <2>2. /\ Tail(frames[t]) \in Seq(Frame) /\ Linked(defs, roots, Tail(frames[t]))
        /\ WaitedFor(roots, Tail(frames[t]), Top(t).name)
        /\ Top(t) \in Frame /\ FrameComplete(defs, Top(t))
    BY <1>3, <2>1, LinkedPop DEF Top
  <2>3. PICK n \in Names : WaitedFor(roots, frames[t], n) /\ Returned(defs, n, reply[t])
    BY <1>1, <2>1 DEF Building
  <2>4. Returned(defs, Head(Top(t).rest), reply[t]) /\ reply[t] \in Reply
    BY <1>1, <2>1, <2>3 DEF WaitedFor, Top, CallTypes
  <2>5. defs[Top(t).name] \in Defs /\ defs[Top(t).name].deps \in Seq(Names)
    BY <1>1, <2>1, Evaluator DEF TopDef, Defs
  <2> DEFINE g == [Top(t) EXCEPT !.rest  = Tail(@),
                                 !.items = @ \cup reply[t].items,
                                 !.empty = @ \/ reply[t].empty]
  <2>6. frames'[t] = <<g>> \o Tail(frames[t])
    BY <1>1, <1>6, <2>1 DEF Resume, CallTypes
  <2>7. Tail(Top(t).rest) \in Seq(Names)
    BY <2>1, <2>2 DEF Frame
  <2>8. /\ g \in Frame /\ g.name = Top(t).name /\ g.rest = Tail(Top(t).rest)
        /\ g.items = Top(t).items \cup reply[t].items
    BY <2>2, <2>4, <2>7 DEF Frame, Reply
  <2> HIDE DEF g
  <2>9. FrameComplete(defs, g)
    BY <2>1, <2>2, <2>4, <2>5, <2>8, ReceiveComplete
  <2>10. WaitedFor(roots, Tail(frames[t]), g.name)
    BY <2>2, <2>8
  <2>11. Linked(defs, roots, <<g>> \o Tail(frames[t]))
    <3> HIDE DEF defs, roots
    <3> QED BY <2>2, <2>8, <2>9, <2>10, LinkedPush
  <2> QED BY <2>6, <2>11
<1>7. CASE EvalCombine(t) \/ FunctionReturns(t) \/ PostProcess(t)
  BY <1>1, <1>7 DEF EvalCombine, FunctionReturns, ReturnOwn, PostProcess, Deliver, Goto,
     CallTypes
<1> QED BY <1>1, <1>2, <1>4, <1>5, <1>6, <1>7, EvaluatingSteps

\* A mapping returns its value.
LEMMA ReturnedStep ==
    ASSUME TreeInv, NEW t \in Threads, Step(t), pc'[t] = "resume"
    PROVE  /\ pc[t] \in InCall /\ frames[t] # NoFrames /\ frames'[t] = Tail(frames[t])
           /\ Top(t).name \in Names
           /\ Returned(Mapping[CellOf(t)], Top(t).name, reply'[t])
<1> DEFINE defs == Mapping[CellOf(t)]
<1>1. IInv /\ CallTypes /\ Building(t)
  BY DEF TreeInv, IInv, TypeOK
<1>2. /\ pc[t] \in InCall /\ frames[t] # NoFrames /\ frames[t] # << >>
      /\ frames'[t] = Tail(frames[t])
  <2>1. /\ pc[t] \in InCall /\ frames[t] # NoFrames
        /\ EvalCombine(t) \/ FunctionReturns(t) \/ PostProcess(t)
           \/ (Resume(t) /\ TopDef(t).type = "EXPR" /\ reply[t].empty)
    BY <1>1, RepliedStep DEF InCall
  <2>2. ASSUME NEW value, Deliver(t, value) PROVE frames'[t] = Tail(frames[t])
    BY <1>1, <2>2 DEF Deliver, CallTypes
  <2>3. CASE Resume(t) /\ TopDef(t).type = "EXPR" /\ reply[t].empty
    BY <1>1, <2>1, <2>3 DEF Resume, CallTypes, NoFrames
  <2>4. CASE EvalCombine(t) \/ FunctionReturns(t) \/ PostProcess(t)
    <3>1. \E value : Deliver(t, value)
      BY <2>4 DEF EvalCombine, FunctionReturns, ReturnOwn, PostProcess
    <3> QED BY <2>1, <2>2, <3>1 DEF NoFrames
  <2> QED BY <2>1, <2>3, <2>4
<1>3. Linked(defs, Roots(t), frames[t]) /\ frames[t] \in Seq(Frame)
  BY <1>1, <1>2 DEF Building, CallTypes
<1>4. Top(t) \in Frame /\ FrameComplete(defs, Top(t)) /\ Top(t).name \in Names
  BY <1>2, <1>3, LinkedPop DEF Top, Frame
<1>5. /\ defs[Top(t).name] \in Defs /\ defs[Top(t).name].deps \in Seq(Names)
      /\ CellOf(t) \in Cells /\ defs # None /\ defs[Top(t).name] # None
      /\ TopDef(t) = defs[Top(t).name]
  <2>1. Requested(t) /\ Locatable(t) /\ Present(CellOf(t), Top(t).name) /\ TopDef(t) \in Defs
    BY <1>1, <1>2, Evaluator
  <2> QED BY <1>1, <1>4, <2>1, Located DEF TopDef, Defs
<1>6. \A empty : OwnItem(t, empty).of = Top(t).name /\ OwnItem(t, empty).empty = empty
  BY DEF OwnItem
<1>7. CASE EvalCombine(t) \/ FunctionReturns(t)
  <2>1. Top(t).rest = << >>
    BY <1>1, <1>7 DEF EvalCombine, FunctionReturns, Retake, Building
  <2>2. PICK empty \in BOOLEAN : /\ reply'[t].items = Top(t).items \cup {OwnItem(t, empty)}
                                 /\ reply'[t].empty = empty
    BY <1>1, <1>7, RepliedStep DEF EvalCombine, FunctionReturns, AtFrame, Holds, Retake,
       PostProcess, Resume
  <2>3. Closed(defs, reply'[t].items)
    BY <1>4, <1>5, <1>6, <2>1, <2>2, ClosedOwn
  <2>4. /\ OwnItem(t, empty) \in reply'[t].items /\ OwnItem(t, empty).of = Top(t).name
        /\ OwnItem(t, empty).empty = reply'[t].empty
    BY <1>6, <2>2
  <2> QED BY <1>2, <1>4, <2>3, <2>4 DEF Returned, HasEmpty
<1>8. CASE PostProcess(t)
  <2> DEFINE data == Processed(TopDef(t), fetch[t].data, Env(t))
             item == [OwnItem(t, data.empty) EXCEPT !.data = data]
  <2>1. reply'[t].items = {item} /\ reply'[t].empty = data.empty
    BY <1>1, <1>8, RepliedStep DEF EvalCombine, FunctionReturns, AtFrame, Holds, Retake,
       PostProcess, Resume
  <2>2. item.of = Top(t).name /\ item.empty = data.empty
    BY DEF OwnItem
  <2>3. defs[Top(t).name].deps = << >>
    BY <1>1, <1>5, <1>4, <1>8, PostProcessCaches, DataSourceAssumption
  <2> HIDE DEF item, data
  <2>4. Closed(defs, {item})
    BY <2>2, <2>3 DEF Closed, Got
  <2>5. item.empty => HasEmpty({item})
    BY DEF HasEmpty
  <2> QED BY <1>2, <1>4, <2>1, <2>2, <2>4, <2>5 DEF Returned
<1>9. CASE Resume(t) /\ reply'[t] = reply[t] /\ pc[t] = "resume"
           /\ TopDef(t).type = "EXPR" /\ reply[t].empty
  <2>1. PICK n \in Names : WaitedFor(Roots(t), frames[t], n) /\ Returned(defs, n, reply[t])
    BY <1>1, <1>9 DEF Building
  <2>2. Top(t).rest # << >>
    BY <1>1, <1>2, <1>9 DEF IInv, ThreadOK
  <2>3. n = Head(Top(t).rest)
    BY <1>2, <2>1 DEF WaitedFor, Top
  <2>4. PICK i \in DOMAIN defs[Top(t).name].deps : n = defs[Top(t).name].deps[i]
    <3> HIDE DEF defs
    <3> QED BY <1>4, <1>5, <2>2, <2>3, NextParameter
  <2>5. Ended(defs, reply[t].items, Top(t).name)
    <3> HIDE DEF defs
    <3>1. defs[Top(t).name].type = "EXPR" /\ reply[t].empty
      BY <1>5, <1>9
    <3> QED BY <1>4, <1>5, <2>1, <2>4, <3>1, EndedByParameter
  <2>6. Returned(defs, Top(t).name, reply[t])
    BY <1>9, <2>1, <2>5 DEF Returned
  <2> QED BY <1>2, <1>4, <1>9, <2>6
<1> QED BY <1>1, <1>7, <1>8, <1>9, RepliedStep

\* What the path finds stays the same for as long as the call evaluates.
LEMMA FoundStays ==
    ASSUME NEW t \in Threads, request'[t] = request[t],
           store[CellOf(t)] # None, store'[CellOf(t)] # None,
           store'[CellOf(t)].slots = store[CellOf(t)].slots
    PROVE  Roots(t)' = Roots(t)
<1>1. CellOf(t)' = CellOf(t)
  BY DEF CellOf, KeyOf
<1>2. \A n : Present(CellOf(t), n)' = Present(CellOf(t), n)
  BY <1>1 DEF Present
<1> QED BY <1>1, <1>2 DEF Roots, Found, Present

LEMMA RootsStay ==
    ASSUME IInv, [Next]_vars, NEW t \in Threads, pc[t] \in InCall, request'[t] = request[t]
    PROVE  Roots(t)' = Roots(t)
<1>1. store[CellOf(t)] # None
  BY Evaluator DEF Evaluating
<1> QED BY <1>1, EntriesStay, FoundStays

\* A path finds no more than one mapping.
LEMMA FoundOnce ==
    ASSUME IInv, NEW t \in Threads, request[t] \in Requests, NEW n, NEW m,
           Found(t, n), Found(t, m)
    PROVE  n = m
<1>1. request[t].lookup \in Seq(Names)
  BY HandlerAssumption
<1>2. DOMAIN request[t].lookup = 1..Len(request[t].lookup) /\ Len(request[t].lookup) \in Nat
  BY <1>1, LenProperties
<1>3. PICK i \in 1..Len(request[t].lookup) :
          /\ n = request[t].lookup[i] /\ Present(CellOf(t), n)
          /\ \A k \in 1..(i - 1) : ~Present(CellOf(t), request[t].lookup[k])
  BY <1>2 DEF Found
<1>4. PICK j \in 1..Len(request[t].lookup) :
          /\ m = request[t].lookup[j] /\ Present(CellOf(t), m)
          /\ \A k \in 1..(j - 1) : ~Present(CellOf(t), request[t].lookup[k])
  BY <1>2 DEF Found
<1>5. i \notin 1..(j - 1) /\ j \notin 1..(i - 1)
  BY <1>3, <1>4
<1>6. i = j
  BY <1>2, <1>5
<1> QED BY <1>3, <1>4, <1>6

\* A call runs out of stack on the way to a parameter, and then stays where it is.
LEMMA ExhaustingStep ==
    ASSUME IInv, NEW t \in Threads, Step(t)
    PROVE  /\ pc[t] # "exhausted"
           /\ pc'[t] = "exhausted" => EvalExhausted(t)
<1>1. CallTypes
  BY DEF IInv, TypeOK
<1> USE <1>1 DEF CallTypes, Goto, Leave, Throw, Holds, AtFrame, Retake, Deliver, ReturnOwn
<1>2. CASE InitRegister(t) \/ InitThrow(t) \/ InitReturn(t)
  BY <1>2 DEF InitRegister, InitThrow, InitReturn, callVars
<1>3. CASE LoadGroup(t) \/ Define(t) \/ StoreGroup(t) \/ LoadThrow(t) \/ FinishLoad(t)
  BY <1>3 DEF LoadGroup, Define, StoreGroup, LoadThrow, LoadFails, FinishLoad, callVars
<1>4. CASE LookupThrow(t) \/ \E n \in Names : LookupHit(t, n) \/ LookupMiss(t, n) \/ Finish(t, n)
  BY <1>4 DEF LookupThrow, LookupHit, LookupMiss, Finish
<1>5. CASE EvalDependency(t) \/ EvalCombine(t) \/ EvalThrow(t) \/ EvalCallFunction(t)
           \/ FunctionReturns(t)
  BY <1>5 DEF EvalDependency, EvalCombine, EvalThrow, EvalCallFunction, FunctionReturns
<1>6. CASE EvalFetch(t) \/ SourceReturns(t) \/ CallbackThrows(t)
  BY <1>6 DEF EvalFetch, SourceReturns, CallbackThrows
<1>7. CASE PostProcess(t) \/ PostThrow(t) \/ Resume(t)
  BY <1>7 DEF PostProcess, PostThrow, Resume
<1>8. CASE EvalExhausted(t)
  BY <1>8 DEF EvalExhausted
<1> QED BY <1>2, <1>3, <1>4, <1>5, <1>6, <1>7, <1>8 DEF Step

\* The evaluation of a tree, after a step of the call itself.
LEMMA BuildingOwnStep ==
    ASSUME TreeInv, NEW t \in Threads, Step(t)
    PROVE  Building(t)'
<1>1. IInv /\ CallTypes /\ Building(t) /\ [Next]_vars
  BY DEF TreeInv, IInv, TypeOK, Next
<1>2. ASSUME pc'[t] \in InCall
      PROVE  /\ Mapping[CellOf(t)]' = Mapping[CellOf(t)] /\ request'[t] = request[t]
             /\ Linked(Mapping[CellOf(t)], Roots(t), frames'[t]) /\ Roots(t)' = Roots(t)
  <2>1. Mapping[CellOf(t)]' = Mapping[CellOf(t)] /\ request'[t] = request[t]
    BY <1>1, <1>2, EvaluatingSteps
  <2>2. CASE pc'[t] = "resume"
    <3>1. /\ pc[t] \in InCall /\ frames[t] # << >> /\ frames'[t] = Tail(frames[t])
          /\ frames[t] \in Seq(Frame)
      BY <1>1, <2>2, ReturnedStep DEF NoFrames, CallTypes
    <3>2. Linked(Mapping[CellOf(t)], Roots(t), frames[t])
      BY <1>1, <3>1 DEF Building
    <3> QED BY <1>1, <2>1, <3>1, <3>2, LinkedPop, RootsStay
  <2>3. CASE pc'[t] # "resume"
    <3>1. Linked(Mapping[CellOf(t)], Roots(t), frames'[t])
      BY <1>2, <2>3, LinkedStep
    <3>2. Roots(t)' = Roots(t)
      <4>1. CASE pc[t] \in InCall
        BY <1>1, <2>1, <4>1, RootsStay
      <4>2. ASSUME NEW n \in Names, LookupMiss(t, n) PROVE Roots(t)' = Roots(t)
        <5>1. /\ CellOf(t) \in Cells /\ store[CellOf(t)] # None
              /\ store[CellOf(t)] = None <=> store'[CellOf(t)] = None
              /\ store'[CellOf(t)].slots = store[CellOf(t)].slots
          <6>1. Locatable(t) /\ pc[t] = "lookup"
            BY <4>2 DEF LookupMiss, Holds
          <6>2. Requested(t)
            BY <1>1, <6>1 DEF IInv, ThreadOK
          <6> QED BY <1>1, <4>2, <6>1, <6>2, Located, LookupWrites DEF Locatable
        <5> QED BY <2>1, <5>1, FoundStays
      <4> QED BY <1>1, <1>2, <4>1, <4>2, EvaluatingSteps
    <3> QED BY <2>1, <3>1, <3>2
  <2> QED BY <2>2, <2>3
<1>3. ASSUME pc'[t] = "callback", TopDef(t)'.type = "CUSTOM" PROVE Top(t)'.rest = << >>
  <2>1. CASE EvalCallFunction(t)
    BY <2>1 DEF EvalCallFunction, Top
  <2>2. CASE EvalFetch(t)
    <3>1. TopDef(t)' = TopDef(t) /\ TopDef(t).type = "DATA_SOURCE"
      BY <2>2 DEF EvalFetch, TopDef, Top, CellOf, KeyOf
    <3> QED BY <1>3, <3>1
  <2>3. pc'[t] \in InCall
    BY <1>3 DEF InCall
  <2>4. ~EvalDependency(t)
    BY <1>3 DEF EvalDependency, AtFrame, Holds
  <2>5. ~EvalCombine(t) /\ ~FunctionReturns(t) /\ ~SourceReturns(t) /\ ~PostProcess(t)
    BY <1>1, <1>3 DEF EvalCombine, FunctionReturns, ReturnOwn, SourceReturns, PostProcess,
       Deliver, Goto, CallTypes
  <2>6. ~Resume(t)
    BY <1>1, <1>3 DEF Resume, AtFrame, Holds, Goto, CallTypes
  <2>7. ASSUME NEW n \in Names PROVE ~LookupMiss(t, n)
    BY <1>1, <1>3 DEF LookupMiss, Goto, CallTypes
  <2> QED BY <1>1, <2>1, <2>2, <2>3, <2>4, <2>5, <2>6, <2>7, EvaluatingSteps
<1>4. ASSUME pc'[t] = "resume"
      PROVE  \E n \in Names : /\ WaitedFor(Roots(t)', frames'[t], n)
                              /\ Returned(Mapping[CellOf(t)]', n, reply'[t])
  <2>1. /\ pc[t] \in InCall /\ frames[t] # << >> /\ frames'[t] = Tail(frames[t])
        /\ frames[t] \in Seq(Frame) /\ Top(t).name \in Names
        /\ Returned(Mapping[CellOf(t)], Top(t).name, reply'[t])
    BY <1>1, <1>4, ReturnedStep DEF NoFrames, CallTypes
  <2>2. Mapping[CellOf(t)]' = Mapping[CellOf(t)] /\ Roots(t)' = Roots(t)
    BY <1>2, <1>4 DEF InCall
  <2>3. Linked(Mapping[CellOf(t)], Roots(t), frames[t])
    BY <1>1, <2>1 DEF Building
  <2>4. WaitedFor(Roots(t), frames'[t], Top(t).name)
    BY <2>1, <2>3, LinkedPop DEF Top
  <2> QED BY <2>1, <2>2, <2>4
<1>5. ASSUME pc'[t] = "exhausted" PROVE Chained(Mapping[CellOf(t)]', frames'[t])
  <2>1. EvalExhausted(t)
    BY <1>1, <1>5, ExhaustingStep
  <2>2. pc[t] \in InCall /\ frames' = frames /\ request' = request
    BY <2>1 DEF EvalExhausted, AtFrame, Holds, InCall
  <2>3. Linked(Mapping[CellOf(t)], Roots(t), frames[t]) /\ CellOf(t)' = CellOf(t)
    BY <1>1, <2>2 DEF Building, CellOf, KeyOf
  <2> QED BY <2>2, <2>3 DEF Linked
<1> QED BY <1>2, <1>3, <1>4, <1>5 DEF Building

LEMMA BuildingStep ==
    ASSUME TreeInv, [Next]_vars, NEW t \in Threads
    PROVE  Building(t)'
<1>1. CASE SameCall(t)
  <2>1. CellOf(t)' = CellOf(t) /\ TopDef(t)' = TopDef(t) /\ Top(t)' = Top(t)
    BY <1>1 DEF SameCall, TopDef, Top, CellOf, KeyOf
  <2>2. Building(t) /\ IInv
    BY DEF TreeInv
  <2>3. pc'[t] = pc[t] /\ request'[t] = request[t] /\ frames'[t] = frames[t] /\ reply'[t] = reply[t]
    BY <1>1 DEF SameCall
  <2>4. CASE pc[t] \in InCall
    <3>1. Roots(t)' = Roots(t)
      BY <2>2, <2>3, <2>4, RootsStay
    <3> QED BY <2>1, <2>2, <2>3, <3>1 DEF Building
  <2>5. CASE pc[t] \notin InCall
    BY <2>1, <2>2, <2>3, <2>5 DEF Building, InCall
  <2> QED BY <2>4, <2>5
<1>2. CASE pc'[t] \in {"init", "idle", "lookup", "load"}
  BY <1>2 DEF Building, InCall
<1>3. IInv
  BY DEF TreeInv
<1> QED BY <1>1, <1>2, <1>3, BuildingOwnStep, Movers

LEMMA TreeInductive ==
    /\ Init => TreeInv
    /\ TreeInv /\ [Next]_vars => TreeInv'
<1>1. ASSUME Init PROVE \A t \in Threads : Building(t)
  BY <1>1 DEF Init, Building, InCall
<1> QED BY <1>1, Initially, Inductive, BuildingStep DEF TreeInv

\* What a call answers, after a step of its own.
LEMMA CompletedOwnStep ==
    ASSUME CompleteInv, NoCaching, NEW t \in Threads, Step(t), Answered(t)'
    PROVE  \E j \in DOMAIN request'[t].lookup :
               Returned(Mapping[CellOf(t)]', request'[t].lookup[j], reply'[t])
<1>1. IInv /\ Building(t) /\ ~cacheEnabled /\ Mode
  BY DEF CompleteInv, TreeInv, Mode, NoCaching
<1>2. pc'[t] = "idle" /\ reply'[t] # None
  BY DEF Answered
<1>3. ASSUME NEW n \in Names PROVE ~LookupHit(t, n)
  BY <1>1 DEF Mode, LookupHit
<1>4. /\ request'[t] = request[t] /\ reply'[t] = reply[t] /\ pc[t] = "resume"
      /\ frames[t] = NoFrames
  BY <1>1, <1>2, <1>3, ReturningSteps
<1>5. CellOf(t)' = CellOf(t)
  BY <1>4 DEF CellOf, KeyOf
<1>6. PICK n \in Names : /\ WaitedFor(Roots(t), frames[t], n)
                         /\ Returned(Mapping[CellOf(t)], n, reply[t])
  BY <1>1, <1>4 DEF Building
<1>7. PICK j \in DOMAIN request[t].lookup : n = request[t].lookup[j]
  BY <1>4, <1>6 DEF WaitedFor, NoFrames, Roots, Found
<1> QED BY <1>4, <1>5, <1>6, <1>7

LEMMA CompletedStep ==
    ASSUME CompleteInv, NoCaching, [Next]_vars, NEW t \in Threads
    PROVE  Completed(t)'
<1>1. CASE SameCall(t)
  <2>1. CellOf(t)' = CellOf(t) /\ (Answered(t)' <=> Answered(t)) /\ Completed(t)
    BY <1>1 DEF SameCall, CellOf, KeyOf, Answered, CompleteInv
  <2> QED BY <1>1, <2>1 DEF SameCall, Completed
<1>2. CASE Step(t)
  BY <1>2, CompletedOwnStep DEF Completed
<1>3. CASE pc'[t] = "init"
  BY <1>3 DEF Completed, Answered
<1>4. CASE pc'[t] \in {"idle", "lookup", "load"} /\ reply'[t] = None
  BY <1>4 DEF Completed, Answered
<1>5. IInv
  BY DEF CompleteInv, TreeInv
<1> QED BY <1>1, <1>2, <1>3, <1>4, <1>5, Movers

LEMMA CompleteInductive ==
    ASSUME NoCaching
    PROVE  /\ Init => CompleteInv
           /\ CompleteInv /\ [Next]_vars => CompleteInv'
<1>1. CacheModeFixed
  BY HandlerAssumption DEF CacheModeFixed, NoCaching
<1>2. ASSUME Init PROVE Mode /\ \A t \in Threads : Completed(t)
  BY <1>2 DEF Init, Mode, Completed, Answered
<1> QED BY <1>1, <1>2, TreeInductive, ModeStep, CompletedStep DEF CompleteInv, TreeInv

LEMMA CompleteAnswers == CompleteInv => ResultComplete
<1> SUFFICES ASSUME CompleteInv, NEW t \in Threads, Answered(t)
             PROVE  WholeTree(request[t], reply[t])
  BY DEF ResultComplete
<1>1. PICK j \in DOMAIN request[t].lookup :
          Returned(Mapping[CellOf(t)], request[t].lookup[j], reply[t])
  BY DEF CompleteInv, Completed
<1>2. request[t].lookup[j] \in {request[t].lookup[i] : i \in DOMAIN request[t].lookup}
  OBVIOUS
<1> QED BY <1>1, <1>2, ReturnedWhole DEF WholeTree, CellOf

\* map() with caching off: whatever callers run during its callbacks, an answer holds
\* the mapping the path names and, for each mapping in it, every parameter, save the
\* EXPRs that an empty array ended, be it fetched, a VALUE of texts or the result of a
\* CUSTOM; and it is empty only when there is such an array in it.
THEOREM AnswersAreWhole ==
    ASSUME NoCaching PROVE Spec => []ResultComplete
<1> QED BY CompleteInductive, CompleteAnswers, PTL DEF Spec

\* What a call that returns puts into the mapping cache.
LEMMA FinishedWhole ==
    ASSUME TreeInv, NEW t \in Threads, NEW n \in Names, Finish(t, n)
    PROVE  /\ CellOf(t) \in Cells /\ Mapping[CellOf(t)] # None /\ Mapping[CellOf(t)][n] # None
           /\ Whole(Mapping[CellOf(t)], {n}, reply[t])
<1>1. IInv /\ Building(t)
  BY DEF TreeInv
<1>2. /\ pc[t] = "resume" /\ pc[t] \in InCall /\ frames[t] = << >> /\ Found(t, n)
      /\ Present(CellOf(t), n)
  BY DEF Finish, Holds, NoFrames, InCall, Found
<1>3. /\ request[t] \in Requests /\ Requested(t) /\ Locatable(t)
      /\ CellOf(t) \in Cells /\ Mapping[CellOf(t)] # None
  BY <1>1, <1>2, Evaluator
<1>4. Mapping[CellOf(t)][n] # None
  BY <1>1, <1>2, <1>3, Located
<1>5. PICK m \in Names : /\ WaitedFor(Roots(t), frames[t], m)
                         /\ Returned(Mapping[CellOf(t)], m, reply[t])
  BY <1>1, <1>2 DEF Building
<1>6. m = n
  BY <1>1, <1>2, <1>3, <1>5, FoundOnce DEF WaitedFor, Roots
<1> QED BY <1>3, <1>4, <1>5, <1>6, ReturnedWhole

\* map() with or without caching, whoever else is calling: a value in the mapping cache
\* is all that a mapping of the name it is stored under returned, in one of the groups
\* and partitions that share the cache.
THEOREM CachedValuesAreWhole == Spec => []MappingCacheWhole
<1>1. Init => MappingCacheWhole
  BY DEF Init, MappingCacheWhole
<1>2. ASSUME TreeInv, MappingCacheWhole, [Next]_vars PROVE MappingCacheWhole'
  <2>1. mappingCache \in [Names -> Reply \cup {None}]
    BY <1>2 DEF TreeInv, IInv, TypeOK, CacheTypes
  <2>2. CASE mappingCache' = mappingCache
    BY <1>2, <2>2 DEF MappingCacheWhole
  <2>3. ASSUME NEW t \in Threads, NEW n \in Names, Finish(t, n) PROVE MappingCacheWhole'
    <3>1. /\ CellOf(t) \in Cells /\ Mapping[CellOf(t)] # None /\ Mapping[CellOf(t)][n] # None
          /\ Whole(Mapping[CellOf(t)], {n}, reply[t])
      BY <1>2, <2>3, FinishedWhole
    <3>2. ASSUME NEW m \in Names
          PROVE  mappingCache'[m] = mappingCache[m] \/ (m = n /\ mappingCache'[m] = reply[t])
      BY <2>1, <2>3 DEF Finish
    <3> QED BY <1>2, <3>1, <3>2 DEF MappingCacheWhole
  <2>4. ASSUME NEW t \in Threads, Define(t) \/ PostProcess(t) PROVE mappingCache' = mappingCache
    BY <2>4 DEF Define, PostProcess
  <2> QED BY <1>2, <2>2, <2>3, <2>4, CacheWriters
<1>3. Init => TreeInv
  BY TreeInductive
<1>4. TreeInv /\ [Next]_vars => TreeInv'
  BY TreeInductive
<1> QED BY <1>1, <1>2, <1>3, <1>4, PTL DEF Spec

(***************************************************************************)
(* Mappings that refer to each other                                       *)
(***************************************************************************)
\* A set of natural numbers that is not empty has a least element.
LEMMA LeastNumber ==
    ASSUME NEW S \in SUBSET Nat, S # {}
    PROVE  \E m \in S : \A n \in S : m <= n
<1>1. IsWellFoundedOn(OpToRel(<, Nat), Nat)
  BY NatLessThanWellFounded
<1>2. PICK m \in S : \A n \in S : ~(<<n, m>> \in OpToRel(<, Nat))
  BY <1>1, WFMin
<1>3. \A n \in S : ~(n < m)
  BY <1>2 DEF OpToRel
<1> QED BY <1>3

\* Each mapping of a stack is a parameter of the one below it.
LEMMA StackOfParameters ==
    ASSUME TreeInv, NEW t \in Threads, pc[t] \in InCall \cup {"exhausted"}
    PROVE  /\ frames[t] \in Seq(Frame) /\ CellOf(t) \in Cells /\ Mapping[CellOf(t)] # None
           /\ \A i \in 1..Len(frames[t]) : frames[t][i].name \in Names
           /\ \A i \in 2..Len(frames[t]) :
                  frames[t][i - 1].name \in Params(CellOf(t), frames[t][i].name)
<1> DEFINE defs == Mapping[CellOf(t)]
<1>1. IInv /\ Building(t) /\ frames[t] \in Seq(Frame)
  BY DEF TreeInv, IInv, TypeOK, CallTypes
<1>2. Requested(t) /\ Evaluating(t)
  BY <1>1 DEF IInv, ThreadOK, InCall
<1>3. Locatable(t)
  BY <1>2 DEF Evaluating, Locatable
<1>4. Chained(defs, frames[t])
  BY <1>1 DEF Building, Linked
<1>5. CellOf(t) \in Cells /\ defs # None
  BY <1>1, <1>2, <1>3, Located
<1>6. Len(frames[t]) \in Nat
  BY <1>1, LenProperties
<1>7. ASSUME NEW i \in 1..Len(frames[t])
      PROVE  /\ frames[t][i] \in Frame /\ frames[t][i].name \in Names
             /\ frames[t][i].rest \in Seq(Names)
  <2>1. frames[t][i] \in Frame
    BY <1>1, ElementOfSeq
  <2> QED BY <2>1 DEF Frame
<1>8. ASSUME NEW i \in 2..Len(frames[t])
      PROVE  frames[t][i - 1].name \in Params(CellOf(t), frames[t][i].name)
  <2>1. i \in 1..Len(frames[t])
    BY <1>6
  <2>2. frames[t][i].rest # << >> /\ Present(CellOf(t), frames[t][i].name)
    BY <1>2, <2>1 DEF Evaluating
  <2>3. defs[frames[t][i].name] # None /\ defs[frames[t][i].name].deps \in Seq(Names)
    BY <1>1, <1>2, <1>3, <1>7, <2>1, <2>2, Located DEF Defs
  <2>4. FrameComplete(defs, frames[t][i]) /\ Head(frames[t][i].rest) = frames[t][i - 1].name
    BY <1>4, <2>1 DEF Chained
  <2>5. PICK k \in DOMAIN defs[frames[t][i].name].deps :
            frames[t][i - 1].name = defs[frames[t][i].name].deps[k]
    <3> HIDE DEF defs
    <3> QED BY <1>7, <2>1, <2>2, <2>3, <2>4, NextParameter
  <2> QED BY <2>3, <2>5 DEF Params
<1> QED BY <1>1, <1>5, <1>7, <1>8

\* A set that holds the parameters of the mapping at place j of a stack, and those of
\* each of its members, holds the mappings above it.
LEMMA AboveInStack ==
    ASSUME TreeInv, NEW t \in Threads, pc[t] \in InCall \cup {"exhausted"},
           NEW j \in 1..Len(frames[t]), NEW i \in 1..(j - 1),
           NEW S \in SUBSET Names, Params(CellOf(t), frames[t][j].name) \subseteq S,
           \A m \in S : Params(CellOf(t), m) \subseteq S
    PROVE  frames[t][i].name \in S
<1> DEFINE In == {k \in i..(j - 1) : frames[t][k].name \in S}
<1>1. PICK n \in Nat : n = Len(frames[t])
  BY StackOfParameters, LenProperties
<1>2. /\ \A k \in 2..n : frames[t][k - 1].name \in Params(CellOf(t), frames[t][k].name)
      /\ j \in 1..n /\ i \in 1..(j - 1)
  BY <1>1, StackOfParameters
<1>3. In \in SUBSET Nat /\ j - 1 \in In
  <2>1. j \in 2..n /\ j - 1 \in i..(j - 1) /\ i..(j - 1) \subseteq Nat
    BY <1>1, <1>2
  <2>2. frames[t][j - 1].name \in S
    BY <1>2, <2>1
  <2> QED BY <2>1, <2>2
<1> HIDE DEF In
<1>4. PICK m \in In : \A k \in In : m <= k
  BY <1>3, LeastNumber
<1>5. m \in i..(j - 1) /\ frames[t][m].name \in S
  BY <1>4 DEF In
<1>6. CASE m = i
  BY <1>5, <1>6
<1>7. CASE m # i
  <2>1. m \in 2..n /\ m - 1 \in i..(j - 1) /\ ~(m <= m - 1)
    BY <1>1, <1>2, <1>5, <1>7
  <2>2. frames[t][m - 1].name \in S
    BY <1>2, <1>5, <2>1
  <2>3. m - 1 \in In
    BY <2>1, <2>2 DEF In
  <2> QED BY <1>4, <2>1, <2>3
<1> QED BY <1>6, <1>7

\* A stack with more places than there are mappings holds one of them twice.
LEMMA Crowded ==
    ASSUME TreeInv, NEW t \in Threads, pc[t] = "exhausted"
    PROVE  Reentered(t) # {}
<1>1. /\ frames[t] \in Seq(Frame) /\ \A i \in 1..Len(frames[t]) : frames[t][i].name \in Names
      /\ Len(frames[t]) >= StackLimit
  BY StackOfParameters DEF TreeInv, IInv, ThreadOK
<1>2. PICK n \in Nat : n = Len(frames[t])
  BY <1>1, LenProperties
<1>3. DOMAIN frames[t] = 1..n
  BY <1>1, <1>2, LenProperties
<1> DEFINE name == [i \in 1..n |-> frames[t][i].name]
<1>4. name \in [1..n -> Names]
  BY <1>1, <1>2
<1>5. IsFiniteSet(1..n) /\ Cardinality(1..n) = n
  <2>1. 1 \in Int /\ n \in Int
    OBVIOUS
  <2>2. IsFiniteSet(1..n) /\ Cardinality(1..n) = IF 1 > n THEN 0 ELSE n - 1 + 1
    BY ONLY <2>1, FS_Interval
  <2> QED BY <2>2
<1>6. IsFiniteSet(Names) /\ Cardinality(Names) < Cardinality(1..n)
  BY <1>1, <1>2, <1>5, StackAssumption, FS_CardinalityType
<1>7. PICK i \in 1..n, j \in 1..n : i # j /\ name[i] = name[j]
  <2> HIDE DEF name
  <2> QED BY <1>4, <1>5, <1>6, FS_PigeonHole
<1>8. frames[t][i].name = frames[t][j].name
  BY <1>7
<1>9. i < j \/ j < i
  BY <1>7
<1> QED BY <1>3, <1>8, <1>9 DEF Reentered

LEMMA RecursionInCycles == TreeInv => RecursesOnlyInCycles
<1> SUFFICES ASSUME TreeInv, NEW t \in Threads, pc[t] \in InCall \cup {"exhausted"}
             PROVE  /\ \A i \in Reentered(t) : <<CellOf(t), frames[t][i].name>> \in SelfReferring
                    /\ pc[t] = "exhausted" => Reentered(t) # {}
  BY DEF RecursesOnlyInCycles
<1>1. /\ frames[t] \in Seq(Frame) /\ CellOf(t) \in Cells /\ Mapping[CellOf(t)] # None
      /\ \A i \in 1..Len(frames[t]) : frames[t][i].name \in Names
  BY StackOfParameters
<1>2. DOMAIN frames[t] = 1..Len(frames[t]) /\ Len(frames[t]) \in Nat
  BY <1>1, LenProperties
<1>3. ASSUME NEW i \in Reentered(t)
      PROVE  <<CellOf(t), frames[t][i].name>> \in SelfReferring
  <2>1. PICK j \in 1..Len(frames[t]) : j > i /\ frames[t][j].name = frames[t][i].name
    BY <1>2 DEF Reentered
  <2>2. i \in 1..Len(frames[t]) /\ i \in 1..(j - 1) /\ frames[t][i].name \in Names
    BY <1>1, <1>2, <2>1 DEF Reentered
  <2>3. ASSUME NEW S \in SUBSET Names, Params(CellOf(t), frames[t][i].name) \subseteq S,
               \A m \in S : Params(CellOf(t), m) \subseteq S
        PROVE  frames[t][i].name \in S
    BY <2>1, <2>2, <2>3, AboveInStack
  <2> QED BY <1>1, <2>2, <2>3 DEF SelfReferring
<1> QED BY <1>3, Crowded

\* map() on any mapping files, whatever is cached and whoever else is calling: the
\* recursion of EXPR, DIM, INTERP and CUSTOM reaches a mapping that is still being
\* evaluated, or the end of the stack, only when the file makes it refer to itself.
THEOREM RecursionOnlyInCycles == Spec => []RecursesOnlyInCycles
<1> QED BY RecursionInCycles, TreeInductive, PTL DEF Spec

(***************************************************************************)
(* The service behind map()                                                *)
(***************************************************************************)
\* What the callers see of the handler.
Pending   == [t \in Threads |-> IF pc[t] \in Outside THEN None ELSE request[t]]
Delivered == [t \in Threads |-> IF pc[t] \in Outside THEN reply[t] ELSE None]

ServiceInv == AnswerInv /\ CompleteInv

\* Under the lock the service is free when nobody, or a caller in init(), holds it.
LEMMA ServiceFree ==
    ASSUME IInv, Exclusive, owner = None \/ \E t \in Threads : owner = t /\ pc[t] \in Outside
    PROVE  Service!Free
<1>1. ASSUME NEW u \in Threads PROVE pc[u] \in Outside
  <2>1. pc[u] # "idle" => owner = u
    BY DEF IInv, ThreadOK
  <2>2. u # None
    BY NoneDistinct
  <2> QED BY <2>1, <2>2 DEF Outside
<1> QED BY <1>1 DEF Service!Free

\* What a step leaves as it was, but for one caller.
LEMMA OnlyCaller ==
    ASSUME NEW t \in Threads,
           \A u \in Threads \ {t} : /\ pc'[u] = pc[u] /\ request'[u] = request[u]
                                   /\ reply'[u] = reply[u]
    PROVE  /\ Pending'   = [Pending EXCEPT ![t] = Pending'[t]]
           /\ Delivered' = [Delivered EXCEPT ![t] = Delivered'[t]]
BY DEF Pending, Delivered

\* How a call begins, goes on and ends.
LEMMA CallPhases ==
    ASSUME IInv, NEW t \in Threads, Step(t)
    PROVE  /\ pc[t] \in Outside => pc[t] = "init" /\ reply'[t] \in {None, reply[t]}
                                  /\ pc'[t] \in Outside
           /\ pc[t] \notin Outside => pc'[t] # "init"
<1>1. CallTypes
  BY DEF IInv, TypeOK
<1> USE <1>1 DEF Outside, CallTypes, Goto, Leave, Throw, Holds, AtFrame, Retake, Deliver,
                 ReturnOwn
<1>2. CASE InitRegister(t) \/ InitThrow(t) \/ InitReturn(t)
  BY <1>2 DEF InitRegister, InitThrow, InitReturn, callVars
<1>3. CASE LoadGroup(t) \/ Define(t) \/ StoreGroup(t) \/ LoadThrow(t) \/ FinishLoad(t)
  BY <1>3 DEF LoadGroup, Define, StoreGroup, LoadThrow, LoadFails, FinishLoad, callVars
<1>4. CASE LookupThrow(t) \/ \E n \in Names : LookupHit(t, n) \/ LookupMiss(t, n) \/ Finish(t, n)
  BY <1>4 DEF LookupThrow, LookupHit, LookupMiss, Finish
<1>5. CASE EvalDependency(t) \/ EvalExhausted(t) \/ EvalCombine(t) \/ EvalThrow(t) \/ EvalCallFunction(t)
           \/ FunctionReturns(t)
  BY <1>5 DEF EvalDependency, EvalExhausted, EvalCombine, EvalThrow, EvalCallFunction, FunctionReturns
<1>6. CASE EvalFetch(t) \/ SourceReturns(t) \/ CallbackThrows(t)
  BY <1>6 DEF EvalFetch, SourceReturns, CallbackThrows
<1>7. CASE PostProcess(t) \/ PostThrow(t) \/ Resume(t)
  BY <1>7 DEF PostProcess, PostThrow, Resume
<1> QED BY <1>2, <1>3, <1>4, <1>5, <1>6, <1>7 DEF Step

\* A step of a call is one of the service, or none.
LEMMA ServiceOwnStep ==
    ASSUME Exclusive, NoCaching, ServiceInv, AnswersRequest', ResultComplete',
           NEW t \in Threads, Step(t)
    PROVE  [Service!Next]_(Service!vars)
<1>1. IInv /\ ThreadOK(t) /\ CallTypes /\ Mode /\ ~cacheEnabled
  BY DEF ServiceInv, CompleteInv, TreeInv, IInv, TypeOK, Mode, NoCaching
<1>2. register' = register /\ request' = request
  BY StepKeeps
<1>3. /\ Pending'   = [Pending EXCEPT ![t] = Pending'[t]]
      /\ Delivered' = [Delivered EXCEPT ![t] = Delivered'[t]]
  BY <1>1, StepIsOwn, OnlyCaller DEF OthersStay
<1>4. ASSUME Pending'[t] = Pending[t], Delivered'[t] = Delivered[t]
      PROVE  UNCHANGED Service!vars
  <2>1. Pending' = Pending /\ Delivered' = Delivered
    BY <1>3, <1>4 DEF Pending, Delivered
  <2> QED BY <1>2, <2>1 DEF Service!vars, Pending, Delivered
<1>5. CASE pc[t] \in Outside
  <2>1. /\ pc[t] = "init" /\ pc'[t] \in Outside /\ reply'[t] \in {None, reply[t]}
        /\ owner = t
    BY <1>1, <1>5, CallPhases DEF ThreadOK
  <2>2. CASE reply'[t] = reply[t]
    BY <1>4, <1>5, <2>1, <2>2 DEF Pending, Delivered
  <2>3. CASE reply'[t] = None
    <3>1. Pending' = Pending /\ Delivered' = [Delivered EXCEPT ![t] = None]
      BY <1>3, <1>5, <2>1, <2>3 DEF Pending, Delivered
    <3>2. Service!Free
      BY <1>1, <1>5, <2>1, ServiceFree
    <3>3. Service!Forget(t)
      BY <1>2, <3>1, <3>2 DEF Service!Forget, Pending, Delivered
    <3> QED BY <3>3 DEF Service!Next
  <2> QED BY <2>1, <2>2, <2>3
<1>6. CASE pc[t] \notin Outside /\ pc'[t] \notin Outside
  BY <1>2, <1>4, <1>6 DEF Pending, Delivered
<1>7. CASE pc[t] \notin Outside /\ pc'[t] \in Outside
  <2>1. pc'[t] = "idle"
    BY <1>1, <1>7, CallPhases DEF Outside
  <2>2. request[t] # None
    BY <1>1, <1>7 DEF ThreadOK, Requested, Outside
  <2>3. /\ Pending[t] = request[t] /\ Pending'[t] = None
        /\ Delivered[t] = None /\ Delivered'[t] = reply'[t]
    BY <1>7 DEF Pending, Delivered
  <2>4. CASE reply'[t] = None
    <3>1. Pending' = [Pending EXCEPT ![t] = None]
      BY <1>3, <2>3
    <3>2. Delivered' = [Delivered EXCEPT ![t] = None]
      BY <1>3, <2>3, <2>4
    <3>3. Delivered' = Delivered
      BY <2>3, <3>2 DEF Delivered
    <3>4. Service!Refuse(t)
      BY <1>2, <2>2, <2>3, <3>1, <3>3 DEF Service!Refuse, Pending, Delivered
    <3> QED BY <3>4 DEF Service!Next
  <2>5. CASE reply'[t] # None
    <3>1. Answered(t)' /\ request'[t] = request[t]
      BY <1>2, <2>1, <2>2, <2>5 DEF Answered
    <3>2. Answers(request[t], reply'[t])
      BY <3>1 DEF AnswersRequest, ResultComplete, Answers
    <3>3. Pending' = [Pending EXCEPT ![t] = None]
      BY <1>3, <2>3
    <3>4. Service!Answer(t)
      BY <1>2, <1>3, <2>2, <2>3, <2>5, <3>2, <3>3 DEF Service!Answer, Pending, Delivered
    <3> QED BY <3>4 DEF Service!Next
  <2> QED BY <2>4, <2>5
<1> QED BY <1>4, <1>5, <1>6, <1>7

\* So is the start of a call, or an operation outside any call.
LEMMA ServiceInvoke ==
    ASSUME IInv, Exclusive, Invoke
    PROVE  [Service!Next]_(Service!vars)
<1>1. CallTypes
  BY DEF IInv, TypeOK
<1>2. CASE UNCHANGED <<registerVars, callVars>>
  BY <1>2 DEF Service!vars, registerVars, callVars
<1>3. CASE Reset
  <2>1. Service!Free
    BY <1>3, ServiceFree DEF Reset, Start
  <2>2. Service!Close
    BY <1>3, <2>1 DEF Reset, Service!Close, callVars
  <2> QED BY <2>2 DEF Service!Next
<1>4. ASSUME NEW t \in Threads, NEW c \in Configs, InitLocate(t, c)
      PROVE  [Service!Next]_(Service!vars)
  <2>1. Service!Free
    BY <1>4, ServiceFree DEF InitLocate, Start
  <2>2. \A u \in Threads : (pc'[u] \in Outside) = (pc[u] \in Outside)
    BY <1>1, <1>4 DEF InitLocate, Goto, CallTypes, Outside
  <2>3. Pending' = Pending /\ Delivered' = Delivered
    BY <1>4, <2>2 DEF InitLocate, Pending, Delivered
  <2>4. Service!Open
    BY <1>4, <2>1, <2>3 DEF InitLocate, Service!Open, Pending, Delivered
  <2> QED BY <2>4 DEF Service!Next
<1>5. ASSUME NEW t \in Threads, NEW r \in Requests, CallMap(t, r)
      PROVE  [Service!Next]_(Service!vars)
  <2>1. Service!Free /\ register' = register
    BY <1>5, ServiceFree DEF CallMap, Start, registerVars
  <2>2. /\ request'[t] = r /\ reply'[t] = None /\ pc[t] = "idle"
        /\ \A u \in Threads \ {t} : /\ pc'[u] = pc[u] /\ request'[u] = request[u]
                                   /\ reply'[u] = reply[u]
    BY <1>1, <1>5 DEF CallMap, Goto, CallTypes
  <2>3. /\ Pending'   = [Pending EXCEPT ![t] = Pending'[t]]
        /\ Delivered' = [Delivered EXCEPT ![t] = Delivered'[t]]
    BY <2>2, OnlyCaller
  <2>4. Delivered'[t] = None
    BY <2>2 DEF Delivered
  <2>5. CASE r.exp \in register
    <3>1. pc'[t] \notin Outside
      BY <1>1, <1>5, <2>5 DEF CallMap, Goto, CallTypes, Outside
    <3>2. Pending'[t] = r
      BY <2>2, <3>1 DEF Pending
    <3>3. Service!Ask(t, r)
      BY <2>1, <2>3, <2>4, <2>5, <3>2 DEF Service!Ask, Pending, Delivered
    <3> QED BY <3>3 DEF Service!Next
  <2>6. CASE r.exp \notin register
    <3>1. pc' = pc
      BY <1>5, <2>6 DEF CallMap
    <3>2. Pending'[t] = None /\ Pending[t] = None
      BY <2>2, <3>1 DEF Pending, Outside
    <3>3. Pending' = Pending
      BY <2>3, <3>2 DEF Pending
    <3>4. Service!Forget(t)
      BY <2>1, <2>3, <2>4, <3>3 DEF Service!Forget, Pending, Delivered
    <3> QED BY <3>4 DEF Service!Next
  <2> QED BY <2>5, <2>6
<1> QED BY <1>2, <1>3, <1>4, <1>5 DEF Invoke, RegisterSource, UnregisterSource, RegisterThrough,
       InitIgnored

\* The handler behind a lock, with caching off: loading, evaluation, callbacks and
\* failures come to one answer that is correct for the request, or an exception, and
\* requests are served one at a time.
THEOREM HandlerImplementsService ==
    ASSUME Exclusive, NoCaching PROVE Spec => ImplementsService
<1>1. CacheModeFixed
  BY HandlerAssumption DEF CacheModeFixed, NoCaching
<1>2. Init => ServiceInv
  BY <1>1, AnswerInductive, CompleteInductive DEF ServiceInv
<1>3. ServiceInv /\ [Next]_vars => ServiceInv'
  BY <1>1, AnswerInductive, CompleteInductive DEF ServiceInv
<1>4. ServiceInv => AnswersRequest /\ ResultComplete
  BY AnswersOwned, CompleteAnswers DEF ServiceInv
<1>5. Init => Service!Init
  BY DEF Init, Service!Init, Outside
<1>6. ASSUME ServiceInv, AnswersRequest', ResultComplete', [Next]_vars
      PROVE  [Service!Next]_(Service!vars)
  <2>1. IInv
    BY <1>6 DEF ServiceInv, CompleteInv, TreeInv
  <2>2. ASSUME NEW t \in Threads, Step(t) PROVE [Service!Next]_(Service!vars)
    BY <1>6, <2>2, ServiceOwnStep
  <2>3. CASE UNCHANGED vars
    BY <2>3 DEF vars, registerVars, callVars, Service!vars
  <2> QED BY <1>6, <2>1, <2>2, <2>3, ServiceInvoke DEF Next, Quiet
<1> QED BY <1>2, <1>3, <1>4, <1>5, <1>6, PTL DEF Spec, ImplementsService, Service!Spec
=============================================================================
