-------------------------- MODULE ResolutionProofs --------------------------
(***************************************************************************)
(* Proof that resolving a request implements PartitionChoice, for every    *)
(* int width, directory tree, list of partitions, request and order of     *)
(* scanning, that what is read for a group was chosen so, and that the     *)
(* indices taken out of a path, put back in order, give the path again,    *)
(* whichever name answers.                                                 *)
(***************************************************************************)
EXTENDS ResolutionProperties, SequenceTheorems, FiniteSetTheorems, WellFoundedInduction, TLAPS

(***************************************************************************)
(* Arithmetic of int                                                       *)
(***************************************************************************)
\* ints, their limits, and what stoi returns are integers.
LEMMA IntsAreIntegers ==
    /\ Half \in Nat \ {0} /\ Ints \subseteq Int
    /\ IntMin \in Int /\ IntMax \in Int
    /\ \A name \in Names : Number(name) \in Ints \cup {None}
    /\ None \notin Int /\ None \notin Names
  BY ArithmeticAssumption DEF Ints, IntMin, IntMax, Number

\* PartitionChoice computes with the same names and limits.
LEMMA SameArithmetic ==
    /\ Choice!Ints = Ints /\ Choice!IntMin = IntMin /\ Choice!IntMax = IntMax
    /\ \A n : Choice!Number(n) = Number(n)
    /\ \A dir : Choice!Subdirectories(dir) = Subdirectories(dir)
    /\ \A k, s : Choice!Accepts(k, s) = Accepts(k, s)
  BY DEF Choice!Ints, Ints, Choice!IntMin, IntMin, Choice!IntMax, IntMax, Choice!Number, Number,
         Choice!Subdirectories, Subdirectories, Choice!Accepts, Accepts, Choice!Selectors, Selectors

\* A conversion to int gives an integer, and changes nothing that fits.
LEMMA Conversion ==
    ASSUME NEW v \in Int
    PROVE  ToInt(v) \in Int /\ (v \in Ints => ToInt(v) = v)
  BY IntsAreIntegers DEF ToInt

\* A distance an int holds is computed exactly.
LEMMA DistanceExact ==
    ASSUME NEW v \in Int, NEW n \in Int, Choice!Apart(v, n) < IntMax
    PROVE  Distance(v, n) = Choice!Apart(v, n)
  <1>1. v - n \in Ints /\ n - v \in Ints
    BY IntsAreIntegers DEF Choice!Apart, IntMax, Ints
  <1>2. ToInt(v - n) = v - n /\ ToInt(-(v - n)) = n - v
    BY <1>1, Conversion
  <1> QED BY <1>2 DEF Distance, Choice!Apart

\* Any distance is an integer, wrapped or not.
LEMMA DistanceIsInteger ==
    ASSUME NEW v \in Int, NEW n \in Int
    PROVE  Distance(v, n) \in Int
  <1>1. ToInt(v - n) \in Int
    BY Conversion
  <1>2. ToInt(-ToInt(v - n)) \in Int
    BY <1>1, Conversion
  <1> QED BY <1>1, <1>2 DEF Distance

(***************************************************************************)
(* Scans                                                                   *)
(***************************************************************************)
\* What a scan for v knows once it has seen the subdirectories in seen.
ScanState(s, v, seen, kept, m) ==
    /\ \A e \in seen : Number(e) # None
    /\ kept = None => m = Initial(s)
    /\ kept # None => /\ kept \in seen /\ m = Measured(s, v, Number(kept))
                      /\ s = "MAX_BELOW" => Number(kept) < v
                      /\ s = "MIN_ABOVE" => Number(kept) > v
    /\ s = "CLOSEST" => \A e \in seen : m <= Distance(v, Number(e))
    /\ s = "MAX_BELOW" => \A e \in seen : Number(e) < v => Number(e) <= m
    /\ s = "MIN_ABOVE" => \A e \in seen : Number(e) > v => Number(e) >= m

\* Seeing one more subdirectory, keeping it when it is better, maintains that.
LEMMA ScanStep ==
    ASSUME NEW s \in Selectors, NEW v \in Int, NEW seen \in SUBSET Names,
           NEW kept, NEW m \in Int, ScanState(s, v, seen, kept, m),
           NEW d \in Names, Number(d) # None
    PROVE  /\ Better(s, v, Number(d), m) =>
                 ScanState(s, v, seen \cup {d}, d, Measured(s, v, Number(d)))
           /\ ~Better(s, v, Number(d), m) => ScanState(s, v, seen \cup {d}, kept, m)
  <1> DEFINE n == Number(d)
  <1>1. n \in Int /\ d # None /\ \A e \in seen : Number(e) \in Int
    BY IntsAreIntegers DEF ScanState
  <1>2. Distance(v, n) \in Int /\ \A e \in seen : Distance(v, Number(e)) \in Int
    BY <1>1, DistanceIsInteger
  <1> HIDE DEF n
  <1>3. CASE s = "CLOSEST"
    BY <1>1, <1>2, <1>3 DEF n, ScanState, Better, Measured
  <1>4. CASE s = "MAX_BELOW"
    BY <1>1, <1>4 DEF n, ScanState, Better, Measured
  <1>5. CASE s = "MIN_ABOVE"
    BY <1>1, <1>5 DEF n, ScanState, Better, Measured
  <1>6. CASE s = "EXACT"
    BY <1>1, <1>6 DEF n, ScanState, Better, Measured
  <1> QED BY <1>3, <1>4, <1>5, <1>6 DEF Selectors

\* A complete scan that kept a directory kept one the selector means.
LEMMA KeptIsMeant ==
    ASSUME NEW s \in Selectors \ {"EXACT"}, NEW g, g.kind = "integer", g.is \in Int,
           NEW dirs \in SUBSET Names, NEW kept, NEW m \in Int,
           ScanState(s, ToInt(g.is), dirs, kept, m), kept # None,
           Choice!Promised(s, g, dirs)
    PROVE  kept \in Choice!Meant(s, g.is, dirs)
  <1>1. ToInt(g.is) = g.is
    BY Conversion, SameArithmetic DEF Choice!Promised
  <1>2. kept \in dirs /\ \A e \in dirs : Number(e) \in Int
    BY IntsAreIntegers DEF ScanState
  <1>3. CASE s = "CLOSEST"
    <2>1. \A e \in dirs : Distance(g.is, Number(e)) = Choice!Apart(g.is, Number(e))
      BY <1>2, <1>3, DistanceExact, SameArithmetic DEF Choice!Promised
    <2>2. \A e \in dirs : Distance(g.is, Number(kept)) <= Distance(g.is, Number(e))
      BY <1>1, <1>2, <1>3 DEF ScanState, Measured
    <2> QED BY <1>2, <1>3, <2>1, <2>2, SameArithmetic DEF Choice!Meant
  <1>4. CASE s = "MAX_BELOW"
    BY <1>1, <1>2, <1>4, SameArithmetic DEF ScanState, Measured, Choice!Meant
  <1>5. CASE s = "MIN_ABOVE"
    BY <1>1, <1>2, <1>5, SameArithmetic DEF ScanState, Measured, Choice!Meant
  <1> QED BY <1>3, <1>4, <1>5 DEF Selectors

\* A complete scan that ends where it began has nothing to choose from.
LEMMA NothingMeant ==
    ASSUME NEW s \in Selectors \ {"EXACT"}, NEW g, g.kind = "integer", g.is \in Int,
           NEW dirs \in SUBSET Names, NEW kept, NEW m \in Int,
           ScanState(s, ToInt(g.is), dirs, kept, m), m = Initial(s),
           Choice!Promised(s, g, dirs)
    PROVE  /\ s = "CLOSEST" => dirs = {}
           /\ s # "CLOSEST" => Choice!Meant(s, g.is, dirs) = {}
  <1>1. ToInt(g.is) = g.is
    BY Conversion, SameArithmetic DEF Choice!Promised
  <1>2. \A e \in dirs : Number(e) \in Int
    BY IntsAreIntegers DEF ScanState
  <1>3. ASSUME s = "CLOSEST", NEW e \in dirs
        PROVE  FALSE
    <2>1. Choice!Apart(g.is, Number(e)) < IntMax
      BY <1>3, SameArithmetic DEF Choice!Promised
    <2>2. Distance(g.is, Number(e)) = Choice!Apart(g.is, Number(e))
      BY <1>2, <2>1, DistanceExact
    <2>3. IntMax <= Distance(g.is, Number(e))
      BY <1>1, <1>3 DEF ScanState, Initial
    <2>4. Distance(g.is, Number(e)) \in Int /\ IntMax \in Int
      BY <1>2, <1>3, DistanceIsInteger, IntsAreIntegers
    <2> QED BY <2>1, <2>2, <2>3, <2>4
  <1>4. ASSUME s = "MAX_BELOW", NEW e \in dirs, Number(e) < g.is
        PROVE  FALSE
    BY <1>1, <1>2, <1>4, IntsAreIntegers, SameArithmetic DEF ScanState, Initial, Choice!Promised
  <1>5. ASSUME s = "MIN_ABOVE", NEW e \in dirs, Number(e) > g.is
        PROVE  FALSE
    BY <1>1, <1>2, <1>5, IntsAreIntegers, SameArithmetic DEF ScanState, Initial, Choice!Promised
  <1> QED BY <1>3, <1>4, <1>5, <1>2, SameArithmetic DEF Selectors, Choice!Meant

(***************************************************************************)
(* The invariant                                                           *)
(***************************************************************************)
LocatorInv ==
    /\ partitions \in Seq(Partition)
    /\ attributes \in [Attributes -> Values \cup {None}]
    /\ level \in Nat \ {0} /\ stage \in Stages /\ measure \in Int
    /\ stage = "scan" =>
          /\ level <= Len(partitions) /\ Answers /\ Selector # "EXACT"
          /\ left \subseteq Subdirectories(at)
          /\ ScanState(Selector, Wanted, Subdirectories(at) \ left, best, measure)

RequestInv ==
    /\ request \in Requests
    /\ phase \in {"load", "locate"} =>
          request.exp \in Experiments /\ groupsLeft \in Seq(Groups)
    /\ phase = "locate" => groupsLeft # << >>

ResolutionInv == LocatorInv /\ RequestInv

\* The selector and the attribute of a level.
LEMMA LevelTypes ==
    ASSUME LocatorInv, level <= Len(partitions)
    PROVE  /\ Selector \in Selectors /\ Given \in Values \cup {None}
           /\ Answers /\ Selector # "EXACT" =>
                 Given.kind = "integer" /\ Given.is \in Int /\ Wanted \in Int
  <1>1. partitions[level] \in Partition
    BY DEF LocatorInv
  <1>2. Selector \in Selectors /\ Given \in Values \cup {None}
    BY <1>1 DEF LocatorInv, Partition, Selector, Given
  <1>3. ASSUME Answers, Selector # "EXACT"
        PROVE  Given.kind = "integer" /\ Given.is \in Int
    <2>1. Given \in Values /\ Given.kind = "integer"
      BY <1>2, <1>3 DEF Answers, Accepts
    <2> QED BY <2>1 DEF Values
  <1> QED BY <1>2, <1>3, Conversion DEF Wanted

\* The invariant holds initially.
LEMMA InvInit == ResolutionInit => ResolutionInv
  BY DEF ResolutionInit, LocatorInit, NoScan, Stages, ResolutionInv, LocatorInv, RequestInv

\* A call of the locator, and each step it takes, maintain LocatorInv.
LEMMA LocatorStepInv ==
    ASSUME LocatorInv, LocatorStep
    PROVE  LocatorInv'
  <1>1. CASE RefuseAttribute
    BY <1>1 DEF RefuseAttribute, levelVars, scanVars, LocatorInv, Stages
  <1>2. CASE PickExact
    BY <1>2 DEF PickExact, AtLevel, Descend, levelVars, scanVars, LocatorInv, Stages
  <1>3. CASE BeginScan
    <2>1. /\ stage' = "scan" /\ left' = Subdirectories(at)' /\ best' = None
          /\ measure' = Initial(Selector) /\ UNCHANGED levelVars
          /\ level <= Len(partitions) /\ Answers' /\ Selector' # "EXACT"
      BY <1>3 DEF BeginScan, AtLevel, levelVars, Answers, Given, Selector, Subdirectories
    <2>2. measure' \in Int /\ measure' = Initial(Selector')
      BY <2>1, IntsAreIntegers DEF Initial, levelVars, Selector
    <2>3. ScanState(Selector, Wanted, Subdirectories(at) \ left, best, measure)'
      BY <2>1, <2>2 DEF ScanState
    <2> QED BY <2>1, <2>2, <2>3 DEF LocatorInv, levelVars, Stages
  <1>4. CASE EndScan
    BY <1>4 DEF EndScan, ClearScan, levelVars, LocatorInv, Stages
  <1>5. CASE Return
    BY <1>5 DEF Return, levelVars, scanVars, LocatorInv, Stages
  <1>6. ASSUME NEW d \in left, Inspect(d)
        PROVE  LocatorInv'
    <2> DEFINE seen == Subdirectories(at) \ left
    <2>1. /\ stage = "scan" /\ level <= Len(partitions) /\ Answers /\ Selector # "EXACT"
          /\ left \subseteq Subdirectories(at) /\ ScanState(Selector, Wanted, seen, best, measure)
      BY <1>6 DEF Inspect, LocatorInv
    <2>2. /\ Selector \in Selectors /\ Wanted \in Int /\ measure \in Int
          /\ d \in Names /\ seen \in SUBSET Names /\ Number(d) # None
      BY <1>6, <2>1, LevelTypes DEF Subdirectories, Inspect, LocatorInv
    <2>3. UNCHANGED <<levelVars, stage>> /\ left' = left \ {d}
      BY <1>6 DEF Inspect
    <2>4. /\ Selector' = Selector /\ Wanted' = Wanted /\ Answers' = Answers
          /\ Subdirectories(at)' = Subdirectories(at)
          /\ (Subdirectories(at) \ left)' = seen \cup {d}
      BY <2>1, <2>3 DEF levelVars, Selector, Given, Wanted, Answers, Subdirectories
    <2>5. Measured(Selector, Wanted, Number(d)) \in Int
      BY <2>2, IntsAreIntegers, DistanceIsInteger DEF Measured
    <2>6. ScanState(Selector, Wanted, seen \cup {d}, best', measure') /\ measure' \in Int
      BY <1>6, <2>1, <2>2, <2>5, ScanStep DEF Inspect
    <2> QED BY <2>1, <2>3, <2>4, <2>6 DEF LocatorInv, levelVars
  <1>7. ASSUME NEW d \in left, InspectThrows(d)
        PROVE  LocatorInv'
    BY <1>7 DEF InspectThrows, ClearScan, levelVars, LocatorInv, Stages
  <1> QED BY <1>1, <1>2, <1>3, <1>4, <1>5, <1>6, <1>7 DEF LocatorStep

\* Every step of a request maintains the invariant: those of the locator by the lemma
\* above, a call by the types of its arguments, the others leave the locator alone.
LEMMA InvStep ==
    ASSUME ResolutionInv, [ResolutionNext]_resolutionVars
    PROVE  ResolutionInv'
  <1> USE DEF ResolutionInv
  <1>1. ASSUME UNCHANGED locatorVars
        PROVE  LocatorInv'
    BY <1>1 DEF locatorVars, levelVars, scanVars, LocatorInv, ScanState, Answers, Given, Selector,
                Wanted, Subdirectories
  <1>2. CASE ExtractToken
    BY <1>1, <1>2 DEF ExtractToken, loadVars, RequestInv
  <1>3. CASE ExtractThrows \/ ReadThrows \/ UnknownGroup
    BY <1>1, <1>3 DEF ExtractThrows, ReadThrows, UnknownGroup, Fail, requestVars, RequestInv
  <1>4. CASE StartLoading
    BY <1>1, <1>4, ResolutionAssumption DEF StartLoading, pathVars, RequestInv
  <1>5. CASE LocateGroup
    <2>1. request.exp \in Experiments /\ request.given \in [Attributes -> Values \cup {None}]
      BY <1>5, ResolutionAssumption DEF LocateGroup, RequestInv
    <2>2. PartitionsOf[request.exp] \in Seq(Partition)
      BY <2>1, ResolutionAssumption
    <2>3. LocatorInv'
      BY <1>5, <2>1, <2>2 DEF LocateGroup, Call, scanVars, LocatorInv, Stages
    <2> QED BY <1>5, <2>3, <2>1 DEF LocateGroup, requestVars, loadVars, RequestInv
  <1>6. CASE Locating
    BY <1>6, LocatorStepInv DEF Locating, requestVars, loadVars, RequestInv
  <1>7. CASE ReadGroup
    BY <1>1, <1>7 DEF ReadGroup, RequestInv
  <1>8. CASE Lookup
    BY <1>1, <1>8 DEF Lookup, loadVars, RequestInv
  <1>9. CASE UNCHANGED resolutionVars
    BY <1>1, <1>9 DEF resolutionVars, requestVars, loadVars, RequestInv
  <1> QED BY <1>2, <1>3, <1>4, <1>5, <1>6, <1>7, <1>8, <1>9 DEF ResolutionNext, Resolved

\* Where a call of the locator stands, and what it knows of a scan.
THEOREM InvariantHolds == ResolutionSpec => []ResolutionInv
  BY InvInit, InvStep, PTL DEF ResolutionSpec

(***************************************************************************)
(* The refinement                                                          *)
(***************************************************************************)
\* Each step of find_partition_directory takes a level as promised, arrives, or
\* is a step inside a scan.
LEMMA LocatorStepRefines ==
    ASSUME LocatorInv, LocatorStep
    PROVE  [Choice!TakeLevel \/ Choice!Arrive]_(Choice!choiceVars)
  <1> DEFINE D == Subdirectories(at)
  <1>1. CASE RefuseAttribute
    <2>1. Choice!Refuse(Selector, Given, Choice!Subdirectories(at))
      BY <1>1, SameArithmetic DEF RefuseAttribute, AtLevel, Answers, levelVars, Choice!Refuse
    <2> QED BY <1>1, <2>1 DEF RefuseAttribute, AtLevel, levelVars, Selector, Given, Choice!TakeLevel
  <1>2. CASE PickExact
    <2>1. /\ stage = "level" /\ level <= Len(partitions) /\ Answers /\ Selector = "EXACT"
          /\ Given \in Values
      BY <1>2, LevelTypes DEF PickExact, AtLevel, Answers
    <2>2. ASSUME Choice!Promised(Selector, Given, Choice!Subdirectories(at))
          PROVE  ExactName = Given.is
      BY <2>1, <2>2, Conversion, SameArithmetic DEF Choice!Promised, ExactName, Values
    <2>3. CASE ExactName \in D
      <3>1. Choice!Choose(Selector, Given, Choice!Subdirectories(at))
        BY <1>2, <2>1, <2>2, <2>3, SameArithmetic
           DEF PickExact, Descend, Answers, Choice!Choose, Choice!AllNumbers, Choice!Meant
      <3> QED BY <1>2, <2>1, <2>3, <3>1
              DEF PickExact, Descend, Selector, Given, Choice!TakeLevel
    <2>4. CASE ExactName \notin D
      <3>1. Choice!Refuse(Selector, Given, Choice!Subdirectories(at))
        BY <1>2, <2>1, <2>2, <2>4, SameArithmetic
           DEF PickExact, levelVars, Choice!Refuse, Choice!Meant
      <3> QED BY <1>2, <2>1, <2>4, <3>1
              DEF PickExact, levelVars, Selector, Given, Choice!TakeLevel
    <2> QED BY <2>3, <2>4
  <1>3. CASE BeginScan
    BY <1>3 DEF BeginScan, AtLevel, levelVars, Choice!choiceVars
  <1>4. CASE EndScan
    <2>1. /\ stage = "scan" /\ level <= Len(partitions) /\ Answers /\ Selector # "EXACT"
          /\ D \ left = D /\ ScanState(Selector, Wanted, D, best, measure)
      BY <1>4 DEF EndScan, LocatorInv
    <2>2. /\ Selector \in Selectors \ {"EXACT"} /\ measure \in Int /\ D \in SUBSET Names
          /\ Given.kind = "integer" /\ Given.is \in Int /\ Wanted = ToInt(Given.is)
      BY <2>1, LevelTypes DEF LocatorInv, Wanted, Subdirectories
    <2>3. Choice!AllNumbers(Selector, D) /\ Given # None /\ Choice!Accepts(Given.kind, Selector)
      BY <2>1, SameArithmetic DEF ScanState, Choice!AllNumbers, Answers
    <2>4. CASE Selector # "CLOSEST" /\ measure = Initial(Selector) /\ stage' = "refused"
               /\ UNCHANGED levelVars
      <3>1. Choice!Promised(Selector, Given, D) => Choice!Meant(Selector, Given.is, D) = {}
        BY <2>1, <2>2, <2>4, NothingMeant
      <3>2. Choice!Refuse(Selector, Given, D)
        BY <2>1, <2>4, <3>1 DEF levelVars, Choice!Refuse
      <3> QED BY <2>1, <2>4, <3>2, SameArithmetic
              DEF levelVars, Selector, Given, Choice!TakeLevel
    <2>5. CASE /\ Selector = "CLOSEST" \/ measure # Initial(Selector)
               /\ at' = IF best = None THEN at ELSE Append(at, best)
               /\ level' = level + 1 /\ stage' = "level"
               /\ UNCHANGED <<partitions, attributes>>
      <3>1. CASE best = None
        <4>1. Selector = "CLOSEST" /\ measure = Initial(Selector)
          BY <2>1, <2>5, <3>1 DEF ScanState
        <4>2. Choice!Promised(Selector, Given, D) => D = {}
          BY <2>1, <2>2, <4>1, NothingMeant
        <4>3. Choice!Stay(Selector, Given, D)
          BY <2>1, <2>3, <2>5, <3>1, <4>1, <4>2 DEF Choice!Stay
        <4> QED BY <2>1, <2>5, <4>3, SameArithmetic DEF Selector, Given, Choice!TakeLevel
      <3>2. CASE best # None
        <4>1. best \in D /\ (Choice!Promised(Selector, Given, D)
                                => best \in Choice!Meant(Selector, Given.is, D))
          BY <2>1, <2>2, <3>2, KeptIsMeant DEF ScanState
        <4>2. Choice!Choose(Selector, Given, D)
          BY <2>1, <2>3, <2>5, <3>2, <4>1 DEF Choice!Choose
        <4> QED BY <2>1, <2>5, <4>2, SameArithmetic DEF Selector, Given, Choice!TakeLevel
      <3> QED BY <3>1, <3>2
    <2> QED BY <1>4, <2>4, <2>5 DEF EndScan
  <1>5. CASE Return
    BY <1>5 DEF Return, levelVars, Choice!Arrive
  <1>6. ASSUME NEW d \in left, Inspect(d)
        PROVE  UNCHANGED Choice!choiceVars
    BY <1>6 DEF Inspect, levelVars, Choice!choiceVars
  <1>7. ASSUME NEW d \in left, InspectThrows(d)
        PROVE  Choice!TakeLevel
    <2>1. /\ stage = "scan" /\ level <= Len(partitions) /\ Selector # "EXACT"
          /\ d \in D /\ Number(d) = None
      BY <1>7 DEF InspectThrows, LocatorInv
    <2>2. Choice!Refuse(Selector, Given, D)
      BY <1>7, <2>1, SameArithmetic
         DEF InspectThrows, levelVars, Choice!Refuse, Choice!AllNumbers
    <2> QED BY <1>7, <2>1, <2>2, SameArithmetic
            DEF InspectThrows, levelVars, Selector, Given, Choice!TakeLevel
  <1> QED BY <1>1, <1>2, <1>3, <1>4, <1>5, <1>6, <1>7 DEF LocatorStep

\* Every step of a request is a step of PartitionChoice or leaves it alone.
LEMMA StepRefines ==
    ASSUME ResolutionInv, [ResolutionNext]_resolutionVars
    PROVE  [Choice!ChoiceNext]_(Choice!choiceVars)
  <1>1. ASSUME UNCHANGED locatorVars
        PROVE  UNCHANGED Choice!choiceVars
    BY <1>1 DEF locatorVars, levelVars, Choice!choiceVars
  <1>2. CASE ExtractToken
    BY <1>1, <1>2 DEF ExtractToken
  <1>3. CASE ExtractThrows \/ ReadThrows \/ UnknownGroup
    BY <1>1, <1>3 DEF ExtractThrows, ReadThrows, UnknownGroup, Fail
  <1>4. CASE StartLoading
    BY <1>1, <1>4 DEF StartLoading
  <1>5. CASE LocateGroup
    <2>1. /\ request \in Requests /\ request.exp \in Experiments
          /\ groupsLeft \in Seq(Groups) /\ groupsLeft # << >>
      BY <1>5 DEF LocateGroup, ResolutionInv, RequestInv
    <2>2. <<request.exp, Head(groupsLeft)>> \in Experiments \X Groups
      BY <2>1
    <2>3. PartitionsOf[request.exp] \in Range(PartitionsOf)
      BY <2>1, ResolutionAssumption DEF Range
    <2>4. request.given \in {r.given : r \in Requests}
      BY <2>1
    <2>5. Choice!Ask
      BY <1>5, <2>2, <2>3, <2>4 DEF LocateGroup, Call, Choice!Ask
    <2> QED BY <2>5 DEF Choice!ChoiceNext
  <1>6. CASE Locating
    BY <1>6, LocatorStepRefines DEF Locating, ResolutionInv, Choice!ChoiceNext
  <1>7. CASE ReadGroup
    BY <1>1, <1>7 DEF ReadGroup
  <1>8. CASE Lookup
    BY <1>1, <1>8 DEF Lookup
  <1>9. CASE UNCHANGED resolutionVars
    BY <1>1, <1>9 DEF resolutionVars
  <1> QED BY <1>2, <1>3, <1>4, <1>5, <1>6, <1>7, <1>8, <1>9 DEF ResolutionNext, Resolved

\* find_partition_directory, whatever the order in which the file system lists
\* directories, implements PartitionChoice: at each level it takes a subdirectory the
\* selector means, or refuses for a cause.
THEOREM LocatorImplementsChoice == ResolutionSpec => ImplementsChoice
  <1>1. ResolutionInit => Choice!ChoiceInit
    BY DEF ResolutionInit, LocatorInit, Choice!ChoiceInit
  <1>2. ResolutionInv /\ [ResolutionNext]_resolutionVars => [Choice!ChoiceNext]_(Choice!choiceVars)
    BY StepRefines
  <1> QED BY <1>1, <1>2, InvariantHolds, PTL DEF ResolutionSpec, ImplementsChoice, Choice!ChoiceSpec

(***************************************************************************)
(* What is read                                                            *)
(***************************************************************************)
Steps == Experiments \cup Groups \cup Names

\* The n-th name of a directory below its group is one the n-th partition means.
LevelMeant(dir, list, given, n) ==
    Choice!Promised(list[n].selector, given[list[n].attribute], Siblings(dir, n)) =>
        dir[n + 2] \in Choice!Meant(list[n].selector, given[list[n].attribute].is, Siblings(dir, n))

\* The directory a descent from start has reached after k levels.
Descended(start, list, given, dir, k) ==
    /\ dir \in Seq(Steps) /\ Len(dir) >= 2 /\ SubSeq(dir, 1, 2) = start
    /\ Depth(dir) <= k
    /\ Depth(dir) < k => \E i \in 1..k : list[i].selector = "CLOSEST"
    /\ Depth(dir) = k => \A n \in 1..k : LevelMeant(dir, list, given, n)

\* A longer path begins like the shorter one.
LEMMA LongerPath ==
    ASSUME NEW dir \in Seq(Steps), NEW d \in Steps
    PROVE  /\ Append(dir, d) \in Seq(Steps) /\ Len(Append(dir, d)) = Len(dir) + 1
           /\ Append(dir, d)[Len(dir) + 1] = d
           /\ \A i \in 1..Len(dir) : Append(dir, d)[i] = dir[i]
           /\ \A m \in 1..Len(dir) : SubSeq(Append(dir, d), 1, m) = SubSeq(dir, 1, m)
           /\ SubSeq(dir, 1, Len(dir)) = dir
OBVIOUS

\* The directory of a group.
LEMMA PairPath ==
    ASSUME NEW e \in Steps, NEW g \in Steps
    PROVE  /\ <<e, g>> \in Seq(Steps) /\ Len(<<e, g>>) = 2
           /\ SubSeq(<<e, g>>, 1, 2) = <<e, g>>
<1>1. <<e, g>> \in Seq(Steps) /\ Len(<<e, g>>) = 2
  OBVIOUS
<1>2. SubSeq(<<e, g>>, 1, 2) = <<e, g>>
  BY <1>1, LongerPath
<1> QED BY <1>1, <1>2

\* A level that descends.
LEMMA DescendedFurther ==
    ASSUME NEW start, NEW list, NEW given, NEW dir, NEW k \in Nat,
           Descended(start, list, given, dir, k), NEW d \in Steps,
           Choice!Promised(list[k + 1].selector, given[list[k + 1].attribute], Subdirectories(dir)) =>
               d \in Choice!Meant(list[k + 1].selector, given[list[k + 1].attribute].is,
                                  Subdirectories(dir))
    PROVE  Descended(start, list, given, Append(dir, d), k + 1)
<1> DEFINE new == Append(dir, d)
<1>1. dir \in Seq(Steps) /\ Len(dir) \in Nat /\ Len(dir) >= 2
  BY DEF Descended
<1>2. /\ new \in Seq(Steps) /\ Len(new) = Len(dir) + 1 /\ new[Len(dir) + 1] = d
      /\ \A i \in 1..Len(dir) : new[i] = dir[i]
      /\ \A m \in 1..Len(dir) : SubSeq(new, 1, m) = SubSeq(dir, 1, m)
      /\ SubSeq(dir, 1, Len(dir)) = dir
  BY <1>1, LongerPath
<1> HIDE DEF new
<1>3. SubSeq(new, 1, 2) = start /\ Len(new) >= 2
  BY <1>1, <1>2 DEF Descended
<1>4. Depth(new) = Depth(dir) + 1 /\ Depth(dir) \in Nat
  BY <1>1, <1>2 DEF Depth
<1>5. Depth(new) < k + 1 => \E i \in 1..(k + 1) : list[i].selector = "CLOSEST"
  <2>1. Depth(new) < k + 1 => \E i \in 1..k : list[i].selector = "CLOSEST"
    BY <1>4 DEF Descended
  <2> QED BY <2>1
<1>7. Depth(new) <= k + 1
  BY <1>4 DEF Descended
<1>6. ASSUME Depth(new) = k + 1, NEW n \in 1..(k + 1)
      PROVE  LevelMeant(new, list, given, n)
  <2>1. Depth(dir) = k /\ Len(dir) = k + 2
    BY <1>1, <1>4, <1>6 DEF Depth
  <2>2. SubSeq(new, 1, n + 1) = SubSeq(dir, 1, n + 1)
    BY <1>2, <2>1
  <2>3. Siblings(new, n) = Siblings(dir, n)
    BY <2>2 DEF Siblings
  <2>4. CASE n = k + 1
    <3>0. n + 1 = Len(dir) /\ n + 2 = Len(dir) + 1
      BY <1>1, <2>1, <2>4
    <3>1. Siblings(new, n) = Subdirectories(dir) /\ new[n + 2] = d
      BY <1>2, <2>2, <3>0 DEF Siblings
    <3> QED BY <2>4, <3>1 DEF LevelMeant
  <2>5. CASE n # k + 1
    <3>1. n \in 1..k /\ new[n + 2] = dir[n + 2]
      BY <1>2, <2>1, <2>5
    <3>2. LevelMeant(dir, list, given, n)
      BY <2>1, <3>1 DEF Descended
    <3> QED BY <2>3, <3>1, <3>2 DEF LevelMeant
  <2> QED BY <2>4, <2>5
<1> QED BY <1>2, <1>3, <1>5, <1>6, <1>7 DEF Descended, new

\* CLOSEST without a choice.
LEMMA DescendedNoFurther ==
    ASSUME NEW start, NEW list, NEW given, NEW dir, NEW k \in Nat,
           Descended(start, list, given, dir, k), list[k + 1].selector = "CLOSEST"
    PROVE  Descended(start, list, given, dir, k + 1)
<1>1. Depth(dir) \in Int /\ Depth(dir) <= k
  BY DEF Descended, Depth
<1> QED BY <1>1 DEF Descended

\* The call under way goes down from the group that is read next; the directories
\* read are where such calls ended.
DescentInv ==
    /\ phase = "locate" =>
          /\ partitions = PartitionsOf[request.exp] /\ attributes = request.given
          /\ stage \in {"level", "scan", "found"} =>
                Descended(<<request.exp, Head(groupsLeft)>>, partitions, attributes, at, level - 1)
          /\ stage = "found" => level - 1 = Len(partitions)
          /\ stage \in {"level", "scan"} => level - 1 <= Len(partitions)
    /\ \A g \in DOMAIN places :
          /\ request.exp \in Experiments
          /\ Descended(<<request.exp, g>>, PartitionsOf[request.exp], request.given, places[g],
                       Len(PartitionsOf[request.exp]))

\* The levels of a call.
LEMMA DescentLocating ==
    ASSUME ResolutionInv, DescentInv, Locating
    PROVE  DescentInv'
<1> DEFINE start == <<request.exp, Head(groupsLeft)>>
<1>1. /\ phase = "locate" /\ UNCHANGED <<request, groupsLeft, places, phase>>
      /\ LocatorStep /\ LocatorInv
      /\ partitions = PartitionsOf[request.exp] /\ attributes = request.given
  BY DEF Locating, requestVars, loadVars, ResolutionInv, DescentInv
<1>2. [Choice!TakeLevel \/ Choice!Arrive]_(Choice!choiceVars)
  BY <1>1, LocatorStepRefines
<1>3. /\ level \in Nat \ {0} /\ stage \in Stages /\ stage' \in Stages
      /\ partitions \in Seq(Partition) /\ Len(partitions) \in Nat
  <2>1. LocatorInv'
    BY <1>1, LocatorStepInv
  <2> QED BY <1>1, <2>1, LenProperties DEF LocatorInv
<1>4. SUFFICES
          /\ partitions' = partitions /\ attributes' = attributes
          /\ stage' \in {"level", "scan", "found"} =>
                Descended(start, partitions, attributes, at', level' - 1)
          /\ stage' = "found" => level' - 1 = Len(partitions)
          /\ stage' \in {"level", "scan"} => level' - 1 <= Len(partitions)
  BY <1>1 DEF DescentInv
<1>5. stage \in {"level", "scan", "found"} => Descended(start, partitions, attributes, at, level - 1)
  BY <1>1 DEF DescentInv
<1>6. CASE Choice!TakeLevel
  <2> DEFINE s == partitions[level].selector
             g == attributes[partitions[level].attribute]
             D == Subdirectories(at)
  <2>1. /\ stage \in {"level", "scan"} /\ level <= Len(partitions)
        /\ UNCHANGED <<partitions, attributes>>
        /\ Choice!Choose(s, g, D) \/ Choice!Stay(s, g, D) \/ Choice!Refuse(s, g, D)
    BY <1>3, <1>6, SameArithmetic DEF Choice!TakeLevel
  <2>2. Descended(start, partitions, attributes, at, level - 1) /\ level - 1 \in Nat
        /\ (level - 1) + 1 = level
    BY <1>3, <1>5, <2>1
  <2>3. CASE Choice!Choose(s, g, D)
    <3>1. PICK d \in D : /\ Choice!Promised(s, g, D) => d \in Choice!Meant(s, g.is, D)
                         /\ at' = Append(at, d)
      BY <2>3 DEF Choice!Choose
    <3>2. d \in Steps /\ level' = level + 1 /\ stage' # "found" /\ level' - 1 = level
      BY <1>3, <2>1, <2>3, <3>1 DEF Steps, Subdirectories, Choice!Choose
    <3>3. Descended(start, partitions, attributes, at', level)
      BY <2>2, <3>1, <3>2, DescendedFurther
    <3> QED BY <2>1, <3>2, <3>3
  <2>4. CASE Choice!Stay(s, g, D)
    <3>1. s = "CLOSEST" /\ at' = at /\ level' = level + 1 /\ stage' # "found" /\ level' - 1 = level
      BY <1>3, <2>1, <2>4 DEF Choice!Stay
    <3>2. Descended(start, partitions, attributes, at, level)
      BY <2>2, <3>1, DescendedNoFurther
    <3> QED BY <2>1, <3>1, <3>2
  <2>5. CASE Choice!Refuse(s, g, D)
    <3>1. stage' = "refused"
      BY <2>5 DEF Choice!Refuse
    <3> QED BY <2>1, <3>1
  <2> QED BY <2>1, <2>3, <2>4, <2>5
<1>7. CASE Choice!Arrive
  <2>1. /\ stage \in {"level", "scan"} /\ level > Len(partitions) /\ stage' = "found"
        /\ UNCHANGED <<partitions, attributes, at, level>>
    BY <1>7 DEF Choice!Arrive
  <2>2. level - 1 <= Len(partitions)
    BY <1>1, <2>1 DEF DescentInv
  <2> QED BY <1>3, <1>5, <2>1, <2>2
<1>8. CASE UNCHANGED Choice!choiceVars
  <2>1. /\ UNCHANGED <<partitions, attributes, at, level>>
        /\ stage \in {"level", "scan"} <=> stage' \in {"level", "scan"}
        /\ stage = "found" <=> stage' = "found"
    BY <1>8 DEF Choice!choiceVars
  <2> QED BY <1>1, <1>5, <2>1 DEF DescentInv
<1> QED BY <1>2, <1>6, <1>7, <1>8

\* Every step of a request keeps the descent.
LEMMA DescentStep ==
    ASSUME ResolutionInv, DescentInv, [ResolutionNext]_resolutionVars
    PROVE  DescentInv'
<1>1. ASSUME UNCHANGED <<request, places>>, phase' # "locate"
      PROVE  DescentInv'
  BY <1>1 DEF DescentInv
<1>2. CASE ExtractToken \/ ExtractThrows \/ StartLoading \/ ReadThrows \/ Lookup \/ UnknownGroup
  BY <1>1, <1>2 DEF ExtractToken, ExtractThrows, StartLoading, ReadThrows, Lookup, UnknownGroup,
                    Fail, requestVars, pathVars, loadVars
<1>3. CASE LocateGroup
  <2> DEFINE start == <<request.exp, Head(groupsLeft)>>
  <2>1. /\ request.exp \in Experiments /\ groupsLeft \in Seq(Groups) /\ groupsLeft # << >>
        /\ UNCHANGED <<request, groupsLeft, places>> /\ phase' = "locate"
        /\ partitions' = PartitionsOf[request.exp] /\ attributes' = request.given
        /\ at' = start /\ level' = 1 /\ stage' \in {"level", "refused"}
    BY <1>3 DEF LocateGroup, Call, requestVars, loadVars, ResolutionInv, RequestInv
  <2>2. /\ start \in Seq(Steps) /\ Len(start) = 2 /\ SubSeq(start, 1, 2) = start
    <3>1. Head(groupsLeft) \in Steps /\ request.exp \in Steps
      BY <2>1 DEF Steps
    <3> QED BY <3>1, PairPath
  <2>3. Descended(start, partitions', attributes', start, 0)
    BY <2>2 DEF Descended, Depth
  <2>4. Len(partitions') \in Nat
    <3>1. partitions' \in Seq(Partition)
      BY <2>1, ResolutionAssumption
    <3> QED BY <3>1, LenProperties
  <2> QED BY <2>1, <2>3, <2>4 DEF DescentInv
<1>4. CASE Locating
  BY <1>4, DescentLocating
<1>5. CASE ReadGroup
  <2>1. /\ phase = "locate" /\ stage = "found" /\ UNCHANGED request /\ phase' = "load"
        /\ places' = [g \in DOMAIN places \cup {Head(groupsLeft)} |->
                          IF g = Head(groupsLeft) THEN at ELSE places[g]]
    BY <1>5 DEF ReadGroup
  <2>2. Descended(<<request.exp, Head(groupsLeft)>>, PartitionsOf[request.exp], request.given, at,
                  Len(PartitionsOf[request.exp]))
    BY <2>1 DEF DescentInv
  <2>3. request.exp \in Experiments
    BY <2>1 DEF ResolutionInv, RequestInv
  <2> QED BY <2>1, <2>2, <2>3 DEF DescentInv
<1>6. CASE UNCHANGED resolutionVars
  BY <1>6 DEF resolutionVars, locatorVars, levelVars, scanVars, requestVars, loadVars, DescentInv
<1> QED BY <1>2, <1>3, <1>4, <1>5, <1>6 DEF ResolutionNext, Resolved

\* load_experiment: the directory read for a group lies below that group, and each of
\* its names is one the partition's selector means for the attribute of the request.
THEOREM GroupsReadWhereMeant == ResolutionSpec => []EveryLevelChosen
<1>1. ResolutionInit => DescentInv
  BY DEF ResolutionInit, DescentInv
<1>2. ResolutionInv /\ DescentInv => EveryLevelChosen
  <2> SUFFICES ASSUME ResolutionInv, DescentInv, NEW g \in DOMAIN places
               PROVE  LET dir == places[g]
                          list == PartitionsOf[request.exp]
                      IN  /\ SubSeq(dir, 1, 2) = <<request.exp, g>>
                          /\ \/ Depth(dir) = Len(list)
                             \/ /\ Depth(dir) < Len(list)
                                /\ \E i \in DOMAIN list : list[i].selector = "CLOSEST"
                          /\ Depth(dir) = Len(list) =>
                               \A n \in DOMAIN list : LevelMeant(dir, list, request.given, n)
    BY DEF EveryLevelChosen, LevelMeant
  <2> DEFINE dir == places[g]
             list == PartitionsOf[request.exp]
  <2>1. request.exp \in Experiments /\ Descended(<<request.exp, g>>, list, request.given, dir, Len(list))
    BY DEF DescentInv
  <2>2. list \in Seq(Partition)
    BY <2>1, ResolutionAssumption
  <2>3. DOMAIN list = 1..Len(list) /\ Len(list) \in Nat
    BY <2>2, LenProperties
  <2>4. dir \in Seq(Steps) /\ Depth(dir) \in Int
    <3>1. dir \in Seq(Steps)
      BY <2>1 DEF Descended
    <3> QED BY <3>1, LenProperties DEF Depth
  <2>5. SubSeq(dir, 1, 2) = <<request.exp, g>>
    BY <2>1 DEF Descended
  <2> HIDE DEF dir, list
  <2>6. \/ Depth(dir) = Len(list)
        \/ Depth(dir) < Len(list) /\ \E i \in DOMAIN list : list[i].selector = "CLOSEST"
    BY <2>1, <2>3, <2>4 DEF Descended
  <2>7. Depth(dir) = Len(list) => \A n \in DOMAIN list : LevelMeant(dir, list, request.given, n)
    BY <2>1, <2>3 DEF Descended
  <2> QED BY <2>5, <2>6, <2>7 DEF dir, list
<1> QED BY <1>1, <1>2, DescentStep, InvariantHolds, PTL DEF ResolutionSpec

(***************************************************************************)
(* Induction                                                               *)
(***************************************************************************)
\* A set of natural numbers that is not empty has a least element: induction, in a
\* form that can be cited.
LEMMA LeastNumber ==
    ASSUME NEW S \in SUBSET Nat, S # {}
    PROVE  \E m \in S : \A n \in S : m <= n
<1>1. IsWellFoundedOn(OpToRel(<, Nat), Nat)
  BY NatLessThanWellFounded
<1>2. PICK m \in S : \A n \in S : ~(<<n, m>> \in OpToRel(<, Nat))
  BY <1>1, WFMin
<1>3. \A n \in S : ~(n < m)
  BY <1>2 DEF OpToRel
<1> QED BY <1>3

\* What holds of 0 and of the next number holds up to n.
LEMMA Upwards ==
    ASSUME NEW n \in Nat, NEW S, 0 \in S, \A k \in 0..n : k < n /\ k \in S => k + 1 \in S
    PROVE  \A k \in 0..n : k \in S
<1> SUFFICES ASSUME NEW b \in 0..n, b \notin S
             PROVE  FALSE
  OBVIOUS
<1> DEFINE Wrong == {k \in 0..n : k \notin S}
<1>1. Wrong \in SUBSET Nat /\ Wrong # {}
  OBVIOUS
<1> HIDE DEF Wrong
<1>2. PICK m \in Wrong : \A k \in Wrong : m <= k
  BY <1>1, LeastNumber
<1>3. m \in 0..n /\ m \notin S
  BY DEF Wrong
<1>4. m - 1 \in 0..n /\ m - 1 < n /\ ~(m <= m - 1)
  BY <1>3
<1>5. m - 1 \in S
  BY <1>2, <1>4 DEF Wrong
<1>6. (m - 1) + 1 \in S
  BY <1>4, <1>5
<1> QED BY <1>3, <1>6

\* A bounded set of natural numbers that is not empty has a greatest element.
LEMMA GreatestNumber ==
    ASSUME NEW n \in Nat, NEW S \in SUBSET (0..n), S # {}
    PROVE  \E m \in S : \A k \in S : k <= m
<1> DEFINE Rest == {k \in 0..n : n - k \in S}
<1>1. \A k \in S : k \in 0..n /\ n - k \in 0..n /\ n - (n - k) = k
  OBVIOUS
<1>2. Rest \in SUBSET Nat /\ Rest # {} /\ \A k \in S : n - k \in Rest
  <2>1. \A k \in S : n - k \in Rest
    <3> TAKE k \in S
    <3>1. k \in 0..n /\ n - k \in 0..n /\ n - (n - k) = k
      BY <1>1
    <3>2. n - (n - k) \in S
      BY <3>1
    <3> QED BY <3>1, <3>2
  <2>2. Rest \in SUBSET Nat
    OBVIOUS
  <2> HIDE DEF Rest
  <2> QED BY <2>1, <2>2
<1>3. \A k \in Rest : k \in 0..n /\ n - k \in S
  OBVIOUS
<1> HIDE DEF Rest
<1>4. PICK r \in Rest : \A k \in Rest : r <= k
  BY <1>2, LeastNumber
<1>5. \A k \in S : r <= n - k
  BY <1>2, <1>4
<1>6. \A k \in S : k <= n - r
  BY <1>1, <1>3, <1>5
<1> QED BY <1>3, <1>6

(***************************************************************************)
(* The indices of a token                                                  *)
(***************************************************************************)
\* The numbers among the first n parts of a token, for n up to k.
Reading(token, k, found) ==
    /\ found \in [0..k -> Seq(Nat)] /\ found[0] = << >>
    /\ \A n \in 1..k : found[n] = IF token[n] \in Nat THEN Append(found[n - 1], token[n])
                                  ELSE found[n - 1]

\* One part more.
LEMMA ReadingStep ==
    ASSUME NEW token, NEW k \in Nat, NEW found, Reading(token, k, found)
    PROVE  \E longer : Reading(token, k + 1, longer)
<1> DEFINE last == IF token[k + 1] \in Nat THEN Append(found[k], token[k + 1]) ELSE found[k]
           longer == [n \in 0..(k + 1) |-> IF n <= k THEN found[n] ELSE last]
<1>1. found[k] \in Seq(Nat)
  BY DEF Reading
<1>2. last \in Seq(Nat)
  BY <1>1
<1> HIDE DEF last
<1>3. longer \in [0..(k + 1) -> Seq(Nat)] /\ longer[0] = << >>
  BY <1>2 DEF Reading
<1>4. longer[k + 1] = last /\ \A n \in 0..k : longer[n] = found[n]
  OBVIOUS
<1> HIDE DEF longer
<1>5. ASSUME NEW n \in 1..(k + 1)
      PROVE  longer[n] = IF token[n] \in Nat THEN Append(longer[n - 1], token[n])
                         ELSE longer[n - 1]
  <2>1. CASE n = k + 1
    <3>1. n - 1 = k /\ longer[k] = found[k]
      BY <1>4, <2>1
    <3> QED BY <1>4, <2>1, <3>1 DEF last
  <2>2. CASE n # k + 1
    <3>1. n \in 1..k /\ n - 1 \in 0..k
      BY <2>2
    <3>2. longer[n] = found[n] /\ longer[n - 1] = found[n - 1]
      BY <1>4, <3>1
    <3> QED BY <3>1, <3>2 DEF Reading
  <2> QED BY <2>1, <2>2
<1> QED BY <1>3, <1>5 DEF Reading

\* The loop over the matches of a token exists for every token.
LEMMA ReadingExists ==
    ASSUME NEW token, NEW n \in Nat
    PROVE  \E found : Reading(token, n, found)
<1> DEFINE S == {k \in Nat : \E found : Reading(token, k, found)}
<1>1. 0 \in S
  <2>1. Reading(token, 0, [i \in 0..0 |-> << >>])
    BY DEF Reading
  <2> QED BY <2>1
<1>2. \A k \in 0..n : k < n /\ k \in S => k + 1 \in S
  BY ReadingStep
<1> HIDE DEF S
<1>3. n \in S
  BY <1>1, <1>2, Upwards
<1> QED BY <1>3 DEF S

\* What Indices computes.
LEMMA IndicesRead ==
    ASSUME NEW token, Len(token) \in Nat
    PROVE  \E found : Reading(token, Len(token), found) /\ Indices(token) = found[Len(token)]
<1> DEFINE Is(f) == f = [n \in 0..Len(token) |->
                            IF n = 0 THEN << >>
                            ELSE IF token[n] \in Nat THEN Append(f[n - 1], token[n])
                            ELSE f[n - 1]]
           found == CHOOSE f : Is(f)
<1>1. PICK g : Reading(token, Len(token), g)
  BY ReadingExists
<1>2. Is(g)
  <2>1. DOMAIN g = 0..Len(token) /\ g = [n \in DOMAIN g |-> g[n]]
    BY <1>1 DEF Reading
  <2>2. \A n \in 0..Len(token) : g[n] = IF n = 0 THEN << >>
                                        ELSE IF token[n] \in Nat THEN Append(g[n - 1], token[n])
                                        ELSE g[n - 1]
    <3> TAKE n \in 0..Len(token)
    <3>1. n = 0 \/ n \in 1..Len(token)
      OBVIOUS
    <3>2. CASE n = 0
      BY <1>1, <3>2 DEF Reading
    <3>3. CASE n \in 1..Len(token)
      BY <1>1, <3>3 DEF Reading
    <3> QED BY <3>1, <3>2, <3>3
  <2> QED BY <2>1, <2>2
<1>3. Is(found)
  BY <1>2
<1>4. Indices(token) = found[Len(token)]
  BY Zenon DEF Indices, found, Is
<1>5. Reading(token, Len(token), found)
  <2> DEFINE S == {k \in Nat : k <= Len(token) => found[k] \in Seq(Nat)}
  <2>0. /\ DOMAIN found = 0..Len(token) /\ found[0] = << >>
        /\ \A n \in 1..Len(token) : found[n] = IF token[n] \in Nat THEN Append(found[n - 1], token[n])
                                               ELSE found[n - 1]
        /\ found = [n \in DOMAIN found |-> found[n]]
    <3> HIDE DEF found
    <3>1. found = [n \in 0..Len(token) |->
                      IF n = 0 THEN << >>
                      ELSE IF token[n] \in Nat THEN Append(found[n - 1], token[n])
                      ELSE found[n - 1]]
      BY <1>3
    <3>2. DOMAIN found = 0..Len(token) /\ found = [n \in DOMAIN found |-> found[n]]
      BY <3>1
    <3>3. found[0] = << >>
      BY <3>1
    <3>4. ASSUME NEW n \in 1..Len(token)
          PROVE  found[n] = IF token[n] \in Nat THEN Append(found[n - 1], token[n]) ELSE found[n - 1]
      <4>1. n \in 0..Len(token) /\ n # 0
        OBVIOUS
      <4> QED BY <3>1, <4>1
    <3> QED BY <3>2, <3>3, <3>4
  <2> HIDE DEF found
  <2>1. 0 \in S
    BY <2>0
  <2>2. ASSUME NEW k \in 0..Len(token), k < Len(token), k \in S
        PROVE  k + 1 \in S
    <3>1. found[k] \in Seq(Nat) /\ k + 1 \in 1..Len(token) /\ (k + 1) - 1 = k
      BY <2>2
    <3>2. found[k + 1] = IF token[k + 1] \in Nat THEN Append(found[k], token[k + 1]) ELSE found[k]
      BY <2>0, <3>1
    <3> DEFINE before == found[k]
    <3>3. before \in Seq(Nat)
      BY <3>1
    <3> HIDE DEF before
    <3>4. token[k + 1] \in Nat => Append(before, token[k + 1]) \in Seq(Nat)
      BY <3>3
    <3>5. found[k + 1] \in Seq(Nat)
      BY <3>2, <3>3, <3>4 DEF before
    <3> QED BY <3>5
  <2> HIDE DEF S
  <2>3. \A k \in 0..Len(token) : k \in S
    BY <2>1, <2>2, Upwards
  <2>4. \A k \in 0..Len(token) : found[k] \in Seq(Nat)
    BY <2>3 DEF S
  <2> QED BY <2>0, <2>4 DEF Reading
<1> QED BY <1>4, <1>5

\* What is read stays where it is.
LEMMA ReadingKeeps ==
    ASSUME NEW token, NEW k \in Nat, NEW found, Reading(token, k, found),
           NEW j \in 1..k, token[j] \in Nat
    PROVE  /\ Len(found[j - 1]) + 1 \in 1..Len(found[k])
           /\ found[k][Len(found[j - 1]) + 1] = token[j]
<1> DEFINE r == Len(found[j - 1]) + 1
           S == {n \in Nat : n >= j => r \in 1..Len(found[n]) /\ found[n][r] = token[j]}
<1>1. /\ \A n \in 0..k : found[n] \in Seq(Nat) /\ Len(found[n]) \in Nat
      /\ \A n \in 1..k : found[n] = IF token[n] \in Nat THEN Append(found[n - 1], token[n])
                                    ELSE found[n - 1]
  BY LenProperties DEF Reading
<1>2. r \in Nat /\ r >= 1 /\ j - 1 \in 0..k
  BY <1>1
<1>3. 0 \in S
  OBVIOUS
<1>4. ASSUME NEW n \in 0..k, n < k, n \in S
      PROVE  n + 1 \in S
  <2>0. n + 1 \in 1..k /\ (n + 1) - 1 = n /\ found[n] \in Seq(Nat) /\ Len(found[n]) \in Nat
    BY <1>1, <1>4
  <2>1. found[n + 1] = IF token[n + 1] \in Nat THEN Append(found[n], token[n + 1]) ELSE found[n]
    BY <1>1, <2>0
  <2>2. CASE n + 1 = j
    <3>1. n = j - 1 /\ r = Len(found[n]) + 1
      BY <2>2
    <3>2. found[n + 1] = Append(found[n], token[j])
      BY <2>1, <2>2
    <3>3. r \in 1..Len(found[n + 1]) /\ found[n + 1][r] = token[j]
      BY <2>0, <3>1, <3>2
    <3> QED BY <3>3
  <2>3. CASE n + 1 < j
    BY <2>3
  <2>4. CASE n + 1 > j
    <3>1. r \in 1..Len(found[n]) /\ found[n][r] = token[j]
      BY <1>4, <2>4
    <3> HIDE DEF r
    <3>2. r \in 1..Len(found[n + 1]) /\ found[n + 1][r] = token[j]
      BY <2>0, <2>1, <3>1
    <3> QED BY <3>2
  <2> QED BY <2>2, <2>3, <2>4
<1> HIDE DEF S
<1>5. k \in S
  BY <1>3, <1>4, Upwards
<1> QED BY <1>5 DEF S
(***************************************************************************)
(* The hashes of a path                                                    *)
(***************************************************************************)
Parts == Keys \cup {Hash} \cup Nat
\* The hashes read before a place.
Earlier(places_, p) == {q \in places_ : Before(q, p)}

\* Where the hashes of a path are, place by place.
LEMMA HashAt ==
    ASSUME NEW path \in Seq(Seq(Parts))
    PROVE  /\ Hashes(path) \subseteq Nat \X Nat
           /\ \A i, j : <<i, j>> \in Hashes(path) <=>
                 i \in 1..Len(path) /\ j \in 1..Len(path[i]) /\ path[i][j] = Hash
<1>1. DOMAIN path = 1..Len(path) /\ \A i \in 1..Len(path) : path[i] \in Seq(Parts)
  BY LenProperties, ElementOfSeq
<1>2. \A i \in 1..Len(path) : DOMAIN path[i] = 1..Len(path[i]) /\ Len(path[i]) \in Nat
  BY <1>1, LenProperties
<1>3. Len(path) \in Nat
  BY LenProperties
<1> QED BY <1>1, <1>2, <1>3 DEF Hashes

\* What one more token without its numbers adds.
LEMMA GeneralisedToken ==
    ASSUME NEW token \in Seq(Keys \cup Nat)
    PROVE  /\ Generalise(token) \in Seq(Keys \cup {Hash}) /\ Len(Generalise(token)) = Len(token)
           /\ \A j \in 1..Len(token) :
                 /\ token[j] \in Nat => Generalise(token)[j] = Hash
                 /\ token[j] \notin Nat => token[j] \in Keys /\ Generalise(token)[j] = token[j]
                 /\ Generalise(token)[j] = Hash <=> token[j] \in Nat
<1>1. Len(token) \in Nat /\ DOMAIN token = 1..Len(token)
      /\ \A j \in 1..Len(token) : token[j] \in Keys \cup Nat
  BY LenProperties, ElementOfSeq
<1>2. Generalise(token) = [i \in 1..Len(token) |-> IF token[i] \in Nat THEN Hash ELSE token[i]]
  BY <1>1 DEF Generalise
<1>3. Generalise(token) \in [1..Len(token) -> Keys \cup {Hash}]
  BY <1>1, <1>2
<1>4. Generalise(token) \in Seq(Keys \cup {Hash})
  BY <1>1, <1>3, SeqDef
<1>5. Len(Generalise(token)) = Len(token)
  BY <1>1, <1>3, <1>4, LenProperties
<1> QED BY <1>1, <1>2, <1>4, <1>5, PathAssumption

\* Where the hashes of a longer path are.
LEMMA LongerHashes ==
    ASSUME NEW path \in Seq(Seq(Keys \cup {Hash})), NEW token \in Seq(Keys \cup Nat)
    PROVE  \A i, j : <<i, j>> \in Hashes(Append(path, Generalise(token))) <=>
                \/ <<i, j>> \in Hashes(path)
                \/ i = Len(path) + 1 /\ j \in 1..Len(token) /\ token[j] \in Nat
<1> DEFINE new == Append(path, Generalise(token))
<1>1. path \in Seq(Seq(Parts)) /\ new \in Seq(Seq(Parts))
  <2>1. Keys \cup {Hash} \subseteq Parts
    BY DEF Parts
  <2>2. Seq(Keys \cup {Hash}) \subseteq Seq(Parts)
    BY <2>1, SeqMonotonic
  <2>3. path \in Seq(Seq(Parts)) /\ Generalise(token) \in Seq(Parts)
    BY <2>2, SeqMonotonic, GeneralisedToken
  <2> QED BY <2>3
<1>2. /\ Len(path) \in Nat /\ Len(new) = Len(path) + 1 /\ new[Len(path) + 1] = Generalise(token)
      /\ \A i \in 1..Len(path) : new[i] = path[i]
  BY LenProperties
<1> HIDE DEF new
<1>3. SUFFICES ASSUME NEW i, NEW j
               PROVE  <<i, j>> \in Hashes(new) <=>
                         \/ <<i, j>> \in Hashes(path)
                         \/ i = Len(path) + 1 /\ j \in 1..Len(token) /\ token[j] \in Nat
  BY DEF new
<1>4. <<i, j>> \in Hashes(new) <=>
          i \in 1..(Len(path) + 1) /\ j \in 1..Len(new[i]) /\ new[i][j] = Hash
  BY <1>1, <1>2, HashAt
<1>5. <<i, j>> \in Hashes(path) <=>
          i \in 1..Len(path) /\ j \in 1..Len(path[i]) /\ path[i][j] = Hash
  BY <1>1, HashAt
<1>6. CASE i \in 1..Len(path)
  BY <1>2, <1>4, <1>5, <1>6
<1>7. CASE i = Len(path) + 1
  <2>1. new[i] = Generalise(token) /\ i \in 1..(Len(path) + 1) /\ i \notin 1..Len(path)
    BY <1>2, <1>7
  <2>2. <<i, j>> \in Hashes(new) <=> j \in 1..Len(token) /\ token[j] \in Nat
    BY <1>4, <2>1, GeneralisedToken
  <2> QED BY <1>5, <1>7, <2>1, <2>2
<1>8. CASE i \notin 1..(Len(path) + 1)
  BY <1>2, <1>4, <1>5, <1>8
<1>9. i \in 1..(Len(path) + 1) => i \in 1..Len(path) \/ i = Len(path) + 1
  BY <1>2
<1> QED BY <1>6, <1>7, <1>8, <1>9

\* Hashes counted while a token is read: as many as numbers are found.
Counted(hashes, row, token, k) == hashes \cup {<<row, j>> : j \in {n \in 1..k : token[n] \in Nat}}

CountsAs(S, n) == IsFiniteSet(S) /\ Cardinality(S) = n
\* Nothing is counted in a row yet.
Fresh(hashes, row) == \A j : <<row, j>> \notin hashes

LEMMA CountingTokens ==
    ASSUME NEW hashes, IsFiniteSet(hashes), NEW row, Fresh(hashes, row),
           NEW token, NEW size \in Nat, NEW found, Reading(token, size, found)
    PROVE  \A k \in 0..size : CountsAs(Counted(hashes, row, token, k),
                                       Cardinality(hashes) + Len(found[k]))
<1> DEFINE C(k) == Counted(hashes, row, token, k)
           S == {k \in 0..size : IsFiniteSet(C(k)) /\ Cardinality(C(k)) = Cardinality(hashes) + Len(found[k])}
<1>1. Cardinality(hashes) \in Nat
  BY FS_CardinalityType
<1>2. 0 \in S
  <2>1. C(0) = hashes
    BY DEF Counted
  <2>2. Len(found[0]) = 0
    BY DEF Reading
  <2> QED BY <1>1, <2>1, <2>2
<1>3. ASSUME NEW k \in 0..size, k < size, k \in S
      PROVE  k + 1 \in S
  <2>1. /\ IsFiniteSet(C(k)) /\ Cardinality(C(k)) = Cardinality(hashes) + Len(found[k])
        /\ k + 1 \in 1..size /\ k + 1 \in 0..size /\ (k + 1) - 1 = k
        /\ found[k] \in Seq(Nat) /\ Len(found[k]) \in Nat
    BY <1>3, LenProperties DEF Reading
  <2>2. found[k + 1] = IF token[k + 1] \in Nat THEN Append(found[k], token[k + 1]) ELSE found[k]
    BY <2>1 DEF Reading
  <2>3. CASE token[k + 1] \in Nat
    <3>1. C(k + 1) = C(k) \cup {<<row, k + 1>>}
      BY <2>1, <2>3 DEF Counted
    <3>2. <<row, k + 1>> \notin C(k)
      BY <2>1 DEF Counted, Fresh
    <3>3. Len(found[k + 1]) = Len(found[k]) + 1
      BY <2>1, <2>2, <2>3
    <3> HIDE DEF C
    <3>4. IsFiniteSet(C(k + 1)) /\ Cardinality(C(k + 1)) = Cardinality(C(k)) + 1
      BY <2>1, <3>1, <3>2, FS_AddElement
    <3>5. Cardinality(C(k + 1)) = Cardinality(hashes) + Len(found[k + 1])
      BY <1>1, <2>1, <3>3, <3>4
    <3> QED BY <2>1, <3>4, <3>5
  <2>4. CASE token[k + 1] \notin Nat
    <3>0. \A n : n \in 1..(k + 1) /\ token[n] \in Nat <=> n \in 1..k /\ token[n] \in Nat
      BY <2>1, <2>4
    <3>1. C(k + 1) = C(k)
      BY <3>0 DEF Counted
    <3> HIDE DEF C
    <3> QED BY <2>1, <2>2, <2>4, <3>1
  <2> QED BY <2>3, <2>4
<1> HIDE DEF S
<1>4. \A k \in 0..size : k \in S
  BY <1>2, <1>3, Upwards
<1> HIDE DEF C
<1>5. \A k \in 0..size : IsFiniteSet(C(k)) /\ Cardinality(C(k)) = Cardinality(hashes) + Len(found[k])
  BY <1>4 DEF S
<1> QED BY <1>5 DEF C, CountsAs

\* A function on the first n numbers is a sequence.
LEMMA SequenceOf ==
    ASSUME NEW T, NEW n \in Nat, NEW f \in [1..n -> T]
    PROVE  f \in Seq(T) /\ Len(f) = n
<1>1. f \in Seq(T)
  BY SeqDef
<1> QED BY <1>1, LenProperties

\* The row of a path with its hashes replaced.
FilledRow(path, hashes, values, i) ==
    [j \in DOMAIN path[i] |-> IF path[i][j] = Hash
                              THEN values[Cardinality(Earlier(hashes, <<i, j>>)) + 1]
                              ELSE path[i][j]]

LEMMA FillAllRows ==
    ASSUME NEW path, NEW values
    PROVE  FillAll(path, values) = [i \in DOMAIN path |-> FilledRow(path, Hashes(path), values, i)]
BY DEF FillAll, FilledRow, Earlier

\* A hash has fewer hashes before it than there are.
LEMMA RankBelow ==
    ASSUME NEW hashes, IsFiniteSet(hashes), NEW p \in hashes, p[1] \in Int, p[2] \in Int
    PROVE  Cardinality(Earlier(hashes, p)) + 1 \in 1..Cardinality(hashes)
<1>1. Earlier(hashes, p) \in SUBSET hashes /\ p \notin Earlier(hashes, p)
  BY DEF Earlier, Before
<1>2. /\ IsFiniteSet(Earlier(hashes, p)) /\ Cardinality(Earlier(hashes, p)) <= Cardinality(hashes)
      /\ Cardinality(Earlier(hashes, p)) # Cardinality(hashes)
  BY <1>1, FS_Subset
<1>3. Cardinality(Earlier(hashes, p)) \in Nat /\ Cardinality(hashes) \in Nat
  BY <1>2, FS_CardinalityType
<1> QED BY <1>2, <1>3

\* Reading one more token: a hash and an index for each of its numbers, and the path
\* rebuilt from hashes and indices grows by this very token.
LEMMA OneMoreToken ==
    ASSUME NEW path \in Seq(Seq(Keys \cup {Hash})), NEW values \in Seq(Nat),
           NEW token \in Seq(Keys \cup Nat),
           IsFiniteSet(Hashes(path)), Cardinality(Hashes(path)) = Len(values)
    PROVE  /\ IsFiniteSet(Hashes(Append(path, Generalise(token))))
           /\ Indices(token) \in Seq(Nat)
           /\ Cardinality(Hashes(Append(path, Generalise(token)))) = Len(values \o Indices(token))
           /\ FillAll(Append(path, Generalise(token)), values \o Indices(token))
                  = Append(FillAll(path, values), token)
<1> DEFINE new == Append(path, Generalise(token))
           more == values \o Indices(token)
           H == Hashes(path)
           G == Hashes(new)
           row == Len(path) + 1
<1>1. /\ Len(path) \in Nat /\ Len(token) \in Nat /\ Len(values) \in Nat
      /\ DOMAIN path = 1..Len(path) /\ DOMAIN token = 1..Len(token)
  BY LenProperties
<1>2. PICK found : Reading(token, Len(token), found) /\ Indices(token) = found[Len(token)]
  BY <1>1, IndicesRead
<1>3. Indices(token) \in Seq(Nat) /\ Len(Indices(token)) \in Nat
  BY <1>1, <1>2, LenProperties DEF Reading
<1>4. /\ more \in Seq(Nat) /\ Len(more) = Len(values) + Len(Indices(token))
      /\ \A r \in 1..Len(values) : more[r] = values[r]
      /\ \A r \in 1..Len(Indices(token)) : more[Len(values) + r] = Indices(token)[r]
  <2>1. \A r \in 1..Len(values) + Len(Indices(token)) :
            more[r] = IF r <= Len(values) THEN values[r] ELSE Indices(token)[r - Len(values)]
    BY <1>3, ConcatProperties
  <2>2. more \in Seq(Nat) /\ Len(more) = Len(values) + Len(Indices(token))
    BY <1>3, ConcatProperties
  <2> HIDE DEF more
  <2>3. ASSUME NEW r \in 1..Len(Indices(token))
        PROVE  more[Len(values) + r] = Indices(token)[r]
    <3>1. /\ Len(values) + r \in 1..Len(values) + Len(Indices(token)) /\ ~(Len(values) + r <= Len(values))
          /\ (Len(values) + r) - Len(values) = r
      BY <1>1, <1>3
    <3> QED BY <2>1, <3>1
  <2>4. ASSUME NEW r \in 1..Len(values)
        PROVE  more[r] = values[r]
    <3>1. r \in 1..Len(values) + Len(Indices(token)) /\ r <= Len(values)
      BY <1>1, <1>3
    <3> QED BY <2>1, <3>1
  <2> QED BY <2>2, <2>3, <2>4
<1>5. path \in Seq(Seq(Parts)) /\ H \subseteq Nat \X Nat
  <2>1. Seq(Keys \cup {Hash}) \subseteq Seq(Parts)
    BY SeqMonotonic DEF Parts
  <2>2. path \in Seq(Seq(Parts))
    BY <2>1, SeqMonotonic
  <2> QED BY <2>2, HashAt
<1>6. \A i, j : <<i, j>> \in H =>
          i \in 1..Len(path) /\ j \in 1..Len(path[i]) /\ path[i][j] = Hash
  BY <1>5, HashAt
<1>7. \A i, j : <<i, j>> \in G <=>
          \/ <<i, j>> \in H
          \/ i = row /\ j \in 1..Len(token) /\ token[j] \in Nat
  BY LongerHashes
<1>8. G = Counted(H, row, token, Len(token))
  <2>1. G \subseteq Nat \X Nat
    <3>1. Generalise(token) \in Seq(Parts)
      BY GeneralisedToken, SeqMonotonic DEF Parts
    <3>2. new \in Seq(Seq(Parts))
      BY <1>5, <3>1
    <3> HIDE DEF new
    <3> QED BY <3>2, HashAt
  <2>2. Counted(H, row, token, Len(token)) \subseteq Nat \X Nat
    BY <1>1, <1>5 DEF Counted
  <2>3. \A i, j : <<i, j>> \in G <=> <<i, j>> \in Counted(H, row, token, Len(token))
    <3> HIDE DEF G, H, row
    <3> QED BY <1>7 DEF Counted
  <2> DEFINE K == Counted(H, row, token, Len(token))
  <2> HIDE DEF G, H, row, K
  <2>4. ASSUME NEW q \in G
        PROVE  q \in K
    <3>1. q = <<q[1], q[2]>>
      BY <2>1
    <3> QED BY <2>3, <3>1 DEF K
  <2>5. ASSUME NEW q \in K
        PROVE  q \in G
    <3>1. q = <<q[1], q[2]>>
      BY <2>2 DEF K
    <3> QED BY <2>3, <3>1 DEF K
  <2>6. G = K
    BY <2>4, <2>5
  <2> QED BY <2>6 DEF K
<1>9. \A j : <<row, j>> \notin H
  BY <1>1, <1>6
<1>10. \A k \in 0..Len(token) :
          /\ IsFiniteSet(Counted(H, row, token, k))
          /\ Cardinality(Counted(H, row, token, k)) = Len(values) + Len(found[k])
  <2>1. IsFiniteSet(H) /\ Cardinality(H) = Len(values)
    OBVIOUS
  <2> HIDE DEF H, row
  <2>2. /\ Len(token) \in Nat /\ Reading(token, Len(token), found) /\ Fresh(H, row)
    BY <1>1, <1>2, <1>9 DEF Fresh
  <2>3. \A k \in 0..Len(token) : CountsAs(Counted(H, row, token, k), Cardinality(H) + Len(found[k]))
    BY <2>1, <2>2, CountingTokens
  <2> QED BY <2>1, <2>3 DEF CountsAs
<1>11. IsFiniteSet(G) /\ Cardinality(G) = Len(more)
  <2>1. Len(token) \in 0..Len(token)
    BY <1>1
  <2> HIDE DEF G, H, row, more
  <2> QED BY <1>2, <1>4, <1>8, <1>10, <2>1
<1>12. /\ Len(new) = row /\ DOMAIN new = 1..row /\ new[row] = Generalise(token)
       /\ \A i \in 1..Len(path) : new[i] = path[i]
  BY <1>1
<1>13. ASSUME NEW i \in 1..Len(path)
       PROVE  FilledRow(new, G, more, i) = FilledRow(path, H, values, i)
  <2>1. new[i] = path[i]
    BY <1>12
  <2>2. path[i] \in Seq(Parts) /\ DOMAIN path[i] = 1..Len(path[i]) /\ Len(path[i]) \in Nat
    BY <1>5, LenProperties, ElementOfSeq
  <2>3. ASSUME NEW j \in DOMAIN path[i], path[i][j] = Hash
        PROVE  more[Cardinality(Earlier(G, <<i, j>>)) + 1] = values[Cardinality(Earlier(H, <<i, j>>)) + 1]
    <3>1. <<i, j>> \in H
      BY <1>5, <2>2, <2>3, HashAt
    <3> HIDE DEF G, H, row, more, new
    <3>2. Earlier(G, <<i, j>>) = Earlier(H, <<i, j>>)
      <4>1. \A q \in H : q \in G
        BY <1>5, <1>7
      <4>2. ASSUME NEW q \in G, Before(q, <<i, j>>)
            PROVE  q \in H
        <5>1. G \subseteq Nat \X Nat
          BY <1>1, <1>5, <1>8 DEF Counted, row
        <5>2. q = <<q[1], q[2]>> /\ q[1] \in Nat
          BY <5>1
        <5>3. q[1] <= i
          BY <4>2, <5>2 DEF Before
        <5>4. q[1] # row
          BY <1>1, <5>2, <5>3 DEF row
        <5> QED BY <1>7, <5>2, <5>4
      <4> QED BY <4>1, <4>2 DEF Earlier
    <3>3. Cardinality(Earlier(H, <<i, j>>)) + 1 \in 1..Len(values)
      <4>1. i \in Int /\ j \in Int /\ <<i, j>>[1] = i /\ <<i, j>>[2] = j
        BY <2>2
      <4>2. IsFiniteSet(H) /\ Cardinality(H) = Len(values)
        BY DEF H
      <4> QED BY <3>1, <4>1, <4>2, RankBelow
    <3> QED BY <1>4, <3>2, <3>3
  <2> HIDE DEF G, H, row, more, new
  <2> QED BY <2>1, <2>3 DEF FilledRow
<1>14. FilledRow(new, G, more, row) = token
  <2>1. ASSUME NEW j \in 1..Len(token), token[j] \in Nat
        PROVE  more[Cardinality(Earlier(G, <<row, j>>)) + 1] = token[j]
    <3>0. j - 1 \in 0..Len(token)
      BY <1>1
    <3> HIDE DEF G, H, more, new
    <3>1. Earlier(G, <<row, j>>) = Counted(H, row, token, j - 1)
      <4>1. \A q \in H : q[1] \in 1..Len(path)
        BY <1>5, <1>6
      <4>2. \A q \in H : Before(q, <<row, j>>)
        BY <1>1, <4>1 DEF Before
      <4>3. \A n \in 1..Len(token) : Before(<<row, n>>, <<row, j>>) <=> n \in 1..(j - 1)
        BY <1>1 DEF Before
      <4> HIDE DEF row
      <4>4. ASSUME NEW q \in G, Before(q, <<row, j>>)
            PROVE  q \in Counted(H, row, token, j - 1)
        <5>1. \/ q \in H
              \/ \E n \in 1..Len(token) : token[n] \in Nat /\ q = <<row, n>>
          BY <1>8 DEF Counted
        <5>2. ASSUME NEW n \in 1..Len(token), token[n] \in Nat, q = <<row, n>>
              PROVE  q \in Counted(H, row, token, j - 1)
          <6>1. n \in 1..(j - 1)
            BY <4>3, <4>4, <5>2
          <6> QED BY <5>2, <6>1 DEF Counted
        <5> QED BY <5>1, <5>2 DEF Counted
      <4>5. ASSUME NEW q \in Counted(H, row, token, j - 1)
            PROVE  q \in G /\ Before(q, <<row, j>>)
        <5>1. CASE q \in H
          BY <1>8, <4>2, <5>1 DEF Counted
        <5>2. ASSUME NEW n \in 1..(j - 1), token[n] \in Nat, q = <<row, n>>
              PROVE  q \in G /\ Before(q, <<row, j>>)
          <6>1. n \in 1..Len(token)
            BY <1>1
          <6>2. q \in G
            BY <1>8, <5>2, <6>1 DEF Counted
          <6> QED BY <4>3, <5>2, <6>1, <6>2
        <5> QED BY <5>1, <5>2 DEF Counted
      <4> QED BY <4>4, <4>5 DEF Earlier
    <3>2. Cardinality(Earlier(G, <<row, j>>)) = Len(values) + Len(found[j - 1])
      BY <1>10, <3>0, <3>1
    <3>3. /\ Len(found[j - 1]) + 1 \in 1..Len(found[Len(token)])
          /\ found[Len(token)][Len(found[j - 1]) + 1] = token[j]
      BY <1>1, <1>2, <2>1, ReadingKeeps
    <3>4. found[j - 1] \in Seq(Nat)
      BY <1>2, <3>0 DEF Reading
    <3>5. Len(found[j - 1]) \in Nat
      BY <3>4, LenProperties
    <3>6. Cardinality(Earlier(G, <<row, j>>)) + 1 = Len(values) + (Len(found[j - 1]) + 1)
      BY <1>1, <3>2, <3>5
    <3>7. /\ Len(found[j - 1]) + 1 \in 1..Len(Indices(token))
          /\ Indices(token)[Len(found[j - 1]) + 1] = token[j]
      BY <1>2, <3>3
    <3>8. more[Len(values) + (Len(found[j - 1]) + 1)] = token[j]
      BY <1>4, <3>7
    <3> QED BY <3>6, <3>8
  <2>2. /\ new[row] = Generalise(token) /\ DOMAIN Generalise(token) = 1..Len(token)
        /\ token = [j \in 1..Len(token) |-> token[j]]
    BY <1>1, <1>12 DEF Generalise
  <2>3. \A j \in 1..Len(token) :
            /\ Generalise(token)[j] = Hash <=> token[j] \in Nat
            /\ token[j] \notin Nat => Generalise(token)[j] = token[j]
    BY GeneralisedToken
  <2> HIDE DEF G, H, row, more, new
  <2>4. \A j \in 1..Len(token) :
            (IF Generalise(token)[j] = Hash THEN more[Cardinality(Earlier(G, <<row, j>>)) + 1]
             ELSE Generalise(token)[j]) = token[j]
    BY <2>1, <2>3
  <2> QED BY <2>2, <2>4 DEF FilledRow
<1>15. FillAll(new, more) = Append(FillAll(path, values), token)
  <2> DEFINE rows == [i \in 1..Len(path) |-> FilledRow(path, H, values, i)]
  <2>1. FillAll(path, values) = rows
    BY <1>1, FillAllRows
  <2>2. FillAll(new, more) = [i \in 1..row |-> FilledRow(new, G, more, i)]
    BY <1>12, FillAllRows
  <2> HIDE DEF G, H, more, new
  <2>3. \A i \in 1..Len(path) : rows[i] = FilledRow(new, G, more, i)
    BY <1>13
  <2>4. rows \in Seq({rows[i] : i \in 1..Len(path)} \cup {token})
        /\ Len(rows) = Len(path)
    <3> DEFINE T == {rows[i] : i \in 1..Len(path)} \cup {token}
    <3>1. DOMAIN rows = 1..Len(path) /\ rows = [i \in 1..Len(path) |-> rows[i]]
      OBVIOUS
    <3> HIDE DEF rows
    <3>2. rows \in [1..Len(path) -> T]
      BY <3>1
    <3> HIDE DEF T
    <3>3. rows \in Seq(T) /\ Len(rows) = Len(path)
      BY <1>1, <3>2, SequenceOf
    <3> QED BY <3>3 DEF T
  <2> HIDE DEF rows
  <2>5. /\ DOMAIN Append(rows, token) = 1..row /\ Append(rows, token)[row] = token
        /\ \A i \in 1..Len(path) : Append(rows, token)[i] = rows[i]
        /\ Append(rows, token) = [i \in 1..row |-> Append(rows, token)[i]]
    <3> DEFINE T == {rows[i] : i \in 1..Len(path)} \cup {token}
    <3>1. token \in T /\ rows \in Seq(T)
      BY <2>4
    <3> HIDE DEF T
    <3>2. /\ Append(rows, token) \in Seq(T) /\ Len(Append(rows, token)) = row
          /\ Append(rows, token)[row] = token
          /\ \A i \in 1..Len(path) : Append(rows, token)[i] = rows[i]
      BY <1>1, <2>4, <3>1
    <3> DEFINE longer == Append(rows, token)
    <3> HIDE DEF longer
    <3>3. longer \in Seq(T) /\ Len(longer) = row
      BY <3>2 DEF longer
    <3>4. DOMAIN longer = 1..row /\ longer = [i \in 1..row |-> longer[i]]
      BY <3>3, LenProperties
    <3> QED BY <3>2, <3>4 DEF longer
  <2>6. ASSUME NEW i \in 1..row
        PROVE  Append(rows, token)[i] = FilledRow(new, G, more, i)
    <3>1. i \in 1..Len(path) \/ i = row
      BY <1>1
    <3> HIDE DEF row
    <3> QED BY <1>14, <2>3, <2>5, <3>1
  <2> HIDE DEF row
  <2>7. Append(rows, token) = [i \in 1..row |-> FilledRow(new, G, more, i)]
    BY <2>5, <2>6
  <2> QED BY <2>1, <2>2, <2>7
<1> QED BY <1>3, <1>11, <1>15
(***************************************************************************)
(* The last index put back                                                 *)
(***************************************************************************)
Put(path, place, n) == [path EXCEPT ![place[1]][place[2]] = n]
IsLast(hashes, place) == \A q \in hashes : ~Before(place, q)

\* A path that has a hash has a last one.
LEMMA LastHash ==
    ASSUME NEW path \in Seq(Seq(Parts)), Hashes(path) # {}
    PROVE  \E place \in Hashes(path) : IsLast(Hashes(path), place)
<1> DEFINE H == Hashes(path)
           Rows == {i \in 1..Len(path) : \E j \in Nat : <<i, j>> \in H}
<1>1. H \subseteq Nat \X Nat /\ Len(path) \in Nat
  BY HashAt, LenProperties
<1>2. \A i, j : <<i, j>> \in H => i \in 1..Len(path) /\ j \in 1..Len(path[i])
  BY HashAt
<1>3. \A i \in 1..Len(path) : Len(path[i]) \in Nat
  BY ElementOfSeq, LenProperties
<1> HIDE DEF H
<1>4. \A q \in H : q = <<q[1], q[2]>> /\ q[1] \in Rows /\ q[2] \in Nat
  <2> TAKE q \in H
  <2>1. q = <<q[1], q[2]>> /\ q[2] \in Nat
    BY <1>1
  <2>2. <<q[1], q[2]>> \in H
    BY <2>1
  <2>3. q[1] \in 1..Len(path)
    BY <1>2, <2>2
  <2> QED BY <2>1, <2>2, <2>3
<1>5. Rows \in SUBSET (0..Len(path)) /\ Rows # {}
  <2>1. Rows \in SUBSET (0..Len(path))
    BY <1>1
  <2>2. H # {}
    BY DEF H
  <2> HIDE DEF Rows
  <2> QED BY <1>4, <2>1, <2>2
<1> HIDE DEF Rows
<1>6. PICK r \in Rows : \A i \in Rows : i <= r
  BY <1>1, <1>5, GreatestNumber
<1> DEFINE Columns == {j \in 1..Len(path[r]) : <<r, j>> \in H}
<1>7. r \in 1..Len(path) /\ Columns \in SUBSET (0..Len(path[r])) /\ Columns # {}
  <2>1. PICK j \in Nat : r \in 1..Len(path) /\ <<r, j>> \in H
    BY DEF Rows
  <2>2. j \in 1..Len(path[r])
    BY <1>2, <2>1
  <2>3. j \in Columns
    BY <2>1, <2>2
  <2>4. Columns \in SUBSET (0..Len(path[r]))
    BY <1>3, <2>1
  <2> QED BY <2>1, <2>3, <2>4
<1>8. \A q \in H : q[1] = r => q[2] \in Columns
  BY <1>2, <1>4
<1>9. \A c \in Columns : c \in Nat /\ <<r, c>> \in H
  OBVIOUS
<1> HIDE DEF Columns
<1>10. PICK c \in Columns : \A j \in Columns : j <= c
  BY <1>3, <1>7, GreatestNumber
<1>11. ASSUME NEW q \in H
       PROVE  ~Before(<<r, c>>, q)
  <2>1. q[1] \in Int /\ q[1] <= r /\ r \in Int /\ c \in Int /\ q[2] \in Int
    BY <1>1, <1>4, <1>6, <1>7, <1>9
  <2>2. q[1] = r => q[2] <= c
    BY <1>8, <1>10
  <2> QED BY <2>1, <2>2 DEF Before
<1> QED BY <1>9, <1>11 DEF IsLast, H

\* The last hash filled with the last index: filling the rest gives what filling all gives.
LEMMA LastHashFilled ==
    ASSUME NEW path \in Seq(Seq(Keys \cup {Hash})), NEW values \in Seq(Nat),
           IsFiniteSet(Hashes(path)), Cardinality(Hashes(path)) = Len(values),
           NEW r, NEW c, <<r, c>> \in Hashes(path), IsLast(Hashes(path), <<r, c>>)
    PROVE  FillAll(Put(path, <<r, c>>, values[Len(values)]), values) = FillAll(path, values)
<1> DEFINE n == values[Len(values)]
           full == Put(path, <<r, c>>, n)
           H == Hashes(path)
           G == Hashes(full)
<1>1. path \in Seq(Seq(Parts)) /\ DOMAIN path = 1..Len(path) /\ Len(path) \in Nat
      /\ H \subseteq Nat \X Nat
  <2>1. Seq(Keys \cup {Hash}) \subseteq Seq(Parts)
    BY SeqMonotonic DEF Parts
  <2>2. path \in Seq(Seq(Parts))
    BY <2>1, SeqMonotonic
  <2> QED BY <2>2, HashAt, LenProperties
<1>2. r \in 1..Len(path) /\ c \in 1..Len(path[r]) /\ path[r][c] = Hash
  BY <1>1, HashAt
<1>3. \A i \in 1..Len(path) : path[i] \in Seq(Parts) /\ DOMAIN path[i] = 1..Len(path[i])
  BY <1>1, ElementOfSeq, LenProperties
<1>4. Len(values) \in Nat /\ Len(values) # 0 /\ n \in Nat
  <2>1. Cardinality(H) # 0
    BY FS_EmptySet
  <2>2. Len(values) \in Nat
    BY LenProperties
  <2>3. Len(values) \in 1..Len(values)
    BY <2>1, <2>2
  <2> QED BY <2>1, <2>2, <2>3, ElementOfSeq
<1>5. n # Hash /\ n \in Parts
  BY <1>4, PathAssumption DEF Parts
<1> HIDE DEF n
<1>6. /\ DOMAIN full = 1..Len(path)
      /\ \A i \in 1..Len(path) : i # r => full[i] = path[i]
      /\ full[r] = [path[r] EXCEPT ![c] = n]
  BY <1>1, <1>2 DEF Put
<1>7. DOMAIN full[r] = DOMAIN path[r] /\ full[r][c] = n
      /\ \A j \in DOMAIN path[r] : j # c => full[r][j] = path[r][j]
  BY <1>2, <1>3, <1>6
<1> HIDE DEF full
<1>8. \A i \in 1..Len(path) : DOMAIN full[i] = DOMAIN path[i]
  BY <1>6, <1>7
<1>9. \A i, j : <<i, j>> \in G <=> <<i, j>> \in H /\ ~(i = r /\ j = c)
  <2>1. \A i, j : <<i, j>> \in G <=> i \in 1..Len(path) /\ j \in DOMAIN path[i] /\ full[i][j] = Hash
    <3>1. \A i, j : <<i, j>> \in G <=> i \in DOMAIN full /\ j \in DOMAIN full[i] /\ full[i][j] = Hash
      BY DEF Hashes
    <3> HIDE DEF G
    <3> QED BY <1>6, <1>8, <3>1
  <2>2. \A i, j : <<i, j>> \in H <=> i \in 1..Len(path) /\ j \in DOMAIN path[i] /\ path[i][j] = Hash
    BY <1>1, <1>3, HashAt
  <2>3. \A i \in 1..Len(path) : \A j \in DOMAIN path[i] : ~(i = r /\ j = c) => full[i][j] = path[i][j]
    BY <1>6, <1>7
  <2> HIDE DEF G, H
  <2> SUFFICES ASSUME NEW i, NEW j
               PROVE  <<i, j>> \in G <=> <<i, j>> \in H /\ ~(i = r /\ j = c)
    OBVIOUS
  <2>4. CASE i = r /\ j = c
    BY <1>5, <1>7, <2>1, <2>4
  <2>5. CASE ~(i = r /\ j = c)
    <3>1. CASE i \in 1..Len(path) /\ j \in DOMAIN path[i]
      <4>1. full[i][j] = path[i][j]
        BY <2>3, <2>5, <3>1
      <4> QED BY <2>1, <2>2, <2>5, <3>1, <4>1
    <3>2. CASE ~(i \in 1..Len(path) /\ j \in DOMAIN path[i])
      BY <2>1, <2>2, <3>2
    <3> QED BY <3>1, <3>2
  <2> QED BY <2>4, <2>5
<1>10. \A q : q \in G <=> q \in H /\ q # <<r, c>>
  <2>1. \A q \in G : q = <<q[1], q[2]>>
    BY DEF Hashes
  <2>2. \A q \in H : q = <<q[1], q[2]>>
    BY DEF Hashes
  <2> HIDE DEF G, H
  <2>3. ASSUME NEW q \in G
        PROVE  q \in H /\ q # <<r, c>>
    BY <1>9, <2>1
  <2>4. ASSUME NEW q \in H, q # <<r, c>>
        PROVE  q \in G
    <3>1. ~(q[1] = r /\ q[2] = c)
      BY <2>2, <2>4
    <3> QED BY <1>9, <2>2, <3>1
  <2> QED BY <2>3, <2>4
<1>11. ASSUME NEW i, NEW j, <<i, j>> \in H
       PROVE  Earlier(G, <<i, j>>) = Earlier(H, <<i, j>>)
  <2>1. ~Before(<<r, c>>, <<i, j>>)
    BY <1>11 DEF IsLast
  <2> HIDE DEF G, H
  <2> QED BY <1>10, <2>1 DEF Earlier
<1>12. Cardinality(Earlier(H, <<r, c>>)) + 1 = Len(values)
  <2>1. \A q \in H : q # <<r, c>> => Before(q, <<r, c>>)
    <3> SUFFICES ASSUME NEW q \in H, q # <<r, c>>
                 PROVE  Before(q, <<r, c>>)
      OBVIOUS
    <3>4. ~Before(<<r, c>>, q)
      BY DEF IsLast
    <3>1. ~Before(<<r, c>>, q) /\ q = <<q[1], q[2]>> /\ q[1] \in Int /\ q[2] \in Int
      <4> HIDE DEF H
      <4> QED BY <1>1, <3>4
    <3>2. r \in Int /\ c \in Int
      BY <1>1
    <3>3. q[1] # r \/ q[2] # c
      BY <3>1
    <3> HIDE DEF H
    <3> QED BY <3>1, <3>2, <3>3 DEF Before
  <2>2. ~Before(<<r, c>>, <<r, c>>)
    BY <1>1 DEF IsLast
  <2> DEFINE E == Earlier(H, <<r, c>>)
  <2>3. E = H \ {<<r, c>>}
    <3> HIDE DEF H
    <3> QED BY <2>1, <2>2 DEF Earlier
  <2>4. IsFiniteSet(H) /\ <<r, c>> \in H /\ Cardinality(H) = Len(values)
    OBVIOUS
  <2> HIDE DEF H, E
  <2>5. Cardinality(E) = Cardinality(H) - 1
    BY <2>3, <2>4, FS_RemoveElement
  <2> QED BY <1>4, <2>4, <2>5 DEF E
<1>13. ASSUME NEW i \in 1..Len(path)
       PROVE  FilledRow(full, G, values, i) = FilledRow(path, H, values, i)
  <2>1. ASSUME NEW j \in DOMAIN path[i], i = r, j = c
        PROVE  (IF full[i][j] = Hash THEN values[Cardinality(Earlier(G, <<i, j>>)) + 1] ELSE full[i][j])
                  = (IF path[i][j] = Hash THEN values[Cardinality(Earlier(H, <<i, j>>)) + 1] ELSE path[i][j])
    <3> HIDE DEF G, H
    <3>1. full[i][j] = n /\ path[i][j] = Hash
      BY <1>2, <1>7, <2>1
    <3>2. values[Cardinality(Earlier(H, <<i, j>>)) + 1] = n
      BY <1>12, <2>1 DEF n
    <3> QED BY <1>5, <3>1, <3>2
  <2>2. ASSUME NEW j \in DOMAIN path[i], ~(i = r /\ j = c)
        PROVE  (IF full[i][j] = Hash THEN values[Cardinality(Earlier(G, <<i, j>>)) + 1] ELSE full[i][j])
                  = (IF path[i][j] = Hash THEN values[Cardinality(Earlier(H, <<i, j>>)) + 1] ELSE path[i][j])
    <3>1. full[i][j] = path[i][j]
      BY <1>6, <1>7, <2>2
    <3>2. path[i][j] = Hash => <<i, j>> \in H
      BY <1>1, <1>3, HashAt
    <3> HIDE DEF G, H
    <3>3. path[i][j] = Hash => Earlier(G, <<i, j>>) = Earlier(H, <<i, j>>)
      BY <1>11, <3>2
    <3> QED BY <3>1, <3>3
  <2>3. DOMAIN full[i] = DOMAIN path[i]
    BY <1>8
  <2> HIDE DEF G, H
  <2> QED BY <2>1, <2>2, <2>3 DEF FilledRow
<1>14. FillAll(full, values) = [i \in 1..Len(path) |-> FilledRow(full, G, values, i)]
  BY <1>6, FillAllRows
<1>15. FillAll(path, values) = [i \in 1..Len(path) |-> FilledRow(path, H, values, i)]
  BY <1>1, FillAllRows
<1> HIDE DEF G, H
<1>16. FillAll(full, values) = FillAll(path, values)
  BY <1>13, <1>14, <1>15
<1> QED BY <1>16 DEF full, n
\* FillLast works on the path below the group; seen from the whole path it fills the last
\* hash too.
LEMMA TailFilled ==
    ASSUME NEW path \in Seq(Seq(Keys \cup {Hash})), path # << >>, NEW n \in Nat
    PROVE  \/ <<Head(path)>> \o FillLast(Tail(path), n) = path
           \/ \E r, c : /\ <<r, c>> \in Hashes(path) /\ IsLast(Hashes(path), <<r, c>>)
                       /\ <<Head(path)>> \o FillLast(Tail(path), n) = Put(path, <<r, c>>, n)
<1> DEFINE t == Tail(path)
           H == Hashes(path)
           T == Hashes(t)
<1>1. path \in Seq(Seq(Parts)) /\ Len(path) \in Nat
  <2>1. Seq(Keys \cup {Hash}) \subseteq Seq(Parts)
    BY SeqMonotonic DEF Parts
  <2>2. path \in Seq(Seq(Parts))
    BY <2>1, SeqMonotonic
  <2> QED BY <2>2, LenProperties
<1>2. /\ t \in Seq(Seq(Parts)) /\ Len(t) = Len(path) - 1 /\ Head(path) \in Seq(Parts)
      /\ \A i \in 1..Len(t) : t[i] = path[i + 1]
  BY <1>1, HeadTailProperties
<1>3. Head(path) = path[1] /\ Len(path) >= 1
  BY <1>1
<1> HIDE DEF t
<1>6. Len(path) \in Nat /\ Len(t) = Len(path) - 1 /\ t \in Seq(Seq(Parts))
  BY <1>1, <1>2
<1>4. CASE T = {}
  <2>1. FillLast(t, n) = t
    BY <1>4 DEF FillLast
  <2>2. <<Head(path)>> \o t = path
    BY <1>1 DEF t
  <2> QED BY <2>1, <2>2 DEF t
<1>5. CASE T # {}
  <2> DEFINE p == CHOOSE p \in T : \A q \in T : ~Before(p, q)
             r == p[1] + 1
             c == p[2]
             filled == [t EXCEPT ![p[1]][p[2]] = n]
  <2>1. p \in T /\ \A q \in T : ~Before(p, q)
    <3>1. \E place \in T : \A q \in T : ~Before(place, q)
      BY <1>2, <1>5, LastHash DEF IsLast
    <3> HIDE DEF T
    <3> QED BY <3>1
  <2>2. FillLast(t, n) = filled
    BY <1>5 DEF FillLast
  <2> HIDE DEF p
  <2>3. p \in Nat \X Nat /\ p = <<p[1], p[2]>> /\ p[1] \in Nat /\ p[2] \in Nat
    BY <1>2, <2>1, HashAt
  <2>4. p[1] \in 1..Len(t) /\ p[2] \in 1..Len(t[p[1]]) /\ t[p[1]][p[2]] = Hash
    <3>1. <<p[1], p[2]>> \in T
      BY <2>1, <2>3
    <3>2. \A i, j : <<i, j>> \in T <=> i \in 1..Len(t) /\ j \in 1..Len(t[i]) /\ t[i][j] = Hash
      BY <1>2, HashAt
    <3> HIDE DEF T
    <3> QED BY <3>1, <3>2
  <2>5. r \in 1..Len(path) /\ path[r] = t[p[1]] /\ c \in 1..Len(path[r])
    <3>1. path[r] = t[p[1]]
      BY <1>2, <2>4
    <3>2. r \in 1..Len(path)
      <4>1. p[1] \in 1..Len(t)
        BY <2>4
      <4> QED BY <1>6, <4>1, SMTT(30)
    <3> QED BY <2>4, <3>1, <3>2
  <2>6. <<r, c>> \in H
    BY <1>1, <2>4, <2>5, HashAt
  <2>7. IsLast(H, <<r, c>>)
    <3> SUFFICES ASSUME NEW q \in H, Before(<<r, c>>, q)
                 PROVE  FALSE
      BY DEF IsLast
    <3>1. q = <<q[1], q[2]>> /\ q[1] \in Nat /\ q[2] \in Nat
      BY <1>1, HashAt
    <3>2. q[1] \in 1..Len(path) /\ q[2] \in 1..Len(path[q[1]]) /\ path[q[1]][q[2]] = Hash
      <4>1. <<q[1], q[2]>> \in H
        BY <3>1
      <4> QED BY <1>1, <4>1, HashAt
    <3> HIDE DEF H
    <3>3. q[1] > r \/ (q[1] = r /\ q[2] > c)
      BY <2>3, <3>1 DEF Before
    <3> DEFINE u == <<q[1] - 1, q[2]>>
    <3>8. q[1] >= p[1] + 1 /\ p[1] >= 1
      <4>1. p[1] >= 1
        BY <2>4
      <4> QED BY <2>3, <3>1, <3>3, <4>1
    <3>4. q[1] - 1 \in 1..Len(t) /\ (q[1] - 1) + 1 = q[1]
      <4>1. q[1] <= Len(path)
        BY <3>2
      <4>2. q[1] \in Nat /\ p[1] \in Nat
        BY <2>3, <3>1
      <4>3. Len(path) \in Nat /\ Len(t) = Len(path) - 1
        BY <1>6
      <4> DEFINE a == q[1]
                 b == p[1]
      <4>4. a \in Nat /\ b \in Nat /\ a >= b + 1 /\ b >= 1 /\ a <= Len(path)
        BY <3>8, <4>1, <4>2
      <4> HIDE DEF a, b
      <4>5. a - 1 \in 1..Len(t) /\ (a - 1) + 1 = a
        BY <4>3, <4>4
      <4> QED BY <4>5 DEF a
    <3>5. t[q[1] - 1] = path[q[1]]
      BY <1>2, <3>4
    <3>6. u \in T
      BY <1>2, <3>2, <3>4, <3>5, HashAt
    <3>7. Before(p, u)
      BY <2>3, <3>1, <3>3 DEF Before
    <3> QED BY <2>1, <3>6, <3>7
  <2>8. <<Head(path)>> \o filled = Put(path, <<r, c>>, n)
    <3> DEFINE row == [path[r] EXCEPT ![c] = n]
    <3>1. Put(path, <<r, c>>, n) = [path EXCEPT ![r] = row]
      BY DEF Put
    <3>2. filled = [t EXCEPT ![p[1]] = row]
      BY <2>5
    <3>3. row \in Seq(Parts)
      <4>1. path[r] \in Seq(Parts) /\ n \in Parts
        BY <1>1, <2>5, ElementOfSeq DEF Parts
      <4> QED BY <2>5, <4>1, ExceptSeq
    <3> HIDE DEF row, r, filled
    <3>4. filled \in Seq(Seq(Parts)) /\ Len(filled) = Len(t)
          /\ \A i \in 1..Len(t) : filled[i] = IF i = p[1] THEN row ELSE t[i]
      <4> DEFINE o == p[1]
      <4>1. o \in 1..Len(t) /\ filled = [t EXCEPT ![o] = row]
        BY <2>4, <3>2
      <4> HIDE DEF o
      <4>3. o \in 1..Len(t) /\ t \in Seq(Seq(Parts)) /\ row \in Seq(Parts)
        BY <1>6, <3>3, <4>1
      <4>2. /\ [t EXCEPT ![o] = row] \in Seq(Seq(Parts)) /\ Len([t EXCEPT ![o] = row]) = Len(t)
            /\ \A i \in 1..Len(t) : [t EXCEPT ![o] = row][i] = IF i = o THEN row ELSE t[i]
        BY <4>3, ExceptSeq
      <4> QED BY <4>1, <4>2 DEF o
    <3>5. /\ [path EXCEPT ![r] = row] \in Seq(Seq(Parts)) /\ Len([path EXCEPT ![r] = row]) = Len(path)
          /\ \A i \in 1..Len(path) : [path EXCEPT ![r] = row][i] = IF i = r THEN row ELSE path[i]
      BY <1>1, <2>5, <3>3, ExceptSeq
    <3>6. <<Head(path)>> \in Seq(Seq(Parts)) /\ Len(<<Head(path)>>) = 1 /\ <<Head(path)>>[1] = Head(path)
      BY <1>2
    <3> DEFINE whole == <<Head(path)>> \o filled
               put == [path EXCEPT ![r] = row]
    <3>7. /\ whole \in Seq(Seq(Parts)) /\ Len(whole) = Len(path)
          /\ \A i \in 1..Len(path) : whole[i] = IF i <= 1 THEN <<Head(path)>>[i] ELSE filled[i - 1]
      BY <1>1, <1>2, <3>4, <3>6, ConcatProperties
    <3> HIDE DEF whole, put
    <3>8. ASSUME NEW i \in 1..Len(path)
          PROVE  whole[i] = put[i]
      <4>1. CASE i = 1
        <5>1. i # r
          BY <2>3, <2>4, <4>1 DEF r
        <5> QED BY <1>3, <3>5, <3>6, <3>7, <4>1, <5>1 DEF put
      <4>2. CASE i # 1
        <5>1. i - 1 \in 1..Len(t) /\ (i - 1) + 1 = i /\ ~(i <= 1)
          BY <1>1, <1>2, <4>2
        <5>2. whole[i] = IF i - 1 = p[1] THEN row ELSE t[i - 1]
          BY <3>4, <3>7, <5>1
        <5>3. i - 1 = p[1] <=> i = r
          BY <2>3, <5>1 DEF r
        <5>4. t[i - 1] = path[i]
          BY <1>2, <5>1
        <5> QED BY <3>5, <5>2, <5>3, <5>4 DEF put
      <4> QED BY <4>1, <4>2
    <3>9. whole = put
      BY <3>5, <3>7, <3>8, SeqEqual DEF put
    <3> QED BY <3>1, <3>9 DEF whole, put
  <2> QED BY <2>2, <2>6, <2>7, <2>8 DEF t
<1> QED BY <1>4, <1>5

\* The last index put back into the name gives the path that was read, again.
LEMMA LastIndexPutBack ==
    ASSUME NEW path \in Seq(Seq(Keys \cup {Hash})), path # << >>, NEW values \in Seq(Nat), values # << >>,
           IsFiniteSet(Hashes(path)), Cardinality(Hashes(path)) = Len(values)
    PROVE  FillAll(<<Head(path)>> \o FillLast(Tail(path), values[Len(values)]), values) = FillAll(path, values)
<1>1. values[Len(values)] \in Nat
  <2>1. Len(values) \in 1..Len(values)
    BY EmptySeq
  <2> QED BY <2>1, ElementOfSeq
<1> DEFINE whole == <<Head(path)>> \o FillLast(Tail(path), values[Len(values)])
<1>2. \/ whole = path
      \/ \E r, c : /\ <<r, c>> \in Hashes(path) /\ IsLast(Hashes(path), <<r, c>>)
                  /\ whole = Put(path, <<r, c>>, values[Len(values)])
  BY <1>1, TailFilled
<1>3. ASSUME NEW r, NEW c, <<r, c>> \in Hashes(path), IsLast(Hashes(path), <<r, c>>)
      PROVE  FillAll(Put(path, <<r, c>>, values[Len(values)]), values) = FillAll(path, values)
  BY <1>3, LastHashFilled
<1> HIDE DEF whole
<1>4. FillAll(whole, values) = FillAll(path, values)
  <2>1. ASSUME NEW r, NEW c, <<r, c>> \in Hashes(path), IsLast(Hashes(path), <<r, c>>),
               whole = Put(path, <<r, c>>, values[Len(values)])
        PROVE  FillAll(whole, values) = FillAll(path, values)
    BY <1>3, <2>1
  <2> QED BY <1>2, <2>1
<1> QED BY <1>4 DEF whole
(***************************************************************************)
(* Reading a path, and the name that answers                               *)
(***************************************************************************)
\* The numbers of a readable token are ints; a token without numbers has no indices.
LEMMA IndicesAre ==
    ASSUME NEW token \in Seq(Keys \cup {Hash} \cup Nat)
    PROVE  /\ Readable(token) => Indices(token) \in Seq(0..MaxIndex)
           /\ (\A i \in 1..Len(token) : token[i] \notin Nat) => Indices(token) = << >>
<1>1. Len(token) \in Nat /\ DOMAIN token = 1..Len(token)
  BY LenProperties
<1>2. PICK found : Reading(token, Len(token), found) /\ Indices(token) = found[Len(token)]
  BY <1>1, IndicesRead
<1>3. /\ found[0] = << >>
      /\ \A n \in 1..Len(token) : found[n] = IF token[n] \in Nat THEN Append(found[n - 1], token[n])
                                             ELSE found[n - 1]
  BY <1>2 DEF Reading
<1>4. ASSUME Readable(token)
      PROVE  found[Len(token)] \in Seq(0..MaxIndex)
  <2> DEFINE S == {k \in Nat : found[k] \in Seq(0..MaxIndex)}
  <2>1. 0 \in S
    <3>1. << >> \in Seq(0..MaxIndex)
      BY EmptySeq
    <3>2. found[0] \in Seq(0..MaxIndex)
      BY <1>3, <3>1
    <3> QED BY <3>2
  <2>2. ASSUME NEW k \in 0..Len(token), k < Len(token), k \in S
        PROVE  k + 1 \in S
    <3>1. k + 1 \in 1..Len(token) /\ (k + 1) - 1 = k /\ found[k] \in Seq(0..MaxIndex)
      BY <2>2
    <3>2. found[k + 1] = IF token[k + 1] \in Nat THEN Append(found[k], token[k + 1]) ELSE found[k]
      BY <1>3, <3>1
    <3>3. token[k + 1] \in Nat => token[k + 1] \in 0..MaxIndex
      <4>1. token[k + 1] \in Nat => token[k + 1] <= MaxIndex
        BY <1>1, <1>4, <3>1 DEF Readable
      <4> QED BY <4>1, PathAssumption
    <3> DEFINE before == found[k]
               part == token[k + 1]
    <3>4. before \in Seq(0..MaxIndex) /\ (part \in Nat => part \in 0..MaxIndex)
      BY <3>1, <3>3
    <3>5. found[k + 1] = IF part \in Nat THEN Append(before, part) ELSE before
      BY <3>2
    <3> HIDE DEF before, part
    <3>6. part \in Nat => Append(before, part) \in Seq(0..MaxIndex)
      BY <3>4
    <3>7. found[k + 1] \in Seq(0..MaxIndex)
      BY <3>4, <3>5, <3>6
    <3> QED BY <3>7
  <2> HIDE DEF S
  <2>3. \A k \in 0..Len(token) : k \in S
    BY <1>1, <2>1, <2>2, Upwards
  <2>4. Len(token) \in S
    BY <1>1, <2>3
  <2> QED BY <2>4 DEF S
<1>5. ASSUME \A i \in 1..Len(token) : token[i] \notin Nat
      PROVE  found[Len(token)] = << >>
  <2> DEFINE S == {k \in Nat : found[k] = << >>}
  <2>1. 0 \in S
    BY <1>3
  <2>2. ASSUME NEW k \in 0..Len(token), k < Len(token), k \in S
        PROVE  k + 1 \in S
    <3>1. k + 1 \in 1..Len(token) /\ (k + 1) - 1 = k /\ found[k] = << >>
      BY <2>2
    <3>2. found[k + 1] = << >>
      BY <1>3, <1>5, <3>1
    <3> QED BY <3>2
  <2> HIDE DEF S
  <2>3. \A k \in 0..Len(token) : k \in S
    BY <1>1, <2>1, <2>2, Upwards
  <2>4. Len(token) \in S
    BY <1>1, <2>3
  <2> QED BY <2>4 DEF S
<1> QED BY <1>2, <1>4, <1>5

\* The name that answers comes from the list of attempts.
LEMMA FoundAmongAttempts ==
    ASSUME NEW names, NEW attempts, NEW n \in Nat, DOMAIN attempts = 1..n,
           FindMapping(names, attempts) # << >>
    PROVE  \E i \in 1..n : FindMapping(names, attempts) = attempts[i]
<1> DEFINE hits == {i \in DOMAIN attempts : attempts[i] \in names}
           first == CHOOSE i \in hits : \A j \in hits : i <= j
<1>1. hits # {} /\ FindMapping(names, attempts) = attempts[first]
  BY DEF FindMapping
<1>2. hits \in SUBSET Nat
  OBVIOUS
<1> HIDE DEF hits
<1>3. \E i \in hits : \A j \in hits : i <= j
  BY <1>1, <1>2, LeastNumber
<1>4. first \in hits
  BY <1>3
<1> QED BY <1>1, <1>4 DEF hits

\* What a path is made of while it is read: what is read, with its indices, and what is
\* left are the path of the request.
PathInv ==
    /\ processed \in Seq(Seq(Keys \cup {Hash})) /\ indices \in Seq(0..MaxIndex)
    /\ tokensLeft \in Seq(Seq(Keys \cup Nat))
    /\ IsFiniteSet(Hashes(processed)) /\ IndicesRebuildPath
    /\ phase \in {"load", "locate", "resolved", "missing"} => tokensLeft = << >> /\ processed # << >>
    /\ AnswerNamesRequest

\* A token is read.
LEMMA PathExtract ==
    ASSUME PathInv, ExtractToken
    PROVE  PathInv'
<1> DEFINE token == Head(tokensLeft)
           A == FillAll(processed, indices)
           rest == Tail(tokensLeft)
<1>1. /\ phase = "extract" /\ phase' = phase /\ tokensLeft # << >> /\ Readable(token)
      /\ request' = request
      /\ processed' = Append(processed, Generalise(token))
      /\ indices' = indices \o Indices(token)
      /\ tokensLeft' = rest
  BY DEF ExtractToken
<1>2. token \in Seq(Keys \cup Nat) /\ rest \in Seq(Seq(Keys \cup Nat))
      /\ tokensLeft = <<token>> \o rest
  BY <1>1 DEF PathInv
<1> HIDE DEF token, rest
<1>3. indices \in Seq(Nat) /\ Len(indices) \in Nat
  <2>1. 0..MaxIndex \subseteq Nat
    BY PathAssumption
  <2> QED BY <2>1, SeqMonotonic, LenProperties DEF PathInv
<1>4. /\ IsFiniteSet(Hashes(processed)) /\ Cardinality(Hashes(processed)) = Len(indices)
      /\ processed \in Seq(Seq(Keys \cup {Hash}))
      /\ A \o tokensLeft = request.path
  BY DEF PathInv, IndicesRebuildPath
<1>5. /\ IsFiniteSet(Hashes(processed)') /\ Indices(token) \in Seq(Nat)
      /\ Cardinality(Hashes(processed)') = Len(indices')
      /\ FillAll(processed', indices') = Append(A, token)
  BY <1>1, <1>2, <1>3, <1>4, OneMoreToken
<1>6. Append(A, token) \o rest = A \o tokensLeft
  <2> DEFINE T == {A[i] : i \in 1..Len(processed)} \cup Seq(Keys \cup Nat)
  <2>1. Len(processed) \in Nat /\ A = [i \in 1..Len(processed) |-> A[i]]
    BY <1>4, FillAllRows, LenProperties
  <2> HIDE DEF A
  <2>2. A \in [1..Len(processed) -> T]
    BY <2>1
  <2>3. token \in T /\ Seq(Keys \cup Nat) \subseteq T
    BY <1>2
  <2> HIDE DEF T
  <2>4. A \in Seq(T)
    BY <2>1, <2>2, SequenceOf
  <2>5. rest \in Seq(T) /\ <<token>> \in Seq(T)
    BY <1>2, <2>3, SeqMonotonic
  <2>6. Append(A, token) = A \o <<token>>
    BY <2>3, <2>4
  <2> QED BY <1>2, <2>4, <2>5, <2>6, ConcatAssociative
<1>7. FillAll(processed', indices') \o tokensLeft' = request'.path
  BY <1>1, <1>4, <1>5, <1>6
<1>8. indices' \in Seq(0..MaxIndex)
  <2>1. token \in Seq(Keys \cup {Hash} \cup Nat)
    BY <1>2, SeqMonotonic
  <2>2. Indices(token) \in Seq(0..MaxIndex)
    BY <1>1, <2>1, IndicesAre
  <2> QED BY <1>1, <2>2, ConcatProperties DEF PathInv
<1>9. processed' \in Seq(Seq(Keys \cup {Hash}))
  <2>1. Generalise(token) \in Seq(Keys \cup {Hash})
    BY <1>2, GeneralisedToken
  <2> QED BY <1>1, <1>4, <2>1
<1> QED BY <1>1, <1>2, <1>5, <1>7, <1>8, <1>9 DEF PathInv, IndicesRebuildPath, AnswerNamesRequest

\* A name is looked up: each of the three attempts is a way to write the path.
LEMMA PathLookup ==
    ASSUME PathInv, Lookup
    PROVE  PathInv'
<1> DEFINE attempts == Attempts(Tail(processed), indices, request.path)
           A == FillAll(processed, indices)
<1>1. /\ tokensLeft = << >> /\ processed # << >> /\ phase' \in {"missing", "resolved"}
      /\ UNCHANGED <<request, tokensLeft, processed, indices>>
      /\ answer' = FindMapping(MappingsIn[places[Group]], attempts)
      /\ phase' = "resolved" => answer' # << >>
  BY DEF Lookup, PathInv, pathVars
<1>2. /\ processed \in Seq(Seq(Keys \cup {Hash})) /\ Head(processed) = Group
      /\ <<Group>> \o Tail(processed) = processed
  BY <1>1 DEF PathInv, Group
<1>3. A = request.path
  <2> DEFINE T == {A[i] : i \in 1..Len(processed)}
  <2>1. Len(processed) \in Nat /\ A = [i \in 1..Len(processed) |-> A[i]]
    BY <1>2, FillAllRows, LenProperties
  <2>2. A \o << >> = request.path
    BY <1>1 DEF PathInv, IndicesRebuildPath
  <2> HIDE DEF A
  <2>3. A \in [1..Len(processed) -> T]
    BY <2>1
  <2> HIDE DEF T
  <2>4. A \in Seq(T)
    BY <2>1, <2>3, SequenceOf
  <2> QED BY <2>2, <2>4, ConcatEmptySeq
<1>4. indices # << >> =>
         FillAll(<<Group>> \o FillLast(Tail(processed), indices[Len(indices)]), indices) = A
  <2>1. indices \in Seq(Nat)
    <3>1. 0..MaxIndex \subseteq Nat
      BY PathAssumption
    <3> QED BY <3>1, SeqMonotonic DEF PathInv
  <2> QED BY <1>1, <1>2, <2>1, LastIndexPutBack DEF PathInv, IndicesRebuildPath
<1>5. ASSUME answer' # << >>
      PROVE  answer' = request.path \/ FillAll(<<Group>> \o answer', indices) = request.path
  <2>1. CASE indices = << >>
    <3>1. attempts = <<Tail(processed), request.path>>
      BY <2>1 DEF Attempts
    <3>2. \E i \in 1..2 : answer' = attempts[i]
      <4> HIDE DEF attempts
      <4>1. DOMAIN attempts = 1..2
        BY <3>1
      <4> QED BY <1>1, <1>5, <4>1, FoundAmongAttempts
    <3>3. answer' = Tail(processed) \/ answer' = request.path
      <4> HIDE DEF attempts
      <4> QED BY <3>1, <3>2
    <3> QED BY <1>2, <1>3, <3>3
  <2>2. CASE indices # << >>
    <3>1. attempts = <<Tail(processed), request.path, FillLast(Tail(processed), indices[Len(indices)])>>
      BY <2>2 DEF Attempts
    <3>2. \E i \in 1..3 : answer' = attempts[i]
      <4> HIDE DEF attempts
      <4>1. DOMAIN attempts = 1..3
        BY <3>1
      <4> QED BY <1>1, <1>5, <4>1, FoundAmongAttempts
    <3>3. \/ answer' = Tail(processed) \/ answer' = request.path
          \/ answer' = FillLast(Tail(processed), indices[Len(indices)])
      <4> HIDE DEF attempts
      <4> QED BY <3>1, <3>2
    <3> QED BY <1>2, <1>3, <1>4, <2>2, <3>3
  <2> QED BY <2>1, <2>2
<1>6. AnswerNamesRequest'
  BY <1>1, <1>5 DEF AnswerNamesRequest, Group
<1> QED BY <1>1, <1>6 DEF PathInv, IndicesRebuildPath

\* Every step of a request keeps it.
LEMMA PathStep ==
    ASSUME PathInv, [ResolutionNext]_resolutionVars
    PROVE  PathInv'
<1>1. ASSUME UNCHANGED <<request, pathVars>>, phase' # "resolved", phase \in {"load", "locate"} \/ phase' = "failed"
      PROVE  PathInv'
  BY <1>1 DEF PathInv, IndicesRebuildPath, AnswerNamesRequest, pathVars
<1>2. CASE ExtractToken
  BY <1>2, PathExtract
<1>3. CASE ExtractThrows \/ ReadThrows \/ UnknownGroup
  BY <1>1, <1>3 DEF ExtractThrows, ReadThrows, UnknownGroup, Fail, requestVars
<1>4. CASE StartLoading
  BY <1>4 DEF StartLoading, PathInv, IndicesRebuildPath, AnswerNamesRequest, pathVars
<1>5. CASE LocateGroup
  BY <1>1, <1>5 DEF LocateGroup, requestVars
<1>6. CASE Locating
  BY <1>1, <1>6 DEF Locating, requestVars
<1>7. CASE ReadGroup
  BY <1>1, <1>7 DEF ReadGroup
<1>8. CASE Lookup
  BY <1>8, PathLookup
<1>9. CASE UNCHANGED resolutionVars
  BY <1>9 DEF resolutionVars, requestVars, PathInv, IndicesRebuildPath, AnswerNamesRequest, pathVars, Group
<1> QED BY <1>2, <1>3, <1>4, <1>5, <1>6, <1>7, <1>8, <1>9 DEF ResolutionNext, Resolved

\* The path of a request while it is read.
LEMMA PathHolds == ResolutionSpec => []PathInv
<1>1. ResolutionInit => PathInv
  <2> SUFFICES ASSUME ResolutionInit
               PROVE  PathInv
    OBVIOUS
  <2>1. /\ tokensLeft = request.path /\ processed = << >> /\ indices = << >> /\ phase = "extract"
        /\ request.path \in Seq(Seq(Keys \cup Nat))
    BY ResolutionAssumption DEF ResolutionInit
  <2>2. Hashes(processed) = {}
    BY <2>1 DEF Hashes
  <2>3. FillAll(processed, indices) = << >>
    BY <2>1 DEF FillAll
  <2>4. << >> \o request.path = request.path
    BY <2>1, ConcatEmptySeq
  <2>5. IsFiniteSet(Hashes(processed)) /\ Cardinality(Hashes(processed)) = Len(indices)
    BY <2>1, <2>2, FS_EmptySet
  <2> QED BY <2>1, <2>3, <2>4, <2>5 DEF PathInv, IndicesRebuildPath, AnswerNamesRequest
<1> QED BY <1>1, PathStep, PTL DEF ResolutionSpec

\* extract_indices: the indices taken out of a path, put back in order, give the path.
THEOREM IndicesAreKept == ResolutionSpec => []IndicesRebuildPath
<1>1. PathInv => IndicesRebuildPath
  BY DEF PathInv
<1> QED BY <1>1, PathHolds, PTL

\* find_mapping: the mapping that answers has a name that says what the request says.
THEOREM AnswersAreNamed == ResolutionSpec => []AnswerNamesRequest
<1>1. PathInv => AnswerNamesRequest
  BY DEF PathInv
<1> QED BY <1>1, PathHolds, PTL
(***************************************************************************)
(* Types                                                                   *)
(***************************************************************************)
\* Between scans nothing is kept of them; a call is at a directory that exists.
LevelInv ==
    /\ level <= Len(partitions) + 1
    /\ stage \in {"level", "scan", "found"} => at \in Tree
    /\ stage # "scan" => NoScan
    /\ best \in Names \cup {None} /\ measure \in Ints
    /\ \A g \in DOMAIN places : places[g] \in Tree

\* What a scan measures is an int.
LEMMA MeasuredIsInt ==
    /\ \A v \in Int : ToInt(v) \in Ints
    /\ \A s, v, n : v \in Int /\ n \in Ints => Measured(s, v, n) \in Ints
    /\ \A s : Initial(s) \in Ints
    /\ 0 \in Ints
<1>1. Half \in Nat \ {0}
  BY ArithmeticAssumption
<1>2. ASSUME NEW v \in Int
      PROVE  ToInt(v) \in Ints
  <2>1. (v + Half) % (2 * Half) \in 0..(2 * Half - 1)
    BY <1>1
  <2> DEFINE m == (v + Half) % (2 * Half)
  <2> HIDE DEF m
  <2>2. m \in 0..(2 * Half - 1)
    BY <2>1 DEF m
  <2>3. m - Half \in Ints
    BY <1>1, <2>2 DEF Ints
  <2> QED BY <2>3 DEF ToInt, m
<1>3. ASSUME NEW s, NEW v \in Int, NEW n \in Ints
      PROVE  Measured(s, v, n) \in Ints
  <2>1. n \in Int /\ v - n \in Int
    BY IntsAreIntegers
  <2>2. ToInt(v - n) \in Ints /\ ToInt(v - n) \in Int
    BY <1>2, <2>1, IntsAreIntegers
  <2>3. ToInt(-ToInt(v - n)) \in Ints
    BY <1>2, <2>2
  <2> QED BY <2>2, <2>3 DEF Measured, Distance
<1>4. ASSUME NEW s
      PROVE  Initial(s) \in Ints
  BY <1>1 DEF Initial, Ints, IntMin, IntMax
<1>5. 0 \in Ints
  BY <1>1 DEF Ints
<1> QED BY <1>2, <1>3, <1>4, <1>5

\* The steps of the locator.
LEMMA LevelLocating ==
    ASSUME LocatorInv, LevelInv, LocatorStep, UNCHANGED places
    PROVE  LevelInv'
<1>0. Len(partitions) \in Nat /\ level \in Nat \ {0}
  BY LenProperties DEF LocatorInv
<1>1. CASE RefuseAttribute
  BY <1>1 DEF RefuseAttribute, AtLevel, LevelInv, NoScan, levelVars, scanVars
<1>2. CASE PickExact
  <2>1. stage = "level" /\ level <= Len(partitions) /\ UNCHANGED <<scanVars, partitions>>
    BY <1>2 DEF PickExact, AtLevel, Descend, levelVars
  <2>2. CASE ExactName \in Subdirectories(at) /\ Descend(ExactName) /\ UNCHANGED stage
    <3>1. at' \in Tree /\ level' = level + 1
      BY <2>2 DEF Descend, Subdirectories
    <3> QED BY <1>0, <2>1, <2>2, <3>1 DEF LevelInv, NoScan, scanVars
  <2>3. CASE stage' = "refused" /\ UNCHANGED levelVars
    BY <2>1, <2>3 DEF LevelInv, NoScan, scanVars, levelVars
  <2> QED BY <1>2, <2>2, <2>3 DEF PickExact
<1>3. CASE BeginScan
  BY <1>3, MeasuredIsInt DEF BeginScan, AtLevel, LevelInv, levelVars
<1>4. CASE EndScan
  <2>1. stage = "scan" /\ ClearScan /\ partitions' = partitions /\ at \in Tree /\ level <= Len(partitions)
    BY <1>4 DEF EndScan, levelVars, LevelInv, LocatorInv
  <2>2. best # None => Append(at, best) \in Tree
    BY <2>1 DEF LocatorInv, ScanState, Subdirectories
  <2>3. NoScan' /\ best' \in Names \cup {None} /\ measure' \in Ints
    BY <2>1, MeasuredIsInt DEF ClearScan, NoScan
  <2>4. \/ stage' = "refused" /\ UNCHANGED levelVars
        \/ /\ at' = IF best = None THEN at ELSE Append(at, best)
           /\ level' = level + 1 /\ stage' = "level"
    BY <1>4 DEF EndScan
  <2>5. at' \in Tree \/ stage' = "refused"
    BY <2>1, <2>2, <2>4
  <2>6. level' <= Len(partitions') + 1
    BY <1>0, <2>1, <2>4 DEF levelVars
  <2> QED BY <2>3, <2>4, <2>5, <2>6 DEF LevelInv
<1>5. CASE Return
  BY <1>5 DEF Return, LevelInv, NoScan, levelVars, scanVars
<1>6. ASSUME NEW d \in left, Inspect(d)
      PROVE  LevelInv'
  <2>1. /\ stage = "scan" /\ UNCHANGED <<levelVars, stage>> /\ d \in Names /\ Number(d) \in Ints
        /\ Wanted \in Int
    <3>1. stage = "scan" /\ UNCHANGED <<levelVars, stage>> /\ Number(d) # None
      BY <1>6 DEF Inspect
    <3>2. d \in Names /\ level <= Len(partitions) /\ Answers /\ Selector # "EXACT"
      BY <3>1 DEF LocatorInv, Subdirectories
    <3>3. Number(d) \in Ints
      BY <3>1, <3>2, IntsAreIntegers
    <3> QED BY <3>1, <3>2, <3>3, LevelTypes
  <2>2. Measured(Selector, Wanted, Number(d)) \in Ints
    BY <2>1, MeasuredIsInt
  <2>3. best' \in Names \cup {None} /\ measure' \in Ints
    BY <1>6, <2>1, <2>2 DEF Inspect, LevelInv
  <2> QED BY <2>1, <2>3 DEF LevelInv, levelVars
<1>7. ASSUME NEW d \in left, InspectThrows(d)
      PROVE  LevelInv'
  BY <1>7, MeasuredIsInt DEF InspectThrows, ClearScan, NoScan, LevelInv, levelVars
<1> QED BY <1>1, <1>2, <1>3, <1>4, <1>5, <1>6, <1>7 DEF LocatorStep

\* The steps of a request.
LEMMA LevelStep ==
    ASSUME ResolutionInv, LevelInv, [ResolutionNext]_resolutionVars
    PROVE  LevelInv'
<1>1. ASSUME UNCHANGED <<locatorVars, places>>
      PROVE  LevelInv'
  BY <1>1 DEF LevelInv, NoScan, locatorVars, levelVars, scanVars
<1>2. CASE ExtractToken \/ ExtractThrows \/ StartLoading \/ ReadThrows \/ Lookup \/ UnknownGroup
  BY <1>1, <1>2 DEF ExtractToken, ExtractThrows, StartLoading, ReadThrows, Lookup, UnknownGroup,
                    Fail, requestVars, loadVars
<1>3. CASE LocateGroup
  <2>1. /\ stage # "scan" /\ stage' \in {"level", "refused"} /\ level' = 1 /\ UNCHANGED <<scanVars, places>>
        /\ stage' = "level" => at' \in Tree
        /\ partitions' = PartitionsOf[request.exp]
    BY <1>3 DEF LocateGroup, Call, requestVars, loadVars
  <2>2. partitions' \in Seq(Partition)
    BY <1>3, <2>1, ResolutionAssumption DEF LocateGroup, ResolutionInv, RequestInv
  <2>3. Len(partitions') \in Nat
    BY <2>2, LenProperties
  <2> QED BY <2>1, <2>3 DEF LevelInv, NoScan, scanVars
<1>4. CASE Locating
  BY <1>4, LevelLocating DEF Locating, requestVars, loadVars, ResolutionInv
<1>5. CASE ReadGroup
  BY <1>5 DEF ReadGroup, LevelInv, NoScan, locatorVars, levelVars, scanVars
<1>6. CASE UNCHANGED resolutionVars
  BY <1>1, <1>6 DEF resolutionVars, requestVars, loadVars
<1> QED BY <1>2, <1>3, <1>4, <1>5, <1>6 DEF ResolutionNext, Resolved

PhaseInv == phase \in Phases

\* The locator's variables and those of a request keep their types: a call never passes
\* the last partition, measures in ints, and leaves no bracketed number in a path read.
THEOREM ResolutionTypes == ResolutionSpec => []ResolutionTypeOK
<1>1. ResolutionInit => LevelInv /\ PhaseInv
  BY EmptySeq, MeasuredIsInt
     DEF ResolutionInit, LocatorInit, NoScan, LevelInv, PhaseInv, Phases
<1>2. PhaseInv /\ [ResolutionNext]_resolutionVars => PhaseInv'
  BY DEF PhaseInv, Phases, ResolutionNext, ExtractToken, ExtractThrows, StartLoading, LocateGroup,
         Locating, ReadGroup, ReadThrows, Lookup, UnknownGroup, Resolved, Fail, resolutionVars
<1>3. ResolutionInv /\ LevelInv /\ PhaseInv /\ PathInv => ResolutionTypeOK
  <2> SUFFICES ASSUME ResolutionInv, LevelInv, PhaseInv, PathInv
               PROVE  ResolutionTypeOK
    OBVIOUS
  <2>1. level \in 1 .. Len(partitions) + 1 /\ stage \in Stages /\ phase \in Phases
    <3>1. Len(partitions) \in Nat
      BY LenProperties DEF ResolutionInv, LocatorInv
    <3> QED BY <3>1 DEF ResolutionInv, LocatorInv, LevelInv, PhaseInv
  <2>2. left \subseteq Subdirectories(at) /\ best \in Names \cup {None} /\ measure \in Ints
    BY DEF ResolutionInv, LocatorInv, LevelInv, NoScan
  <2>3. \A i \in DOMAIN processed : Indices(processed[i]) = << >>
    <3> TAKE i \in DOMAIN processed
    <3>1. processed[i] \in Seq(Keys \cup {Hash})
      BY LenProperties, ElementOfSeq DEF PathInv
    <3>2. \A j \in 1..Len(processed[i]) : processed[i][j] \notin Nat
      BY <3>1, ElementOfSeq, PathAssumption
    <3>3. processed[i] \in Seq(Keys \cup {Hash} \cup Nat)
      BY <3>1, SeqMonotonic
    <3> QED BY <3>2, <3>3, IndicesAre
  <2>4. Range(places) \subseteq Tree
    BY DEF LevelInv, Range
  <2> QED BY <2>1, <2>2, <2>3, <2>4 DEF ResolutionTypeOK, PathInv
<1> QED BY <1>1, <1>2, <1>3, LevelStep, InvariantHolds, PathHolds, PTL DEF ResolutionSpec
=============================================================================
