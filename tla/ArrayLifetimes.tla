--------------------------- MODULE ArrayLifetimes ---------------------------
(***************************************************************************)
(* The arrays of one evaluation, from the data source or the caches        *)
(* through the mappings to the binding: who owns which buffer when.        *)
(* MappingHandler says which values are computed; this module says what    *)
(* becomes of their memory, on every path out of every mapping.            *)
(***************************************************************************)
EXTENDS RamCache, CustomFunctions

CONSTANTS
    Names,
    Requests,    \* names the binding asks for
    Mapping,     \* [Names -> kind, parameters (deps), request key, whether sliced,
                 \*  types of the results, whether the source lends entries]
    Shared,      \* names and keys counted twice or more: their values are cached
    Caching,     \* m_cache_enabled
    Libraries,   \* sequences of functions registered together
    PythonFunctions,  \* those that are PythonFunctionWrappers
    Bindings,    \* who calls: "python", "rust"
    MaxOps       \* bound: calls of the binding, registrations aside

ASSUME LifetimeAssumption ==
    /\ None \notin Buffers /\ None \notin Keys /\ MaxOps \in Nat
    /\ Caching \in BOOLEAN /\ Customs \cup Requests \subseteq Names
    /\ Libraries \subseteq Seq(Functions)
    /\ \A n \in Names :
          /\ Mapping[n].deps \in Seq(Names) /\ Mapping[n].types \subseteq Types
          /\ Mapping[n].kind = "DATA_SOURCE" => Mapping[n].key \in Keys

VARIABLES
    binding, memory, entries,  \* entries: the RAM cache
    pc, asked, frames,         \* the call of map() and its C++ stack
    dict,                      \* NumPy arrays in a Python function's inputs
    ops

callVars == <<pc, asked, frames, dict>>
vars == <<binding, memory, entries, callVars, functionVars, ops>>

\* The C++ variables: m_data_source_cache, m_mapping_cache, a value being
\* returned, a temporary, and in each call its array and its parameters.
Cached(k)   == <<"source", k, 0>>
Kept(n)     == <<"mapping", n, 0>>
Result      == <<"result", 0, 0>>
Temp        == <<"temp", 0, 0>>
Local(d)    == <<"array", d, 0>>
Param(d, i) == <<"param", d, i>>

MappingCache == {Kept(n) : n \in Names}
Caches == MappingCache \cup {Cached(k) : k \in Keys}
Stack  == Slots \ Caches

ASSUME SlotsAssumption == Caches \cup {Result, Temp} \subseteq Slots

Frame(n) == [name |-> n, done |-> 0, raw |-> << >>, wrapped |-> 0]

LifetimeInit ==
    /\ binding \in Bindings /\ memory = NoMemory /\ entries = NoEntries
    /\ pc = "idle" /\ asked = None /\ frames = << >> /\ dict = {} /\ ops = 0
    /\ InitFunctions

Depth == Len(frames)
Top   == frames[Depth]
Def   == Mapping[Top.name]
At(s) == memory.at[s]

Start == pc = "idle" /\ ops < MaxOps /\ ops' = ops + 1
Go(at) == pc' = at
Push(n) == frames' = Append(frames, Frame(n))
Pop == frames' = SubSeq(frames, 1, Depth - 1)
SetTop(f) == frames' = [frames EXCEPT ![Depth] = f]

\* An exception, or the end of the call: the stack is unwound, and the inputs
\* of a Python function are dropped with their dictionary.
Unwind(m) ==
    /\ memory' = Drop(DestroyAll(m, Stack), dict)
    /\ Go("idle") /\ asked' = None /\ frames' = << >> /\ dict' = {}

(***************************************************************************)
(* Calls of the binding                                                    *)
(***************************************************************************)
\* Functions are registered between calls, or by a Python function meanwhile.
Provide(q) ==
    /\ pc \in {"idle", "python"}
    /\ Insert(q)
    /\ UNCHANGED <<binding, memory, entries, callVars, ops>>

Withdraw(n) ==
    /\ Start /\ binding = "rust"
    /\ Unregister(n)
    /\ UNCHANGED <<binding, memory, entries, callVars>>

\* reset and init (Rust), or another Mapper instead of this one (Python): the
\* RAM cache goes, with Python the mapping cache too; the statics stay.
Renew ==
    /\ Start
    /\ LET gone == IF binding = "python" THEN MappingCache ELSE {}
       IN  memory' = Reclaim(DestroyAll(memory, gone), NoEntries)
    /\ entries' = NoEntries
    /\ IF binding = "python"
       THEN /\ functions' = << >> /\ storage' = storage + 1 /\ capacity' = 0
       ELSE UNCHANGED <<functions, storage, capacity>>
    /\ Unbind
    /\ UNCHANGED <<binding, callVars>>

\* Mutant: the cached array is copied member by member.
HitSharing(n) == memory' = [memory EXCEPT !.at[Result] = At(Kept(n))]

\* A mapping cache hit is cloned.
Hit(n) == memory' = Clone(memory, Kept(n), Result)

\* map(): the mappings are made on the first call, which throws when a
\* CUSTOM mapping names a function nobody registered.
CallMap(n) ==
    /\ Start
    /\ IF Bound # {} THEN UNCHANGED functionVars
       ELSE IF Bindable THEN BindAll ELSE UNCHANGED functionVars
    /\ IF Bound = {} /\ ~Bindable
       THEN UNCHANGED <<memory, callVars>>
       ELSE /\ asked' = n /\ UNCHANGED dict
            /\ IF At(Kept(n)) # Blank
               THEN Hit(n) /\ Go("deliver") /\ UNCHANGED frames
               ELSE Push(n) /\ Go("eval") /\ UNCHANGED memory
    /\ UNCHANGED <<binding, entries>>

(***************************************************************************)
(* Evaluation                                                              *)
(***************************************************************************)
Throws ==
    /\ pc \in {"eval", "update", "combine"}
    /\ Unwind(memory)
    /\ UNCHANGED <<binding, entries, functionVars, ops>>

EvalParameter ==
    /\ pc = "eval" /\ Top.done < Len(Def.deps)
    /\ Push(Def.deps[Top.done + 1])
    /\ UNCHANGED <<binding, memory, entries, pc, asked, dict, functionVars, ops>>

EvalOwn ==
    /\ pc = "eval" /\ Def.kind # "DATA_SOURCE" /\ Top.done = Len(Def.deps)
    /\ Go("combine")
    /\ UNCHANGED <<binding, memory, entries, asked, frames, dict, functionVars, ops>>

\* DataSource::get makes an array of its own, or lends the memory of an entry
\* it finds in the RAM cache or puts there.
FetchLent(type) ==
    IF Contains(entries, Def.key)
    THEN /\ memory' = Borrow(memory, Local(Depth), entries[Def.key], type)
         /\ UNCHANGED entries
    ELSE /\ entries' = Add(entries, Def.key, Fresh(memory))
         /\ memory' = Borrow(Reclaim([memory EXCEPT !.heap[Fresh(memory)] = "entry"], entries'),
                             Local(Depth), Fresh(memory), type)

\* DataSourceMapping::map up to update_array.
Fetch ==
    /\ pc = "eval" /\ Def.kind = "DATA_SOURCE"
    /\ IF Caching /\ At(Cached(Def.key)) # Blank
       THEN /\ memory' = Assign(Clone(memory, Cached(Def.key), Temp), Local(Depth), Temp)
            /\ UNCHANGED entries
       ELSE \/ \E type \in Def.types :
                 \/ \E empty \in BOOLEAN :
                      memory' = Construct(memory, Local(Depth), type, empty) /\ UNCHANGED entries
                 \/ Caching /\ Def.lends /\ FetchLent(type)
            \/ UNCHANGED <<memory, entries>>    \* TypedDataArray{}
    /\ Go("update")
    /\ UNCHANGED <<binding, asked, frames, dict, functionVars, ops>>

\* A slice changes the buffer, but not of a scalar; scale and offset are applied
\* in place.  An array of unknown type has no slices.
Updated(m, s, empty, scalar) ==
    IF Def.slice /\ ~scalar THEN Slice(m, s, empty) ELSE m

\* A clone of what s holds is kept under the slot c, if it is shared.
Stored(m, s, c, shared) == IF shared THEN Assign(Clone(m, s, Temp), c, Temp) ELSE m

\* The rest of DataSourceMapping::map.
Update ==
    /\ pc = "update" /\ (Def.slice => At(Local(Depth)).type # "unknown")
    /\ \E empty, scalar \in BOOLEAN :
         /\ LET hit == Caching /\ At(Cached(Def.key)) # Blank
                m   == Updated(memory, Local(Depth), empty, scalar)
            IN  memory' = Swap(Stored(m, Local(Depth), Cached(Def.key), ~hit /\ Def.key \in Shared),
                               Local(Depth), Result)
    /\ Pop /\ Go("returned")
    /\ UNCHANGED <<binding, entries, asked, dict, functionVars, ops>>

InCall(kind) == pc = "returned" /\ Depth > 0 /\ Def.kind = kind

\* EXPR returns an empty parameter as its own result.
ReturnEmpty ==
    /\ InCall("EXPR") /\ At(Result).empty
    /\ memory' = DestroyAll(memory, {Param(Depth, i) : i \in 1..Top.done})
    /\ Pop
    /\ UNCHANGED <<binding, entries, pc, asked, dict, functionVars, ops>>

\* float and int32 parameters are converted.
Converted(m, s) ==
    IF m.at[s].type = "single" THEN Assign(Convert(m, s, Temp), s, Temp) ELSE m

\* Mutant: the pointer is taken before the conversion.
KeepOperandEarly ==
    LET s == Param(Depth, Top.done + 1)
        m == Swap(memory, s, Result)
    IN  /\ memory' = Converted(m, s)
        /\ SetTop([Top EXCEPT !.done = @ + 1, !.raw = Append(@, m.at[s].buffer)])

\* EXPR gives its parser a raw pointer to each parameter's values.
KeepOperand ==
    LET s == Param(Depth, Top.done + 1)
        m == Converted(Swap(memory, s, Result), s)
    IN  /\ memory' = m
        /\ SetTop([Top EXCEPT !.done = @ + 1, !.raw = Append(@, m.at[s].buffer)])

TakeOperand ==
    /\ InCall("EXPR") /\ ~At(Result).empty
    /\ At(Result).type \in {"double", "single"}
    /\ KeepOperand /\ Go("eval")
    /\ UNCHANGED <<binding, entries, asked, dict, functionVars, ops>>

RefuseOperand ==
    /\ InCall("EXPR") /\ ~At(Result).empty
    /\ At(Result).type \notin {"double", "single"}
    /\ Unwind(memory)
    /\ UNCHANGED <<binding, entries, functionVars, ops>>

\* The other mappings keep their parameters as they are.
TakeInput ==
    /\ InCall("CUSTOM") \/ InCall("OTHER")
    /\ memory' = Swap(memory, Param(Depth, Top.done + 1), Result)
    /\ SetTop([Top EXCEPT !.done = @ + 1]) /\ Go("eval")
    /\ UNCHANGED <<binding, entries, asked, dict, functionVars, ops>>

\* A mapping returns: its parameters are destroyed after the result is made.
Returns(m) ==
    /\ memory' = DestroyAll(m, {Param(Depth, i) : i \in 1..Top.done})
    /\ Pop /\ Go("returned")

\* Mutant: EXPR returns its last parameter.
ReturnExprOperand ==
    /\ pc = "combine" /\ Def.kind = "EXPR"
    /\ Returns(Swap(memory, Param(Depth, Top.done), Result))
    /\ UNCHANGED <<binding, entries, asked, dict, functionVars, ops>>

ReturnExpr ==
    /\ pc = "combine" /\ Def.kind = "EXPR"
    /\ Returns(Construct(memory, Result, "double", FALSE))
    /\ UNCHANGED <<binding, entries, asked, dict, functionVars, ops>>

\* VALUE, DIM and INTERP; a VALUE that is an array of texts is TypedDataArray{}.
ReturnOther ==
    /\ pc = "combine" /\ Def.kind = "OTHER"
    /\ \/ \E type \in Def.types : Returns(Construct(memory, Result, type, FALSE))
       \/ Def.deps = << >> /\ Returns(memory)
    /\ UNCHANGED <<binding, entries, asked, dict, functionVars, ops>>

(***************************************************************************)
(* CUSTOM                                                                  *)
(***************************************************************************)
Calling(python) ==
    /\ pc = "combine" /\ Def.kind = "CUSTOM"
    /\ Usable(Top.name) /\ (Target(Top.name) \in PythonFunctions) = python

CallUndefined ==
    /\ pc = "combine" /\ Def.kind = "CUSTOM" /\ ~Usable(Top.name)
    /\ Go("undefined")
    /\ UNCHANGED <<binding, memory, entries, asked, frames, dict, functionVars, ops>>

\* A C++ function makes an array or moves one of its inputs out.
CallLibrary ==
    /\ Calling(FALSE)
    /\ \/ Returns(Construct(memory, Result, "double", FALSE))
       \/ \E i \in 1..Top.done : Returns(Swap(memory, Param(Depth, i), Result))
    /\ UNCHANGED <<binding, entries, asked, dict, functionVars, ops>>

\* Mutant: the first input again.
NextInputFirst == Param(Depth, 1)

NextInput == Param(Depth, Top.wrapped + 1)

\* set_dictionary_item(dict, key, array) for the next input.
WrapInput ==
    /\ Calling(TRUE) /\ Top.wrapped < Top.done
    /\ At(NextInput).type # "unknown"
    /\ IF At(NextInput).type = "text"
       THEN memory' = WrapText(memory, NextInput) /\ UNCHANGED dict
       ELSE memory' = Wrap(memory, NextInput) /\ dict' = dict \cup {Held(memory, NextInput)}
    /\ SetTop([Top EXCEPT !.wrapped = @ + 1])
    /\ UNCHANGED <<binding, entries, pc, asked, functionVars, ops>>

WrapInputFails ==
    /\ Calling(TRUE) /\ Top.wrapped < Top.done
    /\ At(NextInput).type \notin {"unknown", "text"}
    /\ Unwind(WrapFails(memory, NextInput))
    /\ UNCHANGED <<binding, entries, functionVars, ops>>

CallPython ==
    /\ Calling(TRUE) /\ Top.wrapped = Top.done
    /\ Go("python")
    /\ UNCHANGED <<binding, memory, entries, asked, frames, dict, functionVars, ops>>

\* The function may keep inputs; its result is copied.
PythonReturns ==
    /\ pc = "python"
    /\ \E kept \in SUBSET dict, type \in Def.types :
          Returns(Construct(Drop(memory, dict \ kept), Result, type, FALSE))
    /\ dict' = {}
    /\ UNCHANGED <<binding, entries, asked, functionVars, ops>>

PythonRaises ==
    /\ pc = "python"
    /\ Unwind(memory)
    /\ UNCHANGED <<binding, entries, functionVars, ops>>

(***************************************************************************)
(* The end of map()                                                        *)
(***************************************************************************)
Finish ==
    /\ pc = "returned" /\ frames = << >>
    /\ memory' = Stored(memory, Result, Kept(asked), Caching /\ asked \in Shared)
    /\ Go("deliver")
    /\ UNCHANGED <<binding, entries, asked, frames, dict, functionVars, ops>>

\* Rust copies the array; Python refuses an empty one, and takes the others.
Deliver ==
    /\ pc = "deliver"
    /\ LET array == At(Result)
       IN  \/ (binding = "rust" \/ array.empty) /\ Unwind(memory)
           \/ binding = "python" /\ ~array.empty /\
                \/ array.type = "text" /\ Unwind(WrapText(memory, Result))
                \/ array.type # "text" /\ (Unwind(Wrap(memory, Result))
                                           \/ Unwind(WrapFails(memory, Result)))
    /\ UNCHANGED <<binding, entries, functionVars, ops>>

\* Python drops an array it was given.
DropArray ==
    /\ pc \in {"idle", "python"}
    /\ \E x \in memory.numpy \ dict : memory' = Drop(memory, {x})
    /\ UNCHANGED <<binding, entries, callVars, functionVars, ops>>

Quiet == /\ pc = "undefined" \/ (pc = "idle" /\ ops = MaxOps /\ memory.numpy = {})
         /\ UNCHANGED vars

Invoke ==
    \/ \E q \in Libraries : Provide(q)
    \/ \E c \in Customs : Withdraw(FunctionOf[c])
    \/ \E n \in Requests : CallMap(n)
    \/ Renew \/ DropArray

Evaluate ==
    \/ Throws \/ EvalParameter \/ EvalOwn \/ Fetch \/ Update
    \/ ReturnEmpty \/ TakeOperand \/ RefuseOperand \/ TakeInput
    \/ ReturnExpr \/ ReturnOther
    \/ CallUndefined \/ CallLibrary \/ WrapInput \/ WrapInputFails \/ CallPython
    \/ PythonReturns \/ PythonRaises \/ Finish \/ Deliver

LifetimeSpec == LifetimeInit /\ [][Invoke \/ Evaluate \/ Quiet]_vars
=============================================================================
