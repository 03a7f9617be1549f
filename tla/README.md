# A verification project for libtokamap

libtokamap answers `map(experiment, path, attributes)`: it finds the mapping a
path names in a directory tree of JSON files, evaluates the tree of mappings it
refers to, fetches arrays from registered data sources, slices and scales them,
and keeps some results in caches. This directory holds TLA+ models of that
program, the TLC configurations that check them on small instances, and proofs
that TLAPS checks for every instance.

All paths below are relative to the repository.

## 1. Inventory

| Component | State | Operations | Talks to |
|---|---|---|---|
| `MappingHandler` (`src/handlers/mapping_handler.*`) | experiment register and per-experiment store of partitions (globals and mapping objects), data sources, factories, library functions, `m_init`, `m_cache_enabled`, mapping counts, mapping cache | `init`, `reset`, `map`, `load_experiment`, (un)register data source, factory, custom function | everything below |
| `DataSourceMapping` (`src/map_types/data_source_mapping.*`) | raw pointer to its source, arguments, scale, offset, slice; **static** counts and array cache | `map` | `DataSource::get`, slicing, template rendering |
| other map types: VALUE, EXPR, DIM, INTERP, CUSTOM (`src/map_types/`) | names of their parameters; CUSTOM a pointer into the vector of library functions | `map`, recursively on their parameters | the store, `LibraryFunction::call` |
| slicing (`src/utils/subset.cpp`, `typed_data_array.*`) | `SubsetInfo` per dimension, the odometer of `generate_indices` | `parse_slices`, `slice`, scale and offset | the fetched array |
| `TypedDataArray` (`src/utils/typed_data_array.*`) | a buffer, owned or borrowed, its shape and type | construct, clone, move, slice, release, convert | every mapping, caches, bindings |
| custom functions (`m_library_functions`, `library_loader.*`) | a `std::vector` of functions; raw pointers into it in CUSTOM mappings | register, unregister, load a library, call | Python callbacks, shared libraries |
| VALUE and INTERP (`value_mapping.cpp`, `interp_mapping.cpp`) | none | type deduction; bracket and linear interpolation | the store |
| path resolution (`src/utils/indices.cpp`, `find_mapping`) | none | `extract_indices`, `generate_map_path` | the store |
| mapping locator (`src/utils/mapping_locator.cpp`) | none | four directory selectors | the file system |
| RAM cache (`src/utils/ram_cache.hpp`) | entries, maximum size | add, get, contains | data sources, which may lend out what it holds |
| syntax parser, rendering (`src/utils/syntax_parser.cpp`, `render.cpp`) | none | sugar expansion, inja | mappings and globals when they are loaded |
| bindings (`python/libtokamap.cpp`, `rust/src`) | one C++ handler each, NumPy arrays with capsules; Rust a `Mutex` around it | a part of the C++ interface each | the handler, Python callbacks |
| vendored libraries (`src/ext_include`) | | exprtk, nlohmann/json, toml++, ctre, inja, valijson, spdlog, fmt: more than 95% of the lines of the repository | everything |

How they interact: everything happens inside a call of the handler. The library
has no threads of its own and no lock. Concurrency comes from its callers:

* the Python binding calls C++ with the interpreter lock held, and a data source
  or a custom function written in Python may lose it; another Python thread (or the
  callback itself) can then call the same handler in the middle of an evaluation;
* the Rust binding holds a `Mutex` for the whole of each call.

What is hard: references and raw pointers kept across callbacks; two caches whose
keys, thresholds and lifetimes are decided far apart; state that outlives the
request it came from (globals, counts, statics); loading that fails between two
groups; unsigned arithmetic in descending slices; buffers that are owned, lent, moved and
handed to Python on a dozen paths, most of which can throw; pointers into a vector that
grows; two handlers that share statics nobody sees. `PROJECT.json` lists these
under `hazards`, each at its line.

What makes each component correct:

* the handler: a loaded experiment is complete; what a call refers to stays in
  place until it returns; an answer is computed from its own request and is the
  whole tree; mappings that do not refer to themselves never exhaust the stack; every call returns;
* the caches: an entry is what its key says, and all that a mapping of that name returned;
* registries: a source exists when it is asked;
* slicing: no access outside the array, and the selection as written, in order;
* the locator: at each level the subdirectory the selector means, whatever the order
  in which the file system lists them, or a refusal with a cause;
* arrays: each buffer is freed once, by whoever has it last, on the error paths too;
  a result shares memory with no cache; what is lent outlives the array it is lent to;
* custom functions: a mapping calls the function it names;
* VALUE and INTERP: the numbers are those that were written, rounded where they are stored as
  floats, and a result lies on the line through the two base points around its target;
* syntax: an expression becomes what its subscripts mean, and no string is left out;
* path resolution: the mapping found is one the request names, and its indices reach
  the hashes they were written at.

## 2. Modules

| Module | Content |
|---|---|
| `MappingHandler` | the handler, both caches, loading, lookup, evaluation |
| `MapService` | what `map` promises: one request at a time, one answer or an exception |
| `HandlerProperties` | the handler's type invariant, safety, action and liveness properties, and the mapping to `MapService` |
| `MCHandler` and `Handler_*.cfg` | two instances: *sharing* and *trees* |
| `HandlerProofs` | proofs about the handler: types, loading, references |
| `HandlerCacheProofs` | proofs about its caches, counts, store and data sources |
| `HandlerAnswerProofs` | proofs about its answers; the handler implements `MapService` |
| `TwoHandlers`, `MCTwoHandlers`, `TwoHandlers.cfg` | two handlers over one pair of statics |
| `TypedDataArray` | one operator per member function: a memory to a memory |
| `RamCache` | the entries a data source keeps |
| `CustomFunctions` | the vector of library functions and the pointers into it |
| `ArrayLifetimes` | composes these three: the buffers of every path through `map` |
| `LifetimeProperties`, `MCLifetimes`, `Lifetimes.cfg` | its properties and instance |
| `LifetimeProofs` | proofs about ownership, lending and custom functions |
| `BufferProofs` | proofs that no buffer is lost and that each is where it should be |
| `ValueDeduction` | the array a VALUE definition makes |
| `Interpolation` | INTERP: arguments, checks, bisection, line |
| `InterpProperties`, `MCInterp`, `Interp.cfg`, `InterpProofs` | properties, instance and proofs of both |
| `SyntaxParser` | `expand_syntactic_sugar` and `process_string_node`, loop by loop |
| `SyntaxProperties`, `MCSyntax`, `Syntax.cfg` | what the sugar means, and the instance |
| `ArraySlice` | parsing, validation, measure and walk of a slice |
| `SliceProperties` | its properties, with the selection defined from the slice string alone |
| `MCSlice` and `Slice_walk.cfg` | its instance |
| `SliceProofs` | proofs about slices and their walk |
| `PartitionArithmetic` | `int`, directory names and JSON values, shared by the next two |
| `MappingLocator` | `find_partition_directory` with the four selectors, one subdirectory at a time |
| `PartitionChoice` | what it promises: one choice per level, in unbounded integers |
| `MapPath` | `extract_indices` on a token, the spellings tried, the lookup |
| `RequestResolution` | composes the two: the first request for an experiment, from path to mapping |
| `ResolutionProperties`, `MCResolution`, `Resolution*.cfg` | its properties and instance |
| `ResolutionProofs` | the locator implements `PartitionChoice`; proofs about groups, paths and names |

Definitions named `Mutant: ...` in a comment are plausible mistakes in the
code. They are used by no action: each serves to show that the property named
beside it in `PROJECT.json` fails when the mistake is made.

### 2.1 MappingHandler

| Variable | Code |
|---|---|
| `initialised`, `register`, `loaded` | `m_init`, the keys of `m_experiment_register`, `is_loaded` |
| `store[<<exp, group, key>>]` | `group_mappings[group][partition_attributes]`: `env` the globals, `slots` the mapping objects |
| `sources`, `factories` | `m_data_sources`, `m_data_source_factories`; a source is the number of the object |
| `cacheEnabled`, `counts`, `mappingCache` | `m_cache_enabled`, `m_mapping_counts`, `m_mapping_cache` |
| `dsCount`, `dsCache` | the statics of `DataSourceMapping` |
| `steps`, `groupsLeft`, `namesLeft`, `draft` | what the loops of `init`, `load_experiment` and `init_mappings` have left |
| `owner`, `pc`, `request`, `frames`, `fetch`, `reply` | the callers: who holds the lock, and the C++ stack of each call |

An action is a stretch of C++ that ends where the code can throw, call out, or
is about to do something a failure could separate from it:

* `InitLocate`, `InitRegister`, `InitThrow`, `InitReturn`: `init` up to
  `m_init = true`, then one registration at a time;
* `CallMap`, `LoadGroup`, `Define`, `StoreGroup`, `LoadThrow`, `FinishLoad`: `map` up
  to and including `load_experiment`, one mapping object at a time. Counts
  are incremented as objects are made and are not taken back;
* `LookupHit`, `LookupMiss`, `LookupThrow`: group, partition, mapping name and mapping
  cache; a miss writes the request's indices, of which there may be none, and the attributes
  it has into the globals (`Gives`);
* `EvalDependency`, `Resume`, `EvalCombine`, `EvalThrow`: a mapping asks for its
  parameters one after the other, and returns. `frames` is the recursion. EXPR returns an empty
  parameter as its own result, INTERP throws for one, DIM and CUSTOM go on;
* `EvalExhausted`: the recursion has reached `StackLimit`. Nothing in the code looks for a cycle
  in the mapping files or counts the depth;
* `EvalFetch`, `SourceReturns`, `PostProcess`, `PostThrow`: `DataSourceMapping::map`,
  cut at `DataSource::get`;
* `EvalCallFunction`, `FunctionReturns`, `CallbackThrows`: CUSTOM, cut at the call;
* `Finish`: the mapping cache is filled and `map` returns.

A callback returns the lock (`Lend`, `Retake`) when `Exclusive` is FALSE: this is
Python. With `Exclusive` TRUE nobody runs until the call has returned: this
is the Rust `Mutex`, and any single-threaded use of the C++ library. `Api` is
the set of operations a binding exposes; Python has neither `reset` nor
`unregister_data_source`. A callback that calls the handler itself is the same
interleaving as a second caller that finishes before the first one goes on.

Data are abstracted to their origin. An array is the record of the object that
produced it, the rendered argument, the attributes sent, and the slices and
scalings applied since (`Data`), so that "the data of this request" is a
formula. A mapping is its type, its parameters and the one template variable
its text mentions. Rendering (`Rendered`) looks the variable up in the globals
and fails when nobody defined it, as inja does. `ArgText` gives the rendered arguments of a
DATA_SOURCE, by which, with the request's attributes that they do not give themselves (`Spelled`, `Sent`),
arrays are cached: two templates that render to the same text share a key. Numbers, types and the text of
traces are left out. An exception is the return of a call with no result.

A value may be an empty array for three reasons: a data source returned one (`SourceReturns`), a
custom function did (`FunctionReturns`), or a VALUE is a list of texts, depending on what its template
rendered to (`blank`, `IsBlank`). Each item of a value says whether its mapping returned an empty array.

Two values of `pc` are ends of the process: `"undefined"`, a call through a pointer to a data source
that was unregistered, and `"exhausted"`, a stack overflow. The model stops there.

`MapService` is the same interface without the machinery: `Ask`, then `Answer` with any value that is
`Correct` for the request, or `Refuse`. Under the refinement mapping a call is pending while `pc` is
neither `idle` nor `init`, and `register` is what the service knows; whatever happens between is a stutter.
A call that stops at `undefined` or `exhausted` stays pending: the service promises nothing about it.

### 2.2 ArraySlice

`shape` and `slice` (the bracketed parts, as they match the three expressions of
`subset.cpp`) are chosen initially. `ParseToken` builds and validates one
`SubsetInfo`, `Measure` computes shape and size of the result and sets the
odometer, `Advance` and `WalkEnds` are one round of the loop of `generate_indices`,
`Copy` turns index tuples into offsets. Words wrap at `2 * Half`, which is `2^64`
in the code and 16 in the instance; every sum in the code leaves the range of
a word by less than one turn, so `Word` needs no division. Element values play
no part: an element is its position.

### 2.3 RequestResolution

`MappingHandler` takes from a request its group, the names to try and its
partition key; this module says where they come from. `ExtractToken` is one round of
the loop of `extract_indices`. `StartLoading`, `LocateGroup`, `ReadGroup` are the
loop of `load_experiment` over the groups: each group of the experiment is
located and read, so a request fails (`ReadThrows`) when any of them has no
directory. `Lookup` is `generate_map_path` in the group's mappings. Only the first request of
an experiment loads; what later requests find is the subject of
`MappingHandler`.

`MappingLocator` holds the arguments and locals of one call of `find_partition_directory`:
`at` and `level` are `mapping_dir` and the iteration, `left`, `best`, `measure` one
selector's loop. `Inspect` takes any subdirectory that is left, since the order of
`directory_iterator` is unspecified. `ToInt` is the narrowing of `get<int>()` and the
wrap of an `int` sum; signed overflow is undefined in C++, and the wrapped value is what
the supported compilers' subtract and negate instructions leave. A CLOSEST level with nothing to choose from leaves
the directory as it is, as the empty name does in the code.

`PartitionChoice` has no scan: `TakeLevel` chooses one of the subdirectories the selector
means (`Meant`), refuses, or stays. Its `Promised` states when a choice is
promised at all: the attribute fits an `int`, no distance reaches the largest `int`,
and no directory is named by the extreme `int` from which a scan starts. For shot numbers between 0
and 2^31 - 2 all three hold.

Paths are sequences of tokens of texts and numbers, so that "replace the last #" is an
update at a position; texts with a `#` of their own are not represented, nor are leading
zeros of an index.

### 2.4 Two handlers

`m_data_source_count` and `m_data_source_cache` are static members. `TwoHandlers`
instantiates the handler twice with `dsCount`, `dsCache` (and the supply of object numbers) in
common; everything else is each handler's own. A step belongs to one of them. The unsynchronised
access of two threads to the statics is undefined in C++ and left out: a step is a whole
access.

### 2.5 Arrays, RAM cache and custom functions

A memory is the heap (`free`, `malloc`, `new`, `entry`), the C++ objects of the class by
variable (`at`), the NumPy arrays Python holds, and the buffers `wrap_array` lost. A destroyed, a
moved-from-nothing and a default-constructed array are all `Blank`, since all the destructor
asks is whether it owns a buffer. `TypedDataArray` has one operator per member function. The
order inside them is the code's: `Slice` allocates before it frees, assignment swaps and
leaves the old value to the temporary, `WrapFails` loses what was released.

`ArrayLifetimes` runs the mappings over it. `pc` and `frames` are the call of `map()` and its
recursion; `Local(d)` and `Param(d, i)` are the array and the parameters in the C++ frame at depth
d, `Temp` and `Result` a temporary and a value on its way up; `Cached` and `Kept` are the entries
of the two caches. Every exception is `Unwind`: all objects on the stack are destroyed, and
the dictionary of a Python function drops its inputs. `dict` is what that dictionary holds. Which
values are computed is the subject of `MappingHandler`; here a mapping has a kind
(DATA_SOURCE, EXPR, CUSTOM, and OTHER for VALUE, DIM and INTERP, which treat their arrays
alike), parameters, and the types its arrays may have.

A data source makes arrays of its own, or lends (`FetchLent`) the memory of an
entry of its `RamCache`: `TypedDataArray(array, size, shape, false)`. None of the sources
in the repository lends; the interface is there for those that do. `DropEntries` is the identity because
`drop_entries()` is empty.

`CustomFunctions` has `m_library_functions` and, per CUSTOM mapping, a pointer: a storage and
a position. Growing past the capacity moves the vector to new storage and `disturbed`
collects the mappings whose pointers C++ no longer vouches for; erasing moves the elements behind.
A call through a pointer that no longer designates an element goes to `pc = "undefined"`,
where the model stops.

### 2.6 VALUE and INTERP

A number is counted in half units, so that truncation is seen, and has the JSON kind its spelling
gives it; NaN is in no relation to any number. `Floats` are the numbers a `float` holds, any set of them:
`Single` is the nearest one, to which `get<float>` and `stof` round what is stored as a float. Overflow to
infinity is left out. `DeduceArray`, `ScalarValue` and `StringValue` are
the branches of `type_deduce_array`, `type_deduce_primitive` and `try_convert`: the first
element decides the type of a list, floats behind an integer are truncated, and negative
numbers wrap behind an unsigned one. `Interpolation` evaluates and checks the three arguments, then
bisects for each target (`lo`, `len` are `upper_bound`'s range) and keeps the result as a
fraction: a number is one a double holds, and rounding in the arithmetic of doubles is left out.

### 2.7 Syntax

A string is a sequence of texts and expressions, an expression a sequence of tokens.
`Walk` visits a document as `walk_json` does, with its stack; `Rewrite` is one round of one of the
loops of `process_string_node`: `ExpandIndex` replaces a `#N`, `ExpandArray` the first
match of `array_index_re`. The lazy and greedy parts of that regular expression are in
`Before`, `Between`, `After` and `PostEnd`. `from` tells mappings, which are walked, from globals,
whose nested objects are not.

## 3. Runs

Passing runs:

* **handler_shared** (`FairSpec`). Two threads without exclusion, four operations,
  Python's interface, and every failure: files, sources, slices and combinations throw
  anywhere, and sources return empty arrays. Three mappings share one fetch, one of them sliced with
  the request's index, an expression refers to two of them and a DIM to the expression; configurations with
  and without caching. Four operations are an `init`, a registration, and two
  `map` calls that interleave, or an `init` with three calls one of which finds
  what the others cached; both caches fill and are hit. Checks that references stay valid and
  mapping objects are never replaced under an evaluation, that a fetched array in the cache matches its
  key, that the mapping cache holds under a name all that a mapping of the name returned, that the source asked
  is alive and the one registered, that the arrays of an answer, cached or not, come from it, that fetched arrays carry
  the attributes of their own request, and that every call returns.
* **handler_exclusive**. One caller, four operations of the full interface,
  failures everywhere (`Faults`), caching off. Every map type, a mapping type that
  is skipped, a VALUE that is empty for one value of its template, an EXPR and a DIM that refer to each
  other, a second group without a directory for one of the two partitions,
  sources registered by `init` or later or never. Four operations allow a
  failed load, a second load over it, a reset between them, and an unregistered
  source in use. A CUSTOM of an EXPR of an EXPR, below a DIM, is where an empty array ends one mapping
  and another goes on with it. Checks that loads are complete or not marked, that counts cover
  the store, that answers are whole, the empty ones too, that only a mapping that refers to itself is entered while
  its own parameters are being evaluated or exhausts the stack, and that the handler implements `MapService`: whatever it
  answers belongs to its request. With caching
  off, that is what the library can promise (see the findings).
* **slice_walk**. All one-part slices with bounds from -5 to 5 or omitted and strides
  from -3 to 3 on dimensions of 0, 3 and 4, so that every comparison is met from
  both sides and every sum wraps; two- and three-part slices that mix indices,
  directions and omissions on arrays of two and three dimensions.

* **resolution**. Five experiments (one per selector, and EXACT above CLOSEST) with two
  groups each, directories with numbers at both ends of `int`, a name that begins
  with a number, one that is no number, an empty level and a missing file; shots within
  and beyond `int`, strings, other types and no attribute; fourteen paths with up to
  three indices, in the group too, and an index beyond `int`. `int` is -4..3: every sum of
  the code leaves it by less than one turn in the instance as in the code, and ties, wraps and
  extremes all occur. Checks that the locator implements `PartitionChoice`,
  that each group's directory is its own and chosen at every level, that extraction can be
  undone, and that the mapping found is one the request names.

* **objects**. Two calls of either binding on four requests: an EXPR over two signals, one
  of them sliced and converted, an EXPR of a text, a CUSTOM whose function is written in C++ or
  Python and registered twice, a DIM. Both caches on, sources that copy, lend or return
  nothing, every failure. Nine buffers are enough for the largest number ever in use plus the two that
  `Fits` asks for; `LifetimeTypeOK` says so in every state. Two calls are what it takes to
  fill a cache and to hit it; three functions to make the vector grow, move and shrink.
* **interp**. All bases of three points out of 0, 1, 4 and NaN and longer ones, targets before, at,
  between and behind them, and VALUE definitions of every form (lists that begin with each kind,
  strings with and without brackets, numbers out of range, scalars, null) as each argument, for each
  requested type and rank. Ints have three bits (`Half` = 4), so that every conversion
  wraps for some element. Floats lie two apart beyond 2, so that one base increases
  as it is written and is refused once it is rounded, as `[16777216.0, 16777217.0]` is in the code.
* **syntax** (with weak fairness of `Walk \/ Rewrite`: it is one sequential loop). 1023 sentences
  with up to three subscripts along a chain, in an index and in a sum; 182 of them have one of the
  supported forms, 36 of these with a grouped chain. Documents nest
  objects in objects and arrays, as a mapping and as globals.

Runs that show a disagreement, each listed under `findings` with the line of the
document or test it contradicts:

* **cache_key**: the mapping cache ignores indices and attributes;
* **cache_posts**: the data source cache holds processed arrays and processes them
  again;
* **partitions**: only the first partition asked for is ever loaded;
* **literal_name**: the spelling of a path without generalisation is looked up with the
  group still in front, so a mapping that spells out two indices is never found;
* **two_handlers**: the data source cache is static, so a handler answers with an array
  that another handler in the process fetched from its own data source.

Other behaviours a reader of the code may not expect. They follow from the definitions
named; no run repeats them:

* two mappings that refer to each other end the process: the recursion has no end and is not counted
  (`expr_mapping.hpp:79`; `EvalExhausted`, `pc = "exhausted"`);
* a VALUE that is a list of texts is an empty array, ends the EXPR above it, and a DIM or CUSTOM above that answers
  without the parameters that were not asked for (`value_mapping.cpp:183`, `expr_mapping.hpp:80`; `IsBlank`, `Resume`);
* a list that starts with a float is stored as floats, so a base may increase as written and be refused
  (`value_mapping.cpp:91`, `interp_mapping.cpp:39`; `Single`, `ToldApart`);
* the RAM cache grows without bound: `drop_entries()` is empty, although the documents speak of LRU eviction
  (`ram_cache.hpp:71`, `docs/using-the-library.md:406`; `DropEntries`);
* the mapping cache outlives `reset` and is read while caching is disabled
  (`mapping_handler.cpp:244` and `:299`; `Reset`, `LookupHit`);
* a slice index is normalised twice, so `[-6]` on three elements is accepted
  (`subset.cpp:36`; `ParseToken`);
* a descending slice without a stop, and a slice of an empty dimension, read outside the array
  (`typed_data_array.hpp:184`, `typed_data_array.cpp:32`; `Measure`, `Advance`);
* a subscript behind an operator (`1 + foo[#0]`), a group without a field
  (`(foo[#0])[#1]`) and a group in a group are rewritten to something else
  (`syntax_parser.cpp:22`; `Supported` excludes them), an expression of one character is lost
  (`trim`, line 75), and strings in arrays inside a document are left as they are;
* a NumPy array that was made from lent memory has no capsule and dangles once the mapper is
  gone (`python/libtokamap.cpp:198`; `Wrap`); when making a NumPy array or its capsule fails, the buffer has no
  owner any more (line 190; `lost`);
* a function registered while a CUSTOM mapping exists may invalidate the mapping's pointer, and one
  unregistered makes mappings behind it call their neighbour (`custom_mapping.cpp:27`;
  `disturbed`, `pc = "undefined"`).

And one that two threads are needed for: the slice template is rendered after the fetch, from globals a second
Python thread may have rewritten in the meantime. The data fetched are then those of the
first request and the index is the second one's. `AnswersRequest` fails on
the shared instance for this reason also with caching off; checked there is only
the part that holds, `FetchedWithOwnAttributes`.

Bounds of the handler's runs: `MaxOps` bounds the operations started, and `ops` counts them; `Quiet` is
the stutter once they are used up or the process is past a dangling call, so
that deadlock is checked everywhere. Nothing else grows: object numbers and
counts are bounded by the operations, and stacks by `StackLimit`, which is one more than the number of
mappings. That is the smallest value for which a mapping file without a cycle never runs
out of stack (`StackAssumption`), and enough for the instance's cycle to do so. `CacheThreshold` is the code's own constant.

Fairness: `FairSpec` asks that a caller with a step to take takes one
(`WF_vars(Step(t))` for each thread). A running thread of a sequential program
does; inside a callback it says that the data source returns or throws and that the
interpreter lock is given back, which Python's lock guarantees between threads
that run. Nothing is assumed of callers: they need not call at all.
The mappings of *sharing* do not refer to themselves. A mapping that does never returns: it ends the process, which
is what `RecursesOnlyInCycles` is about, in the instance *trees* and, as `RecursionOnlyInCycles`, for all mapping files.

## 4. Proofs

All theorems hold for every value of the constants that satisfies the named
assumptions. Where a theorem has a further hypothesis, it is named with it below. TLC evaluates
each assumption on the instances of the runs.

### 4.1 The handler

`HandlerProofs`: `TypeCorrect`, `LoadingIsComplete` and `ReferencesStayValid`, from
`InductiveInvariant`, for any number of callers and both values of `Exclusive`. None of the three is
inductive alone. That a reference
stays valid needs to know that whoever could replace a partition is loading, that
loading happens only while the experiment is not marked loaded, and that an
evaluation runs only in a loaded one. So `IInv` adds to the type invariant and
`LoadedComplete`: what the store holds comes from the cell's `mappings.json`
(`StoreOK`), and for each caller where it stands (`ThreadOK`): who owns
the lock, which groups are stored already and which are left (`Progress`), what
the draft holds (`Drafted`), and that each mapping on the stack is in the store
and waits for a parameter unless it is on top (`Evaluating`). Steps are
proved one by one; `Others` says once what a step must leave alone for a caller
suspended in a callback.

Assumptions: `HandlerAssumption` (types of the constants, a DATA_SOURCE has a source
and arguments, `mappings.json` is iterated over its own names), `DataSourceAssumption` (a DATA_SOURCE
has no parameters, and only a DATA_SOURCE has a source and arguments: these are the fields the
constructors take), `BlankAssumption` (only a VALUE is empty by what its mapping says), `StackAssumption` (the
mapping names are finitely many, and the stack has room for a call of each), `ResetIsExclusive`
(a binding that gives the lock up during callbacks does not expose `reset`: true of the
Python binding, and needed, since a reset during a callback would destroy the
store) and `NoneIsNoRecord` (the absent value is not a record).

`HandlerCacheProofs`:

* `CacheKeysFaithful`, from `CacheInvariant`. `CacheInv` adds to `IInv` the
  property and, for a fetch that is under way, that it was sent with the arguments and attributes of
  the key it will be stored under (`FetchOK`). The last is what makes the key faithful with
  other callers running during the fetch: the key is made before it from the caller's own
  request, not from the globals.
* `EntriesStayStable` (an action property): in a partition that a call evaluates in, no step of anyone
  replaces a mapping object. `StoreWriters` lists the actions that write the
  store; each needs the experiment not to be loaded, or only writes globals.
* `SourcesKept`, on which `SourcesStayLive` below rests: every stored or drafted DATA_SOURCE points to the object
  registered under its name now. It needs that `register_data_source` refuses a name it has.
* `CountsCover`: `CoverInv` counts, beside the objects in the store, those of the draft of the group being
  loaded, which are counted before they are stored. A failed load drops the draft and leaves the
  count: a cover, not an equality.

`HandlerAnswerProofs`, on what an answer is made of:

* `SourcesStayLive`, under `NoUnregister` (the binding does not expose `unregister_data_source`, as
  Python's does not), with caching, `reset` and any number of callers: the source a mapping points to is the registered one when it is
  called, and so is the one that handed over any array an answer holds. `OriginInv` adds to `SourcesKept` and `CacheInv`
  that either cache (`CachedFrom`) and whatever a call has fetched, gathered or been handed (`GatheredFrom`) hold arrays of registered
  sources; a registry that only grows cannot make them stale (`OriginGrows`). Without the hypothesis
  the property fails, and the model says so with `pc = "undefined"`.
* `OwnAttributes`, under `CacheModeFixed`: no `reset`, or all configurations agree on
  `cache_enabled`. Without it the theorem is false: a cache filled before a `reset` answers
  after caching was disabled, with arrays fetched for other attributes. `AnswerInv` says that a fetch carries the
  attributes of its caller (`FetchOwn`), that the items a call has gathered do (`Answering`), and that the mapping
  cache is empty while caching is off (`Mode`).
* `AnswersAreOwn`, under `NoCaching` and `Exclusive`: every part of an answer was rendered, fetched,
  sliced and scaled for its own request. `EnvOwn` is the reason: while a call
  evaluates, the globals of its partition hold its own indices and attributes, or, for those it
  does not give, what the property allows (`Agrees`). The hypotheses are the
  findings cache_key and cache_posts and the late rendering of slices seen from the other side.
* `AnswersAreWhole`, under `NoCaching`, with any interleaving of callers and arrays that are empty at any depth. `Building`
  says of each stack that a frame holds what its mapping's parameters up to the one it waits for have returned, and that each frame
  was asked for by the one below it (`Chained`), the lowest by the request (`Linked`). A parameter is missing only if it is an
  EXPR that an empty array ended (`Ended`), directly or through other EXPRs: a least set, since the EXPRs between leave nothing of
  themselves in the value. What is ended stays so as items are added (`EndedMore`), and an EXPR that returns its empty parameter
  is ended by it (`EndedByParameter`). This is invariant with caching too (`TreeInv`); only that an answer is
  what a stack returned (`Completed`) needs the mapping cache to stay empty.
* `CachedValuesAreWhole`, with caching and no other hypothesis: a value in the mapping cache is all that a mapping of its name
  returned. `find_mapping` runs before the evaluation and its result is the key when the evaluation is over, with
  callbacks and other callers between: that it is still the mapping of the lowest frame follows from `TreeInv`, since no
  step changes what the path finds (`RootsStay`), which is one mapping (`FoundOnce`).
* `RecursionOnlyInCycles`, for all mapping files, with or without caching and with any callers: a mapping that is entered while it is being evaluated
  refers to itself through its parameters (`SelfReferring`), and so does some mapping of a stack that is exhausted. Each frame is a parameter
  of the one below it (`StackOfParameters`), so the frames between two of the same name are reached from the lower one
  (`AboveInStack`), and a stack that is longer than there are mappings holds one of them twice (`Crowded`, a pigeonhole).
* `HandlerImplementsService`, under `NoCaching` and `Exclusive`: `Spec => ImplementsService`, step by step. Under the lock
  nobody else is inside a call when one starts (`ServiceFree`), so the service is free; the steps of a call
  change nothing its caller sees until it is idle again (`CallPhases`), and then what it returned is right
  by the two theorems above. Without the lock the mapping fails as it should: two requests are pending at once, and
  the later one's values are in the globals the earlier one renders with.

### 4.2 Slices

`SliceProofs`: `ReadsAreConfined`: for every word size, shape and slice, an index
reaches outside its dimension only from a descending range without a stop whose
start lies outside. The invariant says that accepted subsets satisfy `Valid`
and that the odometer and all recorded tuples are confined; the work is in
`BumpConfined`, that adding a stride modulo the word and passing `Within` leads back into
the dimension. `RegularSlicesAccepted`: a slice that names positions of the array is never refused.

`WalkFillsAllocation`: `size()` is a quotient per dimension and the walk is an odometer that
knows no sizes, and yet they agree. `WalkInv` connects them: `Left(s, c)` counts the positions a range has
from `c` on. It is `Size` at the start (`SizeIsLeft`), and one turn of the odometer takes one off or, at the
last position, wraps or leaves the range (`Turn`: this is where the signs, the open end and the unsigned sums are
dealt with). The positions passed in each dimension are the digits of a number in the mixed radix of
the sizes (`Ranked`), a turn adds one to it (`RankAdvances`), it stays below the product of the sizes
(`RankBelow`) and ends one short of it (`RankEnds`). As many tuples are out as this number says.
`SliceTypes` is the type invariant, with the weights and offsets of `compute_offsets`. The loops of
`TypedDataArray::slice` and `compute_index_factors` are recursive functions in the model; that such a function
exists is proved once, for any loop (`LoopRuns`, by least-number induction), and used for each of them.

`SlicesSelectAsWritten` says which elements these are: those the slice string names, each once, in its order, from
their row-major places, in the shape of the dimensions that keep more than one. The property is stated without the code's
arithmetic, with sets of positions, an order of tuples and the number of tuples before one. Three ideas carry the proof:

* one dimension: the positions a token selects are `start + stride * m` for `m` below `Size` (`SelectedAre`), and no sum on
  the way between two of them wraps (`BumpIs`);
* rank is a bijection: a tuple in range has a rank (`RankExists`), only one (`RankUnique`), shares it with no
  other (`RankInjective`), and of two tuples the first difference decides whose is smaller (`RankOrder`). `Selecting` adds to the
  invariant that the k-th tuple out has rank k - 1. So every tuple of the selection has its turn (`AllComeOut`),
  and the order is the rank's (`InOrder`);
* an offset is a rank as well, in the radix of the whole shape (`OffsetRanked`). Every number below an offset is the offset
  of an earlier tuple (`EachBelow`), so it counts them (`OffsetIsRowMajor`).

Assumptions: `SliceAssumption` (types of the constants; an index is always given and has stride 1,
as `index_re` has no place for another).

### 4.3 Partitions and paths

`ResolutionProofs`: `LocatorImplementsChoice`: `ResolutionSpec => ImplementsChoice`, for
every `int` width, tree, list of partitions, request and scanning order. The invariant
(`InvariantHolds`) says what a scan knows of what it has seen (`ScanState`): the kept name
is one of them, its measure is right, and none seen beats it. `ScanStep` maintains this
for one more subdirectory; `KeptIsMeant` and `NothingMeant` draw the two conclusions at
the end of a scan, and `DistanceExact` that a promised distance does not wrap.

`GroupsReadWhereMeant` goes from one level to the whole descent: `DescentInv` says that the call under way
is below the group it locates, by names each of which its level means, and that the directories read are
where such descents ended. `ResolutionTypes` is the type invariant, with `LevelInv`: a call is at a directory
that exists, at most one level past the last partition, and keeps nothing between scans.

`IndicesAreKept`: extraction can be undone. `PathInv`: there are as many hashes in what was read as there are
indices, and putting the indices back in order and appending what is left gives the path of the
request. `AnswersAreNamed` follows for each of the three spellings `find_mapping` tries; for the last one,
`LastIndexPutBack` shows that restoring the last index only and then the others is restoring them all. `Indices` is
the loop over the matches of a token, as a recursive function, whose values
`Reading` gives for tokens of every length.

Assumptions: `ArithmeticAssumption` (names are texts or integers, the absent value is
neither), `PathAssumption` (the hash is neither a text nor a number, and these differ) and
`ResolutionAssumption` (types of the constants; a path is a sequence of tokens, a token a sequence of texts and
numbers).

### 4.4 Arrays

`LifetimeProofs`: `NoDoubleFree`, `ResultsHeldApart` and `LentMemoryLives`, from
`MemoryInvariant`, for every set of mappings, data sources and requests, any number of calls, both
bindings, with and without caching. `OwnedOnce` is not inductive: that a move or an
assignment frees the right buffer needs to know where every other object's buffer is. `Sound`
says it of a memory: owners have buffers of their own, allocated by `malloc` or `new`; capsules
have theirs to themselves; whoever has a buffer and does not own it is on the stack and
has that of an entry, and entries are `entry`. There is one lemma per member function (`MadeSound`,
`SwapSound`, `SliceSound`, `WrapSound`, ...) that it keeps a memory `Sound`, and one per
step (`FetchStep`, `UpdateStep`, ...) that the step is made of such calls on objects that exist.
For the latter, `LInv` adds `Stacked`: a mapping that waits for a parameter still needs one, so
that there is a variable for it. It also needs that between calls nobody borrows
(the stack is `Blank`): this is why the RAM cache may go in `Renew`. The theorems are of the
form `LifetimeSpec /\ []Fits => []...`: `Fits` says that `malloc` has two more buffers and the C++
stack the variables of the call at the top. It is a hypothesis because the code has no check for
either; the run objects checks it of the instance, as a part of `LifetimeTypeOK`.

`BufferProofs`: `NoBufferLost`, `ExprPointersLive` and `ConvertedIsLocal`, from `BufferInvariant`, under
the same hypothesis. That each buffer has at most one owner does not say that it has one that will
be destroyed. `Tidy` says it, relative to the variables that exist: only those own buffers, only the parameters of
EXPR own converted ones, each allocated buffer has an owner, and an object without one is as it was constructed.
Which variables exist is read off the C++ stack (`Owners`, `Operands`, `Wrapped`), and
`StackOK` ties the stack to the memory: the raw pointers of an EXPR are the buffers of its parameters, one
by one, and only a CUSTOM about to call a Python function has wrapped its own. The member functions are again
done once each (`MadeTidy`, `AssignTidy`, ...), then the steps. `LifetimeTypes` is the type invariant.

`CustomCallsNamed` in `LifetimeProofs`, from `FunctionInvariant`: what a CUSTOM mapping's pointer designates is the
function it names, for any number of functions and libraries, as long as `std::vector` leaves
the pointer valid. Growth within the capacity moves nothing, and erasing disturbs exactly the pointers
at or behind the erased element.

Assumptions: `LifetimeAssumption` and `SlotsAssumption` (types of the constants, the
variables of the caches and results exist).

### 4.5 VALUE and INTERP

`InterpProofs`: `LookUpEncloses` and `LeavesBaseOnlyForNaN`, from `InterpInvariant`, for
arrays of every length. The invariant of the bisection looks only at the neighbours of the part that
is left: the point before it is not above the target, the point behind it is. Nothing else about the
base is used, so the result holds for a base that is not sorted, too, and for one with a NaN inside.
`InterpTypeCorrect` is the type invariant, the arrays of every VALUE included.

`InterpolatesEverywhere`: each value returned lies on the line through any two points that enclose its target. In
a base that increases they are the same two points for every way to find them; that they are
needs an induction over positions (`WFMin` on sets of numbers: a least counterexample).
`ValuesAreKept`: the three arrays hold the numbers of their definitions, each rounded to a float with no other float between
where it is stored as one (`Rounds`), as far as the type the first element
decides can hold them. `WellFormedRequestsAccepted`: lists that start with a float are never refused, and no
look-up in them leaves the base, when any two points of the base increase with two floats between them or at them (`ToldApart`): rounding
then keeps their order. Without that hypothesis `check_increasing` throws for a base that increases as it is written. Both hold for any set of floats: `SingleRounds`
and `RoundedApart` need of it only that there is a nearest one.
Assumptions: `ValueAssumption` and `InterpolationAssumption` (types of the constants).

### 4.6 What the proofs changed

Attempts that failed changed the models in these places:

* `ResultComplete` said of every mapping that an empty parameter ends it. Only EXPR returns at one; DIM and
  CUSTOM go on (`expr_mapping.hpp:79`, `Ends`). The instance *trees* had no case that tells the two apart and has
  one now: a CUSTOM of EXPRs, below a DIM.
* `Limit` was a CASE with overlapping guards, of which TLC took the first. An index with a stop
  met two of them.
* A mapping of another type with a source, and an index with a stride, are excluded by the
  constructors and the regular expressions but were not by the assumptions.
* `Indices`, `Longer`, `Product`, `Factors` and `Offset` were written with `SelectSeq` and folds, of which the
  provers know nothing. They are the code's loops now.
* `SelectsAsWritten` had `SelectSeq` for the new shape. It says what the shape is instead: an increasing map onto the
  dimensions of more than one element. The cardinalities in it stay: they are the independent reference.

### 4.7 Only model-checked

* Liveness (`EveryCallReturns`, `EveryStringRewritten`): `ENABLED` and fairness are out of the prover's reach.
* `SyntaxTypeOK` and `RewritesAsWritten`: the meaning of a sentence and the rewriting loops are RECURSIVE
  operators.
* `TransformedOnce`, `EveryPartitionServed`, `LiteralNameFound`, `AnswersFromOwnSources` do not hold: they are the findings.

## 5. Plan

Done: the handler, slices, paths and partitions, ownership of arrays with the RAM cache and the custom
functions, two handlers, VALUE and INTERP, the syntax sugar, and the proofs of section 4. What is
left:

* A handler whose Python functions call it again while it evaluates, in `ArrayLifetimes`.

## 6. Not modelled

Vendored libraries (`src/ext_include`): more than 95% of the repository's lines. exprtk, inja, ctre,
nlohmann/json, toml++ and valijson appear as the results libtokamap takes from them, so the share
of all lines that this project can cover is a few per cent however much of libtokamap it models.

JSON and TOML parsing, schema validation, `dlopen` and `dlsym` and the file
system are external: they succeed or throw. The type FORWARD stands for any mapping whose type the
loader does not know.

Of the Python binding, the parsing of arguments and the reference counts of Python's own
objects; of the Rust binding, the conversion of types. Both call the handler's operations and neither
keeps state that the modules above do not have.

Undefined behaviour that no choice of the model would bound: the data race of two handlers in
two threads on the statics, and what happens after a call through a dangling pointer.

The results of expressions and custom functions, rounding, the profiler, tracing, the messages
and classes of exceptions, and the functions for other operating systems: no property is
about them.
