# Marine: formal models, model checking and proofs

Marine runs services made of WebAssembly modules.  A module may import functions
of the modules loaded before it; values cross the borders between modules, and
between modules and the host, as *interface values* that adapters lift from and
lower to linear memory.  This directory models what in Marine keeps state and can go wrong over time:
loading and unloading of modules, the calls between them, the memory budget they
share, what the host sees of all that, the service and the REPL around it, its
life in a browser; and the toolchain that gives a binary its interface.

All paths below are relative to `src/`.

## Inventory

| Component | State | Operations | Talks to |
|---|---|---|---|
| Memory limiter `crates/wasmtime-backend/src/store.rs` | remaining bytes, counter of rejections | `memory_growing`, `table_growing`, `set_total_memory_limit`, `clear_allocation_stats` | called by wasmtime at instantiation and from guest code |
| MarineCore and module loading `core/src/marine_core.rs`, `core/src/module/` | map name → module; store of instances, memories, WASI contexts, functions | `load_module`, `unload_module`, `call_async`, statistics | wasmtime, other modules through `Arc<Callable>` |
| Marine `marine/src/marine.rs` | call parameters for four SDK versions, interface cache | construction, `call_with_ivalues_async`, `call_with_json_async`, raw module API | MarineCore |
| Module configuration `marine/src/config/` | the configuration under construction | `ConfigBuilder::build`, `extend_wasi_envs`, `root_wasi_files_at` | Marine, AppService |
| Logger filter, log import `marine/src/host_imports/logger/` | levels per module | `from_env_string`, `module_level`, `log_utf8_string` | configuration, guest code |
| Host imports `core/src/host_imports/` | result cells inside the guest | lift arguments, run the closure, lower the result | guest code, guest's `allocate` |
| wasmtime backend, other files | WASI contexts of the store | instantiate, call, bounds checks | MarineCore |
| js backend `crates/js-backend/` | stack of calling instances, store tables | instantiate, call, host function closures | the browser's engine |
| Application service `crates/fluence-app-service/` | facade name, one Marine | calls to the facade, `get_interface`, raw API | Marine |
| REPL `tools/repl/` | current service, timeout, ticker thread | `new`, `load`, `unload`, `call`, ... | application service |
| marine-js, npm package `marine-js/` | one global Marine behind a mutex; life cycle of a service object | `register_module`, `call_module`, `init`, `terminate` | Marine on the js backend |
| JSON conversion `crates/it-json-serde/` | none | JSON ↔ interface values | Marine |
| Interface types `crates/it-interfaces/`, `it-parser/`, `module-interface/` | none | resolve adapters, imports, record types by index | MarineCore |
| IT generator, module info, CLI, utilities | none | build-time tools and decoders | - |

**How they interact.**  A Marine operation runs a synchronous prefix (update the
call parameters, look up an interface), then awaits one operation of the core,
then settles (convert the error, clear the statistics).  The core passes the
whole store to wasmtime; while guest code runs it may grow memories and tables,
which calls back into the limiter, and call imports, whose closures run the
importer's adapter: it enters another instance of the same store, and before and
after that the importer itself, whose `allocate`, `release_objects` and
`set_result_*` it calls.  Everything takes `&mut self`, so there is
one operation at a time on one Marine; but each `await` is a point where the
caller may drop the future, with frames of several modules on the stack.

**What is hard.**  Loading is a sequence of steps each of which may fail and
leaves what it created in a store that never shrinks.  Links are resolved once,
at load time, and outlive an unload of what they point to.  The budget is
charged from three places in two units.  The statistics, the cache and the call
parameters are state that survives a request.  `PROJECT.json` lists each hazard
with its line and the properties that guard it.

**What makes a component correct.**

* Limiter: what it has handed out covers all memories and tables that exist.
* Core: a name resolves only to completely loaded modules; imports stay
  answered; no module is called back while it executes, its own helpers apart;
  each module has its own WASI context;
  between two operations nothing is half done.
* Marine: built completely or not at all; a call is converted by the interface
  of the module that runs; out-of-memory is neither missed nor suspected without
  a reason.
* Host imports: the guest gets a result of the shape its import declares, and
  reads the pointer and the size of this call.
* Configuration: each layer of a module's environment wins over those it is
  meant to win over, and every log directive counts for what it says.
* Service and REPL: a service has all its modules or is not there; the one there
  was stays whole until then; the facade exists whenever it is asked for; a call
  ends.
* js backend: the top of the stack is the instance that executes; an export
  runs in its own instance; accesses stay inside the caller's memory.
* marine-js: one task at a time on the global Marine, a promise settles, and JSON
  arrives as the values it stands for.
* Toolchain: adapters are typed, the interface read back is that of the source,
  and what was built is loaded within the limits of the loader.

## Modules

| Module | Models |
|---|---|
| `MemoryLimiter` | the limiter: budget and rejections |
| `ModuleRegistry` | abstract: what the core promises about names and the budget |
| `MarineCore` | the core on a wasmtime store, over `MemoryLimiter`; implements `ModuleRegistry` |
| `MCMarineCore` | its instance for TLC |
| `MarineCoreProofs` | theorems about `MarineCore` |
| `Marine` | Marine over `MarineCore` |
| `MCMarine` | its instances for TLC |
| `MarineProofs` | theorems about `Marine` |
| `HostImports` | a call of a host import by guest code |
| `MCHostImports` | its instance for TLC |
| `HostImportsProofs` | theorems about `HostImports` |
| `ModuleConfig` | configurations: TOML, environments, directories, log directives |
| `AppService` | a service: its creation step by step, calls, raw API; over `ModuleConfig` |
| `Repl` | the REPL, its ticker and timeouts, or an embedding program; over `AppService` |
| `MCRepl` | their instances for TLC |
| `ReplProofs` | theorems about `Repl`, `AppService` and `ModuleConfig` |
| `JsBackend` | the backend for browsers |
| `MCJsBackend` | its instance for TLC |
| `JsBackendProofs` | theorems about `JsBackend` |
| `ITGenerator` | interface types and adapters made from the SDK's descriptions |
| `ModuleInterface` | what is read back of them, and what the loader links |
| `Toolchain` | a file that is built, edited, inspected and loaded; generator and readers are constants |
| `BuiltInterfaces` | `Toolchain` with generator and readers, and what the interface of a source is meant to be |
| `MCToolchain` | its instance for TLC |
| `ToolchainProofs` | theorems about `Toolchain` |
| `ItJson` | JSON to interface values and back |
| `MarineJs` | control modules in a browser and one `MarineService`; the conversions are constants |
| `MCMarineJs` | its instance for TLC, with the conversions of `ItJson` |
| `MarineJsProofs` | theorems about `MarineJs` |
| `PrefixLemmas` | for the proofs: induction over numbers, iterated functions, flattened sequences |

### MarineCore

The store is modelled by *load attempts*: attempt `l` owns a WASI context, an
instance, a memory and a table.  `stage[l]` says how far `MModule::new` got;
a failure takes it to `"failed"`, and what was created stays, as in the code
("never frees resources used for instantiation").  `modules` is the map of
`MarineCore`; `links[l]` are the `Arc<Callable>`s that `extract_imports` cloned;
`stack` is what executes, callers first; `wasi` is the vector of contexts and
`wasiOf[l]` the index that the linker closure of the attempt captured.

One action per step of `load_module_` and `MModule::new`, in their order:
`RequestLoad`, `RejectBinary`, `RegisterImports` / `DuplicateHostImport`,
`Instantiate` / `UnknownWasmImport` / `InstantiateMemoryRefused` /
`InstantiateTableRefused` / `SegmentTrap`, `LinkImports` / `UnresolvedImport` /
`MalformedInterface`, `RunInitialize`, `RunStart`, `InsertModule` /
`NonUniqueName`.  `UnloadModule`, `Call`, `CallRefused` and
`ClearAllocationStats` are the rest of the API.

A frame of the stack is an attempt and the code that runs for it: guest code (a
start-up function, an exported function, or a helper such as `allocate`), the
adapter of an export, before or after it has called its function, or the adapter
of an import, before or after it has called the linked module.  So a call of an
import is `GuestCallImport` (the closure starts the importer's adapter), any number
of `EnterHelper` (the adapter lowers into and lifts from its own instance by calls
of guest code), `CallLinked`, and in the linked module `CallExported` between more
helpers.  The helpers that a host import calls are entered in the same way, on top
of the guest code that called it.  Guest code is any sequence of `GuestGrow*`,
`Guest*Refused`, `GuestCallImport`, `GuestReturn`, and all ends early with
`GuestTrap` or `DropFuture`.  Executing instances are thus entered again all the
time; `NoCallback` says that no *export* is called of one, and that an instance is
entered again only on top of its own frames.

A binary is a record of what the core can tell apart: exports, imports that have
an adapter, declared and maximal sizes, presence of a memory and of the two
start-up functions.  Code, values and adapters' instructions are abstracted;
errors are sorted into those Marine may take for out-of-memory (`"engine"`) and
the others.

### Marine

`config`, `built` and `phase` are the loop of `with_modules`; `params` are the
four cells that `get_call_parameters` reads; `cache` is
`module_interfaces_cache`, each entry standing for the interface of the module
it was taken from.  `iface` and `refused` are history: the interface
that converted the arguments of the request, and whether an allocation was
refused since it began.  `CoreRuns` lets the core take
its own steps while a request is in flight; the request then ends with
`CallSucceeded`, `LoadSucceeded`, `RequestFailed` or `RequestDropped`.

### HostImports

One guest instance that calls imports one after another.  `pc` walks through
`call_host_import` and `lower_outputs`; `lifted` and `taken` are the positions of
the two iterators of `wvalues_to_ivalues`; `ptr` and `size` are the cells that
`set_result_ptr` and `set_result_size` write, each holding the number of the call
that wrote it, so that a stale cell can be told from a fresh one.  The four
tables of conversions (`ArgumentTypes`, `LiftTypes`, `ResultTypes`, `InMemory`)
are translated one by one from the four functions that have them, and may
disagree as those do.  What the guest exports is chosen at the start.

Values are abstracted to their types; all types that are one `i32` in Wasm are
one.  The guest's `allocate` and setters are external: each returns, traps, or
is suspended and dropped, and is taken to call no import itself.  A panic takes
the host down (`pc = "down"`); the backend's check of the results is `Return` and
`ReturnRefused`.  The module is not composed with `MarineCore`: there, what an import
of the host does to the store is `EnterHelper`, and the growth in `allocate` is
`GuestGrowMemory` in that frame.

### ModuleConfig, AppService, Repl

`ModuleConfig` has one operator per function of `marine/src/config/` and of the
logger filter; a configuration is a record with the fields of the Rust structs,
with `Nothing` for a `None`.  An environment is a function; `Inserted` and
`Extended` are `insert` and `extend` of a `HashMap`, where what comes later wins.
A log directive is what `split` leaves of it: its parts by `=`; `FromEnvString`
folds them from left to right, as a function of how many have been read.

`creating` is the service under construction, from its TOML through
`set_env_and_dirs` and `load_modules_from_fs` to `Marine::with_modules`, one
action for each step that touches the disk or runs guest code, each with its
failure (`CreateFails`).  `service` is the one there is; `dirs` the directories
made so far, which outlive failures; `guest` tells whether guest code runs,
yielded, or waits for a mounted binary.  What happens inside guest code and the
core is `MarineCore`'s; here a request to a Marine ends well or not
(`CallEnds`, `LoadEnds`, `LoadFails`, `ModuleRefused`).  `Publish` is the end of
`AppService::new`.

`Repl` adds who uses the service: the REPL (`host = "repl"`, without facade, with
timeouts and a ticker) or an embedding program (`"peer"`, with `get_interface`).
`due` is the store's epoch deadline.  `GuestYields` is the epoch callback; when
the time of the call has elapsed, the future is dropped there.

### JsBackend

`instances`, `functions` and `wasi_contexts` are the vectors of `JsStoreInner`,
and handles positions in them.  `frames` is what the engine executes, guest and
host frames in turn; the code does not have it, and `CallerIsExecuting` compares
`wasm_call_stack` with it.  An exception goes up to the nearest `Reflect::apply`
(`HostThrows`, `GuestTraps`); a panic after a push and before its pop
(`GuestReturnsUnsupported`, in `wval_from_js`) is a step of its own, and after one
the stack is wrong for good, so the properties about it say `panics = 0`.

### ITGenerator, ModuleInterface, Toolchain

`ITGenerator` and `ModuleInterface` are pure operators for the generator, for the
reader and for the linker, translated one by one; ids count from 0 as in the
code.  `Toolchain` is a file: the source it was compiled from, its interface
sections and its version sections.  `marine build` is a job that goes through
records, functions and imports (`Generate`, one description at a time; an import from
a namespace of the host is left as it is), writes
the interface section, then in a second step the version; between them, or
instead of it, the file may be edited by `set it` and `set version`.

The generator and the readers recurse over types, and the prover says nothing of
a module that reaches a recursive operator.  Therefore they are constants of
`Toolchain` (`Make`, `Fits`, `Typed`, `Tells`, ...), and `BuiltInterfaces` has the
operators which `MCToolchain.cfg` gives them.  There, too, is what an interface is
compared with: `Results` executes adapter instructions on a stack of types, as the
interpreter (an external crate) does on values, and `InterfaceOf` is the interface
that a source is meant to have.  An interface has raw types as `wtype_to_itype` writes
them, `S32` and `S64` among them; the loader reads them as Wasm types
(`ITypeToWType`), and `AdaptersFit` compares these with the signature that the
compiler gave the import (`Compiled`) and with what the adapter leaves.

### ItJson, MarineJs

`ItJson` translates both files of `it-json-serde`; beside it stands a reference
definition (`Forms`, `ArgsForms`) of all JSON that stands for given values.  Both
recurse over types, and for the same reason they are constants of `MarineJs`, given by
`MCMarineJs.cfg`.  `ConversionsFaithful` says what `MarineJs` expects of them;
`MCMarineJs` assumes it of those in `ItJson`, and TLC evaluates it for all inputs
of the run.

In `MarineJs`, `control[i]` is a control module with its global Marine, mutex and
logger; `tasks[i]` the futures wasm-bindgen has queued, one of which is
`running`.  Clients act when no task runs, and inside the log function
(`ClientRuns`), where `terminate`, `call` and `init` may be called from within a
task.

A panic of a control module is one of two.  Below guest frames (`GuestPanics`) it is a
trap that the nearest `Reflect::apply` of the backend catches; the task ends with an
error and drops the guard of the mutex.  Whether this poisons the mutex depends on
the build, since `std` marks it only if the thread is known to panic when the guard goes,
so the model does either.  With no guest below it (`ControlPanics`) nothing catches it
nor drops the guard, and the promise of the task is left alone.

## Runs

| Run | What it shows |
|---|---|
| `core` | Two names, three attempts, four binaries (one that grows, two that import from each other's name, one without exports whose table does not fit beside others).  Helpers and adapters are entered at any time.  All invariants of the core, and the refinement of `ModuleRegistry`. |
| `marine` | Two names, one of them also that of the function, three attempts, four configurations (complete; one module; a missing binary; a name listed twice).  All properties of Marine that hold; a call is converted with a foreign interface only by a clash of names. |
| `host_imports` | Three calls of ten kinds of imports, by guests with any subset of the four exports the host looks for, with failures of lifting and lowering, traps and dropped futures. |
| `repl` | Two service identifiers and the configurations of `MCRepl` (good, with a directory that is a file, with a missing binary, with a name twice, not readable, ...), any commands in any order, ticks, timeouts, mounted binaries.  Seven safety properties, and that a call in the REPL ends. |
| `js_backend` | Three attempts to load six kinds of binaries, frames seven deep, two panics. |
| `toolchain` | Twenty sources (no records; nested, reordered and recursive ones; two records of one name; nesting at the limits; malformed manifests; imports of the host and of modules, with all kinds of results), compiled, built, edited and inspected in any order. |
| `marine_js` | One service object, two control modules, two calls with seventeen inputs between them, one log line per task, two panics, below guest frames or outside.  Logs, answers to calls, that promises settle, and that the conversions of JSON are faithful. |
| `log_level` | **Violation.** The level that the host's `WASM_LOG` gives to a module is lost. |
| `memoryless` | **Violation.** A binary without a memory gets registered, although `memory_size` expects that `MModule::new` has checked it. |
| `stale_suspicion` | **Violation.** A refusal in an earlier request makes a later, unrelated failure `HighProbabilityOOM`. |
| `name_clash` | **Violation.** A module with the name of a function is answered for by the interface of the module that exports the function. |
| `errors_return_zero` | **Violation.** A result that cannot be lowered is to come back as 0; the guest traps instead. |

**Bounds.**  `MaxLoads = 3` allows a module, its importer, and a reload under a
name in use or unloaded, which is what the links, the name check and mutual
imports by name need.  The budgets (8 and 4 units, an entry costing 2) are such
that some sequences of instantiations and growths fit and others are refused, at
instantiation and in guest code, for memories and for tables.  `MaxRejects`
bounds the counter of rejections: with 1 a refusal is noticed, with 2 one can be
left over from before.  Growth arguments include one that exceeds a memory's
own maximum, which is charged and fails.  `MaxDepth = 8` in `core` lets a call
go through three modules, and start-up code through two more with a helper on top (each
module called adds three frames, its importer's adapter, its own and its function); 6 in the runs of Marine lets one module call
another and both call helpers.  `MaxCalls = 3` lets a call follow
one that left both cells of another, and `MCDescriptors` has each type as an
argument and as an output, and both error handlers.  The theorems below do not depend on
these values.

In `repl`, two identifiers let a service be replaced, by a creation that fails
and by one that does not.  In `js_backend`, `MaxDepth = 7` is a guest that calls
the host that calls a guest, three times, and two panics are needed for a stack
wrong twice; `MaxU32 = 3` with memories of two units has accesses at the last
byte and sums beyond the maximum.  In `toolchain`, `RecursionLimit = 6` (1024 in
the code) is enough for sources on either side of both ways of counting levels,
`MaxSections = 3` for a section by hand on top of one of a build, and
`MaxU64 = 99` for lengths that add up to just below and above it.  In
`marine_js`, two panics let one follow the other, in the same control module or after
`init` made another; `c1` takes every input and `c2` a good call, so that one waits for
the other; a task logs at most once, and once is enough for a client to be
called inside of it.

**Deadlock.**  `core` checks it.  Marine's runs do not: a construction that fails
returns no Marine, and nothing is left to call.  Nor do those of `HostImports`,
where a panic ends everything, of `Repl`, which may quit, of `JsBackend`, where all
attempts may be used up by refused modules, and of `MarineJs`, whose client may
stop calling.  `toolchain` checks it.

**Fairness.**  `CallsEnd` (Repl) assumes weak fairness of `Tick` (a thread that
sleeps and ticks for ever), of `TimerElapses` (the runtime's timer) and of
`GuestResumes` (the future that yielded has woken itself and is polled again),
and strong fairness of `GuestYields`: compiled code looks at the epoch at each
function and loop, so it cannot run on for ever without doing so, but in between
it may be in a mounted binary, again and again.  Nothing is assumed of guest code
beyond that; whether it ever returns is open.  A mounted binary that never ends
is excepted by the property, since nothing in the code ends it.

`CallsSettle` (MarineJs) assumes that the browser runs queued tasks (weak
fairness for each control module), that functions of the client return, and that
guests return, since nothing in the browser stops one that does not.

The other properties are safety properties, and need none.

## Proofs

`MarineCoreProofs` proves, for all values of the constants that satisfy
`LimiterAssumption` (limit, entry size and bound are naturals) and
`CoreAssumption` (there are names and binaries; binaries are well-formed; a
binary without a memory declares none):

* `CoreCorrect`: the inductive invariant
  `CoreInv`, from which follow `TypeCorrect`, `BudgetCorrect`,
  `PublishedCorrect`, `ImportsCorrect`, `FramesCorrect`, `FramesReadyCorrect` and
  `WasiCorrect`.
  The properties are not inductive one by one.  `NoCallback` needs that every
  link points to an *older* attempt (`ImportsAnswered`) and that a module has
  links for the imports of its own binary only (`OnlyItsImports`); the former needs that
  only complete attempts are registered (`PublishedReady`) and that the attempt
  in flight is newer than all of these (`InFlight`).  `BudgetCoversInstances`
  needs that an attempt holds nothing before it is instantiated
  (`NoTraceBefore`), so that charging the new memory and table pays for them.
  The sum over all instances is stated as the cardinality of a set of units;
  `OneInstanceGrows` is the lemma that a step of one instance adds exactly its
  growth to it.
* `Refinement`: `MarineCore` implements `ModuleRegistry`.  `StepKinds` sorts
  the actions into those that begin an attempt, move it, publish it, or rest;
  only publishing adds a name, and `BudgetOnlyShrinks` gives the spending.

`MarineProofs` adds `MarineAssumption` (configurations are well-formed) and
proves:

* `MarineDrivesCore`: a behaviour of `Marine` is a behaviour of `MarineCore`, so
  that everything above holds for it too.
* `MarineTypeCorrect`, `RefusalCorrect`, from the inductive
  invariant `MarineInv`.  It relates the request in flight to the operation of
  the core, and the history variable `refused` to the counter: a refusal of the
  request in flight is still counted, because nothing clears the counter before
  the request ends.
* `InterfaceCorrect`, that a call is converted with another interface than that of
  the module that runs only if it is of a complete module with a function of the
  called module's name, so a cached interface never answers for any other reason,
  and never a stale one of the same name.  Its invariant
  adds `CacheExplained`: what the cache has under a key is the interface of a module
  that was completely loaded and exports a function of that name.  That the clash does
  happen is the run `name_clash`.
* `BuildCorrect`: construction ends with all modules registered in their order.

`HostImportsProofs` adds `HostAssumption` (descriptors are well-formed) and
proves `HostTypeCorrect`, `ResultCorrect`, `FailureCorrect`, `PanicCorrect` and `LiftCorrect` for every set of
descriptors and any number of calls, from the inductive invariant `HostInv`:
`StageOK` says what each stage has established (in the setters the output is in
memory and nothing was handed over), `OutputOK` that the output is the declared
one unless an error handler chose none, and `CellsOK` that nothing is handed over
for a value in memory before both cells are of this call.  The last step is that
the backend lets such a call return only with the results of its signature.  `LiftFitsSignature`, of `LiftCorrect`, is inductive relative to `HostInv`: what was
taken is as long as the parameters of the arguments lifted so far, and these are a
prefix of all the parameters (`NextFits`), so that the next argument finds its own.

`JsBackendProofs` proves `JsTypeCorrect`, `CallerCorrect`, `AccessCorrect` and `BoundCorrect` for
every set of binaries and every nesting, under `BoundsAssumption` (the bounds are
naturals) and `BinariesAssumption` (what a binary consists of; its indices may lead
nowhere).  The inductive invariant is `JsInv`: `Shape` types the entries of the store,
`StoreInv` says that every handle leads somewhere, and `CallInv` relates the stack of
instances to the frames of the engine.  `CallerIsExecuting` is not inductive in states
after a panic, of which it says nothing; `StackDeep` adds that even then there is an
entry for each guest frame, so that a host function always finds *some* caller.  A new
instance is where most is done: `ExportsOfInstance` shows that its exports have the
handles of the functions which are stored with it (`BinaryParts` counts them).

`BoundCorrect` says that an export runs in the instance that exports it, with the
results its binary declares, and that imports and WASI contexts are not shared.
Its invariant `BoundInv` is relative to `JsInv`; indices of functions count the imported ones
first, so it is about ranks (`FunctionTypesAre`).  It needs that no two exports have
one name (`Compiled`), which the engine checks when it compiles a binary, before the
backend reads it.

`ReplProofs` assumes that configurations are of the types of `TomlMarineConfig`
(`ConfigsAssumption`), that the base path and the working directory are absolute
(`PathsAssumption`), and that a log directive has the parts its shape needs
(`FiltersAssumption`).  `ReplCorrect` is the inductive invariant `ReplInv`: for the
service in the making, `CreationShape` (how far it may be in what it loads),
`ConfigMade` (its configuration is what `set_env_and_dirs` makes of the TOML file, for
its own identifier), `TableMade` (the modules loaded so far are a prefix of it) and
`LoadsNew` (no name is loaded twice); for the one there is, `ServiceMade` and
`FacadeMade`.  From it follow `ReplTypeCorrect`,
`CompleteCorrect`, `OwnEnvironmentCorrect`, `DirsCorrect`, `FacadeCorrect`
and the action property `ReplacedWholeCorrect`, for every set of configurations, in the
REPL and in an embedding program, whatever fails, times out or is dropped.
The environment of a module goes through three maps that extend one another
(`OwnEnvironmentOf`).  `LevelCorrect` is by induction over the directives of `WASM_LOG`:
after each, the level of a module is that of the last directive so far that names it.

`MarineJsProofs` proves, for any number of control modules, calls, modules and functions,
the inductive invariant `JsInv`: the mutex of a control module is locked while one of
its tasks runs and for ever after a panic outside of guest frames, and none runs when
it is poisoned (`Mutex`), the modules are registered at most
once (`RegisteredOnce`), what a task needs is there when it runs (`Equipped`), a queued
call is the task of an open promise (`CallsServed`), and logs go where they should
(`Told`).  From it follow `MarineJsTypeCorrect` and `LogsCorrect`.  `CallsCorrect` has
`ConversionsFaithful` as its hypothesis, the part that recurses over JSON and types,
and adds everything between client and guest: the queue, re-entrant calls, `terminate` and
panics.

`ToolchainProofs` assumes that versions are numbers and that the generator's version is
not too old for the loader (`VersionsAssumption`), that bounds are naturals and a file
may have at least one interface section (`BoundAssumption`), and that lengths in manifests are `u64`
(`SourcesAssumption`).  `ToolchainCorrect` is the inductive invariant `ToolchainInv`: a
job has made of the records, functions and imports what the generator makes of as many
of them (`JobDone`, an iterated function), so that a file which was built has exactly
one interface, that of its whole source, and one version (`BuiltWhole`).
`ToolchainTypeCorrect` follows.  What remains of `AdaptersTyped`, `InterfaceFaithful` and
`BuiltLoads` is about the generator on a whole source, and is the hypothesis of
`AdaptersCorrect` (`AdaptersRight`), `InterfaceCorrect` (`InterfacesRight`) and
`LoadsCorrect` (`LoaderRight`).  On each source of the run `toolchain` TLC finds these
true, since it builds every one of them and evaluates the three properties.
`ManifestCorrect` has no hypothesis: by induction over the fields of a manifest, for
every `MaxU64`, no offset passes the end of the bytes, and no sum overflows.

`PrefixLemmas` has what these proofs share.  The theorems of the library on induction
take an operator as a parameter; `Induction` takes a set of numbers instead, and is
proved from `Least`, that a set of naturals has a least element.
`IteratesExist` shows that a function defined from its value one below exists and is
what it says; `FlattenSeqIs` and `FlattenSeqAppend` do so for the
concatenation of a sequence of sequences.

**Model-checked only.**  The liveness properties `CallsEnd` and `CallsSettle`.  Recursion
over data: that the conversions of JSON, the generator and the readers do what the
hypotheses of `CallsCorrect`, `AdaptersCorrect`, `InterfaceCorrect` and `LoadsCorrect`
say.  And the runs that show a violation.  Every other property of a run is stated by a
theorem.

## Findings

* `core/src/module/marine_module.rs:218` relies on a check that `MModule::new`
  does not make (`memoryless`).
* `marine/src/marine.rs:296` fills the interface cache under the name of the
  function, while line 258 searches by the name of the module (`name_clash`).
  As a consequence the cache normally never answers.
* `marine/src/marine.rs:389` looks at rejections of all requests since the last
  call that succeeded (`stale_suspicion`), while `marine/src/errors.rs:82`
  speaks of an error together with a rejection.
* `core/src/host_imports/imports.rs:158` returns one value after a failure to
  lower a result, also for imports without a Wasm result, so that the guest
  traps; line 150 says that 0 is returned (`errors_return_zero`).
* `marine/src/config/to_marine_config.rs:93` replaces the environment into which
  `populate_logger` has put the log level "to overwrite possibly installed log
  variable in config" (line 160); every module of a service has a WASI
  configuration, so the level is always lost (`log_level`).

Left out of the properties, and modelled as the code has it: `ByteArray` differs
between the tables, as an argument (`utils.rs:28`, `lift_ivalues.rs:87`) and as an
output (`utils.rs:41`, `imports.rs:181`); and a guest without `allocate` takes the
failure code 2 for the value of an import that returns an `i32`.  So are, without a
run of their own: two records of one name, whose second definition decrements
the count of unresolved records once too often
(`crates/it-generator/src/instructions_generator.rs:91`); records nested deeper than the loader
follows, which build and do not load (`BuiltLoads`); and a `terminate` during an
`init`, which is forgotten (`MarineService.ts:55`).

## Not modelled

* Wasm start sections that call imports on wasmtime: they run while the
  `ITInstance` is uninitialized, which is undefined behaviour of the host.
  (`JsBackend` has them: there the import panics on the empty call stack.)
* The wrap of the `u32` counter of rejections, `crates/wasmtime-backend/src/store.rs:84`.
* The writing of log lines (`log_utf8_string`), printing, line editing and
  completion in the REPL, `marine generate`: pure output.
* The bytes of TOML, JSON, custom sections and binary interface types, which are
  read and written by libraries.  The models begin with what these return.
* The constructor of `MarineService`, which merges environments into the
  configuration object it is handed, and `crates/module-info-parser/src/effects.rs`,
  which sorts imports by name.
* wasmtime's conversions of values one by one, and its memory accesses; its
  bounds check has the same condition as the one in `JsBackend`.
* Traits without code (`wasm-backend-traits`) and `crates/utils`.
* `module_wasi_state`: it returns an empty value on wasmtime.

## Plan

1. `MemoryLimiter`, `ModuleRegistry`, `MarineCore`, `MarineCoreProofs` - done.
2. `Marine`, `MarineProofs` - done.
3. `HostImports`, `HostImportsProofs` - done.
4. `ModuleConfig`, `AppService`, `Repl`, `ReplProofs` - done.
5. `JsBackend`, `JsBackendProofs` - done.
6. `ITGenerator`, `ModuleInterface`, `Toolchain`, `BuiltInterfaces`,
   `ToolchainProofs` - done.
7. `ItJson`, `MarineJs`, `MarineJsProofs` - done.
8. Left: the refinement of one module's life in `AppService` to `Marine`'s;
   conversions of values in the wasmtime backend; the constructor of
   `MarineService`.
