------------------------------ MODULE JsBackend ------------------------------
(***************************************************************************)
(* The backend for browsers (crates/js-backend): a store of WASI contexts, *)
(* instances and functions that only grow, and the stack of instances by   *)
(* which a host function finds out who called it, because a JS function    *)
(* that is passed as an import does not know.                              *)
(*                                                                         *)
(* frames is what the JS engine really executes: guest frames, each        *)
(* entered by Reflect::apply in WasmExportFunction::call_async, and        *)
(* between them frames of host functions.  An exception, be it a trap, an  *)
(* unwrap_throw or a Rust panic, goes up to the nearest Reflect::apply.    *)
(* Futures of this backend never wait, so a call is run to its end.        *)
(***************************************************************************)
EXTENDS Integers, FiniteSets, SequencesExt

CONSTANTS
    Absent,
    Binaries,     \* modules: types, imports, functions, exports, start, size
    MaxAttempts,  \* bound on the modules instantiated
    MaxDepth,     \* bound on frames
    MaxPanics,    \* bound on panics between a push and its pop
    MaxU32        \* the largest u32

ASSUME BoundsAssumption == {MaxAttempts, MaxDepth, MaxPanics, MaxU32} \subseteq Nat

\* A binary as the engine and the parser of module_info.rs tell it apart.
\* Indices count from 0, and may lead nowhere.
BinaryType ==
    [types     : Seq(STRING \cup {Absent}),
     imports   : Seq([name : STRING, kind : STRING, type : Nat]),
     functions : Seq(Nat),
     exports   : Seq([name : STRING, kind : STRING, index : Nat]),
     start     : {"none", "calls import"},
     size      : Nat]

\* The engine compiles a module before it is read, and refuses one that
\* exports a name twice.
Compiled(b) ==
    \A i, j \in DOMAIN b.exports : b.exports[i].name = b.exports[j].name => i = j

ASSUME BinariesAssumption == \A b \in Binaries : b \in BinaryType /\ Compiled(b)

VARIABLES
    wasi_contexts,    \* each with the instance whose memory it was given
    instances,        \* each with its exports, imports and WASI context
    functions,        \* host functions and exports
    wasm_call_stack,
    loading,          \* the module being linked and instantiated, or Absent
    frames,           \* what the engine executes
    attempts,         \* modules given to the backend so far
    access,           \* the memory access of the step just taken, or Absent
    panics            \* how often Rust code panicked between a push and its pop

vars == <<wasi_contexts, instances, functions, wasm_call_stack, loading, frames,
          attempts, access, panics>>

storeVars == <<wasi_contexts, instances, functions>>

--------------------------------------------------------------------------
(* What is read from the binary (module_info.rs): JS does not tell the     *)
(* signatures of exports.                                                  *)

TypeOf(import) == import.type

\* The members of S in their order.
Rank(S, i) == Cardinality({j \in S : j <= i})
Kth(S, k) == CHOOSE i \in S : Rank(S, i) = k

FunctionImports(b) == {i \in DOMAIN b.imports : b.imports[i].kind = "func"}

\* The slip of taking every import for a function.
FunctionTypesAll(b) == [i \in DOMAIN b.imports |-> TypeOf(b.imports[i])] \o b.functions

\* The index space of functions: the imported ones, then the others.
FunctionTypes(b) ==
    LET funcs == FunctionImports(b)
    IN  [k \in 1..Cardinality(funcs) |-> TypeOf(b.imports[Kth(funcs, k)])] \o b.functions

\* Indices count from 0.  Absent when the export does not lead to a
\* function type.
ExportSignature(b, index) ==
    LET types == FunctionTypes(b)
    IN  IF index < Len(types) /\ types[index + 1] < Len(b.types)
        THEN b.types[types[index + 1] + 1]
        ELSE Absent

Readable(b) ==
    \A i \in DOMAIN b.exports :
        /\ b.exports[i].kind # "tag"
        /\ b.exports[i].kind = "func" => ExportSignature(b, b.exports[i].index) # Absent

HostImports(b) == {b.imports[i].name : i \in FunctionImports(b)}

--------------------------------------------------------------------------
Init ==
    /\ wasi_contexts = <<>>
    /\ instances = <<>>
    /\ functions = <<>>
    /\ wasm_call_stack = <<>>
    /\ loading = Absent
    /\ frames = <<>>
    /\ attempts = 0
    /\ access = Absent
    /\ panics = 0

AtRest == frames = <<>> /\ loading = Absent

--------------------------------------------------------------------------
(* Loading.  What an attempt stored stays, whether it fails or not.        *)

NewModule(b) ==
    /\ AtRest
    /\ attempts < MaxAttempts
    /\ attempts' = attempts + 1
    /\ Readable(b)
    /\ loading' = [binary |-> b, wasi |-> Absent, imports |-> {}]
    /\ UNCHANGED <<storeVars, wasm_call_stack, frames, panics>>
    /\ access' = Absent

ModuleRefused(b) ==
    /\ AtRest
    /\ attempts < MaxAttempts
    /\ attempts' = attempts + 1
    /\ ~Readable(b)
    /\ UNCHANGED <<storeVars, wasm_call_stack, loading, frames, panics>>
    /\ access' = Absent

HostFunction == [what |-> "host", instance |-> Absent, results |-> Absent]

\* Host functions are stored, then registered by their names.
RegisterImports ==
    /\ loading # Absent /\ loading.imports = {}
    /\ HostImports(loading.binary) # {}
    /\ functions' = functions \o [i \in 1..Cardinality(HostImports(loading.binary)) |-> HostFunction]
    /\ loading' = [loading EXCEPT !.imports = Len(functions) + 1 .. Len(functions')]
    /\ UNCHANGED <<wasi_contexts, instances, wasm_call_stack, frames, attempts, panics>>
    /\ access' = Absent

\* The same name a second time (DuplicateImport).  The function was stored.
DuplicateImport ==
    /\ loading # Absent /\ loading.imports # {} /\ loading.wasi = Absent
    /\ functions' = Append(functions, HostFunction)
    /\ loading' = Absent
    /\ UNCHANGED <<wasi_contexts, instances, wasm_call_stack, frames, attempts, panics>>
    /\ access' = Absent

AddWasi ==
    /\ loading # Absent /\ loading.wasi = Absent
    /\ Cardinality(loading.imports) = Cardinality(HostImports(loading.binary))
    /\ wasi_contexts' = Append(wasi_contexts, Absent)
    /\ loading' = [loading EXCEPT !.wasi = Len(wasi_contexts')]
    /\ UNCHANGED <<instances, functions, wasm_call_stack, frames, attempts, panics>>
    /\ access' = Absent

\* The exports of the instance that is being stored: its functions go to
\* the store from there on, bound to it.
FunctionExports(b) == {i \in DOMAIN b.exports : b.exports[i].kind = "func"}

KthSignature(b, k) == ExportSignature(b, b.exports[Kth(FunctionExports(b), k)].index)

BoundTo(instance, b) ==
    [k \in 1..Cardinality(FunctionExports(b)) |->
        [what |-> "guest", instance |-> instance, results |-> KthSignature(b, k)]]

ExportMap(b) ==
    [name \in {b.exports[i].name : i \in DOMAIN b.exports} |->
        LET i == CHOOSE i \in DOMAIN b.exports : b.exports[i].name = name
        IN  [kind   |-> b.exports[i].kind,
             handle |-> IF i \in FunctionExports(b)
                       THEN Len(functions) + Rank(FunctionExports(b), i) ELSE Absent]]

\* The slip of binding the exports to the handle before this one's.
JsInstanceNewOffByOne(b) ==
    /\ instances' = Append(instances, [binary |-> b, exports |-> ExportMap(b),
                            imports |-> loading.imports, wasi |-> loading.wasi])
    /\ functions' = functions \o BoundTo(Len(instances), b)

JsInstanceNew(b) ==
    /\ instances' = Append(instances, [binary |-> b, exports |-> ExportMap(b),
                            imports |-> loading.imports, wasi |-> loading.wasi])
    /\ functions' = functions \o BoundTo(Len(instances) + 1, b)

Instantiate ==
    /\ loading # Absent /\ loading.wasi # Absent
    /\ loading.binary.start = "calls import" => wasm_call_stack # <<>>
    /\ JsInstanceNew(loading.binary)
    /\ wasi_contexts' = [wasi_contexts EXCEPT ![loading.wasi] = Len(instances')]
    /\ loading' = Absent
    /\ UNCHANGED <<wasm_call_stack, frames, attempts, panics>>
    /\ access' = Absent

\* Linking fails, or start-up code traps.  It always does when it calls an
\* import and nothing is on the stack: the import panics.
InstantiationFails ==
    /\ loading # Absent /\ loading.wasi # Absent
    /\ loading' = Absent
    /\ UNCHANGED <<storeVars, wasm_call_stack, frames, attempts, panics>>
    /\ access' = Absent

--------------------------------------------------------------------------
(* Calls. *)

GuestOnTop == frames # <<>> /\ Last(frames).what = "guest"
HostOnTop == frames # <<>> /\ Last(frames).what = "host"

\* The last n frames are gone.
Without(n) == SubSeq(frames, 1, Len(frames) - n)

Pop == SubSeq(wasm_call_stack, 1, Len(wasm_call_stack) - 1)

\* WasmExportFunction::call_async up to Reflect::apply.
Enter(handle) ==
    /\ Len(frames) < MaxDepth
    /\ functions[handle].what = "guest"
    /\ wasm_call_stack' = Append(wasm_call_stack, functions[handle].instance)
    /\ frames' = Append(frames, [what     |-> "guest",
                                 instance |-> functions[handle].instance,
                                 function |-> handle])
    /\ UNCHANGED <<storeVars, loading, attempts, panics>>
    /\ access' = Absent

HostCalls ==
    /\ AtRest
    /\ \E handle \in DOMAIN functions : Enter(handle)

\* A host function looks at the top of the stack for its caller, once.
GuestCallsImport ==
    /\ GuestOnTop
    /\ Len(frames) < MaxDepth
    /\ \E handle \in instances[Last(frames).instance].imports :
        /\ \A i \in DOMAIN frames : frames[i].function # handle
        /\ frames' = Append(frames, [what     |-> "host",
                                     instance |-> Last(wasm_call_stack),
                                     function |-> handle])
    /\ UNCHANGED <<storeVars, wasm_call_stack, loading, attempts, panics>>
    /\ access' = Absent

\* The call returns, with an error when the number of results is not the
\* one that was asked for.
GuestReturns ==
    /\ GuestOnTop
    /\ functions[Last(frames).function].results # "unsupported"
    /\ frames' = Without(1)
    /\ wasm_call_stack' = Pop
    /\ UNCHANGED <<storeVars, loading, attempts, panics>>
    /\ access' = Absent

\* A result of a type that has no WValue panics before the pop.  The
\* exception passes the host function that made the call and the guest code
\* that had called it, and the pop at that level takes the wrong entry.
GuestReturnsUnsupported ==
    /\ GuestOnTop
    /\ functions[Last(frames).function].results = "unsupported"
    /\ panics < MaxPanics
    /\ frames' = IF Len(frames) = 1 THEN <<>> ELSE Without(3)
    /\ wasm_call_stack' = IF Len(frames) = 1 THEN wasm_call_stack ELSE Pop
    /\ panics' = panics + 1
    /\ UNCHANGED <<storeVars, loading, attempts>>
    /\ access' = Absent

\* The slip of leaving call_async by `?' before the pop.
GuestTrapsUnpopped ==
    /\ GuestOnTop
    /\ frames' = Without(1)
    /\ UNCHANGED <<storeVars, wasm_call_stack, loading, attempts, panics>>
    /\ access' = Absent

\* A trap, or a call of a closure that is running already, which
\* wasm-bindgen answers by an exception: Reflect::apply fails, the instance
\* is popped, and the error goes to whoever called.
GuestTraps ==
    /\ GuestOnTop
    /\ frames' = Without(1)
    /\ wasm_call_stack' = Pop
    /\ UNCHANGED <<storeVars, loading, attempts, panics>>
    /\ access' = Absent

HostReturns ==
    /\ HostOnTop
    /\ frames' = Without(1)
    /\ UNCHANGED <<storeVars, wasm_call_stack, loading, attempts, panics>>
    /\ access' = Absent

\* An error of the host function (unwrap_throw) or a panic in it: the guest
\* code below does not go on.
HostThrows ==
    /\ HostOnTop
    /\ frames' = Without(2)
    /\ wasm_call_stack' = Pop
    /\ UNCHANGED <<storeVars, loading, attempts, panics>>
    /\ access' = Absent

\* JsImportCallContext::get_func: an export of the caller, by name, when it
\* is a function.
HostCallsCaller ==
    /\ HostOnTop
    /\ \E name \in DOMAIN instances[Last(frames).instance].exports :
        LET export == instances[Last(frames).instance].exports[name]
        IN  export.kind = "func" /\ Enter(export.handle)

\* The import of another module (create_raw_import): modules link only to
\* modules that were there before them.
HostCallsLinked ==
    /\ HostOnTop
    /\ \E handle \in DOMAIN functions :
        /\ functions[handle].instance \in 1..(Last(frames).instance - 1)
        /\ Enter(handle)

\* The slip of adding without looking for an overflow.
CheckBoundsWrapping(offset, size, memory_size) ==
    (offset + size) % (MaxU32 + 1) < memory_size

\* check_bounds of memory.rs; the last byte of a memory is out of bounds.
CheckBounds(offset, size, memory_size) ==
    /\ offset + size <= MaxU32
    /\ offset + size < memory_size

\* JsImportCallContext::memory and a checked access; without a memory there
\* is no access (unwrap panics: HostThrows).
HostAccesses(offset, size) ==
    LET b == instances[Last(frames).instance].binary
    IN  /\ HostOnTop
        /\ \E i \in DOMAIN b.exports : b.exports[i].kind = "memory"
        /\ CheckBounds(offset, size, b.size)
        /\ access' = [instance |-> Last(frames).instance,
                      guest    |-> frames[Len(frames) - 1].instance,
                      end      |-> offset + size]
        /\ UNCHANGED <<storeVars, wasm_call_stack, loading, frames, attempts, panics>>

Next ==
    \/ \E b \in Binaries : NewModule(b) \/ ModuleRefused(b)
    \/ RegisterImports \/ DuplicateImport \/ AddWasi \/ Instantiate \/ InstantiationFails
    \/ HostCalls \/ GuestCallsImport \/ GuestReturns \/ GuestReturnsUnsupported
    \/ GuestTraps \/ HostReturns \/ HostThrows \/ HostCallsCaller \/ HostCallsLinked
    \/ \E offset, size \in 0..MaxU32 : HostAccesses(offset, size)

Spec == Init /\ [][Next]_vars

--------------------------------------------------------------------------
(* Properties. *)

\* Every variable has its type, and every handle leads to something.
JsTypeOK ==
    /\ wasi_contexts \in Seq({Absent} \cup DOMAIN instances)
    /\ \A i \in DOMAIN instances :
        /\ instances[i].binary \in Binaries
        /\ instances[i].wasi \in DOMAIN wasi_contexts
        /\ instances[i].imports \subseteq DOMAIN functions
        /\ \A name \in DOMAIN instances[i].exports :
            LET export == instances[i].exports[name]
            IN  export.kind = "func" => export.handle \in DOMAIN functions
    /\ \A f \in DOMAIN functions :
        IF functions[f].what = "guest"
        THEN functions[f].instance \in DOMAIN instances
        ELSE functions[f].what = "host" /\ functions[f].instance = Absent
    /\ wasm_call_stack \in Seq(DOMAIN instances)
    /\ Len(frames) <= MaxDepth
    /\ \A i \in DOMAIN frames :
        /\ frames[i].what = (IF i % 2 = 1 THEN "guest" ELSE "host")
        /\ frames[i].instance \in DOMAIN instances
        /\ frames[i].function \in DOMAIN functions
    /\ loading # Absent =>
        /\ frames = <<>>
        /\ loading.wasi \in {Absent} \cup DOMAIN wasi_contexts
        /\ loading.imports \subseteq DOMAIN functions
    /\ attempts \in 0..MaxAttempts
    /\ panics \in 0..MaxPanics

\* The stack holds the instances whose code is executing, in their order,
\* whatever trapped, threw or returned before, and so a host function takes
\* the instance that called it for its caller and calls back into no other.
\* A panic between a push and its pop (a result of an unsupported type) is
\* excepted (JsStoreInner::wasm_call_stack, call_async).
CallerIsExecuting ==
    panics = 0 =>
        /\ Len(wasm_call_stack) = (Len(frames) + 1) \div 2
        /\ \A i \in DOMAIN frames :
            IF i % 2 = 1
            THEN wasm_call_stack[(i + 1) \div 2] = frames[i].instance
            ELSE frames[i].instance = frames[i - 1].instance

\* An export runs in the instance it is an export of, with the signature
\* its binary declares for it: imported functions come first in the index
\* space.  A host function serves one instance only, and WASI functions
\* have the memory of the instance they were made for (build_export_map,
\* extract_exports, bind_to_instance).
ExportsBound ==
    \A i \in DOMAIN instances :
        LET b == instances[i].binary
            imported == FunctionImports(b)
        IN  /\ \A j \in FunctionExports(b) :
                 LET e == b.exports[j]
                     f == functions[instances[i].exports[e.name].handle]
                 IN  /\ f.what = "guest" /\ f.instance = i
                     /\ \/ \E k \in imported :
                             /\ Cardinality({m \in imported : m < k}) = e.index
                             /\ f.results = b.types[b.imports[k].type + 1]
                        \/ /\ e.index >= Cardinality(imported)
                           /\ f.results = b.types[b.functions[e.index - Cardinality(imported) + 1] + 1]
            /\ wasi_contexts[instances[i].wasi] = i
            /\ \A k \in DOMAIN instances \ {i} :
                 instances[i].imports \cap instances[k].imports = {}

\* What a host function reads or writes lies in the memory of the guest
\* that called it, even when the guest's offset and size add up beyond a
\* u32 (check_bounds, JsImportCallContext::memory).
AccessInside ==
    access # Absent =>
        /\ access.end <= instances[access.instance].binary.size
        /\ panics = 0 => access.instance = access.guest

=============================================================================
