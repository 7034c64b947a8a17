------------------------------ MODULE MarineCore ------------------------------
(***************************************************************************)
(* MarineCore (core/src/marine_core.rs) with the modules it loads          *)
(* (core/src/module) on a wasmtime store: the map from names to modules,   *)
(* the stages MModule::new goes through, the links an importer gets to the *)
(* modules loaded before it, unloading, calls and the guest code they run. *)
(*                                                                         *)
(* The store is grow-only.  Load attempt number l creates the objects of   *)
(* attempt l (a WASI context, an instance, a memory and a table), and they *)
(* outlive a failure of the attempt and an unload of the module.  Only the *)
(* map `modules' forgets.                                                  *)
(*                                                                         *)
(* Every operation borrows the core mutably, so at most one load or call   *)
(* is in flight; while guest code runs its future may also be dropped.     *)
(***************************************************************************)
EXTENDS MemoryLimiter, Sequences, FiniteSets

CONSTANTS
    Names,        \* module names
    Funcs,        \* names of exported functions
    Binaries,     \* the Wasm binaries a caller may load
    MemGrowths,   \* arguments of memory.grow, in bytes
    TblGrowths,   \* arguments of table.grow, in entries
    MaxLoads,     \* bound of the model: load attempts on one core
    MaxDepth      \* bound of the model: frames on the stack of calls

(* An import that has an adapter: <<namespace, function>>. *)
Imports == Names \X Funcs

(* What the core tells apart in a binary: its interface, the sizes its     *)
(* memory and table are declared with, and the two start-up exports.       *)
BinaryType ==
    [exports : SUBSET Funcs, imports : SUBSET Imports, memory : BOOLEAN,
     minMem : Nat, maxMem : Nat, minTbl : Nat, maxTbl : Nat,
     initialize : BOOLEAN, start : BOOLEAN]

ASSUME CoreAssumption ==
    /\ MaxLoads \in Nat
    /\ MaxDepth \in Nat
    /\ MemGrowths \subseteq Nat
    /\ TblGrowths \subseteq Nat
    /\ Names # {}
    /\ Binaries # {}
    /\ \A b \in Binaries : b \in BinaryType
    /\ \A b \in Binaries : b.memory \/ (b.minMem = 0 /\ b.maxMem = 0)

LoadIds == 1..MaxLoads
None == 0

Stages == {"absent", "requested", "registered", "instantiated", "linked",
           "initializing", "initialized", "starting", "started",
           "published", "failed"}

(* The stages of an attempt whose imports are linked. *)
LinkedStages == {"linked", "initializing", "initialized", "starting",
                 "started", "published"}

(* "engine" stands for the three MError variants Marine treats as possible *)
(* consequences of a refused allocation (ITInstructionError,               *)
(* HostImportError and WasmBackendError), "other" for the remaining ones.  *)
Errors == {"engine", "other", "NoSuchModule", "NoSuchFunction",
           "NonUniqueModuleName"}
Outcomes == Errors \cup {"none", "ok", "dropped"}

(* A frame is code that runs for an instance: code of the guest -- its      *)
(* start-up functions, an exported function, or a helper that an adapter or *)
(* a host import calls (`allocate', `release_objects', `set_result_ptr',    *)
(* `get_result_ptr', ...) -- or an adapter that the interpreter executes:   *)
(* that of an export before and after its function, that of an import       *)
(* before and after the call of the linked module.                          *)
GuestCode == {"start", "function", "helper"}
ExportAdapter == {"export", "exported"}
ImportAdapter == {"import", "imported"}
Codes == GuestCode \cup ExportAdapter \cup ImportAdapter
Frames == [at : LoadIds, code : Codes]
Frame(l, c) == [at |-> l, code |-> c]

VARIABLES
    modules,   \* name -> attempt whose module is registered under it, or None
    attempts,  \* number of load attempts so far; the last one is in flight
               \* when op = "load"
    stage,     \* how far each attempt got
    name,      \* the name each attempt was made under
    binary,    \* the binary each attempt was given
    links,     \* attempt -> import -> attempt that answers it, or None
    wasi,      \* the WASI contexts of the store, each by the attempt it is for
    wasiOf,    \* index of the context the attempt's WASI functions use
    mem, tbl,  \* bytes and table entries the instance of each attempt holds
    op,        \* the operation in flight
    stack,     \* the frames executing, callers first
    outcome    \* how the last operation ended

coreVars == <<modules, attempts, stage, name, binary, links, wasi, wasiOf,
              mem, tbl, op, stack, outcome>>
loadVars == <<attempts, name, binary>>
vars == <<coreVars, limiterVars>>

TypeOK ==
    /\ LimiterTypeOK
    /\ modules \in [Names -> LoadIds \cup {None}]
    /\ attempts \in 0..MaxLoads
    /\ stage \in [LoadIds -> Stages]
    /\ name \in [LoadIds -> Names]
    /\ binary \in [LoadIds -> Binaries]
    /\ links \in [LoadIds -> [Imports -> LoadIds \cup {None}]]
    /\ wasi \in Seq(LoadIds)
    /\ wasiOf \in [LoadIds -> Nat]
    /\ mem \in [LoadIds -> Nat]
    /\ tbl \in [LoadIds -> Nat]
    /\ op \in {"idle", "load", "call"}
    /\ stack \in Seq(Frames)
    /\ outcome \in Outcomes

(* MarineCore::new: an empty map over a new store with its limit set. *)
Init ==
    /\ LimiterInit
    /\ modules = [n \in Names |-> None]
    /\ attempts = 0
    /\ stage = [l \in LoadIds |-> "absent"]
    /\ name = [l \in LoadIds |-> CHOOSE n \in Names : TRUE]
    /\ binary = [l \in LoadIds |-> CHOOSE b \in Binaries : TRUE]
    /\ links = [l \in LoadIds |-> [i \in Imports |-> None]]
    /\ wasi = <<>>
    /\ wasiOf = [l \in LoadIds |-> 0]
    /\ mem = [l \in LoadIds |-> 0]
    /\ tbl = [l \in LoadIds |-> 0]
    /\ op = "idle"
    /\ stack = <<>>
    /\ outcome = "none"

-----------------------------------------------------------------------------
(* Load: load_module_ and MModule::new.                                    *)

(* The attempt in flight is at stage s and no guest code runs. *)
LoadAt(s) ==
    /\ op = "load"
    /\ stage[attempts] = s
    /\ stack = <<>>

Advance(s) == stage' = [stage EXCEPT ![attempts] = s]

(* The attempt returns an error: what it created stays in the store. *)
FailLoad(error) ==
    /\ Advance("failed")
    /\ op' = "idle"
    /\ outcome' = error

(* Mutant of RequestLoad: the name is taken before MModule::new runs. *)
RequestLoadTakingName(n, b) ==
    /\ op = "idle"
    /\ attempts < MaxLoads
    /\ modules[n] = None
    /\ modules' = [modules EXCEPT ![n] = attempts + 1]
    /\ attempts' = attempts + 1
    /\ stage' = [stage EXCEPT ![attempts + 1] = "requested"]
    /\ name' = [name EXCEPT ![attempts + 1] = n]
    /\ binary' = [binary EXCEPT ![attempts + 1] = b]
    /\ op' = "load"
    /\ outcome' = "none"
    /\ UNCHANGED <<links, wasi, wasiOf, mem, tbl, stack, limiterVars>>

RequestLoad(n, b) ==
    /\ op = "idle"
    /\ attempts < MaxLoads
    /\ attempts' = attempts + 1
    /\ stage' = [stage EXCEPT ![attempts + 1] = "requested"]
    /\ name' = [name EXCEPT ![attempts + 1] = n]
    /\ binary' = [binary EXCEPT ![attempts + 1] = b]
    /\ op' = "load"
    /\ outcome' = "none"
    /\ UNCHANGED <<modules, links, wasi, wasiOf, mem, tbl, stack, limiterVars>>

(* Compilation, the SDK and IT version checks, the IT section, the adapter *)
(* imports or the WASI parameters are refused before the WASI context is   *)
(* pushed.                                                                 *)
RejectBinary(error) ==
    /\ LoadAt("requested")
    /\ FailLoad(error)
    /\ UNCHANGED <<modules, loadVars, links, wasi, wasiOf, mem, tbl, stack,
                   limiterVars>>

(* Mutant of PushWasi: the index is that of the context before. *)
PushWasiOffByOne ==
    /\ wasiOf' = [wasiOf EXCEPT ![attempts] = Len(wasi)]
    /\ wasi' = Append(wasi, attempts)

(* add_wasi_to_linker: the closure captures the index the context will     *)
(* have, then the context is pushed.                                       *)
PushWasi ==
    /\ wasiOf' = [wasiOf EXCEPT ![attempts] = Len(wasi) + 1]
    /\ wasi' = Append(wasi, attempts)

(* add_wit_imports, add_wasi_imports and add_host_imports. *)
RegisterImports ==
    /\ LoadAt("requested")
    /\ PushWasi
    /\ Advance("registered")
    /\ UNCHANGED <<modules, loadVars, links, mem, tbl, op, stack, outcome,
                   limiterVars>>

(* A host import is defined twice: linker.register returns DuplicateImport *)
(* after the WASI context of the attempt was pushed.                       *)
DuplicateHostImport ==
    /\ LoadAt("requested")
    /\ PushWasi
    /\ FailLoad("engine")
    /\ UNCHANGED <<modules, loadVars, links, mem, tbl, stack, limiterVars>>

-----------------------------------------------------------------------------
(* Instantiation: wasmtime resolves the imports of the binary, then asks   *)
(* the limiter for the memory, then for the table, then copies the         *)
(* segments.                                                               *)

MemoryAtStart(b) == MemoryRequest(0, b.minMem)
TableAtStart(b)  == TableRequest(0, b.minTbl)

UnknownWasmImport ==
    /\ LoadAt("registered")
    /\ FailLoad("engine")
    /\ UNCHANGED <<modules, loadVars, links, wasi, wasiOf, mem, tbl, stack,
                   limiterVars>>

InstantiateMemoryRefused ==
    /\ LoadAt("registered")
    /\ Refuse(MemoryAtStart(binary[attempts]))
    /\ FailLoad("engine")
    /\ UNCHANGED <<modules, loadVars, links, wasi, wasiOf, mem, tbl, stack>>

(* The memory was charged and is dropped with the failed instantiation;    *)
(* its bytes are not given back.                                           *)
InstantiateTableRefused ==
    /\ LoadAt("registered")
    /\ Fits(MemoryAtStart(binary[attempts]))
    /\ ~Fits(MemoryAtStart(binary[attempts]) + TableAtStart(binary[attempts]))
    /\ rejects < MaxRejects
    /\ remaining' = remaining - MemoryAtStart(binary[attempts])
    /\ rejects' = rejects + 1
    /\ FailLoad("engine")
    /\ UNCHANGED <<modules, loadVars, links, wasi, wasiOf, mem, tbl, stack>>

AllocateInstance ==
    /\ Charge(MemoryAtStart(binary[attempts]) + TableAtStart(binary[attempts]))
    /\ mem' = [mem EXCEPT ![attempts] = binary[attempts].minMem]
    /\ tbl' = [tbl EXCEPT ![attempts] = binary[attempts].minTbl]

Instantiate ==
    /\ LoadAt("registered")
    /\ AllocateInstance
    /\ Advance("instantiated")
    /\ UNCHANGED <<modules, loadVars, links, wasi, wasiOf, op, stack, outcome>>

(* A data or element segment does not fit: the instance exists already. *)
SegmentTrap ==
    /\ LoadAt("registered")
    /\ AllocateInstance
    /\ FailLoad("engine")
    /\ UNCHANGED <<modules, loadVars, links, wasi, wasiOf, stack>>

-----------------------------------------------------------------------------
(* ITInstance::new and instantiate_exports.                                *)

(* Mutant of Resolvable: the function is not looked up. *)
ResolvableByName(i) == modules[i[1]] # None

(* An importer takes the Arc<Callable> the name resolves to now. *)
Resolvable(i) ==
    /\ modules[i[1]] # None
    /\ i[2] \in binary[modules[i[1]]].exports

LinkImports ==
    /\ LoadAt("instantiated")
    /\ \A i \in binary[attempts].imports : Resolvable(i)
    /\ links' = [links EXCEPT ![attempts] =
                   [i \in Imports |-> IF i \in binary[attempts].imports
                                      THEN modules[i[1]] ELSE None]]
    /\ Advance("linked")
    /\ UNCHANGED <<modules, loadVars, wasi, wasiOf, mem, tbl, op, stack,
                   outcome, limiterVars>>

(* modules.get(import.namespace) or get_callable finds nothing. *)
UnresolvedImport ==
    /\ LoadAt("instantiated")
    /\ \E i \in binary[attempts].imports :
          /\ ~Resolvable(i)
          /\ FailLoad(IF modules[i[1]] = None
                      THEN "NoSuchModule" ELSE "NoSuchFunction")
    /\ UNCHANGED <<modules, loadVars, links, wasi, wasiOf, mem, tbl, stack,
                   limiterVars>>

(* A core export is missing ("engine") or the interface is malformed. *)
MalformedInterface(error) ==
    /\ LoadAt("instantiated")
    /\ FailLoad(error)
    /\ UNCHANGED <<modules, loadVars, links, wasi, wasiOf, mem, tbl, stack,
                   limiterVars>>

(* `_initialize', when the instance exports it. *)
RunInitialize ==
    /\ LoadAt("linked")
    /\ IF binary[attempts].initialize
       THEN Advance("initializing") /\ stack' = <<Frame(attempts, "start")>>
       ELSE Advance("initialized") /\ UNCHANGED stack
    /\ UNCHANGED <<modules, loadVars, links, wasi, wasiOf, mem, tbl, op,
                   outcome, limiterVars>>

(* `_start', when the instance exports it. *)
RunStart ==
    /\ LoadAt("initialized")
    /\ IF binary[attempts].start
       THEN Advance("starting") /\ stack' = <<Frame(attempts, "start")>>
       ELSE Advance("started") /\ UNCHANGED stack
    /\ UNCHANGED <<modules, loadVars, links, wasi, wasiOf, mem, tbl, op,
                   outcome, limiterVars>>

(* Mutant of InsertModule: HashMap::insert replaces what the name had. *)
InsertModuleReplacing ==
    /\ LoadAt("started")
    /\ modules' = [modules EXCEPT ![name[attempts]] = attempts]
    /\ Advance("published")
    /\ op' = "idle"
    /\ outcome' = "ok"
    /\ UNCHANGED <<loadVars, links, wasi, wasiOf, mem, tbl, stack, limiterVars>>

(* modules.entry(name) is vacant. *)
InsertModule ==
    /\ LoadAt("started")
    /\ modules[name[attempts]] = None
    /\ modules' = [modules EXCEPT ![name[attempts]] = attempts]
    /\ Advance("published")
    /\ op' = "idle"
    /\ outcome' = "ok"
    /\ UNCHANGED <<loadVars, links, wasi, wasiOf, mem, tbl, stack, limiterVars>>

(* The name is looked up only after the module has been started. *)
NonUniqueName ==
    /\ LoadAt("started")
    /\ modules[name[attempts]] # None
    /\ FailLoad("NonUniqueModuleName")
    /\ UNCHANGED <<modules, loadVars, links, wasi, wasiOf, mem, tbl, stack,
                   limiterVars>>

-----------------------------------------------------------------------------
(* unload_module, call_async and clear_allocation_stats.                   *)

UnloadModule(n) ==
    /\ op = "idle"
    /\ outcome' = IF modules[n] = None THEN "NoSuchModule" ELSE "ok"
    /\ modules' = [modules EXCEPT ![n] = None]
    /\ UNCHANGED <<loadVars, stage, links, wasi, wasiOf, mem, tbl, op, stack,
                   limiterVars>>

(* The adapter of the function starts (Callable::call_async).               *)
Call(n, f) ==
    /\ op = "idle"
    /\ modules[n] # None
    /\ f \in binary[modules[n]].exports
    /\ op' = "call"
    /\ stack' = <<Frame(modules[n], "export")>>
    /\ outcome' = "none"
    /\ UNCHANGED <<modules, loadVars, stage, links, wasi, wasiOf, mem, tbl,
                   limiterVars>>

CallRefused(n, f) ==
    /\ op = "idle"
    /\ \/ modules[n] = None /\ outcome' = "NoSuchModule"
       \/ /\ modules[n] # None
          /\ f \notin binary[modules[n]].exports
          /\ outcome' = "NoSuchFunction"
    /\ UNCHANGED <<modules, loadVars, stage, links, wasi, wasiOf, mem, tbl, op,
                   stack, limiterVars>>

ClearAllocationStats ==
    /\ op = "idle"
    /\ ClearStats
    /\ UNCHANGED coreVars

-----------------------------------------------------------------------------
(* Guest code, run by a call or by the start-up functions of a load, and   *)
(* the adapters around it.                                                 *)

Running == stack # <<>>
Top == stack[Len(stack)].at
TopCode == stack[Len(stack)].code
Popped == SubSeq(stack, 1, Len(stack) - 1)
InGuest == Running /\ TopCode \in GuestCode
FrameVars == <<modules, loadVars, stage, links, wasi, wasiOf, op, stack, outcome>>

(* memory.grow: wasmtime asks the limiter first and checks the memory's    *)
(* own maximum afterwards; a growth beyond it fails but stays charged.     *)
GuestGrowMemory(bytes) ==
    /\ InGuest
    /\ binary[Top].memory
    /\ Charge(MemoryRequest(mem[Top], mem[Top] + bytes))
    /\ mem' = IF mem[Top] + bytes <= binary[Top].maxMem
              THEN [mem EXCEPT ![Top] = @ + bytes] ELSE mem
    /\ UNCHANGED <<FrameVars, tbl>>

GuestGrowTable(entries) ==
    /\ InGuest
    /\ binary[Top].maxTbl > 0
    /\ Charge(TableRequest(tbl[Top], tbl[Top] + entries))
    /\ tbl' = IF tbl[Top] + entries <= binary[Top].maxTbl
              THEN [tbl EXCEPT ![Top] = @ + entries] ELSE tbl
    /\ UNCHANGED <<FrameVars, mem>>

(* The guest sees -1 and goes on. *)
GuestMemoryRefused(bytes) ==
    /\ InGuest
    /\ binary[Top].memory
    /\ Refuse(MemoryRequest(mem[Top], mem[Top] + bytes))
    /\ UNCHANGED <<FrameVars, mem, tbl>>

GuestTableRefused(entries) ==
    /\ InGuest
    /\ binary[Top].maxTbl > 0
    /\ Refuse(TableRequest(tbl[Top], tbl[Top] + entries))
    /\ UNCHANGED <<FrameVars, mem, tbl>>

(* Only the stack moves.  The bound stands for the guest stack of          *)
(* wasmtime, whose overflow is a trap.                                     *)
StackMoves ==
    UNCHANGED <<modules, loadVars, stage, links, wasi, wasiOf, mem, tbl, op,
                outcome, limiterVars>>

(* The frame on top turns to this code and starts this frame above it. *)
Enter(code, frame) ==
    /\ Len(stack) < MaxDepth
    /\ stack' = Append([stack EXCEPT ![Len(stack)].code = code], frame)
    /\ StackMoves

(* Guest code calls an import that has an adapter: the closure of the      *)
(* import runs the importer's own adapter.                                 *)
GuestCallImport ==
    /\ InGuest
    /\ \E i \in Imports : links[Top][i] # None
    /\ Enter(TopCode, Frame(Top, "import"))

(* Mutant of CallLinked: the namespace is resolved when called. *)
CallLinkedByName(i) ==
    /\ Running
    /\ TopCode = "import"
    /\ links[Top][i] # None
    /\ modules[i[1]] # None
    /\ Enter("imported", Frame(modules[i[1]], "export"))

(* The adapter of an import has lifted the arguments and calls the export  *)
(* of the linked module (call_core).                                       *)
CallLinked(i) ==
    /\ Running
    /\ TopCode = "import"
    /\ links[Top][i] # None
    /\ Enter("imported", Frame(links[Top][i], "export"))

(* The adapter of an export has lowered the arguments and calls its        *)
(* function.                                                               *)
CallExported ==
    /\ Running
    /\ TopCode = "export"
    /\ Enter("exported", Frame(Top, "function"))

(* An adapter calls a helper of its own instance, to lower into or to lift *)
(* from its memory; so does a host import that guest code calls.           *)
EnterHelper ==
    /\ Running
    /\ Enter(TopCode, Frame(Top, "helper"))

(* Guest code, or an adapter whose function has returned, is done: it      *)
(* returns to the frame below, or ends the operation: a call succeeds, a   *)
(* load goes on with its next stage.                                       *)
GuestReturn ==
    /\ Running
    /\ TopCode \in GuestCode \cup {"exported", "imported"}
    /\ stack' = Popped
    /\ IF Len(stack) > 1
       THEN UNCHANGED <<stage, op, outcome>>
       ELSE \/ /\ op = "call"
               /\ op' = "idle"
               /\ outcome' = "ok"
               /\ UNCHANGED stage
            \/ /\ op = "load"
               /\ Advance(IF stage[attempts] = "initializing"
                          THEN "initialized" ELSE "started")
               /\ UNCHANGED <<op, outcome>>
    /\ UNCHANGED <<modules, loadVars, links, wasi, wasiOf, mem, tbl, limiterVars>>

(* Mutant of Unwind: the load is not marked as failed. *)
UnwindForgettingLoad(result) ==
    /\ Running
    /\ stack' = <<>>
    /\ op' = "idle"
    /\ outcome' = result
    /\ UNCHANGED <<modules, loadVars, stage, links, wasi, wasiOf, mem, tbl,
                   limiterVars>>

(* All frames are unwound and the operation ends with this outcome. *)
Unwind(result) ==
    /\ Running
    /\ stack' = <<>>
    /\ op' = "idle"
    /\ outcome' = result
    /\ IF op = "load" THEN Advance("failed") ELSE UNCHANGED stage
    /\ UNCHANGED <<modules, loadVars, links, wasi, wasiOf, mem, tbl, limiterVars>>

(* A trap, or an error of an adapter or of a host import: the error leaves *)
(* through every importer on the stack.                                    *)
GuestTrap == Unwind("engine")

(* The caller drops the future while the guest is suspended at an epoch    *)
(* yield.                                                                  *)
DropFuture == Unwind("dropped")

-----------------------------------------------------------------------------

LoadStep ==
    \/ \E n \in Names, b \in Binaries : RequestLoad(n, b)
    \/ \E e \in {"engine", "other"} : RejectBinary(e) \/ MalformedInterface(e)
    \/ RegisterImports \/ DuplicateHostImport
    \/ UnknownWasmImport \/ InstantiateMemoryRefused \/ InstantiateTableRefused
    \/ Instantiate \/ SegmentTrap
    \/ LinkImports \/ UnresolvedImport
    \/ RunInitialize \/ RunStart
    \/ InsertModule \/ NonUniqueName

GuestStep ==
    \/ \E d \in MemGrowths : GuestGrowMemory(d) \/ GuestMemoryRefused(d)
    \/ \E d \in TblGrowths : GuestGrowTable(d) \/ GuestTableRefused(d)
    \/ GuestCallImport \/ CallExported \/ EnterHelper
    \/ \E i \in Imports : CallLinked(i)
    \/ GuestReturn \/ GuestTrap \/ DropFuture

ApiStep ==
    \/ \E n \in Names : UnloadModule(n)
    \/ \E n \in Names, f \in Funcs : Call(n, f) \/ CallRefused(n, f)
    \/ ClearAllocationStats

Next == LoadStep \/ GuestStep \/ ApiStep

Spec == Init /\ [][Next]_vars

-----------------------------------------------------------------------------
(* Properties.                                                             *)

(* The bytes held by an instance, as a set of units so that the sum over   *)
(* all instances is a cardinality.                                         *)
Held(l) == mem[l] + tbl[l] * EntrySize
Units(l) == {l} \X (1..Held(l))
HeldUnits == UNION {Units(l) : l \in LoadIds}

(* The memories and tables of all the instances the store ever created,    *)
(* those of unloaded modules and of failed loads included, fit together in *)
(* what the limiter has handed out, hence in the limit: no order of loads, *)
(* unloads, growths, refusals and failures overcommits (try_alloc).        *)
BudgetCoversInstances == Cardinality(HeldUnits) <= TotalLimit - remaining

(* A name resolves to a module that was loaded under that name and whose   *)
(* start-up code ran to completion: a load that fails or is dropped at any *)
(* stage is never visible to a caller or to an importer.                   *)
PublishedReady ==
    \A n \in Names : modules[n] # None =>
        /\ stage[modules[n]] = "published"
        /\ name[modules[n]] = n

(* Each import of a linked module stays answered by a completely loaded    *)
(* module that was published, before it, under the namespace of the        *)
(* import, and that exports the function -- after that name is unloaded,   *)
(* or loaded again with other code, too (get_callable clones the Arc).     *)
ImportsAnswered ==
    \A l \in LoadIds : stage[l] \in LinkedStages =>
        \A i \in binary[l].imports :
            /\ links[l][i] \in 1..(l - 1)
            /\ stage[links[l][i]] = "published"
            /\ name[links[l][i]] = i[1]
            /\ i[2] \in binary[links[l][i]].exports

(* No module is called back: however names are unloaded and loaded again,  *)
(* an export is only ever called of an instance older than all those on    *)
(* the stack.  A function's result waits in globals of its instance until  *)
(* the adapter above it has read them by calls of their own                *)
(* (get_result_ptr, get_result_size), and the instance's memory holds what *)
(* it lends, so a second call of an executing instance would overwrite the *)
(* result of the first.  What an executing instance is entered again for   *)
(* are its own helpers, by its own adapters, on top of it                  *)
(* (create_raw_import, Callable::call_async).                              *)
NoCallback ==
    \A j, k \in 1..Len(stack) : j < k =>
        /\ stack[k].at <= stack[j].at
        /\ stack[k].code \in ExportAdapter => stack[k].at < stack[j].at

(* Code runs only in modules that are completely loaded, except the module *)
(* being loaded: its start-up functions, their imports and what helpers    *)
(* those need, but no function that it exports (start_func).               *)
FramesReady ==
    \A k \in 1..Len(stack) :
        \/ stage[stack[k].at] = "published"
        \/ /\ op = "load"
           /\ stack[k].at = attempts
           /\ stack[k].code \in {"start", "helper"} \cup ImportAdapter
           /\ stage[attempts] \in {"initializing", "starting"}

(* The WASI functions of a module use the context built from its own       *)
(* configuration, whatever attempts failed between (add_wasi_to_linker).   *)
OwnWasi ==
    \A l \in LoadIds :
        /\ stage[l] \in {"registered", "instantiated"} \cup LinkedStages =>
              wasiOf[l] # 0
        /\ wasiOf[l] # 0 => /\ wasiOf[l] \in 1..Len(wasi)
                            /\ wasi[wasiOf[l]] = l

(* What the invariants above rest on.  An operation is in flight exactly    *)
(* while an attempt is between its first and its last stage or guest code  *)
(* runs; ...                                                               *)
AtRest == {"absent", "published", "failed"}

InFlight ==
    /\ op = "load" => attempts \in LoadIds /\ stage[attempts] \notin AtRest
    /\ \A l \in LoadIds : op # "load" \/ l # attempts => stage[l] \in AtRest
    /\ op = "idle" => stack = <<>>
    /\ op = "load" /\ stack # <<>> =>
          stage[attempts] \in {"initializing", "starting"}

(* ... an attempt that was not made, or did not get so far, left no trace  *)
(* in the store; ...                                                       *)
NoTraceBefore ==
    \A l \in LoadIds :
        /\ l > attempts => stage[l] = "absent" /\ wasiOf[l] = 0
        /\ stage[l] \in {"absent", "requested", "registered"} =>
              mem[l] = 0 /\ tbl[l] = 0

(* ... and a module has links for the imports of its own binary only.      *)
OnlyItsImports ==
    \A l \in LoadIds, i \in Imports :
        links[l][i] # None => /\ i \in binary[l].imports
                              /\ stage[l] \in LinkedStages \cup {"failed"}

(* Between two operations nothing is half done: the bookkeeping above,     *)
(* which holds across failures, traps and dropped futures.                 *)
Bookkeeping == InFlight /\ NoTraceBefore /\ OnlyItsImports

(* MModule::memory_size panics unless each registered module has a memory; *)
(* its message says that MModule::new has checked it.                      *)
EveryModuleHasMemory ==
    \A n \in Names : modules[n] # None => binary[modules[n]].memory

(* The core as its callers see it: a registry of names that never replaces *)
(* a module silently and never publishes one twice, over a budget that is  *)
(* only ever spent (module ModuleRegistry).                                *)
Registry == INSTANCE ModuleRegistry WITH
    Ids    <- LoadIds,
    Budget <- TotalLimit,
    table  <- modules,
    issued <- {l \in LoadIds : stage[l] = "published"},
    spent  <- TotalLimit - remaining

ImplementsRegistry == Registry!RegistrySpec

=============================================================================
