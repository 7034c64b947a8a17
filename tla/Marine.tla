-------------------------------- MODULE Marine --------------------------------
(***************************************************************************)
(* Marine (marine/src/marine.rs) over MarineCore: construction from a      *)
(* configuration, calls with interface values and with JSON, the raw       *)
(* module API, the call parameters the guest code reads, the cache of      *)
(* module interfaces, and the classification of errors as out of memory.   *)
(*                                                                         *)
(* A Marine operation is asynchronous.  Its synchronous prefix, up to the  *)
(* call of the core, is one action; the core then takes its own steps; and *)
(* when it has ended its operation, Marine settles its own.                *)
(***************************************************************************)
EXTENDS MarineCore

CONSTANTS
    Particles,   \* values of the call parameters a caller may pass
    Unset,       \* CallParameters::default()
    Configs      \* configurations: load order and the binaries provided

(* A configuration names the modules to load in order and provides a       *)
(* binary for some names.                                                  *)
ConfigType == [order : Seq(Names), files : UNION {[S -> Binaries] : S \in SUBSET Names}]

ASSUME MarineAssumption == \A c \in Configs : c \in ConfigType

Versions == {"v0", "v1", "v2", "v3"}  \* SDK versions of the call parameters
Keys == Names \cup Funcs              \* strings the interface cache is keyed by

Replies == {"none", "ok", "dropped", "panic", "InstantiationError",
            "InvalidConfig", "NoSuchModule", "MissingFunctionError",
            "JsonArgumentsDeserializationError", "JsonOutputSerializationError",
            "EngineError", "HighProbabilityOOM"}

VARIABLES
    config,    \* the configuration Marine is built from
    built,     \* how many of its modules were taken up
    phase,     \* "building", "ready", or "gone": no Marine (any more)
    request,   \* the Marine operation in flight
    params,    \* SDK version -> the call parameters the guest code reads
    cache,     \* module_interfaces_cache: key -> module of the interface
    iface,     \* module whose interface converted the JSON arguments
    refused,   \* an allocation was refused since the request was made
    reply      \* how the last Marine operation ended

callVars  == <<params, cache, iface>>
buildVars == <<config, built, phase>>
ownVars   == <<buildVars, callVars, request, refused, reply>>
marineVars == <<vars, ownVars>>

MarineTypeOK ==
    /\ config \in Configs
    /\ built \in 0..Len(config.order)
    /\ phase \in {"building", "ready", "gone"}
    /\ request \in {"none", "load", "ivalues", "json"}
    /\ params \in [Versions -> Particles \cup {Unset}]
    /\ cache \in [Keys -> LoadIds \cup {None}]
    /\ iface \in LoadIds \cup {None}
    /\ refused \in BOOLEAN
    /\ reply \in Replies

MarineInit ==
    /\ Init
    /\ config \in Configs
    /\ built = 0
    /\ phase = "building"
    /\ request = "none"
    /\ params = [v \in Versions |-> Unset]
    /\ cache = [k \in Keys |-> None]
    /\ iface = None
    /\ refused = FALSE
    /\ reply = "none"

Idle == request = "none"

(* A request that reaches the core. *)
Begin(kind) ==
    /\ request' = kind
    /\ refused' = FALSE
    /\ reply' = "none"

(* A request that ends before the core is involved. *)
Answer(result) ==
    /\ reply' = result
    /\ refused' = FALSE
    /\ UNCHANGED <<vars, request>>

-----------------------------------------------------------------------------
(* Errors: check_for_oom_and_convert_error.                                *)

(* module_memory_stats asks every registered module for its memory. *)
StatsPanic == \E n \in Names : modules[n] # None /\ ~binary[modules[n]].memory

(* Mutant of Converted: one refusal is not enough. *)
ConvertedOffByOne(error) ==
    IF StatsPanic THEN "panic"
    ELSE IF rejects > 1 /\ error = "engine" THEN "HighProbabilityOOM"
    ELSE "EngineError"

Converted(error) ==
    IF StatsPanic THEN "panic"
    ELSE IF rejects > 0 /\ error = "engine" THEN "HighProbabilityOOM"
    ELSE "EngineError"

-----------------------------------------------------------------------------
(* Construction: with_modules.                                             *)

NextName == config.order[built + 1]

(* `modules.remove' takes the binary: a name is provided once. *)
Provided == DOMAIN config.files \ {config.order[k] : k \in 1..built}

Building == phase = "building" /\ Idle /\ built < Len(config.order)

LoadConfigured ==
    /\ Building
    /\ NextName \in Provided
    /\ built' = built + 1
    /\ Begin("load")
    /\ RequestLoad(NextName, config.files[NextName])
    /\ UNCHANGED <<config, phase, callVars>>

(* No binary is left for the name, or make_marine_config refuses its       *)
(* configuration.                                                          *)
ConfiguredModuleInvalid ==
    /\ Building
    /\ \/ NextName \notin Provided /\ Answer("InstantiationError")
       \/ NextName \in Provided /\ Answer("InvalidConfig")
    /\ phase' = "gone"
    /\ UNCHANGED <<config, built, callVars>>

BuildDone ==
    /\ phase = "building"
    /\ Idle
    /\ built = Len(config.order)
    /\ phase' = "ready"
    /\ Answer("ok")
    /\ UNCHANGED <<config, built, callVars>>

-----------------------------------------------------------------------------
(* The raw module API.                                                     *)

Ready == phase = "ready" /\ Idle

LoadModule(n, b) ==
    /\ Ready
    /\ Begin("load")
    /\ RequestLoad(n, b)
    /\ UNCHANGED <<buildVars, callVars>>

LoadInvalidConfig ==
    /\ Ready
    /\ Answer("InvalidConfig")
    /\ UNCHANGED <<buildVars, callVars>>

(* The cache is left alone. *)
Unload(n) ==
    /\ Ready
    /\ UnloadModule(n)
    /\ reply' = IF modules[n] = None THEN "EngineError" ELSE "ok"
    /\ refused' = FALSE
    /\ UNCHANGED <<buildVars, callVars, request>>

-----------------------------------------------------------------------------
(* Calls.                                                                  *)

Exports(l) == binary[l].exports

(* Mutant of UpdateCallParameters: an old version is dropped. *)
UpdateWithoutV0(p) == params' = [v \in Versions \ {"v0"} |-> p]

(* update_call_parameters: one cell for each SDK version. *)
UpdateCallParameters(p) == params' = [v \in Versions |-> p]

(* lookup_module_interface finds the function in a cached interface, ... *)
CacheHit(n, f) ==
    /\ cache[n] # None
    /\ f \in Exports(cache[n])
    /\ iface' = cache[n]
    /\ UNCHANGED cache

(* Mutant of CacheMiss: cached by module_name, as it is looked up. *)
CacheMissByModule(n, f) ==
    /\ cache[n] = None
    /\ modules[n] # None
    /\ f \in Exports(modules[n])
    /\ iface' = modules[n]
    /\ cache' = [cache EXCEPT ![n] = modules[n]]

(* ... or takes the interface from the core and caches it by func_name. *)
CacheMiss(n, f) ==
    /\ cache[n] = None
    /\ modules[n] # None
    /\ f \in Exports(modules[n])
    /\ iface' = modules[n]
    /\ cache' = [cache EXCEPT ![f] = modules[n]]

LookupModuleInterface(n, f) == CacheHit(n, f) \/ CacheMiss(n, f)

CallWithIValues(n, f, p) ==
    /\ Ready
    /\ UpdateCallParameters(p)
    /\ Begin("ivalues")
    /\ Call(n, f) \/ CallRefused(n, f)
    /\ UNCHANGED <<buildVars, cache, iface>>

CallWithJson(n, f, p) ==
    /\ Ready
    /\ LookupModuleInterface(n, f)
    /\ UpdateCallParameters(p)
    /\ Begin("json")
    /\ Call(n, f) \/ CallRefused(n, f)
    /\ UNCHANGED buildVars

(* The JSON does not fit the signature that was looked up. *)
JsonArgumentsRejected(n, f) ==
    /\ Ready
    /\ LookupModuleInterface(n, f)
    /\ Answer("JsonArgumentsDeserializationError")
    /\ UNCHANGED <<buildVars, params>>

InterfaceMissing(n, f) ==
    /\ Ready
    /\ \/ /\ cache[n] # None
          /\ f \notin Exports(cache[n])
          /\ Answer("MissingFunctionError")
       \/ /\ cache[n] = None
          /\ modules[n] # None
          /\ f \notin Exports(modules[n])
          /\ Answer("MissingFunctionError")
       \/ /\ cache[n] = None
          /\ modules[n] = None
          /\ Answer("NoSuchModule")
    /\ UNCHANGED <<buildVars, callVars>>

-----------------------------------------------------------------------------
(* The core at work, and the end of a request.                             *)

CoreRuns ==
    /\ ~Idle
    /\ op # "idle"
    /\ LoadStep \/ GuestStep
    /\ refused' = (refused \/ rejects' > rejects)
    /\ UNCHANGED <<buildVars, callVars, request, reply>>

Settling == ~Idle /\ op = "idle"

End(result) ==
    /\ request' = "none"
    /\ reply' = result
    /\ UNCHANGED <<config, built, callVars, refused>>

(* A call succeeded: the statistics are cleared, then JSON is made of its  *)
(* results, which fails when they do not fit the cached output types.      *)
CallSucceeded ==
    /\ Settling
    /\ request # "load"
    /\ outcome = "ok"
    /\ ClearAllocationStats
    /\ \/ End("ok")
       \/ request = "json" /\ End("JsonOutputSerializationError")
    /\ UNCHANGED phase

(* A load succeeded: the statistics stay as they are. *)
LoadSucceeded ==
    /\ Settling
    /\ request = "load"
    /\ outcome = "ok"
    /\ End("ok")
    /\ UNCHANGED <<vars, phase>>

(* Mutant of RequestFailed: the construction goes on with the next module. *)
RequestFailedIgnored ==
    /\ Settling
    /\ outcome \in Errors
    /\ End(Converted(outcome))
    /\ phase' = IF StatsPanic THEN "gone" ELSE phase
    /\ UNCHANGED vars

(* An error ends the construction; a Marine that was built lives on, with  *)
(* the statistics the core has, unless the conversion panics.              *)
RequestFailed ==
    /\ Settling
    /\ outcome \in Errors
    /\ End(Converted(outcome))
    /\ phase' = IF phase = "building" \/ StatsPanic THEN "gone" ELSE phase
    /\ UNCHANGED vars

(* The caller dropped the future of the request. *)
RequestDropped ==
    /\ Settling
    /\ outcome = "dropped"
    /\ End("dropped")
    /\ phase' = IF phase = "building" THEN "gone" ELSE phase
    /\ UNCHANGED vars

MarineNext ==
    \/ LoadConfigured \/ ConfiguredModuleInvalid \/ BuildDone
    \/ \E n \in Names, b \in Binaries : LoadModule(n, b)
    \/ \E n \in Names : Unload(n)
    \/ LoadInvalidConfig
    \/ \E n \in Names, f \in Funcs :
          \/ \E p \in Particles : CallWithIValues(n, f, p) \/ CallWithJson(n, f, p)
          \/ JsonArgumentsRejected(n, f)
          \/ InterfaceMissing(n, f)
    \/ CoreRuns
    \/ CallSucceeded \/ LoadSucceeded \/ RequestFailed \/ RequestDropped

MarineSpec == MarineInit /\ [][MarineNext]_marineVars

-----------------------------------------------------------------------------
(* Properties.                                                             *)

(* The module that a call of Marine has entered. *)
Called == stack[1].at

(* The JSON arguments of a call were converted with the interface of the   *)
(* very module that runs, whatever was unloaded and loaded again since an  *)
(* interface was cached ("Cached module interfaces by names.",             *)
(* lookup_module_interface).                                               *)
CallUsesItsInterface ==
    request = "json" /\ op = "call" => iface = Called

(* What the code keeps of it.  Interfaces are cached under the names of    *)
(* functions and never dropped, and they are searched by the names of      *)
(* modules: a call is converted with another interface than that of the    *)
(* module that runs -- that of an unloaded one, even -- only if it is of a *)
(* completely loaded module with a function of the called module's name.   *)
(* Elsewhere neither an unload nor a load under an old name brings a stale *)
(* interface back (lookup_module_interface).                               *)
ForeignInterfaceByClash ==
    request = "json" /\ op = "call" /\ iface # Called =>
        /\ iface # None
        /\ stage[iface] = "published"
        /\ name[Called] \in Exports(iface)

(* No out-of-memory goes unnoticed: a request during which the limiter     *)
(* refused an allocation, and which failed in the engine, is not reported  *)
(* as an ordinary error (check_for_oom_and_convert_error).                 *)
RefusalNeverMissed == reply = "EngineError" /\ refused => outcome # "engine"

(* A suspicion of out-of-memory is about the request that failed: an       *)
(* allocation was refused while it ran ("When marine returned an error and *)
(* there was a rejected allocation", marine/src/errors.rs).                *)
SuspicionIsRecent == reply = "HighProbabilityOOM" => refused

(* Construction ends with all modules of the configuration registered,     *)
(* each with the binary provided for it, and in the order of the           *)
(* configuration: no failed load is passed over (with_modules).            *)
ReadyIsComplete ==
    [][phase = "building" /\ phase' = "ready" =>
         \A k \in DOMAIN config.order :
            /\ modules[config.order[k]] = k
            /\ binary[k] = config.files[config.order[k]]]_marineVars

=============================================================================
