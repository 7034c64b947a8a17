----------------------------- MODULE MarineProofs -----------------------------
(***************************************************************************)
(* Proofs about Marine, for every value of its constants.                  *)
(***************************************************************************)
EXTENDS Marine, MarineCoreProofs

(* How the operation of Marine in flight relates to that of the core. *)
RequestInFlight ==
    /\ request \in {"none", "load", "ivalues", "json"}
    /\ request = "none" => op = "idle"
    /\ request = "load" => op \in {"idle", "load"}
    /\ request \in {"ivalues", "json"} => op \in {"idle", "call"}
    /\ op = "call" => stack # <<>>

(* A refusal of the request in flight is still counted; one of a request   *)
(* that failed was not taken for an ordinary error.                        *)
RefusalCounted ==
    /\ refused \in BOOLEAN
    /\ request # "none" => reply = "none"
    /\ request # "none" /\ refused => rejects > 0

(* What is cached under a key is the interface of a module that was loaded *)
(* completely and exports a function of that name.                         *)
CacheExplained ==
    \A k \in Keys : cache[k] # None =>
        /\ stage[cache[k]] = "published"
        /\ k \in Exports(cache[k])

MarineInv ==
    /\ CoreInv
    /\ MarineTypeOK
    /\ RequestInFlight
    /\ RefusalCounted
    /\ RefusalNeverMissed

-----------------------------------------------------------------------------
(* Every step of Marine is a step of the core or none.                     *)

LEMMA ConfiguredLoad ==
  ASSUME MarineTypeOK, LoadConfigured
  PROVE  NextName \in Names /\ config.files[NextName] \in Binaries
<1>1. config \in ConfigType
  BY MarineAssumption DEF MarineTypeOK
<1>2. PICK S \in SUBSET Names : config.files \in [S -> Binaries]
  BY <1>1 DEF ConfigType
<1>3. NextName \in S
  BY <1>2 DEF LoadConfigured, Provided
<1> QED
  BY <1>2, <1>3

LEMMA BelowMarine ==
  ASSUME MarineTypeOK, MarineNext
  PROVE  Next \/ UNCHANGED vars
<1>1. CASE LoadConfigured
  BY <1>1, ConfiguredLoad DEF LoadConfigured, Next, LoadStep
<1>2. CASE ConfiguredModuleInvalid \/ BuildDone \/ LoadInvalidConfig
  BY <1>2 DEF ConfiguredModuleInvalid, BuildDone, LoadInvalidConfig, Answer
<1>3. ASSUME NEW n \in Names, NEW b \in Binaries, LoadModule(n, b)
      PROVE  Next
  BY <1>3 DEF LoadModule, Next, LoadStep
<1>4. ASSUME NEW n \in Names, Unload(n)
      PROVE  Next
  BY <1>4 DEF Unload, Next, ApiStep
<1>5. ASSUME NEW n \in Names, NEW f \in Funcs, NEW p \in Particles,
             CallWithIValues(n, f, p) \/ CallWithJson(n, f, p)
      PROVE  Next
  BY <1>5 DEF CallWithIValues, CallWithJson, Next, ApiStep
<1>6. ASSUME NEW n \in Names, NEW f \in Funcs,
             JsonArgumentsRejected(n, f) \/ InterfaceMissing(n, f)
      PROVE  UNCHANGED vars
  BY <1>6 DEF JsonArgumentsRejected, InterfaceMissing, Answer
<1>7. CASE CoreRuns
  BY <1>7 DEF CoreRuns, Next
<1>8. CASE CallSucceeded
  BY <1>8 DEF CallSucceeded, Next, ApiStep
<1>9. CASE LoadSucceeded \/ RequestFailed \/ RequestDropped
  BY <1>9 DEF LoadSucceeded, RequestFailed, RequestDropped
<1> QED
  BY <1>1, <1>2, <1>3, <1>4, <1>5, <1>6, <1>7, <1>8, <1>9 DEF MarineNext

LEMMA CoreInvBelow ==
  ASSUME CoreInv, MarineTypeOK, MarineNext
  PROVE  CoreInv'
BY BelowMarine, CoreInvNext, CoreInvStutter

-----------------------------------------------------------------------------
(* What the core does while a request of Marine is in flight.              *)

LEMMA CoreAtWork ==
  ASSUME TypeOK, InFlight, LoadStep \/ GuestStep, op # "idle"
  PROVE  /\ op' \in {"idle", op}
         /\ op' = "call" /\ stack # <<>> =>
              stack' # <<>> /\ stack'[1].at = stack[1].at
         /\ rejects \in Nat
         /\ rejects' \in Nat /\ rejects' >= rejects
<1>1. rejects \in Nat
  BY Constants DEF TypeOK, LimiterTypeOK
<1>2. CASE LoadStep
  <2>1. op = "load" /\ op' \in {"idle", "load"}
    BY <1>2 DEF LoadStep, RequestLoad, RejectBinary, MalformedInterface,
       RegisterImports, DuplicateHostImport, UnknownWasmImport,
       InstantiateMemoryRefused, InstantiateTableRefused, Instantiate,
       SegmentTrap, LinkImports, UnresolvedImport, RunInitialize, RunStart,
       InsertModule, NonUniqueName, LoadAt, FailLoad
  <2>2. rejects' \in {rejects, rejects + 1}
    BY <1>2 DEF LoadStep, RequestLoad, RejectBinary, MalformedInterface,
       RegisterImports, DuplicateHostImport, UnknownWasmImport,
       InstantiateMemoryRefused, InstantiateTableRefused, Instantiate,
       SegmentTrap, LinkImports, UnresolvedImport, RunInitialize, RunStart,
       InsertModule, NonUniqueName, AllocateInstance, Charge, Refuse, limiterVars
  <2> QED
    BY <1>1, <2>1, <2>2
<1>3. CASE GuestStep
  <2>1. rejects' \in {rejects, rejects + 1}
    BY <1>3 DEF GuestStep, GuestGrowMemory, GuestMemoryRefused, GuestGrowTable,
       GuestTableRefused, GuestCallImport, CallExported,
       EnterHelper, CallLinked, Enter, StackMoves, GuestReturn, GuestTrap, DropFuture,
       Unwind, Charge, Refuse, limiterVars
  <2>2. Running
    BY <1>3 DEF GuestStep, GuestGrowMemory, GuestMemoryRefused, GuestGrowTable,
       GuestTableRefused, GuestCallImport, CallExported,
       EnterHelper, CallLinked, Enter, StackMoves, GuestReturn, GuestTrap, DropFuture,
       Unwind, InGuest
  <2>3. CASE GuestReturn
    <3>1. op' \in {"idle", op}
      BY <2>3 DEF GuestReturn
    <3>2. ASSUME op' = "call" PROVE stack' # <<>> /\ stack'[1].at = stack[1].at
      <4>1. Len(stack) > 1
        BY <2>3, <3>2, <2>2, StackFacts DEF GuestReturn
      <4>2. Len(Popped) >= 1 /\ Popped[1] = stack[1]
        BY <4>1, <2>2, StackFacts
      <4> QED
        BY <2>3, <4>2, EmptySeq DEF GuestReturn
    <3> QED
      BY <1>1, <2>1, <3>1, <3>2
  <2>4. CASE EnterStep
    <3>1. PICK code \in Codes, frame \in Frames : Enters(code, frame)
      BY <2>4, EnterKinds
    <3>2. /\ Len(stack') = Len(stack) + 1
          /\ \A k \in 1..Len(stack) : stack'[k].at = stack[k].at
          /\ stack' \in Seq(Frames)
          /\ op' = op
      BY <3>1, EnterFacts
    <3>3. Len(stack) \in Nat \ {0}
      BY <2>2, StackFacts
    <3>4. stack' # <<>> /\ stack'[1].at = stack[1].at
      BY <3>2, <3>3, EmptySeq
    <3> QED
      BY <1>1, <2>1, <3>2, <3>4
  <2>5. CASE \E r : Unwind(r)
    BY <1>1, <2>1, <2>5 DEF Unwind
  <2>6. CASE UNCHANGED <<op, stack>>
    BY <1>1, <2>1, <2>6
  <2> QED
    BY <1>1, <1>3, <2>1, <2>3, <2>4, <2>5, <2>6
    DEF GuestStep, EnterStep, GuestGrowMemory, GuestMemoryRefused,
        GuestGrowTable, GuestTableRefused, GuestTrap, DropFuture, FrameVars
<1> QED
  BY <1>2, <1>3

LEMMA RequestStep ==
  ASSUME TypeOK, InFlight, RequestInFlight, MarineNext
  PROVE  RequestInFlight'
<1>1. CASE LoadConfigured \/ \E n \in Names, b \in Binaries : LoadModule(n, b)
  BY <1>1 DEF RequestInFlight, LoadConfigured, LoadModule, Begin, RequestLoad
<1>2. CASE ConfiguredModuleInvalid \/ BuildDone \/ LoadInvalidConfig
  BY <1>2 DEF RequestInFlight, ConfiguredModuleInvalid, BuildDone,
              LoadInvalidConfig, Answer, vars, coreVars
<1>3. CASE \E n \in Names : Unload(n)
  BY <1>3 DEF RequestInFlight, Unload, UnloadModule
<1>4. ASSUME NEW n \in Names, NEW f \in Funcs, NEW p \in Particles,
             CallWithIValues(n, f, p) \/ CallWithJson(n, f, p)
      PROVE  RequestInFlight'
  <2>1. request' \in {"ivalues", "json"}
    BY <1>4 DEF CallWithIValues, CallWithJson, Begin
  <2>2. op = "idle"
    BY <1>4 DEF CallWithIValues, CallWithJson, Call, CallRefused
  <2>3. \/ op' = "call" /\ stack' = <<Frame(modules[n], "export")>>
        \/ op' = op
    BY <1>4 DEF CallWithIValues, CallWithJson, Call, CallRefused
  <2> QED
    BY <2>1, <2>2, <2>3 DEF RequestInFlight
<1>5. ASSUME NEW n \in Names, NEW f \in Funcs,
             JsonArgumentsRejected(n, f) \/ InterfaceMissing(n, f)
      PROVE  RequestInFlight'
  BY <1>5 DEF RequestInFlight, JsonArgumentsRejected, InterfaceMissing,
              Answer, vars, coreVars
<1>6. CASE CoreRuns
  BY <1>6, CoreAtWork DEF RequestInFlight, CoreRuns, Idle
<1>7. CASE CallSucceeded \/ LoadSucceeded \/ RequestFailed \/ RequestDropped
  BY <1>7 DEF RequestInFlight, CallSucceeded, LoadSucceeded, RequestFailed,
              RequestDropped, Settling, End, ClearAllocationStats, vars, coreVars
<1> QED
  BY <1>1, <1>2, <1>3, <1>4, <1>5, <1>6, <1>7 DEF MarineNext

-----------------------------------------------------------------------------
(* The classification of errors.                                           *)

LEMMA RefusalStep ==
  ASSUME RefusalCounted, RefusalNeverMissed, RequestInFlight, TypeOK, InFlight,
         MarineNext
  PROVE  RefusalCounted' /\ RefusalNeverMissed'
<1> USE DEF RefusalCounted, RefusalNeverMissed
<1>1. ASSUME NEW k, Begin(k) PROVE RefusalCounted' /\ RefusalNeverMissed'
  BY <1>1 DEF Begin
<1>2. ASSUME NEW r, Answer(r), Idle PROVE RefusalCounted' /\ RefusalNeverMissed'
  BY <1>2 DEF Answer, Idle
<1>3. CASE LoadConfigured \/ \E n \in Names, b \in Binaries : LoadModule(n, b)
  BY <1>1, <1>3 DEF LoadConfigured, LoadModule
<1>4. CASE ConfiguredModuleInvalid \/ BuildDone \/ LoadInvalidConfig
  BY <1>2, <1>4 DEF ConfiguredModuleInvalid, Building, BuildDone,
                    LoadInvalidConfig, Ready
<1>5. CASE \E n \in Names : Unload(n)
  BY <1>5 DEF Unload, Ready, Idle
<1>6. ASSUME NEW n \in Names, NEW f \in Funcs, NEW p \in Particles,
             CallWithIValues(n, f, p) \/ CallWithJson(n, f, p)
      PROVE  RefusalCounted' /\ RefusalNeverMissed'
  BY <1>1, <1>6 DEF CallWithIValues, CallWithJson
<1>7. ASSUME NEW n \in Names, NEW f \in Funcs,
             JsonArgumentsRejected(n, f) \/ InterfaceMissing(n, f)
      PROVE  RefusalCounted' /\ RefusalNeverMissed'
  BY <1>2, <1>7 DEF JsonArgumentsRejected, InterfaceMissing, Ready
<1>8. CASE CoreRuns
  <2>1. rejects \in Nat /\ rejects' \in Nat /\ rejects' >= rejects
    BY <1>8, CoreAtWork DEF CoreRuns
  <2>2. /\ request' = request /\ request # "none"
        /\ reply' = reply
        /\ refused' = (refused \/ rejects' > rejects)
    BY <1>8 DEF CoreRuns, Idle
  <2>3. refused' => rejects' > 0
    BY <2>1, <2>2
  <2> QED
    BY <2>2, <2>3
<1>9. CASE CallSucceeded \/ LoadSucceeded \/ RequestDropped
  BY <1>9 DEF CallSucceeded, LoadSucceeded, RequestDropped, End
<1>10. CASE RequestFailed
  <2>1. /\ request' = "none" /\ refused' = refused /\ outcome' = outcome
        /\ reply' = Converted(outcome)
        /\ refused => rejects > 0
    BY <1>10 DEF RequestFailed, End, Settling, Idle, vars, coreVars
  <2> QED
    BY <2>1 DEF Converted
<1> QED
  BY <1>3, <1>4, <1>5, <1>6, <1>7, <1>8, <1>9, <1>10 DEF MarineNext

-----------------------------------------------------------------------------
(* Types.                                                                  *)

LEMMA LookupTypes ==
  ASSUME TypeOK, MarineTypeOK, NEW n \in Names, NEW f \in Funcs,
         LookupModuleInterface(n, f)
  PROVE  cache' \in [Keys -> LoadIds \cup {None}] /\ iface' \in LoadIds \cup {None}
<1>1. /\ n \in Keys /\ f \in Keys
      /\ cache \in [Keys -> LoadIds \cup {None}]
      /\ modules[n] \in LoadIds \cup {None}
  BY DEF Keys, TypeOK, MarineTypeOK
<1>2. CASE CacheHit(n, f)
  BY <1>1, <1>2 DEF CacheHit
<1>3. CASE CacheMiss(n, f)
  <2>1. iface' = modules[n] /\ cache' = [cache EXCEPT ![f] = modules[n]]
    BY <1>3 DEF CacheMiss
  <2> QED
    BY <1>1, <2>1
<1> QED
  BY <1>2, <1>3 DEF LookupModuleInterface

LEMMA MarineTypeStep ==
  ASSUME TypeOK, MarineTypeOK, RequestInFlight, MarineNext
  PROVE  MarineTypeOK'
<1> USE DEF MarineTypeOK, Replies
<1>1. built \in Nat /\ Len(config.order) \in Nat
  <2>1. config.order \in Seq(Names)
    BY MarineAssumption DEF ConfigType
  <2> QED
    BY <2>1, LenProperties
<1>2. CASE LoadConfigured
  <2>1. built' = built + 1 /\ built < Len(config.order) /\ config' = config
    BY <1>2 DEF LoadConfigured, Building
  <2>2. \A m, k \in Nat : k < m => k + 1 \in 0..m
    OBVIOUS
  <2>3. built' \in 0..Len(config'.order)
    BY <1>1, <2>1, <2>2
  <2> QED
    BY <1>2, <2>3 DEF LoadConfigured, Begin, callVars
<1>3. CASE ConfiguredModuleInvalid \/ BuildDone \/ LoadInvalidConfig
  BY <1>3 DEF ConfiguredModuleInvalid, BuildDone, LoadInvalidConfig, Answer,
              buildVars, callVars
<1>4. ASSUME NEW n \in Names, NEW b \in Binaries, LoadModule(n, b)
      PROVE  MarineTypeOK'
  BY <1>4 DEF LoadModule, Begin, buildVars, callVars
<1>5. ASSUME NEW n \in Names, Unload(n) PROVE MarineTypeOK'
  BY <1>5 DEF Unload, buildVars, callVars
<1>6. ASSUME NEW n \in Names, NEW f \in Funcs, NEW p \in Particles,
             CallWithIValues(n, f, p) \/ CallWithJson(n, f, p)
      PROVE  MarineTypeOK'
  BY <1>6, LookupTypes
  DEF CallWithIValues, CallWithJson, UpdateCallParameters, Begin, buildVars
<1>7. ASSUME NEW n \in Names, NEW f \in Funcs,
             JsonArgumentsRejected(n, f) \/ InterfaceMissing(n, f)
      PROVE  MarineTypeOK'
  BY <1>7, LookupTypes
  DEF JsonArgumentsRejected, InterfaceMissing, Answer, buildVars, callVars
<1>8. CASE CoreRuns
  BY <1>8 DEF CoreRuns, buildVars, callVars
<1>9. CASE CallSucceeded \/ LoadSucceeded \/ RequestDropped
  BY <1>9 DEF CallSucceeded, LoadSucceeded, RequestDropped, End, callVars
<1>10. CASE RequestFailed
  BY <1>10 DEF RequestFailed, End, Converted, callVars
<1> QED
  BY <1>2, <1>3, <1>4, <1>5, <1>6, <1>7, <1>8, <1>9, <1>10 DEF MarineNext

-----------------------------------------------------------------------------
(* The invariant.                                                          *)

LEMMA MarineInvInit ==
  ASSUME MarineInit
  PROVE  MarineInv
<1>1. CoreInv
  BY CoreInvInit DEF MarineInit
<1>2. MarineTypeOK
  <2>1. config.order \in Seq(Names)
    BY MarineAssumption DEF MarineInit, ConfigType
  <2>2. 0 \in 0..Len(config.order)
    BY <2>1, LenProperties
  <2> QED
    BY <2>2 DEF MarineInit, MarineTypeOK, Replies
<1>3. op = "idle"
  BY DEF MarineInit, Init
<1> QED
  BY <1>1, <1>2, <1>3 DEF MarineInv, MarineInit, RequestInFlight,
     RefusalCounted, RefusalNeverMissed

LEMMA MarineInvNext ==
  ASSUME MarineInv, MarineNext
  PROVE  MarineInv'
<1>1. TypeOK /\ InFlight
  BY DEF MarineInv, CoreInv, Bookkeeping
<1>2. CoreInv' /\ MarineTypeOK' /\ RequestInFlight'
  BY <1>1, CoreInvBelow, MarineTypeStep, RequestStep DEF MarineInv
<1>3. RefusalCounted' /\ RefusalNeverMissed'
  BY <1>1, RefusalStep DEF MarineInv
<1> QED
  BY <1>2, <1>3 DEF MarineInv

LEMMA MarineInvStutter ==
  ASSUME MarineInv, UNCHANGED marineVars
  PROVE  MarineInv'
<1>1. CoreInv'
  BY CoreInvStutter DEF MarineInv, marineVars
<1>2. MarineTypeOK' /\ RequestInFlight' /\ RefusalCounted'
  BY DEF MarineInv, marineVars, vars, coreVars, limiterVars, ownVars,
         buildVars, callVars, MarineTypeOK, RequestInFlight, RefusalCounted
<1>3. RefusalNeverMissed'
  BY DEF MarineInv, marineVars, vars, coreVars, ownVars, RefusalNeverMissed
<1> QED
  BY <1>1, <1>2, <1>3 DEF MarineInv

(* The state of Marine, of its core and of the request in flight stay      *)
(* consistent through every operation, failure and dropped future.         *)
THEOREM MarineCorrect == MarineSpec => []MarineInv
<1>1. MarineInv /\ [MarineNext]_marineVars => MarineInv'
  BY MarineInvNext, MarineInvStutter
<1> QED
  BY MarineInvInit, <1>1, PTL DEF MarineSpec

(* Every variable of Marine keeps its type (marine/src/marine.rs). *)
THEOREM MarineTypeCorrect == MarineSpec => []MarineTypeOK
<1>1. MarineInv => MarineTypeOK
  BY DEF MarineInv
<1> QED
  BY MarineCorrect, <1>1, PTL

(* An engine error of a request that had an allocation refused is always   *)
(* reported as a suspected OOM (check_for_oom_and_convert_error).          *)
THEOREM RefusalCorrect == MarineSpec => []RefusalNeverMissed
<1>1. MarineInv => RefusalNeverMissed
  BY DEF MarineInv
<1> QED
  BY MarineCorrect, <1>1, PTL

(* Marine drives the core within its protocol: a behaviour of Marine is a  *)
(* behaviour of MarineCore, so that all that holds of the core holds below *)
(* Marine.                                                                 *)
THEOREM MarineDrivesCore == MarineSpec => Spec
<1>1. MarineInv /\ [MarineNext]_marineVars => [Next]_vars
  <2>1. MarineInv /\ MarineNext => Next \/ UNCHANGED vars
    BY BelowMarine DEF MarineInv
  <2>2. UNCHANGED marineVars => UNCHANGED vars
    BY DEF marineVars
  <2> QED
    BY <2>1, <2>2
<1>2. MarineInit => Init
  BY DEF MarineInit
<1> QED
  BY MarineCorrect, <1>1, <1>2, PTL DEF MarineSpec, Spec

-----------------------------------------------------------------------------
(* The interface cache.                                                    *)

LEMMA CacheStep ==
  ASSUME MarineInv, CacheExplained, MarineNext
  PROVE  CacheExplained'
<1> USE DEF MarineInv, CoreInv, Bookkeeping
<1>1. ASSUME NEW k \in Keys, cache[k] # None
      PROVE  stage'[cache[k]] = "published" /\ k \in binary'[cache[k]].exports
  <2>1. cache[k] \in LoadIds /\ stage[cache[k]] = "published" /\ k \in Exports(cache[k])
    BY <1>1 DEF CacheExplained, MarineTypeOK
  <2>2. CASE Next
    BY <2>1, <2>2, PublishedStays DEF Exports
  <2>3. CASE UNCHANGED vars
    BY <2>1, <2>3 DEF vars, coreVars, Exports
  <2> QED
    BY <2>2, <2>3, BelowMarine
<1>2. ASSUME UNCHANGED cache PROVE CacheExplained'
  BY <1>1, <1>2 DEF CacheExplained, Exports
<1>3. ASSUME NEW n \in Names, NEW f \in Funcs, LookupModuleInterface(n, f),
             UNCHANGED <<stage, binary>>
      PROVE  CacheExplained'
  <2>1. CASE CacheHit(n, f)
    BY <1>2, <2>1 DEF CacheHit
  <2>2. CASE CacheMiss(n, f)
    <3>1. /\ cache' = [cache EXCEPT ![f] = modules[n]]
          /\ stage[modules[n]] = "published"
          /\ f \in Exports(modules[n])
      BY <2>2 DEF CacheMiss, PublishedReady
    <3>2. SUFFICES ASSUME NEW k \in Keys, cache'[k] # None
                   PROVE  stage'[cache'[k]] = "published" /\ k \in binary'[cache'[k]].exports
      BY DEF CacheExplained, Exports
    <3>3. CASE k = f
      <4>1. cache'[k] = modules[n]
        BY <3>1, <3>3 DEF MarineTypeOK
      <4> QED
        BY <1>3, <3>1, <3>3, <4>1 DEF Exports
    <3>4. CASE k # f
      <4>1. cache'[k] = cache[k]
        BY <3>1, <3>4 DEF MarineTypeOK
      <4> QED
        BY <1>3, <3>2, <4>1 DEF CacheExplained, Exports
    <3> QED
      BY <3>3, <3>4
  <2> QED
    BY <1>3, <2>1, <2>2 DEF LookupModuleInterface
<1>4. ASSUME NEW n \in Names, NEW f \in Funcs, NEW p \in Particles,
             CallWithJson(n, f, p)
      PROVE  CacheExplained'
  BY <1>3, <1>4 DEF CallWithJson, Call, CallRefused, loadVars
<1>5. ASSUME NEW n \in Names, NEW f \in Funcs, JsonArgumentsRejected(n, f)
      PROVE  CacheExplained'
  BY <1>3, <1>5 DEF JsonArgumentsRejected, Answer, vars, coreVars
<1> QED
  BY <1>2, <1>4, <1>5 DEF MarineNext, LoadConfigured, ConfiguredModuleInvalid,
     BuildDone, LoadModule, Unload, LoadInvalidConfig, CallWithIValues,
     InterfaceMissing, CoreRuns, CallSucceeded, LoadSucceeded, RequestFailed,
     RequestDropped, End, callVars

LEMMA InterfaceStep ==
  ASSUME MarineInv, CacheExplained, ForeignInterfaceByClash, MarineNext
  PROVE  ForeignInterfaceByClash'
<1> USE DEF ForeignInterfaceByClash
<1>1. CASE LoadConfigured \/ \E n \in Names, b \in Binaries : LoadModule(n, b)
  BY <1>1 DEF LoadConfigured, LoadModule, Begin
<1>2. CASE \/ ConfiguredModuleInvalid \/ BuildDone \/ LoadInvalidConfig
           \/ \E n \in Names : Unload(n)
           \/ \E n \in Names, f \in Funcs :
                JsonArgumentsRejected(n, f) \/ InterfaceMissing(n, f)
  <2>1. request = "none" /\ request' = request
    BY <1>2 DEF ConfiguredModuleInvalid, Building, BuildDone,
       LoadInvalidConfig, Unload, JsonArgumentsRejected, InterfaceMissing,
       Ready, Idle, Answer
  <2> QED
    BY <2>1
<1>3. ASSUME NEW n \in Names, NEW f \in Funcs, NEW p \in Particles,
             CallWithIValues(n, f, p)
      PROVE  ForeignInterfaceByClash'
  BY <1>3 DEF CallWithIValues, Begin
<1>4. ASSUME NEW n \in Names, NEW f \in Funcs, NEW p \in Particles,
             CallWithJson(n, f, p)
      PROVE  ForeignInterfaceByClash'
  <2>1. CASE CallRefused(n, f)
    BY <2>1 DEF CallRefused
  <2>2. CASE Call(n, f)
    <3>1. /\ modules[n] # None
          /\ stack' = <<Frame(modules[n], "export")>>
          /\ UNCHANGED <<stage, name, binary>>
      BY <2>2 DEF Call, loadVars
    <3>2. Called' = modules[n] /\ name[modules[n]] = n
      BY <3>1 DEF Called, Frame, MarineInv, CoreInv, PublishedReady
    <3>3. CASE CacheMiss(n, f)
      BY <3>2, <3>3 DEF CacheMiss
    <3>4. CASE CacheHit(n, f)
      <4>1. /\ iface' = cache[n] /\ cache[n] # None
            /\ stage[cache[n]] = "published" /\ n \in Exports(cache[n])
        BY <3>4 DEF CacheHit, CacheExplained, Keys
      <4>2. name'[Called'] = n
        BY <3>1, <3>2
      <4> QED
        BY <3>1, <4>1, <4>2 DEF Exports
    <3> QED
      BY <1>4, <3>3, <3>4 DEF CallWithJson, LookupModuleInterface
  <2> QED
    BY <1>4, <2>1, <2>2 DEF CallWithJson
<1>5. CASE CoreRuns
  <2> SUFFICES ASSUME request' = "json", op' = "call", iface' # Called'
               PROVE  /\ iface' # None
                      /\ stage'[iface'] = "published"
                      /\ name'[Called'] \in binary'[iface'].exports
    BY DEF Exports
  <2>1. /\ op = "call" /\ stack # <<>> /\ Called' = Called
    BY <1>5, CoreAtWork
    DEF CoreRuns, MarineInv, CoreInv, Bookkeeping, RequestInFlight, Called
  <2>2. iface' = iface /\ request = "json" /\ (LoadStep \/ GuestStep)
    BY <1>5 DEF CoreRuns, callVars
  <2>3. UNCHANGED <<stage, name, binary>>
    <3>1. Begins \/ InsertModule \/ Moves \/ Rests
      BY <2>2, StepKinds DEF Next, MarineInv, CoreInv, Bookkeeping
    <3> QED
      BY <2>1, <3>1 DEF Begins, RequestLoad, InsertModule, LoadAt, Moves, Rests
  <2> QED
    BY <2>1, <2>2, <2>3 DEF Exports
<1>6. CASE CallSucceeded \/ LoadSucceeded \/ RequestFailed \/ RequestDropped
  BY <1>6 DEF CallSucceeded, LoadSucceeded, RequestFailed, RequestDropped, End
<1> QED
  BY <1>1, <1>2, <1>3, <1>4, <1>5, <1>6 DEF MarineNext

(* JSON arguments are converted with the interface of the module that      *)
(* runs, or with that of a complete module which exports a function of the *)
(* running module's name, whatever is unloaded, loaded again and cached    *)
(* (lookup_module_interface).                                              *)
THEOREM InterfaceCorrect == MarineSpec => []ForeignInterfaceByClash
<1> DEFINE Inv == MarineInv /\ CacheExplained /\ ForeignInterfaceByClash
<1>1. MarineInit => Inv
  BY MarineInvInit
  DEF MarineInit, CacheExplained, ForeignInterfaceByClash, Keys
<1>2. Inv /\ MarineNext => Inv'
  BY MarineInvNext, CacheStep, InterfaceStep
<1>3. Inv /\ UNCHANGED marineVars => Inv'
  BY MarineInvStutter
  DEF marineVars, vars, coreVars, ownVars, callVars, CacheExplained,
      ForeignInterfaceByClash, Exports, Called
<1>4. Inv => ForeignInterfaceByClash
  OBVIOUS
<1> HIDE DEF Inv
<1> QED
  BY <1>1, <1>2, <1>3, <1>4, PTL DEF MarineSpec

-----------------------------------------------------------------------------
(* Construction.                                                           *)

(* The modules taken up so far are loaded, the last one maybe not yet. *)
BuildInv ==
  phase = "building" =>
    /\ request \in {"none", "load"}
    /\ attempts = built
    /\ op = "load" => outcome = "none"
    /\ \A k \in 1..built : /\ name[k] = config.order[k]
                           /\ binary[k] = config.files[config.order[k]]
    /\ \A k \in 1..built : k < built \/ request = "none" \/ outcome = "ok" =>
                             modules[config.order[k]] = k

LEMMA LoadAtWork ==
  ASSUME op = "load", InFlight, LoadStep \/ GuestStep
  PROVE  /\ UNCHANGED <<attempts, name, binary>>
         /\ \/ /\ InsertModule
            \/ /\ UNCHANGED modules
               /\ outcome' = outcome \/ outcome' # "ok"
         /\ op' = "load" => outcome' = outcome
<1>1. CASE LoadStep /\ ~InsertModule
  <2>1. UNCHANGED <<modules, attempts, name, binary>>
    BY <1>1 DEF LoadStep, RequestLoad, RejectBinary, MalformedInterface,
       RegisterImports, DuplicateHostImport, UnknownWasmImport,
       InstantiateMemoryRefused, InstantiateTableRefused, Instantiate,
       SegmentTrap, LinkImports, UnresolvedImport, RunInitialize, RunStart,
       NonUniqueName, loadVars
  <2>2. outcome' = outcome \/ (op' = "idle" /\ outcome' # "ok")
    BY <1>1 DEF LoadStep, RequestLoad, RejectBinary, MalformedInterface,
       RegisterImports, DuplicateHostImport, UnknownWasmImport,
       InstantiateMemoryRefused, InstantiateTableRefused, Instantiate,
       SegmentTrap, LinkImports, UnresolvedImport, RunInitialize, RunStart,
       NonUniqueName, FailLoad
  <2> QED
    BY <2>1, <2>2
<1>2. CASE InsertModule
  BY <1>2 DEF InsertModule, loadVars
<1>3. CASE GuestStep
  <2>1. UNCHANGED <<modules, attempts, name, binary>>
    BY <1>3 DEF GuestStep, GuestGrowMemory, GuestMemoryRefused,
       GuestGrowTable, GuestTableRefused, GuestCallImport, CallExported,
       EnterHelper, CallLinked, Enter, StackMoves, GuestReturn,
       GuestTrap, DropFuture, Unwind, FrameVars, loadVars
  <2>2. outcome' = outcome \/ (op' = "idle" /\ outcome' # "ok")
    BY <1>3 DEF GuestStep, GuestGrowMemory, GuestMemoryRefused,
       GuestGrowTable, GuestTableRefused, GuestCallImport, CallExported,
       EnterHelper, CallLinked, Enter, StackMoves, GuestReturn,
       GuestTrap, DropFuture, Unwind, FrameVars
  <2> QED
    BY <2>1, <2>2
<1> QED
  BY <1>1, <1>2, <1>3

LEMMA BuildStep ==
  ASSUME MarineInv, BuildInv, MarineNext, phase' = "building"
  PROVE  BuildInv'
<1>1. phase = "building"
  BY DEF MarineNext, LoadConfigured, ConfiguredModuleInvalid, BuildDone,
     LoadModule, Unload, LoadInvalidConfig, CallWithIValues, CallWithJson,
     JsonArgumentsRejected, InterfaceMissing, Ready, CoreRuns, CallSucceeded,
     LoadSucceeded, RequestFailed, RequestDropped, buildVars
<1>2. /\ TypeOK /\ InFlight /\ RequestInFlight
      /\ attempts = built /\ built \in 0..MaxLoads /\ MaxLoads \in Nat
      /\ request \in {"none", "load"}
  BY <1>1, Constants DEF MarineInv, CoreInv, Bookkeeping, BuildInv, TypeOK
<1>3. CASE LoadConfigured
  <2>1. /\ attempts' = attempts + 1 /\ built' = built + 1
        /\ attempts < MaxLoads
        /\ name' = [name EXCEPT ![attempts + 1] = config.order[built + 1]]
        /\ binary' = [binary EXCEPT ![attempts + 1] =
                        config.files[config.order[built + 1]]]
        /\ UNCHANGED <<config, modules>>
        /\ request = "none" /\ request' = "load"
        /\ outcome' = "none"
    BY <1>3 DEF LoadConfigured, RequestLoad, Building, Idle, NextName, Begin
  <2>2. \A k \in 1..built' : /\ name'[k] = config'.order[k]
                             /\ binary'[k] = config'.files[config'.order[k]]
    <3> SUFFICES ASSUME NEW k \in 1..(built + 1)
                 PROVE  /\ name'[k] = config.order[k]
                        /\ binary'[k] = config.files[config.order[k]]
      BY <2>1
    <3>1. k \in LoadIds /\ attempts + 1 \in LoadIds
      BY <1>2, <2>1 DEF LoadIds
    <3>2. CASE k = built + 1
      BY <1>2, <2>1, <3>1, <3>2 DEF TypeOK
    <3>3. CASE k # built + 1
      <4>1. k \in 1..built
        BY <1>2, <3>3
      <4> QED
        BY <1>1, <1>2, <2>1, <3>1, <3>3, <4>1 DEF BuildInv, TypeOK
    <3> QED
      BY <3>2, <3>3
  <2>3. \A k \in 1..built' : k < built' => modules'[config'.order[k]] = k
    <3>1. \A k \in 1..(built + 1) : k < built + 1 => k \in 1..built
      BY <1>2
    <3> QED
      BY <1>1, <2>1, <3>1 DEF BuildInv
  <2> QED
    BY <1>2, <2>1, <2>2, <2>3 DEF BuildInv
<1>4. CASE CoreRuns
  <2>1. /\ op = "load" /\ request = "load" /\ request' = "load"
        /\ UNCHANGED <<config, built>>
        /\ LoadStep \/ GuestStep
    BY <1>2, <1>4 DEF CoreRuns, Idle, buildVars, RequestInFlight
  <2>2. /\ UNCHANGED <<attempts, name, binary>>
        /\ op' = "load" => outcome' = outcome
        /\ InsertModule \/ (UNCHANGED modules /\ outcome' # "ok")
    BY <1>1, <1>2, <2>1, LoadAtWork DEF BuildInv
  <2>3. ASSUME NEW k \in 1..built, k < built \/ outcome' = "ok"
        PROVE  modules'[config.order[k]] = k
    <3>1. k < built => modules[config.order[k]] = k
      BY <1>1 DEF BuildInv
    <3>2. CASE InsertModule
      <4>1. /\ modules[name[attempts]] = None
            /\ modules' = [modules EXCEPT ![name[attempts]] = attempts]
        BY <3>2 DEF InsertModule
      <4>2. attempts = built /\ name[built] = config.order[built]
        <5>1. built \in 1..built
          BY <1>2, <2>3
        <5> QED
          BY <1>1, <1>2, <5>1 DEF BuildInv
      <4>3. name[attempts] \in Names
        BY <1>2, <2>1 DEF InFlight, TypeOK
      <4>4. CASE k < built
        <5>1. modules[config.order[k]] = k /\ k # None
          BY <1>2, <3>1, <4>4 DEF None
        <5>2. config.order[k] # name[attempts]
          BY <4>1, <5>1
        <5>3. modules'[config.order[k]] = modules[config.order[k]]
          <6>1. k \in LoadIds /\ name[k] \in Names /\ name[k] = config.order[k]
            BY <1>1, <1>2 DEF BuildInv, LoadIds, TypeOK
          <6> QED
            BY <1>2, <4>1, <5>2, <6>1 DEF TypeOK
        <5> QED
          BY <5>1, <5>3
      <4>5. CASE k = built
        BY <1>2, <4>1, <4>2, <4>3, <4>5 DEF TypeOK
      <4> QED
        BY <1>2, <4>4, <4>5
    <3> QED
      BY <2>2, <2>3, <3>1, <3>2
  <2> QED
    BY <1>1, <1>2, <2>1, <2>2, <2>3 DEF BuildInv
<1>5. CASE LoadSucceeded
  BY <1>1, <1>5 DEF LoadSucceeded, End, vars, coreVars, BuildInv
<1>6. CASE CallSucceeded
  BY <1>2, <1>6 DEF CallSucceeded, Settling, Idle
<1> QED
  BY <1>1, <1>3, <1>4, <1>5, <1>6
  DEF MarineNext, ConfiguredModuleInvalid, BuildDone, LoadModule, Unload,
      LoadInvalidConfig, CallWithIValues, CallWithJson, JsonArgumentsRejected,
      InterfaceMissing, Ready, RequestFailed, RequestDropped

(* A Marine that was built has every module of its configuration, each     *)
(* registered with its own binary, in the order given (with_modules).      *)
THEOREM BuildCorrect == MarineSpec => ReadyIsComplete
<1> DEFINE Inv == MarineInv /\ BuildInv
           Step == phase = "building" /\ phase' = "ready" =>
                     \A k \in DOMAIN config.order :
                       /\ modules[config.order[k]] = k
                       /\ binary[k] = config.files[config.order[k]]
<1>1. MarineInit => Inv
  <2> SUFFICES ASSUME MarineInit PROVE BuildInv
    BY MarineInvInit
  <2>1. /\ request = "none" /\ attempts = 0 /\ built = 0 /\ op = "idle"
        /\ 1..built = {}
    BY DEF MarineInit, Init
  <2> QED
    BY <2>1 DEF BuildInv
<1>2. Inv /\ MarineNext => Inv'
  BY MarineInvNext, BuildStep DEF BuildInv
<1>3. Inv /\ UNCHANGED marineVars => Inv'
  BY MarineInvStutter
  DEF marineVars, vars, coreVars, ownVars, buildVars, BuildInv
<1>4. Inv /\ MarineNext => Step
  <2> SUFFICES ASSUME Inv, MarineNext, phase = "building", phase' = "ready"
               PROVE  Step
    OBVIOUS
  <2>1. BuildDone
    BY DEF MarineNext, LoadConfigured, ConfiguredModuleInvalid, LoadModule,
       Unload, LoadInvalidConfig, CallWithIValues, CallWithJson,
       JsonArgumentsRejected, InterfaceMissing, Ready, CoreRuns,
       CallSucceeded, LoadSucceeded, RequestFailed, RequestDropped, buildVars
  <2>2. request = "none" /\ built = Len(config.order)
    BY <2>1 DEF BuildDone, Idle
  <2>3. DOMAIN config.order = 1..built
    <3>1. config.order \in Seq(Names)
      BY MarineAssumption DEF MarineInv, MarineTypeOK, ConfigType
    <3> QED
      BY <2>2, <3>1, LenProperties
  <2> QED
    BY <2>2, <2>3 DEF BuildInv
<1>5. Inv /\ [MarineNext]_marineVars => [Step]_marineVars
  BY <1>4
<1> HIDE DEF Inv, Step
<1>6. MarineSpec => [][Step]_marineVars
  BY <1>1, <1>2, <1>3, <1>5, PTL DEF MarineSpec
<1> QED
  BY <1>6 DEF Step, ReadyIsComplete

=============================================================================
