--------------------------- MODULE MarineCoreProofs ---------------------------
(***************************************************************************)
(* Proofs about MarineCore, for every value of its constants.              *)
(***************************************************************************)
EXTENDS MarineCore, SequenceTheorems, FiniteSetTheorems, TLAPS

(* The operations and the guest's steps, by what they may do to the map of *)
(* modules and to the attempts: begin one, ...                             *)
Begins ==
    /\ \E n \in Names, b \in Binaries : RequestLoad(n, b)

(* ... take the one in flight to another stage, ... *)
Moves ==
    /\ op = "load"
    /\ UNCHANGED <<modules, attempts, name, binary>>
    /\ \E s \in Stages \ {"absent", "requested", "published"} :
          /\ Advance(s)
          /\ s = "registered" => stage[attempts] = "requested" /\ PushWasi
          /\ s = "instantiated" => stage[attempts] = "registered"
          /\ op' = IF s = "failed" THEN "idle" ELSE "load"
          /\ s \in LinkedStages => LinkImports \/ stage[attempts] \in LinkedStages

(* ... or leave the attempts alone and at most unload a name. *)
Rests ==
    /\ UNCHANGED <<stage, attempts, name, binary>>
    /\ op' = "load" <=> op = "load"
    /\ \A n \in Names : modules'[n] \in {modules[n], None}

(* Code starts on top of the stack. *)
EnterStep ==
    \/ GuestCallImport \/ CallExported \/ EnterHelper
    \/ \E i \in Imports : CallLinked(i)

LEMMA Constants ==
  /\ MaxLoads \in Nat
  /\ TotalLimit \in Nat
  /\ EntrySize \in Nat
  /\ MaxRejects \in Nat
  /\ MemGrowths \subseteq Nat
  /\ TblGrowths \subseteq Nat
  /\ \A b \in Binaries : /\ b.minMem \in Nat
                         /\ b.maxMem \in Nat
                         /\ b.minTbl \in Nat
                         /\ b.maxTbl \in Nat
                         /\ b.imports \subseteq Imports
BY LimiterAssumption, CoreAssumption DEF BinaryType

LEMMA StepKinds ==
  ASSUME TypeOK, InFlight, Next
  PROVE  Begins \/ InsertModule \/ Moves \/ Rests
<1> USE DEF Stages, LinkedStages
<1> DEFINE Goal == Begins \/ InsertModule \/ Moves \/ Rests
<1>1. ASSUME LoadStep PROVE Goal
  <2>a. ASSUME op = "load", UNCHANGED <<modules, loadVars>>,
               NEW s \in Stages \ {"absent", "requested", "published"},
               Advance(s),
               s = "registered" => stage[attempts] = "requested" /\ PushWasi,
               s = "instantiated" => stage[attempts] = "registered",
               op' = IF s = "failed" THEN "idle" ELSE "load",
               s \in LinkedStages =>
                 LinkImports \/ stage[attempts] \in LinkedStages
        PROVE  Goal
    BY <2>a DEF Moves, loadVars
  <2>b. ASSUME op = "load", UNCHANGED <<modules, loadVars>>,
               NEW e, FailLoad(e)
        PROVE  Goal
    BY <2>a, <2>b DEF FailLoad
  <2>1. ASSUME NEW n \in Names, NEW b \in Binaries, RequestLoad(n, b)
        PROVE  Goal
    BY <2>1 DEF Begins
  <2>2. ASSUME NEW e \in {"engine", "other"}, RejectBinary(e)
        PROVE  Goal
    BY <2>b, <2>2 DEF RejectBinary, LoadAt
  <2>3. ASSUME NEW e \in {"engine", "other"}, MalformedInterface(e)
        PROVE  Goal
    BY <2>b, <2>3 DEF MalformedInterface, LoadAt
  <2>4. ASSUME RegisterImports PROVE Goal
    BY <2>a, <2>4 DEF RegisterImports, LoadAt
  <2>5. ASSUME DuplicateHostImport PROVE Goal
    BY <2>b, <2>5 DEF DuplicateHostImport, LoadAt
  <2>6. ASSUME UnknownWasmImport PROVE Goal
    BY <2>b, <2>6 DEF UnknownWasmImport, LoadAt
  <2>7. ASSUME InstantiateMemoryRefused PROVE Goal
    BY <2>b, <2>7 DEF InstantiateMemoryRefused, LoadAt
  <2>8. ASSUME InstantiateTableRefused PROVE Goal
    BY <2>b, <2>8 DEF InstantiateTableRefused, LoadAt
  <2>9. ASSUME Instantiate PROVE Goal
    BY <2>a, <2>9 DEF Instantiate, LoadAt
  <2>10. ASSUME SegmentTrap PROVE Goal
    BY <2>b, <2>10 DEF SegmentTrap, LoadAt
  <2>11. ASSUME LinkImports PROVE Goal
    BY <2>a, <2>11 DEF LinkImports, LoadAt
  <2>12. ASSUME UnresolvedImport PROVE Goal
    BY <2>b, <2>12 DEF UnresolvedImport, LoadAt
  <2>13. ASSUME RunInitialize PROVE Goal
    BY <2>a, <2>13 DEF RunInitialize, LoadAt
  <2>14. ASSUME RunStart PROVE Goal
    BY <2>a, <2>14 DEF RunStart, LoadAt
  <2>15. ASSUME NonUniqueName PROVE Goal
    BY <2>b, <2>15 DEF NonUniqueName, LoadAt
  <2> QED
    BY <1>1, <2>1, <2>2, <2>3, <2>4, <2>5, <2>6, <2>7, <2>8, <2>9, <2>10,
       <2>11, <2>12, <2>13, <2>14, <2>15 DEF LoadStep
<1>2. ASSUME GuestStep PROVE Goal
  <2>1. ASSUME GuestReturn PROVE Goal
    BY <2>1 DEF GuestReturn, Running, Advance, loadVars, Moves, Rests, InFlight
  <2>2. ASSUME NEW r, Unwind(r) PROVE Goal
    BY <2>2 DEF Unwind, Running, Advance, loadVars, Moves, Rests
  <2>3. ASSUME UNCHANGED <<modules, loadVars, stage, op>> PROVE Goal
    BY <2>3 DEF loadVars, Rests
  <2>4. ASSUME NEW d, GuestGrowMemory(d) \/ GuestMemoryRefused(d)
                      \/ GuestGrowTable(d) \/ GuestTableRefused(d)
        PROVE  Goal
    BY <2>3, <2>4 DEF GuestGrowMemory, GuestMemoryRefused, GuestGrowTable,
                      GuestTableRefused, FrameVars
  <2>5. ASSUME StackMoves PROVE Goal
    BY <2>3, <2>5 DEF StackMoves
  <2>6. CASE EnterStep
    BY <2>5, <2>6
    DEF EnterStep, GuestCallImport, CallExported, EnterHelper, CallLinked, Enter
  <2> QED
    BY <1>2, <2>1, <2>2, <2>4, <2>6 DEF GuestStep, EnterStep, GuestTrap, DropFuture
<1>3. ASSUME ApiStep PROVE Goal
  <2>1. ASSUME NEW n \in Names, UnloadModule(n) PROVE Goal
    BY <2>1 DEF UnloadModule, loadVars, Rests, TypeOK
  <2>2. ASSUME NEW n \in Names, NEW f \in Funcs, Call(n, f) \/ CallRefused(n, f)
        PROVE  Goal
    BY <2>2 DEF Call, CallRefused, loadVars, Rests
  <2>3. ASSUME ClearAllocationStats PROVE Goal
    BY <2>3 DEF ClearAllocationStats, coreVars, Rests
  <2> QED
    BY <1>3, <2>1, <2>2, <2>3 DEF ApiStep
<1> QED
  BY <1>1, <1>2, <1>3 DEF Next

LEMMA StackFacts ==
  ASSUME TypeOK, Running
  PROVE  /\ Len(stack) \in Nat \ {0}
         /\ stack[Len(stack)] \in Frames
         /\ Top \in LoadIds
         /\ TopCode \in Codes
         /\ Popped \in Seq(Frames)
         /\ Len(Popped) = Len(stack) - 1
         /\ \A k \in 1..Len(Popped) : Popped[k] = stack[k]
<1>1. stack \in Seq(Frames) /\ stack # <<>>
  BY DEF TypeOK, Running
<1>2. Len(stack) \in Nat \ {0}
  BY <1>1, EmptySeq
<1>3. \A k \in 1..Len(stack) : stack[k] \in Frames
  BY <1>1, ElementOfSeq
<1>4. /\ stack[Len(stack)] \in Frames
      /\ Top \in LoadIds
      /\ TopCode \in Codes
  BY <1>2, <1>3 DEF Top, TopCode, Frames
<1>5. \A k \in 1..(Len(stack) - 1) : stack[k] \in Frames
  BY <1>2, <1>3
<1>6. PICK n \in Nat : n = Len(stack) - 1
  BY <1>2
<1>7. /\ Popped \in Seq(Frames)
      /\ Len(Popped) = IF 1 <= n THEN n - 1 + 1 ELSE 0
      /\ \A k \in 1..(n - 1 + 1) : Popped[k] = stack[1 + k - 1]
  BY <1>5, <1>6, SubSeqProperties DEF Popped
<1>9. Len(Popped) = n
  <2>1. Len(Popped) = IF 1 <= n THEN n - 1 + 1 ELSE 0
    BY <1>7
  <2>2. CASE n = 0
    BY <2>1, <2>2
  <2>3. CASE n # 0
    <3>1. Len(Popped) = n - 1 + 1
      BY <2>1, <2>3
    <3> QED BY <3>1
  <2> QED
    BY <2>2, <2>3
<1>8. \A k \in 1..Len(Popped) : Popped[k] = stack[k]
  BY <1>6, <1>7, <1>9
<1> QED
  BY <1>2, <1>4, <1>6, <1>7, <1>8, <1>9

(* The frame on top stays as it is, or an adapter goes on behind its call; *)
(* above it code of the same instance starts, or an export of another.     *)
Enters(code, frame) ==
    /\ Running
    /\ Enter(code, frame)
    /\ \/ code = TopCode
       \/ TopCode = "export" /\ code = "exported"
       \/ TopCode = "import" /\ code = "imported"
    /\ \/ /\ frame.at = Top
          /\ \/ frame.code \in {"import", "helper"}
             \/ frame.code = "function" /\ TopCode = "export"
       \/ /\ frame.code = "export"
          /\ \E i \in Imports : links[Top][i] # None /\ frame.at = links[Top][i]

LEMMA EnterKinds ==
  ASSUME TypeOK, EnterStep
  PROVE  \E code \in Codes, frame \in Frames : Enters(code, frame)
<1> USE DEF Frame, Frames, Codes, GuestCode, ExportAdapter, ImportAdapter
<1>1. Running
  BY DEF EnterStep, GuestCallImport, CallExported, EnterHelper, CallLinked, InGuest
<1>2. Top \in LoadIds /\ TopCode \in Codes
  BY <1>1, StackFacts
<1>3. CASE GuestCallImport
  <2>1. Enters(TopCode, Frame(Top, "import"))
    BY <1>1, <1>3 DEF GuestCallImport, Enters
  <2> QED
    BY <1>2, <2>1
<1>4. CASE CallExported
  <2>1. Enters("exported", Frame(Top, "function"))
    BY <1>1, <1>4 DEF CallExported, Enters
  <2> QED
    BY <1>2, <2>1
<1>5. CASE EnterHelper
  <2>1. Enters(TopCode, Frame(Top, "helper"))
    BY <1>1, <1>5 DEF EnterHelper, Enters
  <2> QED
    BY <1>2, <2>1
<1>6. ASSUME NEW i \in Imports, CallLinked(i)
      PROVE  \E code \in Codes, frame \in Frames : Enters(code, frame)
  <2>1. links[Top][i] \in LoadIds
    BY <1>2, <1>6 DEF CallLinked, TypeOK, None
  <2>2. Enters("imported", Frame(links[Top][i], "export"))
    BY <1>1, <1>6 DEF CallLinked, Enters
  <2> QED
    BY <2>1, <2>2
<1> QED
  BY <1>3, <1>4, <1>5, <1>6 DEF EnterStep

LEMMA EnterFacts ==
  ASSUME TypeOK, NEW code \in Codes, NEW frame \in Frames, Enters(code, frame)
  PROVE  /\ stack' \in Seq(Frames)
         /\ Len(stack') = Len(stack) + 1
         /\ \A k \in 1..Len(stack) : stack'[k].at = stack[k].at
         /\ \A k \in 1..Len(stack) : k # Len(stack) => stack'[k] = stack[k]
         /\ stack'[Len(stack)].code = code
         /\ stack'[Len(stack) + 1] = frame
         /\ UNCHANGED <<op, stage, attempts>>
<1> DEFINE turned == [stack EXCEPT ![Len(stack)].code = code]
<1>1. /\ stack \in Seq(Frames)
      /\ Len(stack) \in Nat \ {0}
      /\ stack[Len(stack)] \in Frames
  BY StackFacts DEF Enters, TypeOK
<1>2. turned = [stack EXCEPT ![Len(stack)] = [@ EXCEPT !.code = code]]
  OBVIOUS
<1>3. [stack[Len(stack)] EXCEPT !.code = code] \in Frames
  BY <1>1 DEF Frames
<1>4. /\ turned \in Seq(Frames)
      /\ Len(turned) = Len(stack)
      /\ \A k \in 1..Len(stack) : k # Len(stack) => turned[k] = stack[k]
      /\ turned[Len(stack)] = [stack[Len(stack)] EXCEPT !.code = code]
  BY <1>1, <1>2, <1>3, ExceptSeq
<1>5. turned[Len(stack)].code = code /\ turned[Len(stack)].at = stack[Len(stack)].at
  BY <1>1, <1>4 DEF Frames
<1>6. \A k \in 1..Len(stack) : turned[k].at = stack[k].at
  BY <1>4, <1>5
<1> HIDE DEF turned
<1>7. stack' = Append(turned, frame)
  BY DEF Enters, Enter, turned
<1>8. /\ stack' \in Seq(Frames)
      /\ Len(stack') = Len(stack) + 1
      /\ \A k \in 1..Len(stack) : stack'[k] = turned[k]
      /\ stack'[Len(stack) + 1] = frame
  BY <1>4, <1>7, AppendProperties
<1>9. UNCHANGED <<op, stage, attempts>>
  BY DEF Enters, Enter, StackMoves, loadVars
<1>10. Len(stack) \in 1..Len(stack)
  BY <1>1
<1>11. stack'[Len(stack)].code = code
  BY <1>5, <1>8, <1>10
<1>12. \A k \in 1..Len(stack) : stack'[k].at = stack[k].at
  BY <1>6, <1>8
<1>13. \A k \in 1..Len(stack) : k # Len(stack) => stack'[k] = stack[k]
  BY <1>4, <1>8
<1> QED
  BY <1>8, <1>9, <1>11, <1>12, <1>13

(* Who changes the links, the WASI contexts, the sizes and the stack. *)
LEMMA ModulesFootprint ==
  ASSUME Next
  PROVE  \/ InsertModule
         \/ \E n \in Names : UnloadModule(n)
         \/ UNCHANGED modules
BY DEF Next, LoadStep, GuestStep, ApiStep, RequestLoad, RejectBinary,
       MalformedInterface, RegisterImports, DuplicateHostImport,
       UnknownWasmImport, InstantiateMemoryRefused, InstantiateTableRefused,
       Instantiate, SegmentTrap, LinkImports, UnresolvedImport, loadVars,
       RunInitialize, RunStart, NonUniqueName, GuestGrowMemory, GuestMemoryRefused, GuestGrowTable,
       GuestTableRefused, GuestCallImport, CallExported,
       EnterHelper, CallLinked, Enter, StackMoves, GuestReturn,
       GuestTrap, DropFuture, Unwind, FrameVars, Call,
       CallRefused, ClearAllocationStats, coreVars

LEMMA LinksFootprint ==
  ASSUME Next
  PROVE  LinkImports \/ UNCHANGED links
BY DEF Next, LoadStep, GuestStep, ApiStep, RequestLoad, RejectBinary,
       MalformedInterface, RegisterImports, DuplicateHostImport,
       UnknownWasmImport, InstantiateMemoryRefused, InstantiateTableRefused,
       Instantiate, SegmentTrap, UnresolvedImport, RunInitialize, RunStart,
       InsertModule,
       NonUniqueName, GuestGrowMemory, GuestMemoryRefused, GuestGrowTable,
       GuestTableRefused, GuestCallImport, CallExported,
       EnterHelper, CallLinked, Enter, StackMoves, GuestReturn,
       GuestTrap, DropFuture, Unwind, FrameVars, UnloadModule,
       Call, CallRefused, ClearAllocationStats, coreVars

LEMMA WasiFootprint ==
  ASSUME Next
  PROVE  (PushWasi /\ LoadAt("requested")) \/ UNCHANGED <<wasi, wasiOf>>
BY DEF Next, LoadStep, GuestStep, ApiStep, RequestLoad, RejectBinary,
       MalformedInterface, RegisterImports, DuplicateHostImport,
       UnknownWasmImport, InstantiateMemoryRefused, InstantiateTableRefused,
       Instantiate, SegmentTrap, LinkImports, UnresolvedImport, RunInitialize, RunStart,
       InsertModule,
       NonUniqueName, GuestGrowMemory, GuestMemoryRefused, GuestGrowTable,
       GuestTableRefused, GuestCallImport, CallExported,
       EnterHelper, CallLinked, Enter, StackMoves, GuestReturn,
       GuestTrap, DropFuture, Unwind, FrameVars, UnloadModule,
       Call, CallRefused, ClearAllocationStats, coreVars

LEMMA SizesFootprint ==
  ASSUME Next
  PROVE  \/ /\ AllocateInstance
            /\ LoadAt("registered")
            /\ Advance("instantiated") \/ Advance("failed")
         \/ \E d \in MemGrowths : GuestGrowMemory(d)
         \/ \E d \in TblGrowths : GuestGrowTable(d)
         \/ UNCHANGED <<mem, tbl>>
BY DEF Next, LoadStep, GuestStep, ApiStep, RequestLoad, RejectBinary,
       MalformedInterface, RegisterImports, DuplicateHostImport,
       UnknownWasmImport, InstantiateMemoryRefused, InstantiateTableRefused,
       Instantiate, SegmentTrap, FailLoad, LinkImports, UnresolvedImport, RunInitialize,
       RunStart, InsertModule,
       NonUniqueName, GuestMemoryRefused, GuestTableRefused, GuestCallImport, CallExported,
       EnterHelper, CallLinked, Enter, StackMoves, GuestReturn,
       GuestTrap, DropFuture, Unwind, FrameVars, UnloadModule,
       Call, CallRefused, ClearAllocationStats, coreVars

LEMMA OutcomeFootprint ==
  ASSUME Next
  PROVE  /\ op' \in {op, "idle", "load", "call"}
         /\ outcome' \in Outcomes \cup {outcome}
BY DEF Next, LoadStep, GuestStep, ApiStep, RequestLoad, RejectBinary,
       MalformedInterface, RegisterImports, DuplicateHostImport,
       UnknownWasmImport, InstantiateMemoryRefused, InstantiateTableRefused,
       Instantiate, SegmentTrap, LinkImports, UnresolvedImport, FailLoad, Outcomes,
       Errors,  RunInitialize, RunStart,
       InsertModule,
       NonUniqueName, GuestGrowMemory, GuestMemoryRefused, GuestGrowTable,
       GuestTableRefused, GuestCallImport, CallExported,
       EnterHelper, CallLinked, Enter, StackMoves, GuestReturn,
       GuestTrap, DropFuture, Unwind, FrameVars, UnloadModule,
       Call, CallRefused, ClearAllocationStats, coreVars

LEMMA StackFootprint ==
  ASSUME InFlight, Next
  PROVE  \/ RunInitialize
         \/ RunStart
         \/ \E n \in Names, f \in Funcs : Call(n, f)
         \/ EnterStep
         \/ GuestReturn
         \/ \E r : Unwind(r)
         \/ /\ UNCHANGED stack
            /\ stack = <<>> \/ UNCHANGED <<op, stage, attempts>>
BY DEF InFlight, EnterStep, LoadAt, loadVars, Next, LoadStep, GuestStep, ApiStep, RequestLoad, RejectBinary,
       MalformedInterface, RegisterImports, DuplicateHostImport,
       UnknownWasmImport, InstantiateMemoryRefused, InstantiateTableRefused,
       Instantiate, SegmentTrap, LinkImports, UnresolvedImport, InsertModule,
       NonUniqueName, GuestGrowMemory, GuestMemoryRefused, GuestGrowTable,
       GuestTableRefused, GuestTrap, DropFuture, FrameVars, UnloadModule,
       CallRefused, ClearAllocationStats, coreVars

(* Every use of the budget is one of these. *)
LEMMA BudgetFootprint ==
  ASSUME TypeOK, InFlight, Next
  PROVE  \/ \E amount \in Nat : Charge(amount)
         \/ \E amount \in Nat : Refuse(amount)
         \/ InstantiateTableRefused
         \/ ClearStats
         \/ UNCHANGED limiterVars
<1> DEFINE Goal == \/ \E amount \in Nat : Charge(amount)
                   \/ \E amount \in Nat : Refuse(amount)
                   \/ InstantiateTableRefused
                   \/ ClearStats
                   \/ UNCHANGED limiterVars
<1>1. ASSUME NEW a, a \in Nat, Charge(a) \/ Refuse(a) PROVE Goal
  BY <1>1
<1>2. ASSUME UNCHANGED limiterVars PROVE Goal
  BY <1>2
<1>3. CASE LoadStep
  <2>1. op = "load" => /\ MemoryAtStart(binary[attempts]) \in Nat
                       /\ TableAtStart(binary[attempts]) \in Nat
    <3> SUFFICES ASSUME op = "load"
                 PROVE  /\ MemoryAtStart(binary[attempts]) \in Nat
                        /\ TableAtStart(binary[attempts]) \in Nat
      OBVIOUS
    <3>1. binary[attempts] \in Binaries
      BY DEF InFlight, TypeOK
    <3>2. /\ binary[attempts].minMem \in Nat
          /\ binary[attempts].minTbl \in Nat
          /\ EntrySize \in Nat
      BY <3>1, Constants
    <3> QED
      BY <3>2 DEF MemoryAtStart, TableAtStart, MemoryRequest, TableRequest
  <2>2. CASE InstantiateMemoryRefused
    BY <1>1, <2>1, <2>2 DEF InstantiateMemoryRefused, LoadAt
  <2>3. CASE Instantiate \/ SegmentTrap
    BY <1>1, <2>1, <2>3 DEF Instantiate, SegmentTrap, AllocateInstance, LoadAt
  <2> QED
    BY <1>2, <1>3, <2>2, <2>3
    DEF LoadStep, RequestLoad, RejectBinary, MalformedInterface,
        RegisterImports, DuplicateHostImport, UnknownWasmImport, LinkImports,
        UnresolvedImport, RunInitialize, RunStart, InsertModule, NonUniqueName
<1>4. CASE GuestStep
  <2>1. ASSUME NEW d \in MemGrowths, GuestGrowMemory(d) \/ GuestMemoryRefused(d)
        PROVE  Goal
    <3>1. MemoryRequest(mem[Top], mem[Top] + d) \in Nat
      <4>1. mem[Top] \in Nat /\ d \in Nat
        BY <2>1, StackFacts, Constants
        DEF TypeOK, GuestGrowMemory, GuestMemoryRefused, InGuest
      <4> QED
        BY <4>1 DEF MemoryRequest
    <3> QED
      BY <1>1, <2>1, <3>1 DEF GuestGrowMemory, GuestMemoryRefused
  <2>2. ASSUME NEW d \in TblGrowths, GuestGrowTable(d) \/ GuestTableRefused(d)
        PROVE  Goal
    <3>1. TableRequest(tbl[Top], tbl[Top] + d) \in Nat
      <4>1. tbl[Top] \in Nat /\ d \in Nat /\ EntrySize \in Nat
        BY <2>2, StackFacts, Constants
        DEF TypeOK, GuestGrowTable, GuestTableRefused, InGuest
      <4> QED
        BY <4>1 DEF TableRequest
    <3> QED
      BY <1>1, <2>2, <3>1 DEF GuestGrowTable, GuestTableRefused
  <2> QED
    BY <1>2, <1>4, <2>1, <2>2
    DEF GuestStep, GuestCallImport, CallExported, EnterHelper, CallLinked,
        Enter, StackMoves, GuestReturn, GuestTrap, DropFuture, Unwind
<1>5. CASE ApiStep
  BY <1>2, <1>5
  DEF ApiStep, UnloadModule, Call, CallRefused, ClearAllocationStats
<1> QED
  BY <1>3, <1>4, <1>5 DEF Next

-----------------------------------------------------------------------------
(* The types and the bookkeeping are one inductive invariant.              *)

LEMMA TypeInit == Init => TypeOK
<1> SUFFICES ASSUME Init PROVE TypeOK
  OBVIOUS
<1>1. (CHOOSE n \in Names : TRUE) \in Names /\ (CHOOSE b \in Binaries : TRUE) \in Binaries
  BY CoreAssumption
<1> QED
  BY <1>1, Constants
  DEF Init, LimiterInit, TypeOK, LimiterTypeOK, Stages, Outcomes, None

LEMMA LimiterTypeStep ==
  ASSUME TypeOK, InFlight, Next
  PROVE  LimiterTypeOK'
<1> USE Constants DEF TypeOK, LimiterTypeOK
<1>1. ASSUME NEW a \in Nat, Charge(a) PROVE LimiterTypeOK'
  BY <1>1 DEF Charge, Fits
<1>2. ASSUME NEW a \in Nat, Refuse(a) PROVE LimiterTypeOK'
  BY <1>2 DEF Refuse
<1>3. CASE InstantiateTableRefused
  <2>1. MemoryAtStart(binary[attempts]) \in Nat
    <3>1. binary[attempts] \in Binaries
      BY <1>3 DEF InFlight, InstantiateTableRefused, LoadAt
    <3> QED
      BY <3>1 DEF MemoryAtStart, MemoryRequest
  <2> QED
    BY <1>3, <2>1 DEF InstantiateTableRefused, Fits
<1>4. CASE ClearStats
  BY <1>4 DEF ClearStats
<1>5. CASE UNCHANGED limiterVars
  BY <1>5 DEF limiterVars
<1> QED
  BY <1>1, <1>2, <1>3, <1>4, <1>5, BudgetFootprint

LEMMA SizesTypeStep ==
  ASSUME TypeOK, InFlight, Next
  PROVE  mem' \in [LoadIds -> Nat] /\ tbl' \in [LoadIds -> Nat]
<1> USE Constants DEF TypeOK
<1>1. CASE AllocateInstance /\ LoadAt("registered")
  <2>1. binary[attempts] \in Binaries
    BY <1>1 DEF InFlight, LoadAt
  <2>2. binary[attempts].minMem \in Nat /\ binary[attempts].minTbl \in Nat
    BY <2>1
  <2> QED
    BY <1>1, <2>2 DEF AllocateInstance
<1>2. ASSUME NEW d \in MemGrowths, GuestGrowMemory(d)
      PROVE  mem' \in [LoadIds -> Nat] /\ tbl' \in [LoadIds -> Nat]
  <2>1. d \in Nat /\ Top \in LoadIds
    BY <1>2, StackFacts DEF GuestGrowMemory, InGuest
  <2> QED
    BY <1>2, <2>1 DEF GuestGrowMemory
<1>3. ASSUME NEW d \in TblGrowths, GuestGrowTable(d)
      PROVE  mem' \in [LoadIds -> Nat] /\ tbl' \in [LoadIds -> Nat]
  <2>1. d \in Nat /\ Top \in LoadIds
    BY <1>3, StackFacts DEF GuestGrowTable, InGuest
  <2> QED
    BY <1>3, <2>1 DEF GuestGrowTable
<1>4. CASE UNCHANGED <<mem, tbl>>
  BY <1>4
<1> QED
  BY <1>1, <1>2, <1>3, <1>4, SizesFootprint

LEMMA StackTypeStep ==
  ASSUME TypeOK, InFlight, Next
  PROVE  stack' \in Seq(Frames)
<1> USE DEF TypeOK
<1>1. CASE RunInitialize \/ RunStart
  <2>1. attempts \in LoadIds
    BY <1>1 DEF RunInitialize, RunStart, LoadAt, InFlight
  <2>2. stack' = <<Frame(attempts, "start")>> \/ stack' = stack
    BY <1>1 DEF RunInitialize, RunStart
  <2>3. <<Frame(attempts, "start")>> \in Seq(Frames)
    BY <2>1 DEF Frame, Frames, Codes, GuestCode
  <2> QED
    BY <2>2, <2>3
<1>2. ASSUME NEW n \in Names, NEW f \in Funcs, Call(n, f)
      PROVE  stack' \in Seq(Frames)
  <2>1. modules[n] \in LoadIds
    BY <1>2 DEF Call, None
  <2>2. Frame(modules[n], "export") \in Frames
    BY <2>1 DEF Frame, Frames, Codes, ExportAdapter
  <2> QED
    BY <1>2, <2>2 DEF Call
<1>3. CASE EnterStep
  BY <1>3, EnterKinds, EnterFacts
<1>4. CASE GuestReturn
  BY <1>4, StackFacts DEF GuestReturn
<1>5. ASSUME NEW r, Unwind(r) PROVE stack' \in Seq(Frames)
  BY <1>5 DEF Unwind
<1> QED
  BY <1>1, <1>2, <1>3, <1>4, <1>5, StackFootprint

LEMMA TypeStep ==
  ASSUME TypeOK, InFlight, Next
  PROVE  TypeOK'
<1>1. /\ modules' \in [Names -> LoadIds \cup {None}]
      /\ attempts' \in 0..MaxLoads
      /\ stage' \in [LoadIds -> Stages]
      /\ name' \in [LoadIds -> Names]
      /\ binary' \in [LoadIds -> Binaries]
  <2> USE Constants DEF TypeOK, Stages
  <2>1. CASE Begins
    BY <2>1 DEF Begins, RequestLoad, LoadIds
  <2>2. CASE InsertModule
    BY <2>2 DEF InsertModule, LoadAt, Advance, InFlight, loadVars
  <2>3. CASE Moves
    BY <2>3 DEF Moves, Advance
  <2>4. CASE Rests
    <3>1. modules' \in [Names -> LoadIds \cup {None}]
      <4>1. ~InsertModule
        BY <2>4 DEF Rests, InsertModule, Advance, LoadAt, InFlight
      <4> QED
        BY <4>1, ModulesFootprint DEF UnloadModule
    <3> QED
      BY <2>4, <3>1 DEF Rests
  <2> QED
    BY <2>1, <2>2, <2>3, <2>4, StepKinds
<1>2. links' \in [LoadIds -> [Imports -> LoadIds \cup {None}]]
  <2>1. CASE LinkImports
    BY <2>1 DEF LinkImports, TypeOK, Imports
  <2>2. CASE UNCHANGED links
    BY <2>2 DEF TypeOK
  <2> QED
    BY <2>1, <2>2, LinksFootprint
<1>3. wasi' \in Seq(LoadIds) /\ wasiOf' \in [LoadIds -> Nat]
  <2>1. CASE PushWasi /\ LoadAt("requested")
    <3>1. attempts \in LoadIds /\ Len(wasi) + 1 \in Nat
      BY <2>1 DEF TypeOK, LoadAt, InFlight
    <3>2. wasi' \in Seq(LoadIds)
      BY <2>1, <3>1, AppendProperties DEF PushWasi, TypeOK
    <3> QED
      BY <2>1, <3>1, <3>2 DEF PushWasi, TypeOK
  <2>2. CASE UNCHANGED <<wasi, wasiOf>>
    BY <2>2 DEF TypeOK
  <2> QED
    BY <2>1, <2>2, WasiFootprint
<1>4. mem' \in [LoadIds -> Nat] /\ tbl' \in [LoadIds -> Nat]
  BY SizesTypeStep
<1>5. stack' \in Seq(Frames)
  BY StackTypeStep
<1>6. LimiterTypeOK'
  BY LimiterTypeStep
<1>7. op' \in {"idle", "load", "call"} /\ outcome' \in Outcomes
  BY OutcomeFootprint DEF TypeOK
<1> QED
  BY <1>1, <1>2, <1>3, <1>4, <1>5, <1>6, <1>7 DEF TypeOK

LEMMA ReturnFromBottom ==
  ASSUME TypeOK, Running, Len(stack) <= 1
  PROVE  Popped = <<>>
<1>1. Len(Popped) = 0 /\ Popped \in Seq(Frames)
  BY StackFacts
<1> QED
  BY <1>1, EmptySeq

LEMMA InFlightStep ==
  ASSUME TypeOK, InFlight, Next
  PROVE  InFlight'
<1>1. /\ op' = "load" => attempts' \in LoadIds /\ stage'[attempts'] \notin AtRest
      /\ \A l \in LoadIds : op' # "load" \/ l # attempts' => stage'[l] \in AtRest
  <2> USE DEF InFlight, AtRest, TypeOK
  <2>1. CASE Begins
    <3>1. attempts + 1 \in LoadIds
      BY <2>1, Constants DEF Begins, RequestLoad, LoadIds
    <3>2. /\ op = "idle"
          /\ op' = "load"
          /\ attempts' = attempts + 1
          /\ stage' = [stage EXCEPT ![attempts + 1] = "requested"]
      BY <2>1 DEF Begins, RequestLoad
    <3> QED
      BY <3>1, <3>2
  <2>2. CASE InsertModule
    BY <2>2 DEF InsertModule, LoadAt, Advance, loadVars
  <2>3. CASE Moves
    BY <2>3 DEF Moves, Advance
  <2>4. CASE Rests
    BY <2>4 DEF Rests
  <2> QED
    BY <2>1, <2>2, <2>3, <2>4, StepKinds
<1>2. /\ op' = "idle" => stack' = <<>>
      /\ op' = "load" /\ stack' # <<>> =>
            stage'[attempts'] \in {"initializing", "starting"}
  <2> DEFINE Goal == /\ op' = "idle" => stack' = <<>>
                     /\ op' = "load" /\ stack' # <<>> =>
                           stage'[attempts'] \in {"initializing", "starting"}
  <2>1. CASE RunInitialize \/ RunStart
    BY <2>1 DEF RunInitialize, RunStart, LoadAt, Advance, InFlight, TypeOK, loadVars
  <2>2. ASSUME NEW n \in Names, NEW f \in Funcs, Call(n, f) PROVE Goal
    BY <2>2 DEF Call
  <2>3. CASE EnterStep
    <3>1. Running /\ UNCHANGED <<op, stage, attempts>>
      BY <2>3, EnterKinds, EnterFacts DEF Enters
    <3> QED
      BY <3>1 DEF Running, InFlight
  <2>4. CASE GuestReturn
    <3>1. CASE Len(stack) > 1
      BY <2>4, <3>1 DEF GuestReturn, Running, InFlight, loadVars
    <3>2. CASE ~(Len(stack) > 1)
      BY <2>4, <3>2, ReturnFromBottom, StackFacts DEF GuestReturn
    <3> QED
      BY <3>1, <3>2
  <2>5. ASSUME NEW r, Unwind(r) PROVE Goal
    BY <2>5 DEF Unwind
  <2>6. CASE /\ UNCHANGED stack
             /\ stack = <<>> \/ UNCHANGED <<op, stage, attempts>>
    BY <2>6 DEF InFlight
  <2> QED
    BY <2>1, <2>2, <2>3, <2>4, <2>5, <2>6, StackFootprint
<1> QED
  BY <1>1, <1>2 DEF InFlight

LEMMA TopStage ==
  ASSUME TypeOK, FramesReady, Running
  PROVE  stage[Top] \in {"published", "initializing", "starting"}
<1>1. Len(stack) \in 1..Len(stack)
  BY StackFacts
<1> QED
  BY <1>1 DEF FramesReady, Top

LEMMA NoTraceStep ==
  ASSUME TypeOK, InFlight, NoTraceBefore, FramesReady, Next
  PROVE  NoTraceBefore'
<1> USE DEF TypeOK
<1>1. ASSUME NEW l \in LoadIds, l > attempts'
      PROVE  stage'[l] = "absent"
  <2>1. CASE Begins
    BY <1>1, <2>1 DEF Begins, RequestLoad, LoadIds, NoTraceBefore
  <2>2. CASE InsertModule
    BY <1>1, <2>2 DEF InsertModule, LoadAt, Advance, loadVars, NoTraceBefore
  <2>3. CASE Moves
    BY <1>1, <2>3 DEF Moves, Advance, NoTraceBefore
  <2>4. CASE Rests
    BY <1>1, <2>4 DEF Rests, NoTraceBefore
  <2> QED
    BY <2>1, <2>2, <2>3, <2>4, StepKinds
<1>2. ASSUME NEW l \in LoadIds, l > attempts'
      PROVE  wasiOf'[l] = 0
  <2>1. attempts' \in {attempts, attempts + 1} /\ attempts \in Nat
    BY StepKinds DEF Begins, RequestLoad, InsertModule, loadVars, Moves, Rests
  <2>a. l > attempts /\ l # attempts
    BY <1>2, <2>1, Constants DEF LoadIds
  <2>2. CASE PushWasi /\ LoadAt("requested")
    BY <2>a, <2>2 DEF PushWasi, NoTraceBefore
  <2>3. CASE UNCHANGED <<wasi, wasiOf>>
    BY <2>a, <2>3 DEF NoTraceBefore
  <2> QED
    BY <2>2, <2>3, WasiFootprint
<1>3. ASSUME NEW l \in LoadIds,
             stage'[l] \in {"absent", "requested", "registered"}
      PROVE  mem'[l] = 0 /\ tbl'[l] = 0
  <2>1. stage[l] \in {"absent", "requested", "registered"}
    <3>1. CASE Begins
      BY <3>1, <1>3 DEF Begins, RequestLoad, LoadIds, NoTraceBefore
    <3>2. CASE InsertModule
      BY <3>2, <1>3 DEF InsertModule, Advance
    <3>3. CASE Moves
      BY <3>3, <1>3 DEF Moves, Advance
    <3>4. CASE Rests
      BY <3>4, <1>3 DEF Rests
    <3> QED
      BY <3>1, <3>2, <3>3, <3>4, StepKinds
  <2>2. CASE /\ AllocateInstance
             /\ LoadAt("registered")
             /\ Advance("instantiated") \/ Advance("failed")
    <3>1. l # attempts
      BY <1>3, <2>2 DEF Advance
    <3> QED
      BY <2>1, <2>2, <3>1 DEF AllocateInstance, NoTraceBefore
  <2>3. ASSUME NEW d \in MemGrowths, GuestGrowMemory(d)
        PROVE  mem'[l] = 0 /\ tbl'[l] = 0
    <3>1. Top \in LoadIds /\ Top # l
      BY <2>1, <2>3, StackFacts, TopStage DEF GuestGrowMemory, InGuest
    <3> QED
      BY <2>1, <2>3, <3>1 DEF GuestGrowMemory, NoTraceBefore
  <2>4. ASSUME NEW d \in TblGrowths, GuestGrowTable(d)
        PROVE  mem'[l] = 0 /\ tbl'[l] = 0
    <3>1. Top \in LoadIds /\ Top # l
      BY <2>1, <2>4, StackFacts, TopStage DEF GuestGrowTable, InGuest
    <3> QED
      BY <2>1, <2>4, <3>1 DEF GuestGrowTable, NoTraceBefore
  <2>5. CASE UNCHANGED <<mem, tbl>>
    BY <2>1, <2>5 DEF NoTraceBefore
  <2> QED
    BY <2>2, <2>3, <2>4, <2>5, SizesFootprint
<1> QED
  BY <1>1, <1>2, <1>3 DEF NoTraceBefore

LEMMA OnlyItsImportsStep ==
  ASSUME TypeOK, InFlight, NoTraceBefore, OnlyItsImports, Next
  PROVE  OnlyItsImports'
<1> SUFFICES ASSUME NEW l \in LoadIds, NEW i \in Imports, links'[l][i] # None
             PROVE  /\ i \in binary'[l].imports
                    /\ stage'[l] \in LinkedStages \cup {"failed"}
  BY DEF OnlyItsImports
<1> USE DEF TypeOK, LinkedStages
<1>1. CASE LinkImports
  <2>1. CASE l = attempts
    BY <1>1, <2>1 DEF LinkImports, Advance, loadVars
  <2>2. CASE l # attempts
    BY <1>1, <2>2 DEF LinkImports, Advance, loadVars, OnlyItsImports
  <2> QED
    BY <2>1, <2>2
<1>2. CASE UNCHANGED links
  <2>1. /\ i \in binary[l].imports
        /\ stage[l] \in LinkedStages \cup {"failed"}
    BY <1>2 DEF OnlyItsImports
  <2>2. CASE Begins
    <3>1. l # attempts + 1
      <4>1. attempts + 1 > attempts
        OBVIOUS
      <4> QED
        BY <2>1, <4>1 DEF NoTraceBefore
    <3> QED
      BY <2>1, <2>2, <3>1 DEF Begins, RequestLoad
  <2>3. CASE InsertModule
    BY <2>1, <2>3 DEF InsertModule, Advance, loadVars
  <2>4. CASE Moves
    BY <2>1, <2>4 DEF Moves, Advance, InFlight, Stages
  <2>5. CASE Rests
    BY <2>1, <2>5 DEF Rests
  <2> QED
    BY <2>2, <2>3, <2>4, <2>5, StepKinds
<1> QED
  BY <1>1, <1>2, LinksFootprint

-----------------------------------------------------------------------------
(* The invariants about names, links, frames and WASI contexts.            *)

LEMMA PublishedStays ==
  ASSUME TypeOK, InFlight, NoTraceBefore, Next,
         NEW l \in LoadIds, stage[l] = "published"
  PROVE  stage'[l] = "published" /\ name'[l] = name[l] /\ binary'[l] = binary[l]
<1> USE DEF TypeOK
<1>1. CASE Begins
  <2>1. l # attempts + 1
    <3>1. attempts + 1 > attempts
      OBVIOUS
    <3> QED
      BY <3>1 DEF NoTraceBefore
  <2> QED
    BY <1>1, <2>1 DEF Begins, RequestLoad
<1>2. CASE InsertModule
  BY <1>2 DEF InsertModule, Advance, loadVars
<1>3. CASE Moves
  BY <1>3 DEF Moves, Advance, InFlight, AtRest
<1>4. CASE Rests
  BY <1>4 DEF Rests
<1> QED
  BY <1>1, <1>2, <1>3, <1>4, StepKinds

LEMMA PublishedReadyStep ==
  ASSUME TypeOK, InFlight, NoTraceBefore, PublishedReady, Next
  PROVE  PublishedReady'
<1> SUFFICES ASSUME NEW n \in Names, modules'[n] # None
             PROVE  /\ stage'[modules'[n]] = "published"
                    /\ name'[modules'[n]] = n
  BY DEF PublishedReady
<1>1. CASE modules'[n] = modules[n]
  <2>1. /\ modules[n] \in LoadIds
        /\ stage[modules[n]] = "published"
        /\ name[modules[n]] = n
    BY <1>1 DEF PublishedReady, TypeOK
  <2> QED
    BY <1>1, <2>1, PublishedStays
<1>2. CASE modules'[n] # modules[n]
  <2>1. InsertModule
    BY <1>2, StepKinds DEF Begins, RequestLoad, Moves, Rests
  <2> QED
    BY <1>2, <2>1 DEF InsertModule, Advance, loadVars, LoadAt, InFlight, TypeOK
<1> QED
  BY <1>1, <1>2

LEMMA PublishedBeforeNow ==
  ASSUME TypeOK, NoTraceBefore, NEW l \in LoadIds, stage[l] # "absent"
  PROVE  l <= attempts
BY Constants DEF TypeOK, NoTraceBefore, LoadIds

LEMMA ImportsAnsweredStep ==
  ASSUME TypeOK, InFlight, NoTraceBefore, PublishedReady, ImportsAnswered, Next
  PROVE  ImportsAnswered'
<1> SUFFICES ASSUME NEW l \in LoadIds, stage'[l] \in LinkedStages,
                    NEW i \in binary'[l].imports
             PROVE  /\ links'[l][i] \in 1..(l - 1)
                    /\ stage'[links'[l][i]] = "published"
                    /\ name'[links'[l][i]] = i[1]
                    /\ i[2] \in binary'[links'[l][i]].exports
  BY DEF ImportsAnswered
<1> DEFINE t == links'[l][i]
<1>1. /\ t \in 1..(l - 1)
      /\ stage[t] = "published"
      /\ name[t] = i[1]
      /\ i[2] \in binary[t].exports
  <2>1. CASE LinkImports /\ l = attempts
    <3>1. /\ binary'[l] = binary[l]
          /\ stage[l] = "instantiated"
          /\ Resolvable(i)
      BY <2>1 DEF LinkImports, LoadAt, loadVars
    <3>2. i \in Imports
      BY <3>1, Constants DEF TypeOK
    <3>3. t = modules[i[1]]
      BY <2>1, <3>1, <3>2 DEF LinkImports, TypeOK
    <3>4. i[1] \in Names /\ modules[i[1]] \in LoadIds
      BY <3>1, <3>2 DEF Resolvable, TypeOK, Imports
    <3>5. stage[t] = "published" /\ name[t] = i[1]
      BY <3>1, <3>3, <3>4 DEF PublishedReady, Resolvable
    <3>6. t \in LoadIds /\ t <= attempts /\ t # attempts
      BY <2>1, <3>1, <3>3, <3>4, <3>5, PublishedBeforeNow
    <3>7. t \in 1..(l - 1)
      BY <2>1, <3>6, Constants DEF LoadIds, TypeOK
    <3> QED
      BY <3>1, <3>3, <3>5, <3>7 DEF Resolvable
  <2>2. CASE ~(LinkImports /\ l = attempts)
    <3>1. /\ stage[l] \in LinkedStages
          /\ binary'[l] = binary[l]
      <4> USE DEF TypeOK, LinkedStages
      <4>1. CASE Begins
        BY <4>1 DEF Begins, RequestLoad
      <4>2. CASE InsertModule
        BY <4>2 DEF InsertModule, Advance, loadVars, LoadAt
      <4>3. CASE Moves
        BY <2>2, <4>3 DEF Moves, Advance
      <4>4. CASE Rests
        BY <4>4 DEF Rests
      <4> QED
        BY <4>1, <4>2, <4>3, <4>4, StepKinds
    <3>2. links'[l] = links[l]
      BY <2>2, LinksFootprint DEF LinkImports, TypeOK
    <3> QED
      BY <3>1, <3>2 DEF ImportsAnswered
  <2> QED
    BY <2>1, <2>2
<1>2. t \in LoadIds
  BY <1>1, Constants DEF LoadIds
<1> QED
  BY <1>1, <1>2, PublishedStays

LEMMA OwnWasiStep ==
  ASSUME TypeOK, InFlight, OwnWasi, Next
  PROVE  OwnWasi'
<1> USE DEF TypeOK
<1> SUFFICES ASSUME NEW l \in LoadIds
             PROVE  /\ stage'[l] \in {"registered", "instantiated"} \cup LinkedStages =>
                          wasiOf'[l] # 0
                    /\ wasiOf'[l] # 0 => /\ wasiOf'[l] \in 1..Len(wasi')
                                         /\ wasi'[wasiOf'[l]] = l
  BY DEF OwnWasi
<1>1. CASE PushWasi /\ LoadAt("requested")
  <2>1. /\ attempts \in LoadIds
        /\ Len(wasi) \in Nat
        /\ Len(wasi') = Len(wasi) + 1
        /\ \A k \in 1..Len(wasi) : wasi'[k] = wasi[k]
        /\ wasi'[Len(wasi) + 1] = attempts
    BY <1>1, AppendProperties, LenProperties DEF PushWasi, LoadAt, InFlight
  <2>2. CASE l = attempts
    BY <1>1, <2>1, <2>2 DEF PushWasi
  <2>3. CASE l # attempts
    <3>1. wasiOf'[l] = wasiOf[l]
      BY <1>1, <2>3 DEF PushWasi
    <3>2. stage'[l] = stage[l]
      BY <1>1, <2>3, StepKinds
      DEF LoadAt, Begins, RequestLoad, InsertModule, Moves, Rests, Advance
    <3>3. wasiOf[l] # 0 => wasiOf[l] \in 1..Len(wasi) /\ wasi[wasiOf[l]] = l
      BY DEF OwnWasi
    <3> QED
      BY <2>1, <3>1, <3>2, <3>3 DEF OwnWasi
  <2> QED
    BY <2>2, <2>3
<1>2. CASE UNCHANGED <<wasi, wasiOf>>
  <2>1. ASSUME stage'[l] \in {"registered", "instantiated"} \cup LinkedStages
        PROVE  wasiOf[l] # 0
    <3> USE DEF LinkedStages
    <3>1. CASE stage[l] \in {"registered", "instantiated"} \cup LinkedStages
      BY <3>1 DEF OwnWasi
    <3>2. CASE stage[l] \notin {"registered", "instantiated"} \cup LinkedStages
      <4>1. CASE Begins
        BY <2>1, <3>2, <4>1 DEF Begins, RequestLoad
      <4>2. CASE InsertModule
        BY <2>1, <3>2, <4>2 DEF InsertModule, Advance, LoadAt
      <4>3. CASE Moves
        <5>1. l = attempts /\ stage'[l] = "registered"
          BY <2>1, <3>2, <4>3 DEF Moves, Advance, LinkImports, LoadAt
        <5> QED
          BY <5>1, <1>2, <4>3 DEF Moves, Advance, PushWasi, InFlight
      <4>4. CASE Rests
        BY <2>1, <3>2, <4>4 DEF Rests
      <4> QED
        BY <4>1, <4>2, <4>3, <4>4, StepKinds
    <3> QED
      BY <3>1, <3>2
  <2> QED
    BY <1>2, <2>1 DEF OwnWasi
<1> QED
  BY <1>1, <1>2, WasiFootprint

(* What a module may call: a complete module older than itself. *)
LEMMA LinkOfTop ==
  ASSUME TypeOK, ImportsAnswered, OnlyItsImports, FramesReady, Running,
         NEW i \in Imports, links[Top][i] # None
  PROVE  links[Top][i] < Top /\ stage[links[Top][i]] = "published"
<1>1. Top \in LoadIds /\ stage[Top] \in LinkedStages
  BY StackFacts, TopStage DEF LinkedStages
<1>2. i \in binary[Top].imports
  BY <1>1 DEF OnlyItsImports
<1>3. links[Top][i] \in 1..(Top - 1) /\ stage[links[Top][i]] = "published"
  BY <1>1, <1>2 DEF ImportsAnswered
<1> QED
  BY <1>1, <1>3 DEF LoadIds

LEMMA FramesReadyStep ==
  ASSUME TypeOK, InFlight, NoTraceBefore, PublishedReady, ImportsAnswered,
         OnlyItsImports, FramesReady, Next
  PROVE  FramesReady'
<1> USE DEF ImportAdapter
<1> DEFINE Ready(k) ==
      \/ stage'[stack'[k].at] = "published"
      \/ /\ op' = "load"
         /\ stack'[k].at = attempts'
         /\ stack'[k].code \in {"start", "helper"} \cup ImportAdapter
         /\ stage'[attempts'] \in {"initializing", "starting"}
<1> SUFFICES ASSUME NEW k \in 1..Len(stack')
             PROVE  Ready(k)
  BY DEF FramesReady
<1>1. CASE RunInitialize \/ RunStart
  <2>1. stack = <<>> /\ op = "load" /\ op' = "load" /\ attempts' = attempts
    BY <1>1 DEF RunInitialize, RunStart, LoadAt, loadVars
  <2>2. stack' # <<>>
    OBVIOUS
  <2>3. /\ stack' = <<Frame(attempts, "start")>>
        /\ Advance("initializing") \/ Advance("starting")
    BY <1>1, <2>1, <2>2 DEF RunInitialize, RunStart
  <2>4. stack'[k] = Frame(attempts, "start")
    BY <2>3
  <2> QED
    BY <2>1, <2>3, <2>4 DEF Advance, InFlight, TypeOK, Frame
<1>2. ASSUME NEW n \in Names, NEW f \in Funcs, Call(n, f) PROVE Ready(k)
  <2>1. stack'[k] = Frame(modules[n], "export") /\ stage' = stage
    BY <1>2 DEF Call
  <2> QED
    BY <1>2, <2>1 DEF Call, PublishedReady, Frame
<1>3. ASSUME NEW code \in Codes, NEW frame \in Frames, Enters(code, frame)
      PROVE  Ready(k)
  <2>1. /\ Running /\ Len(stack) \in Nat \ {0}
        /\ Len(stack) \in 1..Len(stack)
    BY <1>3, StackFacts DEF Enters
  <2>2. /\ Len(stack') = Len(stack) + 1
        /\ \A j \in 1..Len(stack) : stack'[j].at = stack[j].at
        /\ \A j \in 1..Len(stack) : j # Len(stack) => stack'[j] = stack[j]
        /\ stack'[Len(stack)].code = code
        /\ stack'[Len(stack) + 1] = frame
        /\ UNCHANGED <<op, stage, attempts>>
    BY <1>3, EnterFacts
  <2>3. \/ stage[Top] = "published"
        \/ /\ op = "load" /\ Top = attempts
           /\ TopCode \in {"start", "helper"} \cup ImportAdapter
           /\ stage[attempts] \in {"initializing", "starting"}
    BY <2>1 DEF FramesReady, Top, TopCode
  <2>4. CASE k \in 1..Len(stack) /\ k # Len(stack)
    BY <2>2, <2>4 DEF FramesReady
  <2>5. CASE k = Len(stack)
    <3>1. stack'[k].at = Top /\ stack'[k].code = code
      BY <2>1, <2>2, <2>5 DEF Top
    <3>2. code = TopCode \/ TopCode \in {"export"} \/ code = "imported"
      BY <1>3 DEF Enters
    <3> QED
      BY <2>2, <2>3, <3>1, <3>2
  <2>6. CASE k = Len(stack) + 1
    <3>1. CASE frame.at = Top /\ frame.code \in {"import", "helper"}
      BY <2>2, <2>3, <2>6, <3>1
    <3>2. CASE frame.at = Top /\ TopCode = "export"
      BY <2>2, <2>3, <2>6, <3>2
    <3>3. CASE \E i \in Imports : links[Top][i] # None /\ frame.at = links[Top][i]
      BY <2>1, <2>2, <2>6, <3>3, LinkOfTop
    <3> QED
      BY <1>3, <3>1, <3>2, <3>3 DEF Enters
  <2> QED
    BY <2>1, <2>2, <2>4, <2>5, <2>6
<1>4. CASE GuestReturn
  <2>1. Running
    BY <1>4 DEF GuestReturn
  <2>2. /\ k \in 1..(Len(stack) - 1)
        /\ stack'[k] = stack[k]
        /\ Len(stack) \in Nat \ {0}
    BY <1>4, <2>1, StackFacts DEF GuestReturn
  <2>3. UNCHANGED <<stage, op, attempts>>
    BY <1>4, <2>2 DEF GuestReturn, loadVars
  <2>4. k \in 1..Len(stack)
    BY <2>2
  <2> QED
    BY <2>2, <2>3, <2>4 DEF FramesReady
<1>5. ASSUME NEW r, Unwind(r) PROVE Ready(k)
  BY <1>5 DEF Unwind
<1>6. CASE /\ UNCHANGED stack
           /\ stack = <<>> \/ UNCHANGED <<op, stage, attempts>>
  BY <1>6 DEF FramesReady
<1>7. CASE EnterStep
  BY <1>3, <1>7, EnterKinds
<1> QED
  BY <1>1, <1>2, <1>4, <1>5, <1>6, <1>7, StackFootprint

LEMMA NoCallbackStep ==
  ASSUME TypeOK, InFlight, ImportsAnswered, OnlyItsImports, FramesReady,
         NoCallback, Next
  PROVE  NoCallback'
<1> USE DEF ExportAdapter
<1> DEFINE Below(j, k) ==
      /\ stack'[k].at <= stack'[j].at
      /\ stack'[k].code \in ExportAdapter => stack'[k].at < stack'[j].at
<1> SUFFICES ASSUME NEW j \in 1..Len(stack'), NEW k \in 1..Len(stack'), j < k
             PROVE  Below(j, k)
  BY DEF NoCallback
<1>1. CASE RunInitialize \/ RunStart
  <2>1. stack' = <<Frame(attempts, "start")>> \/ stack' = <<>>
    BY <1>1 DEF RunInitialize, RunStart, LoadAt
  <2> QED
    BY <2>1
<1>2. ASSUME NEW n \in Names, NEW f \in Funcs, Call(n, f)
      PROVE  Below(j, k)
  BY <1>2 DEF Call
<1>3. ASSUME NEW code \in Codes, NEW frame \in Frames, Enters(code, frame)
      PROVE  Below(j, k)
  <2>1. /\ Running
        /\ Top \in LoadIds
        /\ Len(stack) \in Nat \ {0}
        /\ frame.at \in LoadIds
    BY <1>3, StackFacts DEF Enters, Frames
  <2>2. /\ Len(stack') = Len(stack) + 1
        /\ \A h \in 1..Len(stack) : stack'[h].at = stack[h].at
        /\ \A h \in 1..Len(stack) : h # Len(stack) => stack'[h] = stack[h]
        /\ stack'[Len(stack)].code = code
        /\ stack'[Len(stack) + 1] = frame
    BY <1>3, EnterFacts
  <2>3. /\ frame.at <= Top
        /\ frame.code \in ExportAdapter => frame.at < Top
    <3>1. CASE frame.at = Top /\ frame.code \notin ExportAdapter
      BY <2>1, <3>1, Constants DEF LoadIds
    <3>2. CASE \E i \in Imports : links[Top][i] # None /\ frame.at = links[Top][i]
      <4>1. frame.at < Top
        BY <2>1, <3>2, LinkOfTop
      <4> QED
        BY <2>1, <4>1, Constants DEF LoadIds
    <3> QED
      BY <1>3, <3>1, <3>2 DEF Enters
  <2>4. CASE k \in 1..Len(stack)
    <3>1. j \in 1..Len(stack)
      BY <2>1, <2>4
    <3>2. stack'[k].code \in ExportAdapter => stack[k].code \in ExportAdapter
      <4>1. CASE k = Len(stack)
        <5>1. stack'[k].code = code /\ stack[k].code = TopCode
          BY <2>2, <4>1 DEF TopCode
        <5>2. code \in ExportAdapter => TopCode \in ExportAdapter
          BY <1>3 DEF Enters
        <5> QED
          BY <5>1, <5>2
      <4>2. CASE k # Len(stack)
        BY <2>2, <2>4, <4>2
      <4> QED
        BY <4>1, <4>2
    <3> QED
      BY <2>2, <2>4, <3>1, <3>2 DEF NoCallback
  <2>5. CASE k = Len(stack) + 1
    <3>1. j \in 1..Len(stack) /\ Len(stack) \in 1..Len(stack)
      BY <2>1, <2>5
    <3>2. stack[j].at \in LoadIds
      <4>1. stack[j] \in Frames
        BY <3>1, ElementOfSeq DEF TypeOK
      <4> QED
        BY <4>1 DEF Frames
    <3>3. Top <= stack[j].at
      <4>1. CASE j = Len(stack)
        BY <2>1, <4>1, Constants DEF Top, LoadIds
      <4>2. CASE j # Len(stack)
        BY <2>1, <3>1, <4>2 DEF NoCallback, Top
      <4> QED
        BY <4>1, <4>2
    <3>4. stack'[j].at = stack[j].at /\ stack'[k] = frame
      BY <2>2, <2>5, <3>1
    <3> QED
      BY <2>1, <2>3, <3>2, <3>3, <3>4, Constants DEF LoadIds
  <2> QED
    BY <2>1, <2>2, <2>4, <2>5
<1>4. CASE GuestReturn
  <2>1. Running
    BY <1>4 DEF GuestReturn
  <2>2. /\ j \in 1..(Len(stack) - 1) /\ k \in 1..(Len(stack) - 1)
        /\ stack'[j] = stack[j] /\ stack'[k] = stack[k]
        /\ Len(stack) \in Nat \ {0}
    BY <1>4, <2>1, StackFacts DEF GuestReturn
  <2>3. j \in 1..Len(stack) /\ k \in 1..Len(stack)
    BY <2>2
  <2> QED
    BY <2>2, <2>3 DEF NoCallback
<1>5. ASSUME NEW r, Unwind(r) PROVE Below(j, k)
  BY <1>5 DEF Unwind
<1>6. CASE UNCHANGED stack
  BY <1>6 DEF NoCallback
<1>7. CASE EnterStep
  BY <1>3, <1>7, EnterKinds
<1> QED
  BY <1>1, <1>2, <1>4, <1>5, <1>6, <1>7, StackFootprint

-----------------------------------------------------------------------------
(* The budget.  Sums over all instances are cardinalities of unit sets, so *)
(* that one growth is the union with the units it adds.                    *)

LEMMA BudgetOnlyShrinks ==
  ASSUME TypeOK, InFlight, Next
  PROVE  remaining' <= remaining
<1> USE Constants DEF TypeOK, LimiterTypeOK
<1>1. ASSUME NEW a \in Nat, Charge(a) PROVE remaining' <= remaining
  BY <1>1 DEF Charge
<1>2. ASSUME NEW a \in Nat, Refuse(a) PROVE remaining' <= remaining
  BY <1>2 DEF Refuse
<1>3. CASE InstantiateTableRefused
  <2>1. binary[attempts].minMem \in Nat
    BY <1>3 DEF InFlight, InstantiateTableRefused, LoadAt
  <2> QED
    BY <1>3, <2>1 DEF InstantiateTableRefused, MemoryAtStart, MemoryRequest
<1>4. CASE ClearStats \/ UNCHANGED limiterVars
  BY <1>4 DEF ClearStats, limiterVars
<1> QED
  BY <1>1, <1>2, <1>3, <1>4, BudgetFootprint

LEMMA HeldType ==
  ASSUME TypeOK, NEW l \in LoadIds
  PROVE  Held(l) \in Nat
<1>1. mem[l] \in Nat /\ tbl[l] \in Nat /\ EntrySize \in Nat
  BY Constants DEF TypeOK
<1>2. tbl[l] * EntrySize \in Nat
  BY <1>1
<1> QED
  BY <1>1, <1>2 DEF Held

LEMMA Column ==
  ASSUME NEW j, NEW h \in Nat, NEW d \in Nat
  PROVE  /\ IsFiniteSet({j} \X ((h + 1)..(h + d)))
         /\ Cardinality({j} \X ((h + 1)..(h + d))) <= d
<1> DEFINE I == (h + 1)..(h + d)
           D == {j} \X I
           f == [x \in I |-> <<j, x>>]
<1>1. IsFiniteSet(I) /\ Cardinality(I) = d
  <2>1. /\ IsFiniteSet(I)
        /\ Cardinality(I) = IF h + 1 > h + d THEN 0 ELSE h + d - (h + 1) + 1
    BY FS_Interval
  <2>2. CASE d = 0
    BY <2>1, <2>2
  <2>3. CASE d # 0
    BY <2>1, <2>3
  <2> QED
    BY <2>2, <2>3
<1>2. f \in Surjection(I, D)
  <2>1. f \in [I -> D]
    OBVIOUS
  <2>2. \A y \in D : \E x \in I : f[x] = y
    OBVIOUS
  <2> HIDE DEF f, I, D
  <2> QED
    BY <2>1, <2>2 DEF Surjection
<1> QED
  BY <1>1, <1>2, FS_Surjection

LEMMA OneInstanceGrows ==
  ASSUME TypeOK, TypeOK', IsFiniteSet(HeldUnits),
         NEW j \in LoadIds, NEW d \in Nat,
         Held(j)' = Held(j) + d,
         \A l \in LoadIds \ {j} : Held(l)' = Held(l)
  PROVE  /\ IsFiniteSet(HeldUnits')
         /\ Cardinality(HeldUnits') <= Cardinality(HeldUnits) + d
<1> DEFINE D == {j} \X ((Held(j) + 1)..(Held(j) + d))
<1>1. Held(j) \in Nat
  BY HeldType
<1>2. HeldUnits' \subseteq HeldUnits \cup D
  <2> SUFFICES ASSUME NEW l \in LoadIds, NEW k \in 1..Held(l)'
               PROVE  <<l, k>> \in HeldUnits \cup D
    BY DEF HeldUnits, Units
  <2>1. CASE l # j
    <3>1. k \in 1..Held(l)
      BY <2>1
    <3> QED
      BY <3>1 DEF HeldUnits, Units
  <2>2. CASE l = j
    <3>1. k \in 1..(Held(j) + d)
      BY <2>2
    <3>2. CASE k \in 1..Held(j)
      BY <2>2, <3>2 DEF HeldUnits, Units
    <3>3. CASE k \notin 1..Held(j)
      BY <1>1, <2>2, <3>1, <3>3
    <3> QED
      BY <3>2, <3>3
  <2> QED
    BY <2>1, <2>2
<1>3. IsFiniteSet(D) /\ Cardinality(D) <= d
  BY <1>1, Column
<1>4. IsFiniteSet(HeldUnits \cup D) /\ IsFiniteSet(HeldUnits \cap D)
  BY <1>3, FS_Union, FS_Subset
<1>5. Cardinality(HeldUnits \cup D) =
        Cardinality(HeldUnits) + Cardinality(D) - Cardinality(HeldUnits \cap D)
  BY <1>3, FS_Union
<1>6. /\ Cardinality(HeldUnits) \in Nat
      /\ Cardinality(D) \in Nat
      /\ Cardinality(HeldUnits \cap D) \in Nat
  BY <1>3, <1>4, FS_CardinalityType
<1>7. IsFiniteSet(HeldUnits') /\ Cardinality(HeldUnits') <= Cardinality(HeldUnits \cup D)
  BY <1>2, <1>4, FS_Subset
<1>8. Cardinality(HeldUnits') \in Nat
  BY <1>7, FS_CardinalityType
<1> QED
  BY <1>3, <1>5, <1>6, <1>7, <1>8

(* The strengthened form of BudgetCoversInstances. *)
BudgetInv == IsFiniteSet(HeldUnits) /\ BudgetCoversInstances

LEMMA ChargedGrowth ==
  ASSUME TypeOK, TypeOK', BudgetInv,
         NEW j \in LoadIds, NEW d \in Nat, NEW a \in Nat, d <= a, Charge(a),
         Held(j)' = Held(j) + d,
         \A l \in LoadIds \ {j} : Held(l)' = Held(l)
  PROVE  BudgetInv'
<1>1. /\ IsFiniteSet(HeldUnits')
      /\ Cardinality(HeldUnits') <= Cardinality(HeldUnits) + d
  BY OneInstanceGrows DEF BudgetInv
<1>2. Cardinality(HeldUnits') \in Nat /\ Cardinality(HeldUnits) \in Nat
  BY <1>1, FS_CardinalityType DEF BudgetInv
<1>3. remaining \in Nat /\ remaining' = remaining - a /\ TotalLimit \in Nat
  BY Constants DEF Charge, TypeOK, LimiterTypeOK
<1>4. Cardinality(HeldUnits') <= TotalLimit - remaining'
  BY <1>1, <1>2, <1>3 DEF BudgetInv, BudgetCoversInstances
<1> QED
  BY <1>1, <1>4 DEF BudgetInv, BudgetCoversInstances

LEMMA BudgetStep ==
  ASSUME TypeOK, InFlight, NoTraceBefore, BudgetInv, Next, TypeOK'
  PROVE  BudgetInv'
<1>1. CASE /\ AllocateInstance
           /\ LoadAt("registered")
           /\ Advance("instantiated") \/ Advance("failed")
  <2> DEFINE b == binary[attempts]
             a == MemoryAtStart(b) + TableAtStart(b)
  <2>1. attempts \in LoadIds /\ mem[attempts] = 0 /\ tbl[attempts] = 0
    BY <1>1 DEF LoadAt, InFlight, NoTraceBefore
  <2>2. b.minMem \in Nat /\ b.minTbl \in Nat /\ EntrySize \in Nat
    BY <2>1, Constants DEF TypeOK
  <2>3. a = b.minMem + b.minTbl * EntrySize /\ a \in Nat
    <3>1. b.minTbl * EntrySize \in Nat
      BY <2>2
    <3> QED
      BY <2>2, <3>1 DEF MemoryAtStart, TableAtStart, MemoryRequest, TableRequest
  <2>4. Held(attempts) = 0
    BY <2>1, <2>2 DEF Held
  <2>5. mem'[attempts] = b.minMem /\ tbl'[attempts] = b.minTbl
    BY <1>1, <2>1 DEF AllocateInstance, TypeOK
  <2>6. ASSUME NEW l \in LoadIds \ {attempts} PROVE Held(l)' = Held(l)
    BY <1>1 DEF AllocateInstance, Held, TypeOK
  <2>7. PICK j \in LoadIds : j = attempts
    BY <2>1
  <2>8. Held(j)' = Held(j) + a
    BY <2>3, <2>4, <2>5, <2>7 DEF Held
  <2>9. Charge(a)
    BY <1>1 DEF AllocateInstance
  <2>10. a <= a
    BY <2>3
  <2> HIDE DEF a
  <2> QED
    BY <2>3, <2>6, <2>7, <2>8, <2>9, <2>10, ChargedGrowth
<1>2. ASSUME NEW d \in MemGrowths, GuestGrowMemory(d) PROVE BudgetInv'
  <2>1. PICK j \in LoadIds : j = Top
    BY <1>2, StackFacts DEF GuestGrowMemory, InGuest
  <2>2. mem[j] \in Nat /\ tbl[j] \in Nat /\ d \in Nat /\ EntrySize \in Nat
    BY Constants DEF TypeOK
  <2>3. Charge(d)
    <3>1. MemoryRequest(mem[j], mem[j] + d) = d
      BY <2>2 DEF MemoryRequest
    <3> QED
      BY <1>2, <2>1, <3>1 DEF GuestGrowMemory
  <2>4. PICK e \in {0, d} : /\ mem'[j] = mem[j] + e
                            /\ \A l \in LoadIds \ {j} : mem'[l] = mem[l]
                            /\ tbl' = tbl
    BY <1>2, <2>1, <2>2 DEF GuestGrowMemory, TypeOK
  <2>5. Held(j)' = Held(j) + e
    <3>1. tbl[j] * EntrySize \in Nat
      BY <2>2
    <3> QED
      BY <2>2, <2>4, <3>1 DEF Held
  <2>6. \A l \in LoadIds \ {j} : Held(l)' = Held(l)
    BY <2>4 DEF Held
  <2> QED
    BY <2>2, <2>3, <2>5, <2>6, ChargedGrowth
<1>3. ASSUME NEW d \in TblGrowths, GuestGrowTable(d) PROVE BudgetInv'
  <2>1. PICK j \in LoadIds : j = Top
    BY <1>3, StackFacts DEF GuestGrowTable, InGuest
  <2>2. mem[j] \in Nat /\ tbl[j] \in Nat /\ d \in Nat /\ EntrySize \in Nat
    BY Constants DEF TypeOK
  <2>3. Charge(d * EntrySize) /\ d * EntrySize \in Nat
    <3>1. TableRequest(tbl[j], tbl[j] + d) = d * EntrySize
      <4>1. \A c \in Nat, e \in Nat, z \in Nat : (c + e - c) * z = e * z
        OBVIOUS
      <4>2. (tbl[j] + d - tbl[j]) * EntrySize = d * EntrySize
        BY <2>2, <4>1
      <4> QED
        BY <2>2, <4>2 DEF TableRequest
    <3> QED
      BY <1>3, <2>1, <2>2, <3>1 DEF GuestGrowTable
  <2>4. PICK e \in {0, d} : /\ tbl'[j] = tbl[j] + e
                            /\ \A l \in LoadIds \ {j} : tbl'[l] = tbl[l]
                            /\ mem' = mem
    BY <1>3, <2>1, <2>2 DEF GuestGrowTable, TypeOK
  <2>5. Held(j)' = Held(j) + e * EntrySize
    <3>1. (tbl[j] + e) * EntrySize = tbl[j] * EntrySize + e * EntrySize
      BY <2>2, <2>4
    <3>2. tbl[j] * EntrySize \in Nat /\ e * EntrySize \in Nat
      BY <2>2, <2>4
    <3> QED
      BY <2>2, <2>4, <3>1, <3>2 DEF Held
  <2>6. \A l \in LoadIds \ {j} : Held(l)' = Held(l)
    BY <2>4 DEF Held
  <2>7. e * EntrySize \in Nat /\ e * EntrySize <= d * EntrySize
    BY <2>2, <2>3, <2>4
  <2> QED
    BY <2>3, <2>5, <2>6, <2>7, ChargedGrowth
<1>4. CASE UNCHANGED <<mem, tbl>>
  <2>1. HeldUnits' = HeldUnits
    BY <1>4 DEF HeldUnits, Units, Held
  <2>2. Cardinality(HeldUnits) \in Nat
    BY FS_CardinalityType DEF BudgetInv
  <2>3. remaining' <= remaining /\ remaining \in Nat /\ remaining' \in Nat
    BY BudgetOnlyShrinks, Constants DEF TypeOK, LimiterTypeOK
  <2> QED
    BY <2>1, <2>2, <2>3, Constants DEF BudgetInv, BudgetCoversInstances
<1> QED
  BY <1>1, <1>2, <1>3, <1>4, SizesFootprint

-----------------------------------------------------------------------------
(* The inductive invariant.  A frame may only call what its links name, so *)
(* the order of the frames needs the links, the links need the map, and    *)
(* all of them need to know which attempts are still in flight.            *)
CoreInv ==
    /\ TypeOK
    /\ Bookkeeping
    /\ PublishedReady
    /\ ImportsAnswered
    /\ FramesReady
    /\ NoCallback
    /\ OwnWasi
    /\ BudgetInv

LEMMA CoreInvInit == Init => CoreInv
<1> SUFFICES ASSUME Init PROVE CoreInv
  OBVIOUS
<1> USE DEF Init, LimiterInit
<1>1. TypeOK
  BY TypeInit
<1>2. Bookkeeping
  BY DEF Bookkeeping, InFlight, NoTraceBefore, OnlyItsImports, AtRest, None
<1>3. PublishedReady /\ ImportsAnswered /\ OwnWasi
  BY DEF PublishedReady, ImportsAnswered, OwnWasi, LinkedStages, None
<1>4. FramesReady /\ NoCallback
  BY DEF FramesReady, NoCallback
<1>5. BudgetInv
  <2>1. ASSUME NEW l \in LoadIds PROVE Held(l) = 0
    BY Constants DEF Held
  <2>2. HeldUnits = {}
    BY <2>1 DEF HeldUnits, Units
  <2>3. IsFiniteSet(HeldUnits) /\ Cardinality(HeldUnits) = 0
    BY <2>2, FS_EmptySet
  <2>4. TotalLimit - remaining = 0
    BY Constants
  <2> QED
    BY <2>3, <2>4 DEF BudgetInv, BudgetCoversInstances
<1> QED
  BY <1>1, <1>2, <1>3, <1>4, <1>5 DEF CoreInv

LEMMA CoreInvNext == CoreInv /\ Next => CoreInv'
<1> SUFFICES ASSUME CoreInv, Next PROVE CoreInv'
  OBVIOUS
<1> USE DEF CoreInv, Bookkeeping
<1>1. TypeOK'
  BY TypeStep
<1>2. Bookkeeping'
  BY InFlightStep, NoTraceStep, OnlyItsImportsStep
<1>3. PublishedReady' /\ ImportsAnswered' /\ OwnWasi'
  BY PublishedReadyStep, ImportsAnsweredStep, OwnWasiStep
<1>4. FramesReady' /\ NoCallback'
  BY FramesReadyStep, NoCallbackStep
<1>5. BudgetInv'
  BY <1>1, BudgetStep
<1> QED
  BY <1>1, <1>2, <1>3, <1>4, <1>5

LEMMA CoreInvStutter == CoreInv /\ UNCHANGED vars => CoreInv'
<1> SUFFICES ASSUME CoreInv, UNCHANGED vars PROVE CoreInv'
  OBVIOUS
<1> USE DEF CoreInv, vars, coreVars, limiterVars
<1>1. TypeOK'
  BY DEF TypeOK, LimiterTypeOK
<1>2. Bookkeeping'
  BY DEF Bookkeeping, InFlight, NoTraceBefore, OnlyItsImports
<1>3. PublishedReady' /\ ImportsAnswered' /\ OwnWasi'
  BY DEF PublishedReady, ImportsAnswered, OwnWasi
<1>4. FramesReady' /\ NoCallback'
  BY DEF FramesReady, NoCallback
<1>5. BudgetInv'
  BY DEF BudgetInv, BudgetCoversInstances, HeldUnits, Units, Held
<1> QED
  BY <1>1, <1>2, <1>3, <1>4, <1>5

(* The invariant holds in every state of every core. *)
THEOREM CoreCorrect == Spec => []CoreInv
<1>1. CoreInv /\ [Next]_vars => CoreInv'
  BY CoreInvNext, CoreInvStutter
<1> QED
  BY CoreInvInit, <1>1, PTL DEF Spec

(* Every variable keeps its type (marine_core.rs, marine_module.rs). *)
THEOREM TypeCorrect == Spec => []TypeOK
<1>1. CoreInv => TypeOK
  BY DEF CoreInv
<1> QED
  BY CoreCorrect, <1>1, PTL

(* Between two operations nothing is half done, whatever failed, trapped   *)
(* or was dropped before (load_module_, MModule::new).                     *)
THEOREM BookkeepingCorrect == Spec => []Bookkeeping
<1>1. CoreInv => Bookkeeping
  BY DEF CoreInv
<1> QED
  BY CoreCorrect, <1>1, PTL

(* However modules are loaded, unloaded, called and fail, the memories and *)
(* tables of all instances fit in what the limiter handed out (try_alloc). *)
THEOREM BudgetCorrect == Spec => []BudgetCoversInstances
<1>1. CoreInv => BudgetCoversInstances
  BY DEF CoreInv, BudgetInv
<1> QED
  BY CoreCorrect, <1>1, PTL

(* A name only ever resolves to a completely started module that was       *)
(* loaded under it (load_module_ inserts last).                            *)
THEOREM PublishedCorrect == Spec => []PublishedReady
<1>1. CoreInv => PublishedReady
  BY DEF CoreInv
<1> QED
  BY CoreCorrect, <1>1, PTL

(* The imports of a linked module stay answered by completely loaded,      *)
(* earlier modules, whatever is unloaded (extract_imports, get_callable).  *)
THEOREM ImportsCorrect == Spec => []ImportsAnswered
<1>1. CoreInv => ImportsAnswered
  BY DEF CoreInv
<1> QED
  BY CoreCorrect, <1>1, PTL

(* No module is called back into while it executes, so that no result is   *)
(* overwritten before it is read; its own helpers are all that it is       *)
(* entered for again (create_raw_import, Callable::call_async).            *)
THEOREM FramesCorrect == Spec => []NoCallback
<1>1. CoreInv => NoCallback
  BY DEF CoreInv
<1> QED
  BY CoreCorrect, <1>1, PTL

(* Only start-up code runs in a module that is not loaded completely       *)
(* (start_func of MModule::new).                                           *)
THEOREM FramesReadyCorrect == Spec => []FramesReady
<1>1. CoreInv => FramesReady
  BY DEF CoreInv
<1> QED
  BY CoreCorrect, <1>1, PTL

(* Each module's WASI functions use its own context (add_wasi_to_linker).  *)
THEOREM WasiCorrect == Spec => []OwnWasi
<1>1. CoreInv => OwnWasi
  BY DEF CoreInv
<1> QED
  BY CoreCorrect, <1>1, PTL

-----------------------------------------------------------------------------
(* The core implements the registry.                                       *)

LEMMA RegistryInitially == Init => Registry!RegistryInit
BY Constants DEF Init, LimiterInit, Registry!RegistryInit

LEMMA SpendingStep ==
  ASSUME TypeOK, TypeOK', InFlight, Next, UNCHANGED modules,
         {l \in LoadIds : stage'[l] = "published"}
           = {l \in LoadIds : stage[l] = "published"}
  PROVE  Registry!Spend
<1>1. TotalLimit - remaining' \in (TotalLimit - remaining)..TotalLimit
  <2>1. /\ TotalLimit \in Nat /\ remaining \in 0..TotalLimit
        /\ remaining' \in 0..TotalLimit /\ remaining' <= remaining
    BY Constants, BudgetOnlyShrinks DEF TypeOK, LimiterTypeOK
  <2>2. \A t \in Nat : \A r \in 0..t, q \in 0..t : q <= r => t - q \in (t - r)..t
    OBVIOUS
  <2> QED
    BY <2>1, <2>2
<1> QED
  BY <1>1 DEF Registry!Spend

LEMMA RegistryStep ==
  ASSUME TypeOK, TypeOK', InFlight, NoTraceBefore, Next
  PROVE  Registry!RegistryNext \/ UNCHANGED Registry!registryVars
<1> DEFINE Goal == Registry!RegistryNext \/ UNCHANGED Registry!registryVars
<1>1. CASE InsertModule
  <2>1. attempts \in LoadIds /\ name[attempts] \in Names /\ stage[attempts] = "started"
    BY <1>1 DEF InsertModule, LoadAt, InFlight, TypeOK
  <2>2. {l \in LoadIds : stage'[l] = "published"}
          = {l \in LoadIds : stage[l] = "published"} \cup {attempts}
    BY <1>1, <2>1 DEF InsertModule, Advance, TypeOK
  <2>3. /\ modules[name[attempts]] = None
        /\ modules' = [modules EXCEPT ![name[attempts]] = attempts]
    BY <1>1 DEF InsertModule
  <2>4. attempts \notin {l \in LoadIds : stage[l] = "published"}
    BY <2>1
  <2>5. UNCHANGED remaining
    BY <1>1 DEF InsertModule, limiterVars
  <2>6. \E n \in Names, id \in LoadIds :
          /\ modules[n] = None
          /\ id \notin {l \in LoadIds : stage[l] = "published"}
          /\ modules' = [modules EXCEPT ![n] = id]
          /\ {l \in LoadIds : stage'[l] = "published"}
               = {l \in LoadIds : stage[l] = "published"} \cup {id}
    BY <2>1, <2>2, <2>3, <2>4
  <2>7. \E n \in Names, id \in LoadIds : Registry!Publish(n, id)
    BY <2>5, <2>6 DEF Registry!Publish
  <2>8. Registry!RegistryNext
    BY <2>7 DEF Registry!RegistryNext
  <2> QED
    BY <2>8
<1>2. ASSUME NEW n \in Names, UnloadModule(n) PROVE Goal
  <2>1. UNCHANGED <<stage, remaining>> /\ modules' = [modules EXCEPT ![n] = None]
    BY <1>2 DEF UnloadModule, limiterVars
  <2>2. CASE modules[n] = None
    <3>1. modules' = modules
      BY <2>1, <2>2 DEF TypeOK
    <3> QED
      BY <2>1, <3>1 DEF Registry!registryVars
  <2>3. CASE modules[n] # None
    BY <2>1, <2>3 DEF Registry!Remove, Registry!RegistryNext
  <2> QED
    BY <2>2, <2>3
<1>3. ASSUME UNCHANGED modules,
             {l \in LoadIds : stage'[l] = "published"}
               = {l \in LoadIds : stage[l] = "published"}
      PROVE  Goal
  BY <1>3, SpendingStep DEF Registry!RegistryNext
<1>4. CASE Begins
  <2>1. UNCHANGED modules /\ stage' = [stage EXCEPT ![attempts + 1] = "requested"]
    BY <1>4 DEF Begins, RequestLoad
  <2>2. \A l \in LoadIds : l > attempts => stage[l] # "published"
    BY DEF NoTraceBefore
  <2>3. attempts + 1 > attempts
    BY DEF TypeOK
  <2>4. {l \in LoadIds : stage'[l] = "published"}
          = {l \in LoadIds : stage[l] = "published"}
    BY <2>1, <2>2, <2>3 DEF TypeOK
  <2> QED
    BY <1>3, <2>1, <2>4
<1>5. CASE Moves
  <2>1. {l \in LoadIds : stage'[l] = "published"}
          = {l \in LoadIds : stage[l] = "published"}
    BY <1>5 DEF Moves, Advance, InFlight, AtRest, TypeOK
  <2> QED
    BY <1>3, <1>5, <2>1 DEF Moves
<1>6. CASE Rests
  <2>1. CASE UNCHANGED modules
    BY <1>3, <1>6, <2>1 DEF Rests
  <2>2. CASE modules' # modules
    <3>1. ~InsertModule
      BY <1>6 DEF Rests, InsertModule, Advance, LoadAt, InFlight, TypeOK
    <3>2. \E n \in Names : UnloadModule(n)
      BY <2>2, <3>1, ModulesFootprint
    <3> QED
      BY <1>2, <3>2
  <2> QED
    BY <2>1, <2>2
<1> QED
  BY <1>1, <1>4, <1>5, <1>6, StepKinds

(* Every behaviour of the core, seen through the mapping, is one of the    *)
(* registry: names are never silently rebound, unloaded modules never come *)
(* back, the budget is only spent ("never frees resources used for         *)
(* instantiation", marine_core.rs).                                        *)
THEOREM Refinement == Spec => ImplementsRegistry
<1>1. CoreInv /\ CoreInv' /\ [Next]_vars =>
        [Registry!RegistryNext]_(Registry!registryVars)
  <2>1. ASSUME CoreInv, CoreInv', Next
        PROVE  Registry!RegistryNext \/ UNCHANGED Registry!registryVars
    BY <2>1, RegistryStep DEF CoreInv, Bookkeeping
  <2>2. ASSUME UNCHANGED vars
        PROVE  UNCHANGED Registry!registryVars
    BY <2>2 DEF vars, coreVars, limiterVars, Registry!registryVars
  <2> QED
    BY <2>1, <2>2
<1> QED
  BY RegistryInitially, CoreCorrect, <1>1, PTL
  DEF Spec, ImplementsRegistry, Registry!RegistrySpec
=============================================================================
