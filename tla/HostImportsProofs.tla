-------------------------- MODULE HostImportsProofs --------------------------
(***************************************************************************)
(* Proofs about HostImports, for every set of descriptors and any number   *)
(* of calls.                                                               *)
(***************************************************************************)
EXTENDS HostImports, PrefixLemmas, SequenceTheorems, TLAPS

InCall == {"lifting", "lowering", "allocating", "setting ptr", "setting size",
           "returning"}
Setting == {"setting ptr", "setting size"}

(* What each stage of a call has established.  While values are lifted     *)
(* nothing failed and there is no output yet; ...                          *)
StageOK ==
    /\ pc \in InCall <=> fate = "none" /\ calls > 0
    /\ pc = "down" <=> fate = "panicked"
    /\ pc = "lifting" => failed = "no"
    /\ pc \in {"lowering", "allocating"} => failed # "lowering"
    /\ pc \in Setting \cup {"allocating"} =>
          InMemory(output) /\ "allocate" \in exports
    /\ pc \in Setting => "set_result_ptr" \in exports

(* ... afterwards the output is of the declared type, or the error handler *)
(* chose none.                                                             *)
OutputOK ==
    /\ output \in {desc.output, "nothing"}
    /\ pc \in InCall \ {"lifting"} =>
          output = desc.output \/ failed \in {"count", "value"}

(* The cells are written one after the other before nothing is handed over *)
(* for a value in memory.                                                  *)
CellsOK ==
    /\ pc = "setting size" /\ failed # "lowering" => ptr = calls
    /\ pc = "returning" /\ results = <<>> /\ InMemory(output) =>
          ptr = calls /\ (output # "record" => size = calls)
    /\ pc = "returning" /\ failed = "lowering" =>
          InMemory(output) /\ results = <<"i32">>

HostInv ==
    /\ HostTypeOK
    /\ StageOK
    /\ OutputOK
    /\ CellsOK
    /\ ResultBelongsToCall
    /\ FailureNotSilent
    /\ PanicOnlyUnhandled

-----------------------------------------------------------------------------
LEMMA Tables ==
  /\ <<"i32">> # <<>>
  /\ ~InMemory("nothing")
  /\ \A t \in ITypes : InMemory(t) /\ t # "bytes" => ResultTypes(t) = <<>>
<1>1. Len(<<"i32">>) = 1 /\ Len(<<>>) = 0
  OBVIOUS
<1> QED
  BY <1>1 DEF ITypes, InMemory, ResultTypes

(* What a call can hand over, as sequences of types. *)
LEMMA HandedOver ==
  ASSUME NEW t \in {<<>>, <<"i32">>, <<"i64">>, <<"f32">>, <<"f64">>}
  PROVE  t \in Seq({"i32", "i64", "f32", "f64"})
<1>1. <<>> \in Seq({"i32", "i64", "f32", "f64"})
  OBVIOUS
<1>2. ASSUME NEW u \in {"i32", "i64", "f32", "f64"}
      PROVE  <<u>> \in Seq({"i32", "i64", "f32", "f64"})
  OBVIOUS
<1> QED
  BY <1>1, <1>2

(* What the proofs need of a descriptor. *)
LEMMA DescriptorFacts ==
  ASSUME NEW d \in Descriptors
  PROVE  /\ Len(d.arguments) \in Nat
         /\ d.output \in Outputs
         /\ d.output \in ITypes \/ d.output = "nothing"
<1>1. d \in DescriptorType
  BY HostAssumption
<1>2. d.arguments \in Seq(ITypes) /\ d.output \in Outputs
  BY <1>1 DEF DescriptorType
<1> QED
  BY <1>2 DEF Outputs

LEMMA HostInvInit == HostInit => HostInv
<1> SUFFICES ASSUME HostInit PROVE HostInv
  OBVIOUS
<1>1. HostTypeOK
  BY HostAssumption DEF HostInit, HostTypeOK, DescriptorType, Outputs
<1> QED
  BY <1>1, Tables DEF HostInit, HostInv, StageOK, OutputOK, CellsOK, InCall,
     Setting, ResultBelongsToCall, FailureNotSilent, PanicOnlyUnhandled

LEMMA LiftLength == Len(Needed) \in Nat
<1>1. CASE Needed = <<"i32", "i32">>
  BY <1>1
<1>2. CASE \E t : Needed = <<t>>
  BY <1>2
<1> QED
  BY <1>1, <1>2 DEF Needed, LiftTypes

LEMMA WrittenInRange ==
  ASSUME MaxCalls \in Nat, calls \in 0..MaxCalls
  PROVE  Written \in 0..calls
BY DEF Written

(* Each step keeps the types; what is handed over are types of Wasm values. *)
LEMMA HostTypeStep ==
  ASSUME HostTypeOK, OutputOK, HostNext
  PROVE  HostTypeOK'
<1> USE HostAssumption DEF HostTypeOK
<1> USE DEF callVars, liftVars, cellVars, Panic, HandOver
<1>1. /\ <<>> \in Seq({"i32", "i64", "f32", "f64"})
      /\ <<"i32">> \in Seq({"i32", "i64", "f32", "f64"})
  BY HandedOver
<1>2. /\ Len(desc.arguments) \in Nat
      /\ desc.output \in Outputs
      /\ "nothing" \in Outputs
  BY DescriptorFacts DEF Outputs
<1>3. ASSUME NEW d \in Descriptors, CallImport(d) PROVE HostTypeOK'
  <2>1. Len(d.arguments) \in Nat
    BY DescriptorFacts
  <2> QED
    BY <1>1, <1>2, <1>3, <2>1 DEF CallImport
<1>4. CASE NoMemory \/ RunClosure \/ CallAllocate
  BY <1>2, <1>4 DEF NoMemory, RunClosure, CallAllocate
<1>5. CASE LiftArgument
  <2>1. Len(Needed) \in Nat
    BY LiftLength
  <2>2. lifted' \in 0..Len(desc.arguments) /\ taken' \in Nat
    BY <1>2, <1>5, <2>1 DEF LiftArgument, MoreToLift, Lifting
  <2> QED
    BY <1>5, <2>2 DEF LiftArgument
<1>6. CASE TooFewValues \/ LiftFails
  BY <1>2, <1>6 DEF TooFewValues, LiftFails, Handled
<1>7. CASE NoAllocate
  BY <1>1, <1>7 DEF NoAllocate
<1>8. CASE LowerPrimitive
  <2>1. output \in {"nothing", "i32", "i64", "f32", "f64"}
    BY <1>8 DEF LowerPrimitive, InMemory, Outputs, ITypes
  <2>2. results' \in {<<>>, <<"i32">>, <<"i64">>, <<"f32">>, <<"f64">>}
    BY <1>8, <2>1 DEF LowerPrimitive
  <2>3. results' \in Seq({"i32", "i64", "f32", "f64"})
    BY HandedOver, <2>2
  <2> QED
    BY <1>8, <2>3 DEF LowerPrimitive
<1>9. CASE Allocated \/ AllocationFails
  <2>1. results' \in Seq({"i32", "i64", "f32", "f64"})
    BY <1>1, <1>9 DEF Allocated, AllocationFails, BeginSetting
  <2> QED
    BY <1>9, <2>1 DEF Allocated, AllocationFails, BeginSetting
<1>10. CASE PtrSet \/ SizeSet
  <2>1. results' \in Seq({"i32", "i64", "f32", "f64"})
    BY <1>1, <1>10 DEF PtrSet, SizeSet
  <2>2. Written \in 0..calls
    BY WrittenInRange
  <2> QED
    BY <1>10, <2>1, <2>2 DEF PtrSet, SizeSet
<1>11. CASE SetterTraps \/ Return \/ ReturnRefused \/ Drop
  BY <1>11 DEF SetterTraps, Return, ReturnRefused, Drop
<1> QED
  BY <1>3, <1>4, <1>5, <1>6, <1>7, <1>8, <1>9, <1>10, <1>11 DEF HostNext

LEMMA HostInvNext == HostInv /\ HostNext => HostInv'
<1> SUFFICES ASSUME HostInv, HostNext PROVE HostInv'
  OBVIOUS
<1>0. HostTypeOK'
  BY HostTypeStep DEF HostInv
<1>1. calls \in Nat /\ desc.output \in Outputs
  <2>1. calls \in 0..MaxCalls /\ desc \in Descriptors
    BY DEF HostInv, HostTypeOK
  <2> QED
    BY <2>1, HostAssumption, DescriptorFacts
<1> USE Tables DEF HostInv, StageOK, OutputOK, CellsOK, InCall, Setting,
        callVars, liftVars, cellVars, Panic, HandOver, BytesResult,
        ResultBelongsToCall, FailureNotSilent, PanicOnlyUnhandled
<1>2. ASSUME NEW d \in Descriptors, CallImport(d) PROVE HostInv'
  BY <1>0, <1>1, <1>2 DEF CallImport
<1>3. CASE NoMemory
  BY <1>0, <1>1, <1>3 DEF NoMemory
<1>4. CASE LiftArgument
  BY <1>0, <1>1, <1>4 DEF LiftArgument, MoreToLift, Lifting
<1>5. CASE TooFewValues \/ LiftFails
  BY <1>0, <1>1, <1>5 DEF TooFewValues, LiftFails, MoreToLift, Lifting, Handled
<1>6. CASE RunClosure
  BY <1>0, <1>1, <1>6 DEF RunClosure, Lifting
<1>7. CASE NoAllocate
  BY <1>0, <1>1, <1>7 DEF NoAllocate
<1>8. CASE LowerPrimitive \/ CallAllocate
  BY <1>0, <1>1, <1>8 DEF LowerPrimitive, CallAllocate
<1>9. CASE Allocated \/ AllocationFails
  BY <1>0, <1>1, <1>9 DEF Allocated, AllocationFails, BeginSetting, BothSetters
<1>10. CASE PtrSet
  <2>1. CASE output = "record" /\ failed # "lowering"
    <3>1. /\ pc' = "returning"
          /\ ptr' = calls
          /\ UNCHANGED <<exports, calls, desc, output, failed, size, fate>>
      BY <1>10, <2>1 DEF PtrSet, Written
    <3> QED
      BY <1>0, <1>10, <2>1, <3>1 DEF PtrSet
  <2>2. CASE ~(output = "record" /\ failed # "lowering")
    <3>1. /\ pc' = "setting size"
          /\ failed # "lowering" => ptr' = calls
          /\ UNCHANGED <<exports, calls, desc, output, failed, size, fate>>
      BY <1>10, <2>2 DEF PtrSet, Written
    <3> QED
      BY <1>0, <1>10, <3>1 DEF PtrSet
  <2> QED
    BY <2>1, <2>2
<1>11. CASE SizeSet
  <2>1. CASE failed = "lowering"
    BY <1>0, <1>11, <2>1 DEF SizeSet
  <2>2. CASE failed # "lowering"
    <3>1. ptr' = calls /\ size' = calls /\ results' = <<>>
      BY <1>11, <2>2 DEF SizeSet, Written
    <3> QED
      BY <1>0, <1>11, <2>2, <3>1 DEF SizeSet
  <2> QED
    BY <2>1, <2>2
<1>12. CASE SetterTraps \/ Drop
  BY <1>0, <1>1, <1>12 DEF SetterTraps, Drop
<1>13. CASE Return
  <2>1. ASSUME InMemory(output), ~BytesResult PROVE results = <<>>
    BY <1>1, <1>13, <2>1 DEF Return, Outputs
  <2> QED
    BY <1>0, <1>1, <1>13, <2>1 DEF Return
<1>14. CASE ReturnRefused
  BY <1>0, <1>1, <1>14 DEF ReturnRefused
<1> QED
  BY <1>2, <1>3, <1>4, <1>5, <1>6, <1>7, <1>8, <1>9, <1>10, <1>11, <1>12,
     <1>13, <1>14 DEF HostNext

LEMMA HostInvStutter == HostInv /\ UNCHANGED hostVars => HostInv'
BY DEF hostVars, callVars, liftVars, cellVars, HostInv, HostTypeOK, StageOK,
       OutputOK, CellsOK, ResultBelongsToCall, FailureNotSilent, BytesResult,
       PanicOnlyUnhandled

(* The invariant holds in every state of a guest that calls host imports. *)
THEOREM HostCorrect == HostSpec => []HostInv
<1>1. HostInv /\ [HostNext]_hostVars => HostInv'
  BY HostInvNext, HostInvStutter
<1> QED
  BY HostInvInit, <1>1, PTL DEF HostSpec

(* Every variable keeps its type (imports.rs). *)
THEOREM HostTypeCorrect == HostSpec => []HostTypeOK
<1>1. HostInv => HostTypeOK
  BY DEF HostInv
<1> QED
  BY HostCorrect, <1>1, PTL

(* Whatever calls failed, trapped or were dropped before, a guest that     *)
(* goes on finds the pointer and the size of its own result                *)
(* (lower_outputs).                                                        *)
THEOREM ResultCorrect == HostSpec => []ResultBelongsToCall
<1>1. HostInv => ResultBelongsToCall
  BY DEF HostInv
<1> QED
  BY HostCorrect, <1>1, PTL

(* A result that could not be lowered is never passed off as one that was *)
(* (call_host_import and lower_outputs).                                   *)
THEOREM FailureCorrect == HostSpec => []FailureNotSilent
<1>1. HostInv => FailureNotSilent
  BY DEF HostInv
<1> QED
  BY HostCorrect, <1>1, PTL

(* The host goes down only for the reasons it states (lower_outputs and    *)
(* the expects of call_host_import).                                       *)
THEOREM PanicCorrect == HostSpec => []PanicOnlyUnhandled
<1>1. HostInv => PanicOnlyUnhandled
  BY DEF HostInv
<1> QED
  BY HostCorrect, <1>1, PTL

-----------------------------------------------------------------------------
(* Lifting keeps in step with the signature.  The parameters of a prefix   *)
(* of the arguments are a prefix of all the parameters, ...                *)
WasmTypes == {"i32", "i64", "f32", "f64"}

LEMMA ArgumentTypesType ==
  ASSUME NEW t \in ITypes
  PROVE  /\ ArgumentTypes(t) \in Seq(WasmTypes)
         /\ Len(ArgumentTypes(t)) \in Nat \ {0}
         /\ t # "bytes" => LiftTypes(t) = ArgumentTypes(t)
<1>1. CASE t \in {"string", "array"}
  BY <1>1 DEF ArgumentTypes, LiftTypes, WasmTypes
<1>2. CASE t \in {"bytes", "record"}
  BY <1>2 DEF ArgumentTypes, LiftTypes, WasmTypes
<1>3. CASE t \in {"i32", "i64", "f32", "f64"}
  <2>1. ArgumentTypes(t) = <<t>> /\ LiftTypes(t) = <<t>>
    BY <1>3 DEF ArgumentTypes, LiftTypes
  <2> QED
    BY <1>3, <2>1 DEF WasmTypes
<1> QED
  BY <1>1, <1>2, <1>3 DEF ITypes

LEMMA ParametersStep ==
  ASSUME NEW d \in Descriptors, NEW k \in Nat, k < Len(d.arguments)
  PROVE  /\ ParametersUpTo(d, k) \in Seq(WasmTypes)
         /\ ArgumentTypes(d.arguments[k + 1]) \in Seq(WasmTypes)
         /\ ParametersUpTo(d, k + 1) =
               ParametersUpTo(d, k) \o ArgumentTypes(d.arguments[k + 1])
<1> DEFINE seqs == [j \in 1..k |-> ArgumentTypes(d.arguments[j])]
           more == [j \in 1..(k + 1) |-> ArgumentTypes(d.arguments[j])]
           e == ArgumentTypes(d.arguments[k + 1])
<1>1. d.arguments \in Seq(ITypes)
  BY HostAssumption DEF DescriptorType
<1>2. \A j \in 1..(k + 1) : ArgumentTypes(d.arguments[j]) \in Seq(WasmTypes)
  <2>1. \A j \in 1..(k + 1) : d.arguments[j] \in ITypes
    BY <1>1
  <2> QED
    BY <2>1, ArgumentTypesType
<1>3. k + 1 \in 1..(k + 1) /\ 1..k \subseteq 1..(k + 1)
  OBVIOUS
<1>4. seqs \in Seq(Seq(WasmTypes)) /\ Len(seqs) = k /\ e \in Seq(WasmTypes)
  BY <1>2, <1>3
<1>5. more \in Seq(Seq(WasmTypes)) /\ Len(more) = k + 1
  BY <1>2
<1>6. /\ Append(seqs, e) \in Seq(Seq(WasmTypes))
      /\ Len(Append(seqs, e)) = k + 1
  BY <1>4
<1>7. ASSUME NEW j \in 1..(k + 1) PROVE more[j] = Append(seqs, e)[j]
  <2>1. CASE j = k + 1
    BY <1>4, <2>1
  <2>2. CASE j # k + 1
    <3>1. j \in 1..k
      BY <2>2
    <3> QED
      BY <1>4, <3>1
  <2> QED
    BY <2>1, <2>2
<1> HIDE DEF seqs, more, e
<1>8. more = Append(seqs, e)
  BY <1>5, <1>6, <1>7, SeqEqual
<1>9. FlattenSeq(more) = FlattenSeq(seqs) \o e
  BY <1>4, <1>8, FlattenSeqAppend
<1>10. FlattenSeq(seqs) \in Seq(WasmTypes)
  BY <1>4, FlattenSeqType
<1> QED
  BY <1>4, <1>9, <1>10 DEF ParametersUpTo, seqs, more, e

LEMMA NoParameters ==
  ASSUME NEW d \in Descriptors
  PROVE  ParametersUpTo(d, 0) = <<>>
<1>1. [j \in 1..0 |-> ArgumentTypes(d.arguments[j])] = <<>>
  OBVIOUS
<1> QED
  BY <1>1 DEF ParametersUpTo, FlattenSeq

LEMMA ParametersPrefix ==
  ASSUME NEW d \in Descriptors, NEW k \in Nat, k <= Len(d.arguments),
         ParametersUpTo(d, k) \in Seq(WasmTypes)
  PROVE  \E rest \in Seq(WasmTypes) :
            ParametersUpTo(d, Len(d.arguments)) = ParametersUpTo(d, k) \o rest
<1> DEFINE n == Len(d.arguments)
           P(m) == ParametersUpTo(d, m)
           S == {m \in Nat : k + m <= n =>
                    \E rest \in Seq(WasmTypes) : P(k + m) = P(k) \o rest}
<1>1. n \in Nat
  BY DescriptorFacts
<1>2. 0 \in S
  <2>1. P(k + 0) = P(k) \o <<>> /\ <<>> \in Seq(WasmTypes)
    BY ConcatEmptySeq
  <2> QED
    BY <2>1
<1>3. ASSUME NEW m \in Nat, m \in S PROVE m + 1 \in S
  <2> SUFFICES ASSUME k + (m + 1) <= n
               PROVE  \E rest \in Seq(WasmTypes) :
                         P(k + (m + 1)) = P(k) \o rest
    OBVIOUS
  <2>1. k + m \in Nat /\ k + m < n /\ k + m <= n /\ k + (m + 1) = (k + m) + 1
    BY <1>1
  <2>2. PICK rest \in Seq(WasmTypes) : P(k + m) = P(k) \o rest
    BY <1>3, <2>1
  <2> DEFINE e == ArgumentTypes(d.arguments[(k + m) + 1])
  <2>3. e \in Seq(WasmTypes) /\ P((k + m) + 1) = P(k + m) \o e
    BY <2>1, ParametersStep
  <2> HIDE DEF e, P
  <2>4. (P(k) \o rest) \o e = P(k) \o (rest \o e)
    BY <2>3, ConcatAssociative DEF P
  <2>5. rest \o e \in Seq(WasmTypes)
    BY <2>3, ConcatProperties
  <2> QED
    BY <2>1, <2>2, <2>3, <2>4, <2>5
<1> HIDE DEF S
<1>4. \A m \in Nat : m \in S
  BY <1>2, <1>3, Induction
<1>5. n - k \in Nat /\ k + (n - k) = n /\ k + (n - k) <= n
  BY <1>1
<1>6. n - k \in S
  BY <1>4, <1>5
<1> HIDE DEF P
<1>7. \E rest \in Seq(WasmTypes) : P(k + (n - k)) = P(k) \o rest
  BY <1>5, <1>6 DEF S
<1> QED
  BY <1>5, <1>7 DEF P

(* ... so the values that are left begin with those the next argument      *)
(* needs.                                                                  *)
LEMMA NextFits ==
  ASSUME HostTypeOK, ~BytesArgument, lifted < Len(desc.arguments),
         taken = Len(ParametersUpTo(desc, lifted))
  PROVE  /\ IsPrefix(Needed, Left)
         /\ ~IsStrictPrefix(Left, Needed)
         /\ taken + Len(Needed) = Len(ParametersUpTo(desc, lifted + 1))
<1> DEFINE n == Len(desc.arguments)
           before == ParametersUpTo(desc, lifted)
           upTo == ParametersUpTo(desc, lifted + 1)
           values == ParametersUpTo(desc, n)
<1>0. desc \in Descriptors /\ lifted \in 0..Len(desc.arguments)
  BY DEF HostTypeOK
<1>1. desc \in Descriptors /\ n \in Nat /\ lifted \in Nat /\ lifted + 1 <= n
  <2>1. n \in Nat
    BY <1>0, DescriptorFacts
  <2> QED
    BY <1>0, <2>1
<1>2. desc.arguments \in Seq(ITypes)
  BY <1>1, HostAssumption DEF DescriptorType
<1>3. Argument \in ITypes /\ Argument # "bytes"
  BY <1>2, <1>1 DEF Argument, BytesArgument
<1>4. /\ Needed = ArgumentTypes(Argument)
      /\ Needed \in Seq(WasmTypes)
      /\ Len(Needed) \in Nat \ {0}
  BY <1>3, ArgumentTypesType DEF Needed
<1>5. before \in Seq(WasmTypes) /\ upTo = before \o Needed
  BY <1>1, <1>4, ParametersStep DEF Argument
<1>6. upTo \in Seq(WasmTypes) /\ Len(upTo) = Len(before) + Len(Needed)
  BY <1>4, <1>5, ConcatProperties
<1>7. PICK rest \in Seq(WasmTypes) : values = upTo \o rest
  <2>1. lifted + 1 \in Nat
    BY <1>1
  <2> QED
    BY <1>1, <1>6, <2>1, ParametersPrefix
<1> HIDE DEF before, upTo, values
<1> DEFINE left == Needed \o rest
<1>8. left \in Seq(WasmTypes) /\ Len(left) = Len(Needed) + Len(rest)
  BY <1>4, ConcatProperties
<1>9. values = before \o left
  BY <1>4, <1>5, <1>7, ConcatAssociative
<1>10. Len(values) = Len(before) + Len(left)
  BY <1>5, <1>8, <1>9, ConcatProperties
<1> HIDE DEF left
<1>11. Len(rest) \in Nat /\ Len(before) \in Nat /\ Len(left) \in Nat \ {0}
  BY <1>4, <1>5, <1>8
<1>12. Left = left
  <2>1. Left = SubSeq(before \o left, Len(before) + 1, Len(before) + Len(left))
    BY <1>9, <1>10 DEF Left, before, values
  <2>2. /\ Len(before) + 1 \in Len(before) + 1 .. Len(before) + Len(left)
        /\ Len(before) + Len(left) \in
              Len(before) + 1 .. Len(before) + Len(left)
        /\ (Len(before) + 1) - Len(before) = 1
        /\ (Len(before) + Len(left)) - Len(before) = Len(left)
    BY <1>11
  <2>3. Left = SubSeq(left, 1, Len(left))
    BY <1>5, <1>8, <2>1, <2>2, SubSeqOfConcat2
  <2> QED
    BY <1>8, <2>3, SubSeqFull
<1>13. IsPrefix(Needed, Left)
  <2>1. 1 \in 1..Len(Needed) /\ Len(Needed) \in 1..Len(Needed)
    BY <1>4
  <2>2. SubSeq(left, 1, Len(Needed)) = SubSeq(Needed, 1, Len(Needed))
    BY <1>4, <2>1, SubSeqOfConcat1 DEF left
  <2>3. Len(Needed) <= Len(Left)
    BY <1>4, <1>8, <1>11, <1>12
  <2> QED
    BY <1>12, <2>2, <2>3 DEF IsPrefix
<1>14. ~IsStrictPrefix(Left, Needed)
  <2> SUFFICES ASSUME IsStrictPrefix(Left, Needed) PROVE FALSE
    OBVIOUS
  <2>1. Len(left) <= Len(Needed) /\ left # Needed
    BY <1>12 DEF IsStrictPrefix, IsPrefix
  <2>2. Len(rest) = 0
    BY <1>4, <1>8, <1>11, <2>1
  <2>3. rest = <<>>
    BY <2>2
  <2>4. left = Needed
    BY <1>4, <2>3, ConcatEmptySeq DEF left
  <2> QED
    BY <2>1, <2>4
<1> QED
  BY <1>6, <1>13, <1>14 DEF before, upTo

LEMMA LiftInit == HostInit => LiftFitsSignature
<1> SUFFICES ASSUME HostInit PROVE LiftFitsSignature
  OBVIOUS
<1>1. ParametersUpTo(desc, 0) = <<>>
  BY NoParameters DEF HostInit
<1> QED
  BY <1>1 DEF HostInit, LiftFitsSignature

LEMMA LiftNext ==
  ASSUME HostInv, LiftFitsSignature, [HostNext]_hostVars
  PROVE  LiftFitsSignature'
<1> USE DEF LiftFitsSignature, BytesArgument, Argument, callVars, liftVars
<1>1. ASSUME NEW d \in Descriptors, CallImport(d) PROVE LiftFitsSignature'
  <2>1. ParametersUpTo(desc', 0) = <<>>
    BY <1>1, NoParameters DEF CallImport
  <2> QED
    BY <1>1, <2>1 DEF CallImport
<1>2. CASE LiftArgument
  <2>1. /\ failed = "no" /\ HostTypeOK /\ lifted < Len(desc.arguments)
        /\ UNCHANGED <<desc, failed>>
        /\ lifted' = lifted + 1 /\ taken' = taken + Len(Needed)
    BY <1>2 DEF LiftArgument, MoreToLift, Lifting, HostInv, StageOK
  <2> SUFFICES ASSUME ~BytesArgument
               PROVE  taken' = Len(ParametersUpTo(desc, lifted + 1))
    BY <2>1
  <2> QED
    BY <2>1, NextFits
<1>3. CASE TooFewValues
  <2>1. BytesArgument
    BY <1>3, NextFits DEF TooFewValues, MoreToLift, HostInv
  <2> QED
    BY <1>3, <2>1 DEF TooFewValues
<1>4. CASE LiftFails
  <2>1. ~BytesArgument => InMemory(Argument)
    BY <1>4, NextFits DEF LiftFails, MoreToLift, HostInv
  <2> QED
    BY <1>4, <2>1 DEF LiftFails
<1>5. CASE AllocationFails
  BY <1>5 DEF AllocationFails
<1>6. CASE \/ NoMemory \/ RunClosure \/ NoAllocate \/ LowerPrimitive
           \/ CallAllocate \/ Allocated \/ PtrSet \/ SizeSet \/ SetterTraps
           \/ Return \/ ReturnRefused \/ Drop \/ UNCHANGED hostVars
  <2>1. UNCHANGED <<desc, lifted, taken, failed>>
    BY <1>6 DEF NoMemory, RunClosure, NoAllocate, LowerPrimitive,
       CallAllocate, Allocated, PtrSet, SizeSet, SetterTraps,
       Return, ReturnRefused, Drop, hostVars
  <2> QED
    BY <2>1
<1> QED
  BY <1>1, <1>2, <1>3, <1>4, <1>5, <1>6 DEF HostNext

(* Whatever the types of the arguments are, short of a ByteArray, lifting  *)
(* takes for each argument the parameters that the signature declares for  *)
(* it, and never runs out of values (itypes_args_to_wtypes,                *)
(* wvalues_to_ivalues).                                                    *)
THEOREM LiftCorrect == HostSpec => []LiftFitsSignature
<1>1. LiftFitsSignature /\ HostInv /\ [HostNext]_hostVars => LiftFitsSignature'
  BY LiftNext
<1> QED
  BY LiftInit, HostCorrect, <1>1, PTL DEF HostSpec

=============================================================================
