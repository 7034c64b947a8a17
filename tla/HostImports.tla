------------------------------ MODULE HostImports ------------------------------
(***************************************************************************)
(* Calls of host imports by guest code (core/src/host_imports): arguments  *)
(* are lifted from Wasm values, the closure of the descriptor runs, and    *)
(* its output is lowered.  Strings, arrays and records do not fit in a     *)
(* Wasm result: they are copied to memory that the guest's `allocate'      *)
(* provides, and their place is left in two cells of the guest, with       *)
(* `set_result_ptr' and `set_result_size', for the guest to pick up when   *)
(* the import returns.                                                     *)
(*                                                                         *)
(* One instance is modelled.  It survives a trap and a dropped future, and *)
(* its cells with it; a panic takes the host process down.                 *)
(***************************************************************************)
EXTENDS Integers, SequencesExt

CONSTANTS
    Descriptors,  \* the HostImportDescriptors that imports were made from
    MaxCalls      \* bound of the model: calls of imports

(* IType, up to what the conversions tell apart: "i32" stands for all the  *)
(* types that are one i32 in Wasm, "nothing" for an absent output.         *)
ITypes == {"i32", "i64", "f32", "f64", "string", "bytes", "array", "record"}
Outputs == ITypes \cup {"nothing"}

DescriptorType ==
    [arguments : Seq(ITypes),
     output    : Outputs,
     handler   : BOOLEAN]    \* error_handler is Some

ASSUME HostAssumption ==
    /\ MaxCalls \in Nat
    /\ \A d \in Descriptors : d \in DescriptorType

(* What the host looks for among the exports of the guest. *)
GuestExports == {"memory", "allocate", "set_result_ptr", "set_result_size"}

VARIABLES
    exports,   \* those that the guest has
    pc,        \* where the call of the import is; "guest": guest code runs
    calls,     \* number of calls so far, the one in flight included
    desc,      \* descriptor of the import that is called
    lifted,    \* arguments that were lifted already
    taken,     \* Wasm values that they took
    output,    \* type of what the closure or the error handler returned
    failed,    \* how lifting or lowering failed
    ptr, size, \* the cells of the guest: call that wrote each, 0 for null
    results,   \* types of the Wasm values handed to the backend
    fate       \* how the last call ended

callVars == <<exports, calls, desc>>
liftVars == <<lifted, taken>>
cellVars == <<ptr, size>>
hostVars == <<pc, callVars, liftVars, output, failed, cellVars, results, fate>>

HostTypeOK ==
    /\ exports \subseteq GuestExports
    /\ pc \in {"guest", "lifting", "lowering", "allocating", "setting ptr",
               "setting size", "returning", "down"}
    /\ calls \in 0..MaxCalls
    /\ desc \in Descriptors
    /\ lifted \in 0..Len(desc.arguments)
    /\ taken \in Nat
    /\ output \in Outputs
    /\ failed \in {"no", "count", "value", "lowering"}
    /\ ptr \in 0..calls
    /\ size \in 0..calls
    /\ results \in Seq({"i32", "i64", "f32", "f64"})
    /\ fate \in {"none", "returned", "trapped", "panicked", "dropped"}

HostInit ==
    /\ exports \in SUBSET GuestExports
    /\ pc = "guest"
    /\ calls = 0
    /\ desc \in Descriptors
    /\ lifted = 0
    /\ taken = 0
    /\ output = "nothing"
    /\ failed = "no"
    /\ ptr = 0
    /\ size = 0
    /\ results = <<>>
    /\ fate = "none"

-----------------------------------------------------------------------------
(* The four tables of conversions.                                         *)

(* Mutant of ArgumentTypes: an array is passed by its address only. *)
ArgumentTypesFlat(t) ==
    IF t = "string" THEN <<"i32", "i32">>
    ELSE IF t \in {"bytes", "array", "record"} THEN <<"i32">> ELSE <<t>>

(* itypes_args_to_wtypes: Wasm parameters of the import for an argument. *)
ArgumentTypes(t) ==
    IF t \in {"string", "array"} THEN <<"i32", "i32">>
    ELSE IF t \in {"bytes", "record"} THEN <<"i32">> ELSE <<t>>

(* wvalues_to_ivalues: Wasm values that lifting an argument takes. *)
LiftTypes(t) ==
    IF t \in {"string", "array", "bytes"} THEN <<"i32", "i32">>
    ELSE IF t = "record" THEN <<"i32">> ELSE <<t>>

(* itypes_output_to_wtypes: Wasm results of the import for an output. *)
ResultTypes(t) ==
    CASE t \in {"nothing", "string", "array", "record"} -> <<>>
      [] t \in {"i32", "bytes"} -> <<"i32">>
      [] OTHER -> <<t>>

(* ivalue_to_wvalues: an output that is copied to the guest's memory. *)
InMemory(t) == t \in {"string", "array", "bytes", "record"}

(* The Wasm parameters of the import for its first k arguments. *)
ParametersUpTo(d, k) ==
    FlattenSeq([j \in 1..k |-> ArgumentTypes(d.arguments[j])])

-----------------------------------------------------------------------------
(* The call ends.                                                          *)

(* `return vec![...]': what the closure hands to the backend. *)
HandOver(types) ==
    /\ results' = types
    /\ pc' = "returning"
    /\ UNCHANGED fate

Panic ==
    /\ pc' = "down"
    /\ fate' = "panicked"
    /\ UNCHANGED results

-----------------------------------------------------------------------------
(* Lifting: call_host_import, lift_inputs.                                 *)

CallImport(d) ==
    /\ pc = "guest"
    /\ calls < MaxCalls
    /\ pc' = "lifting"
    /\ calls' = calls + 1
    /\ desc' = d
    /\ lifted' = 0
    /\ taken' = 0
    /\ output' = "nothing"
    /\ failed' = "no"
    /\ results' = <<>>
    /\ fate' = "none"
    /\ UNCHANGED <<exports, cellVars>>

(* caller.memory finds no memory exported under the standard name. *)
NoMemory ==
    /\ pc = "lifting"
    /\ "memory" \notin exports
    /\ Panic
    /\ UNCHANGED <<callVars, liftVars, output, failed, cellVars>>

Lifting == pc = "lifting" /\ "memory" \in exports
MoreToLift == Lifting /\ lifted < Len(desc.arguments)

(* The values that the next argument needs, and those that are left. *)
Argument == desc.arguments[lifted + 1]
Needed == LiftTypes(Argument)
Left ==
    LET values == ParametersUpTo(desc, Len(desc.arguments))
    IN  SubSeq(values, taken + 1, Len(values))

LiftArgument ==
    /\ MoreToLift
    /\ IsPrefix(Needed, Left)
    /\ lifted' = lifted + 1
    /\ taken' = taken + Len(Needed)
    /\ UNCHANGED <<pc, callVars, output, failed, cellVars, results, fate>>

(* Mutant of Handled: the default handler is used whatever the descriptor. *)
HandledByDefault ==
    /\ Panic
    /\ UNCHANGED output

(* The error handler returns a value of the output type, or None; without  *)
(* a handler default_error_handler panics.                                 *)
Handled ==
    \/ /\ desc.handler
       /\ output' \in {desc.output, "nothing"}
       /\ pc' = "lowering"
       /\ UNCHANGED <<results, fate>>
    \/ /\ ~desc.handler
       /\ Panic
       /\ UNCHANGED output

(* MismatchWValuesCount: the iterator over the Wasm values is exhausted. *)
TooFewValues ==
    /\ MoreToLift
    /\ IsStrictPrefix(Left, Needed)
    /\ failed' = "count"
    /\ Handled
    /\ UNCHANGED <<callVars, liftVars, cellVars>>

(* MismatchWValues, or what the values refer to cannot be read: out of the *)
(* memory's bounds, no UTF-8, an unknown record.                           *)
LiftFails ==
    /\ MoreToLift
    /\ \/ ~IsPrefix(Needed, Left) /\ ~IsPrefix(Left, Needed)
       \/ IsPrefix(Needed, Left) /\ InMemory(Argument)
    /\ failed' = "value"
    /\ Handled
    /\ UNCHANGED <<callVars, liftVars, cellVars>>

(* host_exported_func runs and returns a value of the output type. *)
RunClosure ==
    /\ Lifting
    /\ lifted = Len(desc.arguments)
    /\ output' = desc.output
    /\ pc' = "lowering"
    /\ UNCHANGED <<callVars, liftVars, failed, cellVars, results, fate>>

-----------------------------------------------------------------------------
(* Lowering: lower_outputs.                                                *)

(* The guest has no `allocate'. *)
NoAllocate ==
    /\ pc = "lowering"
    /\ "allocate" \notin exports
    /\ HandOver(<<"i32">>)
    /\ UNCHANGED <<callVars, liftVars, output, failed, cellVars>>

(* Mutant of LowerPrimitive: None is passed as if it were a value. *)
LowerPrimitiveAlways ==
    /\ pc = "lowering"
    /\ "allocate" \in exports
    /\ ~InMemory(output)
    /\ HandOver(<<output>>)
    /\ UNCHANGED <<callVars, liftVars, output, failed, cellVars>>

(* A primitive value is passed as is, and None as nothing. *)
LowerPrimitive ==
    /\ pc = "lowering"
    /\ "allocate" \in exports
    /\ ~InMemory(output)
    /\ HandOver(IF output = "nothing" THEN <<>> ELSE <<output>>)
    /\ UNCHANGED <<callVars, liftVars, output, failed, cellVars>>

CallAllocate ==
    /\ pc = "lowering"
    /\ "allocate" \in exports
    /\ InMemory(output)
    /\ pc' = "allocating"
    /\ UNCHANGED <<callVars, liftVars, output, failed, cellVars, results, fate>>

(* init_wasm_func: the setters are looked up before any of them is called, *)
(* and a failure code is returned when one is missing.                     *)
BeginSetting(setters) ==
    \/ /\ setters \subseteq exports
       /\ pc' = "setting ptr"
       /\ UNCHANGED <<results, fate>>
    \/ /\ ~(setters \subseteq exports)
       /\ HandOver(<<"i32">>)

BothSetters == {"set_result_ptr", "set_result_size"}

(* The value is in memory; a record has no size. *)
Allocated ==
    /\ pc = "allocating"
    /\ BeginSetting(IF output = "record" THEN {"set_result_ptr"} ELSE BothSetters)
    /\ UNCHANGED <<callVars, liftVars, output, failed, cellVars>>

(* `allocate' traps, or what it returned is out of bounds: both cells are  *)
(* to be zeroed.                                                           *)
AllocationFails ==
    /\ pc = "allocating"
    /\ failed' = "lowering"
    /\ BeginSetting(BothSetters)
    /\ UNCHANGED <<callVars, liftVars, output, cellVars>>

(* What is written into the cells of the guest. *)
Written == IF failed = "lowering" THEN 0 ELSE calls

(* Mutant of PtrSet: a string's size is left to the one of the call before. *)
PtrSetForAll ==
    /\ pc = "setting ptr"
    /\ ptr' = Written
    /\ HandOver(<<>>)
    /\ UNCHANGED <<callVars, liftVars, output, failed, size>>

PtrSet ==
    /\ pc = "setting ptr"
    /\ ptr' = Written
    /\ IF output = "record" /\ failed # "lowering"
       THEN HandOver(<<>>)
       ELSE pc' = "setting size" /\ UNCHANGED <<results, fate>>
    /\ UNCHANGED <<callVars, liftVars, output, failed, size>>

(* After an error one i32 is returned, otherwise nothing. *)
SizeSet ==
    /\ pc = "setting size"
    /\ size' = Written
    /\ HandOver(IF failed = "lowering" THEN <<"i32">> ELSE <<>>)
    /\ UNCHANGED <<callVars, liftVars, output, failed, ptr>>

(* A setter traps, and its result is unwrapped. *)
SetterTraps ==
    /\ pc \in {"setting ptr", "setting size"}
    /\ Panic
    /\ UNCHANGED <<callVars, liftVars, output, failed, cellVars>>

-----------------------------------------------------------------------------
(* The backend and the caller of the guest.                                *)

(* Mutant of Return: what the closure handed over is not looked at. *)
ReturnUnchecked ==
    /\ pc = "returning"
    /\ pc' = "guest"
    /\ fate' = "returned"
    /\ UNCHANGED <<callVars, liftVars, output, failed, cellVars, results>>

(* process_func_results compares the number of results with the signature, *)
(* and the engine their types.                                             *)
Return ==
    /\ pc = "returning"
    /\ results = ResultTypes(desc.output)
    /\ pc' = "guest"
    /\ fate' = "returned"
    /\ UNCHANGED <<callVars, liftVars, output, failed, cellVars, results>>

(* IncorrectResultsNumber, or an incompatible value: the guest traps. *)
ReturnRefused ==
    /\ pc = "returning"
    /\ results # ResultTypes(desc.output)
    /\ pc' = "guest"
    /\ fate' = "trapped"
    /\ UNCHANGED <<callVars, liftVars, output, failed, cellVars, results>>

(* The future is dropped while `allocate' or a setter is suspended. *)
Drop ==
    /\ pc \in {"allocating", "setting ptr", "setting size"}
    /\ pc' = "guest"
    /\ fate' = "dropped"
    /\ UNCHANGED <<callVars, liftVars, output, failed, cellVars, results>>

HostNext ==
    \/ \E d \in Descriptors : CallImport(d)
    \/ NoMemory \/ LiftArgument \/ TooFewValues \/ LiftFails \/ RunClosure
    \/ NoAllocate \/ LowerPrimitive \/ CallAllocate
    \/ Allocated \/ AllocationFails \/ PtrSet \/ SizeSet \/ SetterTraps
    \/ Return \/ ReturnRefused \/ Drop

HostSpec == HostInit /\ [][HostNext]_hostVars

-----------------------------------------------------------------------------
(* Properties.                                                             *)

(* ByteArray is the odd one among the types: as an output it declares an   *)
(* i32 result that it is never given, as an argument one parameter of the  *)
(* two that lifting takes.                                                 *)
BytesResult == desc.output = "bytes"
BytesArgument == \E k \in DOMAIN desc.arguments : desc.arguments[k] = "bytes"

(* A guest that goes on after an import finds the value it was given and   *)
(* not what an earlier call left behind: a string's pointer and size are   *)
(* both of this call, a record's pointer is, also after calls that failed  *)
(* or were dropped between the two cells (lower_outputs).                  *)
ResultBelongsToCall ==
    fate = "returned" /\ InMemory(output) /\ ~BytesResult =>
        /\ ptr = calls
        /\ output # "record" => size = calls

(* A failure to lower never looks like a success: the guest goes on only   *)
(* after a value of the declared type was lowered, or its error handler    *)
(* chose to return none.  A guest without `allocate' is excepted; it gets  *)
(* the failure code as if it were its i32 (lower_outputs).                 *)
FailureNotSilent ==
    fate = "returned" /\ "allocate" \in exports /\ ~BytesResult =>
        /\ failed # "lowering"
        /\ output = desc.output \/ failed \in {"count", "value"}

(* Lifting takes all the Wasm values of the signature and no more: each    *)
(* argument is lifted from its own parameters, the values never run out    *)
(* and never have another type than the one lifting asks for               *)
(* (itypes_args_to_wtypes and wvalues_to_ivalues agree).                   *)
LiftFitsSignature ==
    ~BytesArgument =>
        /\ taken = Len(ParametersUpTo(desc, lifted))
        /\ failed # "count"
        /\ failed = "value" => InMemory(Argument)

(* A call takes the host down only when a lifting error has no handler     *)
(* ("If None, panic will occur."), when the guest exports no memory, or    *)
(* when one of its setters traps.                                          *)
PanicOnlyUnhandled ==
    fate = "panicked" =>
        \/ "memory" \notin exports
        \/ failed \in {"count", "value"} /\ ~desc.handler
        \/ InMemory(output) /\ "set_result_ptr" \in exports

(* "returns 0 to a Wasm module in case of errors": a guest that exports     *)
(* all that the host looks for, and whose result could not be lowered,     *)
(* gets zeroes and goes on (lower_outputs).                                *)
ErrorsReturnZero ==
    /\ exports = GuestExports
    /\ failed = "lowering"
    /\ pc = "guest"
    /\ fate # "dropped"
    => fate = "returned" /\ ptr = 0 /\ size = 0

=============================================================================
