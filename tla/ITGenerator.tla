----------------------------- MODULE ITGenerator -----------------------------
(***************************************************************************)
(* What it-generator makes of the descriptions that the SDK left in a      *)
(* binary: types, adapters and the tables that lead from exports and       *)
(* imports to them.  Everything refers to everything by position; ids      *)
(* count from 0.                                                           *)
(*                                                                         *)
(* A type of the source (ParsedType) is <<scalar>>, <<"string">>,          *)
(* <<"vec", type>> or <<"record", name>>; one scalar stands for those that *)
(* are treated alike.  An interface type is <<"I32">>, <<"S32">>, ...,     *)
(* <<"Array", type>> or <<"Record", id>>.  A description is                *)
(*   [records   : Seq([name, kind, fields : Seq([name, type])]),           *)
(*    functions : Seq([name, args : Seq([name, type]), out : Seq(type)]),  *)
(*    imports   : Seq([namespace, name, args, out])].                      *)
(***************************************************************************)
EXTENDS Integers, SequencesExt

CONSTANTS
    Malformed,      \* the error value of the operators below
    RecursionLimit, \* how deep types may be nested (1024)
    HostNamespaces  \* where functions of the host are imported from

ASSUME LimitAssumption == RecursionLimit \in Nat \ {0}

ScalarType == [bool |-> "Boolean", u8 |-> "U8", i32 |-> "S32", i64 |-> "S64", f64 |-> "F64"]
WasmType == [bool |-> "I32", u8 |-> "I32", i32 |-> "I32", i64 |-> "I64", f64 |-> "F64"]

\* wtype_to_itype: the numbers that a raw function returns are signed.
WTypeToIType == [I32 |-> "S32", I64 |-> "S64", F64 |-> "F64"]

IsScalar(type) == type[1] \in DOMAIN ScalarType
At(seq, id) == IF id \in 0..(Len(seq) - 1) THEN seq[id + 1] ELSE Malformed
LastId(seq) == Len(seq) - 1
FlatMap(Op(_), seq) == FoldLeft(LAMBDA acc, e : acc \o Op(e), <<>>, seq)
Map(Op(_), seq) == FoldLeft(LAMBDA acc, e : Append(acc, Op(e)), <<>>, seq)

--------------------------------------------------------------------------
(* ITResolver.  A stub is a record type that was met before its            *)
(* definition.                                                             *)

FunctionType(args, out) == [kind |-> "function", args |-> args, out |-> out]
RecordType(name, fields) == [kind |-> "record", name |-> name, fields |-> fields]
Stub == RecordType("", <<>>)

\* The functions of the SDK that adapters call.  Each has its place below
\* for its id as a type, as an export and as a function.
DefaultApi ==
    LET Size == << [name |-> "size", type |-> <<"I32">>] >>
    IN  << [name |-> "allocate",        args |-> Size,   out |-> << <<"I32">> >>],
           [name |-> "release_objects", args |-> <<>>,   out |-> <<>>],
           [name |-> "get_result_size", args |-> <<>>,   out |-> << <<"I32">> >>],
           [name |-> "get_result_ptr",  args |-> <<>>,   out |-> << <<"I32">> >>],
           [name |-> "set_result_size", args |-> Size,   out |-> <<>>],
           [name |-> "set_result_ptr",  args |-> Size,   out |-> <<>>] >>

Call(name) == <<"CallCore", (CHOOSE i \in DOMAIN DefaultApi : DefaultApi[i].name = name) - 1>>

Resolver ==
    [types           |-> Map(LAMBDA f : FunctionType(f.args, f.out), DefaultApi),
     exports         |-> [i \in DOMAIN DefaultApi |->
                            [name |-> DefaultApi[i].name, function_type |-> i - 1]],
     imports         |-> <<>>,
     adapters        |-> <<>>,
     implementations |-> <<>>,
     names           |-> <<>>,   \* record types by name
     unresolved      |-> 0]

\* get_record_type_id_unchecked for the record that a type leads to.
RECURSIVE WithStub(_, _)
WithStub(r, type) ==
    IF type[1] = "vec" THEN WithStub(r, type[2])
    ELSE IF type[1] # "record" \/ type[2] \in DOMAIN r.names THEN r
    ELSE [r EXCEPT !.names = (type[2] :> Len(r.types)) @@ @,
                   !.types = Append(@, Stub),
                   !.unresolved = @ + 1]

\* ptype_to_itype_checked
RECURSIVE IType(_, _)
IType(r, type) ==
    CASE type[1] = "vec" ->
            LET element == IType(r, type[2])
            IN  IF element = Malformed THEN Malformed
                ELSE IF element = <<"U8">> THEN <<"ByteArray">> ELSE <<"Array", element>>
      [] type[1] = "record" ->
            IF type[2] \in DOMAIN r.names THEN <<"Record", r.names[type[2]]>> ELSE Malformed
      [] type[1] = "string" -> <<"String">>
      [] OTHER -> <<ScalarType[type[1]]>>

ITArgs(r, args) == Map(LAMBDA a : [name |-> a.name, type |-> IType(r, a.type)], args)
ITTypes(r, types) == Map(LAMBDA t : IType(r, t), types)

Resolved(r, f) ==
    \A t \in Range(Map(LAMBDA a : a.type, f.args)) \cup Range(f.out) : IType(r, t) # Malformed

\* A tuple's fields have no names.
FieldName(record, field) == IF record.kind = "unnamed" THEN "" ELSE field.name

InsertRecordType(r, name, fields) ==
    IF name \in DOMAIN r.names
    THEN [r EXCEPT !.types[r.names[name] + 1] = RecordType(name, fields), !.unresolved = @ - 1]
    ELSE [r EXCEPT !.names = (name :> Len(r.types)) @@ @,
                   !.types = Append(@, RecordType(name, fields))]

GenerateRecord(r, record) ==
    LET stubbed == FoldLeft(LAMBDA acc, f : WithStub(acc, f.type), r, record.fields)
    IN  IF record.kind = "unit" THEN r
        ELSE IF record.fields = <<>> THEN Malformed
        ELSE InsertRecordType(stubbed, record.name,
                Map(LAMBDA f : [name |-> FieldName(record, f), type |-> IType(stubbed, f.type)],
                    record.fields))

\* validate_record_type; arrays are not looked into.
RECURSIVE ShallowFrom(_, _, _)
ShallowFrom(types, record, level) ==
    /\ level < RecursionLimit
    /\ \A f \in Range(record.fields) :
        f.type[1] = "Record" => ShallowFrom(types, At(types, f.type[2]), level + 1)

ValidRecords(r) ==
    /\ r.unresolved = 0
    /\ \A t \in Range(r.types) : t.kind = "record" => ShallowFrom(r.types, t, 0)

--------------------------------------------------------------------------
(* Instructions.  The core functions of a binary take and return Wasm      *)
(* types: a string or a vector is a pointer and a size, a record a         *)
(* pointer, and what is complex is returned by way of the SDK's results.   *)

RawArgs(type) ==
    IF IsScalar(type) THEN << <<WasmType[type[1]]>> >>
    ELSE IF type[1] = "record" THEN << <<"I32">> >> ELSE << <<"I32">>, <<"I32">> >>

RawOut(type) == IF IsScalar(type) THEN << <<WTypeToIType[WasmType[type[1]]]>> >> ELSE <<>>

\* Numbers are converted, but for floats.
Convert(from, to) == IF from = to THEN <<>> ELSE << <<"Convert", <<from>>, <<to>>>> >>
Lift(type) == Convert(WasmType[type[1]], ScalarType[type[1]])
Lower(type) == Convert(ScalarType[type[1]], WasmType[type[1]])

LiftMemory(r, type) ==
    LET t == IType(r, type)
    IN  CASE type[1] = "string" -> <<"StringLiftMemory">>
          [] t = <<"ByteArray">> -> <<"ByteArrayLiftMemory">>
          [] type[1] = "vec" -> <<"ArrayLiftMemory", IType(r, type[2])>>
          [] OTHER -> <<"RecordLiftMemory", t[2]>>

LowerMemory(r, type) ==
    IF type[1] = "vec" THEN <<"ArrayLowerMemory", IType(r, type[2])>>
    ELSE <<"RecordLowerMemory", r.names[type[2]]>>

\* An argument of an exported function.
ExportArg(r, type, index) ==
    << <<"ArgumentGet", index>> >> \o
    CASE IsScalar(type) -> Lower(type)
      [] type[1] = "string" -> << <<"StringSize">>, <<"PushI32">>, Call("allocate"),
                                  <<"ArgumentGet", index>>, <<"StringLowerMemory">> >>
      [] OTHER -> << LowerMemory(r, type) >>

ExportOut(r, type) ==
    IF IsScalar(type) THEN Lift(type)
    ELSE << Call("get_result_ptr") >>
         \o (IF type[1] = "record" THEN <<>> ELSE << Call("get_result_size") >>)
         \o << LiftMemory(r, type) >>

\* An argument of an imported function, the first of whose Wasm arguments
\* has that index.
ImportArg(r, type, index) ==
    [i \in 1..Len(RawArgs(type)) |-> <<"ArgumentGet", index + i - 1>>]
    \o (IF IsScalar(type) THEN Lift(type) ELSE << LiftMemory(r, type) >>)

ImportOut(r, type) ==
    CASE IsScalar(type) -> Lower(type)
      [] type[1] = "string" ->
            << <<"Dup">>, <<"StringSize">>, <<"PushI32">>, Call("allocate"), <<"Swap2">>,
               <<"StringLowerMemory">>, Call("set_result_size"), Call("set_result_ptr") >>
      [] type[1] = "record" -> << LowerMemory(r, type), Call("set_result_ptr") >>
      [] OTHER -> << LowerMemory(r, type), Call("set_result_size"), Call("set_result_ptr") >>

ReleaseIf(condition) == IF condition THEN << Call("release_objects") >> ELSE <<>>

GenerateFunction(r, f) ==
    LET type == FunctionType(ITArgs(r, f.args), ITTypes(r, f.out))
        types == r.types \o <<type, type>>
        exports == Append(r.exports, [name |-> f.name, function_type |-> LastId(types)])
        instructions ==
            FlatMap(LAMBDA i : ExportArg(r, f.args[i].type, i - 1), [i \in DOMAIN f.args |-> i])
            \o << <<"CallCore", LastId(exports)>> >>
            \o FlatMap(LAMBDA t : ExportOut(r, t), f.out)
            \o ReleaseIf(\E t \in Range(f.out) : ~IsScalar(t))
    IN  IF ~Resolved(r, f) THEN Malformed
        ELSE [r EXCEPT
                !.types = types, !.exports = exports,
                !.adapters = Append(@, [function_type |-> LastId(types) - 1,
                                        instructions  |-> instructions]),
                !.implementations = Append(@, [core |-> LastId(types), adapter |-> LastId(types) - 1])]

\* The functions of an instance are its exports, then its linked imports.
\* The slip of not halving, though an import is entered twice.
ImportIndexUnhalved(exports, imports) == Len(exports) + Len(imports) - 1

ImportIndex(exports, imports) == Len(exports) + Len(imports) \div 2 - 1

\* "host imports should be left as is"
IsHostImport(f) == f.namespace \in HostNamespaces

GenerateImport(r, f) ==
    LET raw == FunctionType(FlatMap(LAMBDA a : Map(LAMBDA t : [name |-> a.name, type |-> t],
                                                   RawArgs(a.type)), f.args),
                            FlatMap(RawOut, f.out))
        types == r.types \o <<FunctionType(ITArgs(r, f.args), ITTypes(r, f.out)), raw, raw>>
        Import(type) == [namespace |-> f.namespace, name |-> f.name, function_type |-> type]
        imports == r.imports \o <<Import(LastId(types) - 2), Import(LastId(types))>>
        FirstRaw(i) == Len(FlatMap(LAMBDA a : RawArgs(a.type), SubSeq(f.args, 1, i - 1)))
        instructions ==
            FlatMap(LAMBDA i : ImportArg(r, f.args[i].type, FirstRaw(i)), [i \in DOMAIN f.args |-> i])
            \o ReleaseIf(\E a \in Range(f.args) : ~IsScalar(a.type))
            \o << <<"CallCore", ImportIndex(r.exports, imports)>> >>
            \o FlatMap(LAMBDA t : ImportOut(r, t), f.out)
    IN  IF IsHostImport(f) THEN r
        ELSE IF ~Resolved(r, f) THEN Malformed
        ELSE [r EXCEPT
                !.types = types, !.imports = imports,
                !.adapters = Append(@, [function_type |-> LastId(types) - 1,
                                        instructions  |-> instructions]),
                !.implementations = Append(@, [core |-> LastId(types), adapter |-> LastId(types) - 1])]

=============================================================================
