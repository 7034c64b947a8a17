--------------------------- MODULE ModuleInterface ---------------------------
(***************************************************************************)
(* What is read from an interface section: MITInterfaces and its lookups,  *)
(* the exported functions with the record types they need, the text that   *)
(* is shown of them, and the functions that an instance gives its          *)
(* adapters.                                                               *)
(***************************************************************************)
EXTENDS ITGenerator

\* Of several adapters of one type the last is kept.
AdapterOf(it, type) ==
    LET found == SelectSeq(it.adapters, LAMBDA a : a.function_type = type)
    IN  IF found = <<>> THEN Malformed ELSE Last(found).instructions

HasImplementation(it, core_type) == \E m \in Range(it.implementations) : m.core = core_type

\* Exports that have an implementation; those without are called by
\* adapters only.
ExportFunctions(it) ==
    {[name |-> e.name, adapter |-> m.adapter] :
        <<e, m>> \in {p \in Range(it.exports) \X Range(it.implementations) :
                        p[1].function_type = p[2].core}}

Signature(it, f) ==
    LET type == At(it.types, f.adapter)
    IN  IF type = Malformed \/ type.kind # "function" THEN Malformed
        ELSE [name |-> f.name, args |-> type.args, out |-> type.out, adapter |-> f.adapter]

--------------------------------------------------------------------------
(* Record types (export_it_records.rs).  Arrays and records each count for *)
(* a level here.                                                           *)

RECURSIVE RecordsOf(_, _, _)
RecordsOf(types, type, level) ==
    IF level > RecursionLimit THEN {Malformed}
    ELSE CASE type[1] = "Array" -> RecordsOf(types, type[2], level + 1)
           [] type[1] = "Record" ->
                LET record == At(types, type[2])
                IN  IF record = Malformed \/ record.kind # "record" THEN {Malformed}
                    ELSE {type[2]} \cup UNION {RecordsOf(types, f.type, level + 2) :
                                               f \in Range(record.fields)}
           [] OTHER -> {}

ExportRecords(types, signatures) ==
    UNION {RecordsOf(types, t, 0) :
           t \in UNION {{a.type : a \in Range(s.args)} \cup Range(s.out) : s \in signatures}}

\* it_interface::get_interface
ITInterface(it) ==
    LET signatures == {Signature(it, f) : f \in ExportFunctions(it)}
        records == ExportRecords(it.types, signatures)
    IN  IF Malformed \in signatures \/ Malformed \in records THEN Malformed
        ELSE [signatures |-> signatures, records |-> records]

--------------------------------------------------------------------------
(* The text (interface).                                                   *)

TextOfScalar(name) ==
    LET text == [Boolean |-> "bool", U8 |-> "u8", S32 |-> "i32", S64 |-> "i64", F64 |-> "f64",
                 String |-> "string", I32 |-> "i32", I64 |-> "i64"]
    IN  <<text[name]>>

RECURSIVE TextView(_, _)
TextView(types, type) ==
    CASE type[1] = "Record" -> <<At(types, type[2]).name>>
      [] type[1] = "Array" -> <<"[]">> \o TextView(types, type[2])
      [] type[1] = "ByteArray" -> <<"[]", "u8">>
      [] OTHER -> TextOfScalar(type[1])

\* The record below arrays, or nothing.
RECURSIVE Innermost(_)
Innermost(type) == IF type[1] = "Array" THEN Innermost(type[2]) ELSE type

\* RecordsTransformer::dfs, of a record that is not in sorted yet.  The
\* slip: a record is put before those it is made of.
RECURSIVE VisitedBefore(_, _, _)
VisitedBefore(types, sorted, id) ==
    IF id \in Range(sorted) THEN sorted
    ELSE FoldLeft(LAMBDA acc, f :
                    IF Innermost(f.type)[1] = "Record"
                    THEN VisitedBefore(types, acc, Innermost(f.type)[2])
                    ELSE acc,
                  Append(sorted, id), At(types, id).fields)

RECURSIVE Visited(_, _, _)
Visited(types, sorted, id) ==
    IF id \in Range(sorted) THEN sorted
    ELSE Append(FoldLeft(LAMBDA acc, f :
                            IF Innermost(f.type)[1] = "Record"
                            THEN Visited(types, acc, Innermost(f.type)[2])
                            ELSE acc,
                         sorted, At(types, id).fields),
                id)

\* Started from the records in the order of their names, any fixed order
\* here.
TopologicalSort(types, records) ==
    FoldLeft(LAMBDA acc, id : Visited(types, acc, id), <<>>, SetToSeq(records))

\* interface::get_interface
Interface(it) ==
    LET interface == ITInterface(it)
        Text(type) == TextView(it.types, type)
        Fields(args) == Map(LAMBDA a : [name |-> a.name, type |-> Text(a.type)], args)
    IN  IF interface = Malformed THEN Malformed
        ELSE [functions |-> {[name |-> s.name, args |-> Fields(s.args), out |-> Map(Text, s.out)] :
                             s \in interface.signatures},
              records   |-> Map(LAMBDA id : [name   |-> At(it.types, id).name,
                                             fields |-> Fields(At(it.types, id).fields)],
                                TopologicalSort(it.types, interface.records))]

--------------------------------------------------------------------------
(* Linking (wit_instance.rs, marine_module.rs). *)

\* The imports to be linked to other modules: with an implementation.
LinkedImports(it) == SelectSeq(it.imports, LAMBDA i : HasImplementation(it, i.function_type))

\* An imported function has the interface type two before its own.
LinkedType(it, import) == At(it.types, import.function_type - 2)

\* itype_to_wtype, of those a raw function has.
ITypeToWType == [S32 |-> "I32", S64 |-> "I64", I32 |-> "I32", I64 |-> "I64", F64 |-> "F64"]

\* The Wasm function that an import becomes, for a raw type.
RawFunction(type) ==
    [args |-> Map(LAMBDA a : <<ITypeToWType[a.type[1]]>>, type.args),
     out  |-> Map(LAMBDA t : <<ITypeToWType[t[1]]>>, type.out)]

\* The functions that adapters call, by id: exports with the signature that
\* the binary has for them (wasm, by name), then imports.
Functions(it, wasm) ==
    Map(LAMBDA e : wasm[e.name], it.exports)
    \o Map(LAMBDA i : LET type == LinkedType(it, i)
                      IN  [args |-> Map(LAMBDA a : a.type, type.args), out |-> type.out],
           LinkedImports(it))

Linkable(it) ==
    /\ \A i \in Range(LinkedImports(it)) :
        LinkedType(it, i) # Malformed /\ LinkedType(it, i).kind = "function"
    /\ \A m \in Range(it.implementations) :
        (\E i \in Range(it.imports) : i.function_type = m.core)
            => AdapterOf(it, m.adapter) # Malformed /\ At(it.types, m.adapter) # Malformed

\* MModule::instantiate_exports
Instantiable(it) ==
    LET interface == ITInterface(it)
    IN  /\ interface # Malformed
        /\ \A s \in interface.signatures : AdapterOf(it, s.adapter) # Malformed

=============================================================================
