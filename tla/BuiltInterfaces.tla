---------------------------- MODULE BuiltInterfaces ----------------------------
(***************************************************************************)
(* Toolchain with the generator of ITGenerator and the readers of          *)
(* ModuleInterface, and what is meant by the interface of a source.        *)
(***************************************************************************)
EXTENDS Toolchain, ModuleInterface

Generated(kind, resolver, description) ==
    CASE kind = "records" -> GenerateRecord(resolver, description)
      [] kind = "functions" -> GenerateFunction(resolver, description)
      [] kind = "imports" -> GenerateImport(resolver, description)

Presentable(it) == Interface(it) # Malformed

\* From ITInstance::new to instantiate_exports.
Loadable(it) == Linkable(it) /\ Instantiable(it)

--------------------------------------------------------------------------
(* What the instructions of adapters do with the types on their stack      *)
(* (the interpreter is a library of its own).                              *)

Effect(instruction, args, functions) ==
    LET op == instruction[1]
        Size == << <<"I32">>, <<"I32">> >>
        Takes(in, out) == [in |-> {in}, out |-> out]
    IN  CASE op = "ArgumentGet" -> Takes(<<>>, <<At(args, instruction[2])>>)
          [] op = "PushI32" -> Takes(<<>>, << <<"I32">> >>)
          [] op = "Convert" -> Takes(<<instruction[2]>>, <<instruction[3]>>)
          [] op = "CallCore" -> LET f == At(functions, instruction[2])
                                IN  IF f = Malformed THEN Malformed ELSE Takes(f.args, f.out)
          [] op = "StringSize" -> Takes(<< <<"String">> >>, << <<"I32">> >>)
          [] op = "StringLowerMemory" -> Takes(<< <<"I32">>, <<"String">> >>, Size)
          [] op = "StringLiftMemory" -> Takes(Size, << <<"String">> >>)
          [] op = "ByteArrayLiftMemory" -> Takes(Size, << <<"ByteArray">> >>)
          [] op = "ArrayLiftMemory" -> Takes(Size, << <<"Array", instruction[2]>> >>)
          [] op = "ArrayLowerMemory" ->
                [in  |-> {<< <<"Array", instruction[2]>> >>}
                         \cup (IF instruction[2] = <<"U8">> THEN {<< <<"ByteArray">> >>} ELSE {}),
                 out |-> Size]
          [] op = "RecordLiftMemory" -> Takes(<< <<"I32">> >>, << <<"Record", instruction[2]>> >>)
          [] op = "RecordLowerMemory" -> Takes(<< <<"Record", instruction[2]>> >>, << <<"I32">> >>)

Execute(stack, instruction, args, functions) ==
    LET n == Len(stack)
        Popped(k) == SubSeq(stack, 1, n - k)
        effect == Effect(instruction, args, functions)
    IN  IF stack = Malformed THEN Malformed
        ELSE IF instruction[1] = "Dup" THEN IF n = 0 THEN Malformed ELSE Append(stack, stack[n])
        ELSE IF instruction[1] = "Swap2"
             THEN IF n < 2 THEN Malformed ELSE Popped(2) \o <<stack[n], stack[n - 1]>>
        ELSE IF effect = Malformed \/ ~\E in \in effect.in : IsSuffix(in, stack) THEN Malformed
        ELSE Popped(Len(CHOOSE in \in effect.in : IsSuffix(in, stack))) \o effect.out

Results(adapter, args, functions) ==
    FoldLeft(LAMBDA stack, i : Execute(stack, i, args, functions), <<>>, adapter)

\* The signature that the compiler gave to a function of a binary.
Compiled(f) ==
    [args |-> FlatMap(LAMBDA a : RawArgs(a.type), f.args),
     out  |-> FlatMap(LAMBDA t : IF IsScalar(t) THEN << <<WasmType[t[1]]>> >> ELSE <<>>, f.out)]

\* Those of its exports.
Wasm(source) ==
    LET I32(n) == [i \in 1..n |-> <<"I32">>]
        Of(args, out) == [args |-> args, out |-> out]
    IN  [name \in {f.name : f \in Range(source.functions)} |->
            Compiled(CHOOSE f \in Range(source.functions) : f.name = name)]
        @@ [allocate |-> Of(I32(2), I32(1)), release_objects |-> Of(I32(0), I32(0)),
            get_result_size |-> Of(I32(0), I32(1)), get_result_ptr |-> Of(I32(0), I32(1)),
            set_result_size |-> Of(I32(1), I32(0)), set_result_ptr |-> Of(I32(1), I32(0))]

--------------------------------------------------------------------------
(* What a description says of itself.                                      *)

RECURSIVE SourceText(_)
SourceText(type) ==
    CASE type[1] = "vec" -> <<"[]">> \o SourceText(type[2])
      [] type[1] = "record" -> <<type[2]>>
      [] OTHER -> type

SourceRecord(source, name) == CHOOSE r \in Range(source.records) : r.name = name

SourceFields(fields) == Map(LAMBDA f : [name |-> f.name, type |-> SourceText(f.type)], fields)

Signed(source) == UNION {{a.type : a \in Range(f.args)} \cup Range(f.out) :
                         f \in Range(source.functions)}

\* How many levels a type takes, too many when it is part of itself.
RECURSIVE Levels(_, _, _)
Levels(source, type, outer) ==
    CASE type[1] = "vec" -> 1 + Levels(source, type[2], outer)
      [] type[1] = "record" ->
            IF type[2] \in outer THEN RecursionLimit + 1
            ELSE 2 + Max({Levels(source, f.type, outer \cup {type[2]}) :
                          f \in Range(SourceRecord(source, type[2]).fields)})
      [] OTHER -> 0

RECURSIVE NamesIn(_, _)
NamesIn(source, type) ==
    CASE type[1] = "vec" -> NamesIn(source, type[2])
      [] type[1] = "record" -> {type[2]} \cup UNION {NamesIn(source, f.type) :
                                    f \in Range(SourceRecord(source, type[2]).fields)}
      [] OTHER -> {}

\* The types of a source are not nested too deep.
NestedWithin(source) == \A t \in Signed(source) : Levels(source, t, {}) <= RecursionLimit

--------------------------------------------------------------------------
(* What AdaptersTyped and InterfaceFaithful say of an interface.           *)

AdaptersFit(it, source) ==
    LET functions == Functions(it, Wasm(source))
        Leaves(m, args, out) == Results(AdapterOf(it, m.adapter), args, functions) = out
    IN  /\ \A e \in ExportFunctions(it) :
            LET s == Signature(it, e) IN Leaves(e, Map(LAMBDA a : a.type, s.args), s.out)
        /\ LET imports == SelectSeq(source.imports, LAMBDA f : ~IsHostImport(f))
               linked == LinkedImports(it)
           IN  /\ Len(linked) = Len(imports)
               /\ \A i \in DOMAIN linked :
                    /\ linked[i].namespace = imports[i].namespace
                    /\ linked[i].name = imports[i].name
                    /\ \E m \in Range(it.implementations) :
                        LET raw == RawFunction(At(it.types, m.adapter))
                        IN  /\ m.core = linked[i].function_type
                            /\ raw = Compiled(imports[i])
                            /\ Leaves(m, raw.args, raw.out)

InterfaceOf(it, source) ==
    LET interface == Interface(it)
        names == Map(LAMBDA r : r.name, interface.records)
    IN  /\ interface # Malformed
        /\ interface.functions = {[name |-> f.name, args |-> SourceFields(f.args),
                                   out |-> Map(SourceText, f.out)] : f \in Range(source.functions)}
        /\ Range(names) = UNION {NamesIn(source, t) : t \in Signed(source)}
        /\ \A i \in DOMAIN names :
            LET record == SourceRecord(source, names[i])
            IN  /\ record.kind = "named" => interface.records[i].fields = SourceFields(record.fields)
                /\ \A f \in Range(record.fields) :
                    NamesIn(source, f.type) \subseteq Range(SubSeq(names, 1, i - 1))

=============================================================================
