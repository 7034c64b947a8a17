------------------------------- MODULE ItJson -------------------------------
(***************************************************************************)
(* it-json-serde: JSON to interface values by type, and back.              *)
(*                                                                         *)
(* A JSON value is <<"null">>, <<"bool", b>>, <<"num", n>>, <<"str", s>>,  *)
(* <<"arr", sequence>> or <<"obj", function from names>>; an interface     *)
(* value <<type, scalar>>, <<"Array", sequence>>, <<"ByteArray", numbers>> *)
(* or <<"Record", sequence>>.  U8 and S32 stand for all numbers: each      *)
(* takes those in its range.                                               *)
(***************************************************************************)
EXTENDS Integers, SequencesExt

CONSTANTS
    Bad,         \* the error of a conversion
    Ranges,      \* the numbers of U8 and of S32
    RecordTypes  \* sequences of [name, type], by id

ASSUME RangesAssumption == Ranges.U8 \subseteq Ranges.S32

JsonOf == [Boolean |-> "bool", U8 |-> "num", S32 |-> "num", String |-> "str"]
IsScalarType(type) == type[1] \in DOMAIN JsonOf

\* A sequence of conversions is good when each is.
Collected(values) == IF Bad \in Range(values) THEN Bad ELSE values

--------------------------------------------------------------------------
(* JSON to interface values. *)

\* serde_json::from_value
FromValue(json, type) ==
    IF json[1] # JsonOf[type[1]] THEN Bad
    ELSE IF json[1] = "num" /\ json[2] \notin Ranges[type[1]] THEN Bad
    ELSE <<type[1], json[2]>>

\* An array of one element stands for it.
Scalar(json, type) ==
    IF json[1] = "arr" /\ Len(json[2]) = 1 THEN FromValue(json[2][1], type) ELSE FromValue(json, type)

RECURSIVE ToIValue(_, _)

\* Names are taken out of the object one by one; none may be left.
MapToIValues(map, args) ==
    IF Range([i \in DOMAIN args |-> args[i].name]) # DOMAIN map THEN Bad
    ELSE Collected([i \in DOMAIN args |-> ToIValue(map[args[i].name], args[i].type)])

ArrayToIValues(array, args) ==
    IF Len(array) # Len(args) THEN Bad
    ELSE Collected([i \in DOMAIN args |-> ToIValue(array[i], args[i].type)])

\* A record has fields: a description without any was refused.
RecordToIValue(json, id) ==
    LET fields == CASE json[1] = "obj" -> MapToIValues(json[2], RecordTypes[id])
                    [] json[1] = "arr" -> ArrayToIValues(json[2], RecordTypes[id])
                    [] OTHER -> Bad
    IN  IF fields = Bad THEN Bad ELSE <<"Record", fields>>

\* jvalue_to_ivalue.  Bytes become an array of U8.
ToIValue(json, type) ==
    CASE IsScalarType(type) -> Scalar(json, type)
      [] type[1] = "Record" -> RecordToIValue(json, type[2])
      [] OTHER ->
            LET element == IF type[1] = "ByteArray" THEN <<"U8">> ELSE type[2]
                values == IF json[1] # "arr" THEN Bad
                          ELSE Collected([i \in DOMAIN json[2] |-> ToIValue(json[2][i], element)])
            IN  IF values = Bad THEN Bad ELSE <<"Array", values>>

JsonToIValues(json, args) ==
    CASE json[1] = "obj" -> MapToIValues(json[2], args)
      [] json[1] = "arr" -> ArrayToIValues(json[2], args)
      [] json[1] = "null" -> IF args = <<>> THEN <<>> ELSE Bad
      [] OTHER -> IF Len(args) = 1 /\ IsScalarType(args[1].type)
                  THEN Collected(<<Scalar(json, args[1].type)>>) ELSE Bad

--------------------------------------------------------------------------
(* Interface values to JSON. *)

\* The elements of an array, also of one that is bytes.
Elements(value) ==
    IF value[1] = "ByteArray" THEN [i \in DOMAIN value[2] |-> <<"U8", value[2][i]>>] ELSE value[2]

RECURSIVE ToJson(_, _)
ToJson(value, type) ==
    LET Array(values) == LET all == Collected(values) IN IF all = Bad THEN Bad ELSE <<"arr", all>>
        Of(element) == Array([i \in DOMAIN value[2] |-> ToJson(Elements(value)[i], element)])
    IN  CASE value[1] = type[1] /\ IsScalarType(type) -> <<JsonOf[type[1]], value[2]>>
          [] value[1] \in {"Array", "ByteArray"} /\ type[1] = "ByteArray" -> Of(<<"U8">>)
          [] value[1] \in {"Array", "ByteArray"} /\ type[1] = "Array" -> Of(type[2])
          [] value[1] = "Record" /\ type[1] = "Record" ->
                LET fields == RecordTypes[type[2]]
                    values == Collected([i \in DOMAIN fields |-> ToJson(value[2][i], fields[i].type)])
                IN  IF Len(value[2]) # Len(fields) \/ values = Bad THEN Bad
                    ELSE <<"obj", [name \in {f.name : f \in Range(fields)} |->
                                    values[CHOOSE i \in DOMAIN fields : fields[i].name = name]]>>
          [] OTHER -> Bad

\* More results than one cannot be.
IValuesToJson(values, outputs) ==
    IF Len(values) # Len(outputs) THEN Bad
    ELSE IF values = <<>> THEN <<"null">> ELSE ToJson(values[1], outputs[1])

--------------------------------------------------------------------------
(* What a client means: the JSON that stands for a value of a type, written *)
(* down from the values.                                                    *)

Flat(json) == {json, <<"arr", <<json>>>>}

\* Every sequence with one of each set.
RECURSIVE OneOfEach(_)
OneOfEach(sets) ==
    IF sets = <<>> THEN {<<>>}
    ELSE {<<e>> \o rest : e \in sets[1], rest \in OneOfEach(Tail(sets))}

RECURSIVE Forms(_, _)

\* Values by position or by name.
ListForms(values, fields) ==
    LET each == OneOfEach([i \in DOMAIN fields |-> Forms(values[i], fields[i].type)])
        Named(list) == [name \in {f.name : f \in Range(fields)} |->
                            list[CHOOSE i \in DOMAIN fields : fields[i].name = name]]
    IN  {<<"arr", list>> : list \in each} \cup {<<"obj", Named(list)>> : list \in each}

Forms(value, type) ==
    CASE type[1] \in {"Boolean"} -> Flat(<<"bool", value[2]>>)
      [] type[1] \in {"U8", "S32"} -> Flat(<<"num", value[2]>>)
      [] type[1] = "String" -> Flat(<<"str", value[2]>>)
      [] type[1] = "Record" -> ListForms(value[2], RecordTypes[type[2]])
      [] OTHER ->
            LET element == IF type[1] = "ByteArray" THEN <<"U8">> ELSE type[2]
            IN  {<<"arr", list>> :
                 list \in OneOfEach([i \in DOMAIN value[2] |-> Forms(Elements(value)[i], element)])}

\* A list of arguments may be null when it is empty, and a scalar alone
\* when it has one.
ArgsForms(values, args) ==
    ListForms(values, args)
    \cup (IF args = <<>> THEN {<<"null">>} ELSE {})
    \cup (IF Len(args) = 1 /\ IsScalarType(args[1].type) THEN Forms(values[1], args[1].type) ELSE {})

ResultForms(values, outputs) == IF values = <<>> THEN {<<"null">>} ELSE Forms(values[1], outputs[1])

=============================================================================
