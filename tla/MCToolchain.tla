----------------------------- MODULE MCToolchain -----------------------------
(* Sources for checking Toolchain.                                           *)
EXTENDS BuiltInterfaces

T(name) == <<name>>
Vec(type) == <<"vec", type>>
Rec(name) == <<"record", name>>
Field(name, type) == [name |-> name, type |-> type]
Record(name, fields) == [name |-> name, kind |-> "named", fields |-> fields]
Fn(name, args, out) == [name |-> name, args |-> args, out |-> out]
ImportFrom(namespace, name, args, out) ==
    [namespace |-> namespace, name |-> name, args |-> args, out |-> out]
Import(name, args, out) == ImportFrom("m", name, args, out)
Source(records, functions, imports) ==
    [records |-> records, functions |-> functions, imports |-> imports, manifests |-> <<>>]
Taking(records, type) == Source(records, <<Fn("f", <<Field("a", type)>>, <<>>)>>, <<>>)
With(manifest) == [Taking(<<>>, T("i32")) EXCEPT !.manifests = manifest]
Manifest(size, lengths) == [size |-> size, lengths |-> lengths, valid |-> TRUE]

Line == Record("Line", <<Field("a", Rec("Pt")), Field("more", Vec(Rec("Pt")))>>)
Pt == Record("Pt", <<Field("x", T("i32")), Field("s", T("string"))>>)

\* Every way to pass values, a record that is used before it is defined,
\* functions of the host, one of which takes a record that is never defined.
Rich ==
    Source(<<Line, Pt, [name |-> "Unit", kind |-> "unit", fields |-> <<>>]>>,
           <<Fn("f", <<Field("l", Rec("Line")), Field("b", Vec(T("u8"))), Field("n", T("bool"))>>,
                     <<Rec("Line")>>),
             Fn("g", <<Field("s", T("string")), Field("v", Vec(Vec(T("i64"))))>>, <<T("string")>>),
             Fn("h", <<Field("x", T("f64"))>>, <<Vec(T("u8"))>>)>>,
           <<Import("r", <<Field("s", T("string")), Field("u", T("u8")), Field("v", Vec(Rec("Pt")))>>,
                         <<Vec(Rec("Pt"))>>),
             Import("q", <<Field("p", Rec("Pt")), Field("x", T("f64"))>>, <<T("i64")>>),
             ImportFrom("host", "q", <<Field("p", Rec("Nowhere"))>>, <<T("i64")>>),
             ImportFrom("__marine_host_api_v3", "k", <<Field("s", T("string"))>>, <<T("bool")>>),
             Import("y", <<>>, <<T("u8")>>), Import("w", <<>>, <<T("f64")>>),
             Import("t", <<Field("b", Vec(T("u8")))>>, <<T("string")>>),
             Import("z", <<>>, <<Rec("Pt")>>)>>)
D(name, type) == Record(name, <<Field("d", type)>>)
Chain3 == <<D("D1", Rec("D2")), D("D2", Rec("D3")), D("D3", T("u8"))>>
Chain4 == <<D("D1", Rec("D2")), D("D2", Rec("D3")), D("D3", Rec("D4")), D("D4", T("u8"))>>
Tree == Record("Tree", <<Field("v", T("i64")), Field("kids", Vec(Rec("Tree")))>>)
Tuple == [Pt EXCEPT !.kind = "unnamed"]

MCSources ==
    {Rich, Taking(Chain3, Rec("D1")), Taking(Chain3, Vec(Rec("D1"))), Taking(Chain4, Rec("D1")),
     Taking(<<Tree>>, Rec("Tree")), Taking(<<Tuple>>, Rec("Pt")),
     Taking(<<Pt, Pt>>, T("u8")),            \* refused: more definitions than stubs
     Taking(<<Line, Line>>, Rec("Line")),    \* accepted, though Pt is missing
     Taking(<<Line>>, Rec("Line")), Taking(<<>>, Rec("Pt")),
     Taking(<<Record("E", <<>>)>>, T("u8")),
     Taking(<<Record("S", <<Field("s", Rec("S"))>>)>>, T("u8")),
     With(<<Manifest(45, <<1, 1, 1, 1, 1>>)>>), With(<<Manifest(46, <<1, 1, 1, 1, 1>>)>>),
     With(<<Manifest(45, <<1, 1, 1, 1, 2>>)>>), With(<<Manifest(20, <<99, 1, 1, 1, 1>>)>>),
     With(<<Manifest(20, <<1, 92, 1, 1, 1>>)>>), With(<<Manifest(100, <<92, 1, 1, 1, 1>>)>>),
     With(<<Manifest(45, <<1, 1, 1, 1, 1>>), Manifest(45, <<1, 1, 1, 1, 1>>)>>),
     With(<<[Manifest(45, <<1, 1, 1, 1, 1>>) EXCEPT !.valid = FALSE]>>)}

Written == [version |-> 1, types |-> <<>>, imports |-> <<>>, adapters |-> <<>>,
            exports |-> <<>>, implementations |-> <<>>]
MCGivenITs == {Malformed, Written}
=============================================================================
