----------------------------- MODULE MCMarineJs -----------------------------
(* MarineJs with the conversions of ItJson, functions and calls to check.    *)
EXTENDS MarineJs, ItJson

CONSTANTS c1, c2

Field(name, type) == [name |-> name, type |-> type]
N(n) == <<"num", n>>
S(s) == <<"str", s>>
A(list) == <<"arr", list>>
O(map) == <<"obj", map>>

MCRanges == [U8 |-> 0..3, S32 |-> -1..4]
MCRecordTypes == [Pt |-> <<Field("n", <<"S32">>), Field("b", <<"ByteArray">>)>>]

\* Values that may be meant by what clients send.
U8s == {<<"U8", n>> : n \in 0..3}
Bytes == {<<"Array", b>> : b \in {<<>>} \cup {<<u>> : u \in U8s}}
Pts == {<<"Record", <<(<<"S32", n>>), b>>>> : n \in -1..4, b \in Bytes}

\* f(p: Pt, t: string) -> Pt, g(u: u8) -> [][u8], h() and nothing.
MCFunctions ==
    [f |-> [args    |-> <<Field("p", <<"Record", "Pt">>), Field("t", <<"String">>)>>,
            outputs |-> <<(<<"Record", "Pt">>)>>,
            takes   |-> {<<p, <<"String", "x">>>> : p \in Pts},
            returns |-> {<< <<"Record", <<(<<"S32", -1>>), <<"ByteArray", <<3, 0>>>>>>>> >>}],
     g |-> [args    |-> <<Field("u", <<"U8">>)>>,
            outputs |-> <<(<<"Array", <<"ByteArray">>>>)>>,
            takes   |-> {<<u>> : u \in U8s},
            returns |-> {<< <<"Array", <<(<<"ByteArray", <<1>>>>), <<"Array", <<>>>>>>>> >>}],
     h |-> [args    |-> <<>>, outputs |-> <<>>, takes |-> {<<>>}, returns |-> {<<>>}]]

Ask(function, args) == [function |-> function, args |-> args, parameters |-> TRUE]

Various ==
    {[Ask("h", A(<<>>)) EXCEPT !.parameters = FALSE],
     Ask("h", A(<<>>)), Ask("h", <<"null">>), Ask("h", A(<<N(1)>>)), Ask("k", A(<<>>)),
     Ask("g", A(<<N(3)>>)), Ask("g", A(<<A(<<N(3)>>)>>)), Ask("g", A(<<N(4)>>)), Ask("g", N(2)),
     Ask("g", A(<<N(1), N(2)>>)), Ask("g", O([u |-> N(1)])), Ask("g", O([v |-> N(1)])),
     Ask("f", A(<<O([n |-> N(-1), b |-> A(<<N(2)>>)]), S("x")>>)),
     Ask("f", O([p |-> A(<<N(4), A(<<A(<<N(0)>>)>>)>>), t |-> A(<<S("x")>>)])),
     Ask("f", A(<<O([n |-> N(1)]), S("x")>>)),
     Ask("f", O([p |-> O([n |-> N(1), b |-> A(<<N(4)>>)]), t |-> S("x")])),
     Ask("f", O([p |-> N(1), t |-> S("x")]))}

\* One call may be anything, one is a good one of h.
MCInputs == (c1 :> Various) @@ (c2 :> {Ask("h", A(<<>>))})

\* ItJson is right about all of these: what the theorem about CallsAnswered
\* asks of conversions.
ASSUME ItJsonFaithful == ConversionsFaithful
=============================================================================
