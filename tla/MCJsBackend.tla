----------------------------- MODULE MCJsBackend -----------------------------
(* Binaries for checking JsBackend.                                          *)
EXTENDS JsBackend

Import(name, kind, type) == [name |-> name, kind |-> kind, type |-> type]
Export(name, kind, index) == [name |-> name, kind |-> kind, index |-> index]

\* The SDK's kind of module: two imports, one of them not a function, and
\* exports that the host looks for.
Guest ==
    [types     |-> <<"none", "one">>,
     imports   |-> <<Import("log", "func", 0), Import("g", "global", 1), Import("f", "func", 1)>>,
     functions |-> <<1, 0>>,
     exports   |-> <<Export("memory", "memory", 0), Export("allocate", "func", 2),
                     Export("main", "func", 3), Export("f", "func", 1)>>,
     start     |-> "none",
     size      |-> 2]
\* A function that returns what the backend cannot represent, no memory.
Odd ==
    [types     |-> <<"unsupported", Absent>>,
     imports   |-> <<Import("log", "func", 0)>>,
     functions |-> <<0>>,
     exports   |-> <<Export("allocate", "func", 1), Export("t", "table", 0)>>,
     start     |-> "none",
     size      |-> 0]
Starting == [Guest EXCEPT !.start = "calls import"]
Malformed == [Odd EXCEPT !.exports = <<Export("x", "func", 7)>>]
NotAFunction == [Odd EXCEPT !.functions = <<1>>]
Tagged == [Odd EXCEPT !.exports = <<Export("x", "tag", 0)>>]

MCBinaries == {Guest, Odd, Starting, Malformed, NotAFunction, Tagged}
=============================================================================
