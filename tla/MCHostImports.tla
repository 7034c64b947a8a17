---------------------------- MODULE MCHostImports ----------------------------
(* Small instances of HostImports for TLC. *)
EXTENDS HostImports

D(args, out, handles) == [arguments |-> args, output |-> out, handler |-> handles]

(* The imports Marine makes itself (call parameters, mounted binaries), and *)
(* all other kinds of arguments and outputs.                                *)
MCDescriptors == {
    D(<<>>, "record", FALSE),
    D(<<"array">>, "record", FALSE),
    D(<<"string", "i32", "array">>, "string", TRUE),
    D(<<"i64", "record">>, "array", TRUE),
    D(<<"i32">>, "i32", FALSE),
    D(<<"array", "string">>, "nothing", TRUE),
    D(<<"f32">>, "f64", FALSE),
    D(<<"i32", "bytes">>, "string", TRUE),
    D(<<"bytes", "i32", "f32">>, "string", FALSE),
    D(<<"bytes">>, "bytes", FALSE)}

=============================================================================
