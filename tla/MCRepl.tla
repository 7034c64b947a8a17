-------------------------------- MODULE MCRepl --------------------------------
(* Configurations, paths and filters for checking Repl.                      *)
EXTENDS Repl

MCNames == {"a", "b"}
MCWasmFile == [n \in MCNames |-> IF n = "a" THEN "a.wasm" ELSE "b.wasm"]
MCBasePath == <<"/", "cfg">>
MCWorkingDir == <<"/", "work">>
MCFiles ==
    {<<"/", "cfg", "a.wasm">>, <<"/", "cfg", "other.wasm">>, <<"/", "cfg", "curl">>,
     <<"/", "work", "note">>}
MCServiceEnvs == [OWNER |-> <<"peer">>]

Mod(name) ==
    [name |-> name, file_name |-> Absent, load_from |-> Absent, logger_enabled |-> Absent,
     wasi |-> Nothing, mounted_binaries |-> <<>>, malformed |-> FALSE]
Conf(modules) ==
    [readable |-> TRUE, modules_dir |-> <<"/", "cfg">>, default |-> Absent, module |-> modules]

WithDirs(own) == [envs |-> [service_id |-> <<"mine">>, OWNER |-> <<"me">>, WASM_LOG |-> <<"warn">>],
                  mapped_dirs |-> own]

\* Two modules: one with an environment and a directory of its own, one
\* loaded from a file under another name, with a mounted binary.
Full == Conf(<<[Mod("a") EXCEPT !.wasi = WithDirs([data |-> <<"data">>])],
               [Mod("b") EXCEPT !.file_name = "other.wasm", !.load_from = <<>>,
                                !.mounted_binaries = [curl |-> <<"curl">>]]>>)
\* One module; a directory is mapped under the name of the identifier, one absolute.
Alias == Conf(<<[Mod("a") EXCEPT !.logger_enabled = FALSE,
                    !.wasi = WithDirs([service_id |-> <<"x">>, abs |-> <<"/", "abs">>])]>>)
Bad == {
    [Conf(<<>>) EXCEPT !.readable = FALSE],
    Conf(<<>>),
    Conf(<<Mod("a"), Mod("a")>>),
    [Conf(<<Mod("a")>>) EXCEPT !.modules_dir = Absent],
    Conf(<<[Mod("a") EXCEPT !.wasi = WithDirs([data |-> <<"note">>])]>>),
    Conf(<<[Mod("a") EXCEPT !.mounted_binaries = [log_utf8_string |-> <<"/", "bin">>]]>>),
    [Conf(<<Mod("a")>>) EXCEPT !.default = [Mod("a") EXCEPT !.malformed = TRUE]]}

MCConfigs == {Full, Alias} \cup Bad

Level(l) == [shape |-> "level", level |-> l]
Named(n, l) == [shape |-> "name=level", name |-> n, level |-> l]
MCFilters == {
    <<>>,
    <<Level("info"), Named("a", "debug"), Level("off"), Named("a", "error")>>,
    <<[shape |-> "name", name |-> "a"], [shape |-> "name=", name |-> "b"],
      [shape |-> "malformed"], [shape |-> "empty"]>>}
=============================================================================
