----------------------------- MODULE ModuleConfig -----------------------------
(***************************************************************************)
(* How the configuration of a module comes about: the TOML text is read    *)
(* (marine_config.rs), a service lays its environment and its working      *)
(* directory over it (extend_wasi_envs, root_wasi_files_at), and the       *)
(* builder of to_marine_config.rs turns it into what the core loads a      *)
(* module with, in the order logger, host imports, WASI.                   *)
(*                                                                         *)
(* A path is a sequence of names, absolute when it begins with "/"; the    *)
(* value of an environment variable is a sequence too, so that a path can  *)
(* be one.  The four API versions get the same imports, each with its own  *)
(* cell of call parameters, so one table of imports stands for all four.   *)
(***************************************************************************)
EXTENDS Integers, SequencesExt

CONSTANTS
    Absent,     \* Rust's None
    BasePath,   \* the directory of the configuration file
    WasmFile    \* the name of a module -> that name with ".wasm" behind it

\* None, where Some is a structure.
Nothing == [nothing |-> TRUE]

--------------------------------------------------------------------------
(* HashMap::insert and HashMap::extend: what comes later wins. *)

Inserted(map, key, value) ==
    [k \in DOMAIN map \cup {key} |-> IF k = key THEN value ELSE map[k]]

Extended(map, others) ==
    [k \in DOMAIN map \cup DOMAIN others |-> IF k \in DOMAIN others THEN others[k] ELSE map[k]]

--------------------------------------------------------------------------
(* The filter of log levels. *)

Levels == {"off", "error", "warn", "info", "debug", "trace"}

\* What the parts of one directive of WASM_LOG amount to: the module it
\* names, if any, and the level; Nothing when the directive is ignored.
Directive(d) ==
    CASE d.shape = "level"      -> [name |-> Absent, level |-> d.level]
      [] d.shape \in {"name", "name="}
                                -> [name |-> d.name, level |-> "trace"]
      [] d.shape = "name=level" -> [name |-> d.name, level |-> d.level]
      [] OTHER                  -> Nothing

\* The slip of a later default level replacing the first one.
AddDirectiveLastDefault(filter, d) ==
    LET parsed == Directive(d)
    IN  IF parsed = Nothing
        THEN filter
        ELSE IF parsed.name # Absent
        THEN [filter EXCEPT !.module_levels = Inserted(@, parsed.name, parsed.level)]
        ELSE [filter EXCEPT !.default_log_level = parsed.level]

AddDirective(filter, d) ==
    LET parsed == Directive(d)
    IN  IF parsed = Nothing
        THEN filter
        ELSE IF parsed.name # Absent
        THEN [filter EXCEPT !.module_levels = Inserted(@, parsed.name, parsed.level)]
        ELSE IF filter.default_log_level # Absent
        THEN filter
        ELSE [filter EXCEPT !.default_log_level = parsed.level]

EmptyFilter == [default_log_level |-> Absent, module_levels |-> <<>>]

\* The directives are taken one after the other.
FromEnvString(directives) ==
    LET upTo[n \in 0..Len(directives)] ==
            IF n = 0 THEN EmptyFilter ELSE AddDirective(upTo[n - 1], directives[n])
    IN  upTo[Len(directives)]

ModuleLevel(filter, name) ==
    IF name \in DOMAIN filter.module_levels
    THEN filter.module_levels[name]
    ELSE filter.default_log_level

--------------------------------------------------------------------------
(* Paths. *)

IsAbsolute(path) == path # <<>> /\ Head(path) = "/"

Join(root, path) == IF IsAbsolute(path) THEN path ELSE root \o path

\* The path, when it can be canonicalized: an absolute one is not looked at.
CanBeRelative(existing, path) ==
    IsAbsolute(path) \/ Join(BasePath, path) \in existing

--------------------------------------------------------------------------
(* TOML. *)

OrElse(value, default) == IF value = Absent THEN default ELSE value

\* Every value of a table has the type it is read as, and every relative
\* path to a mounted binary exists.
ModuleReadable(existing, toml) ==
    /\ ~toml.malformed
    /\ \A b \in DOMAIN toml.mounted_binaries :
            CanBeRelative(existing, toml.mounted_binaries[b])

NamedModuleReadable(existing, toml) ==
    /\ toml.load_from # Absent => CanBeRelative(existing, toml.load_from)
    /\ ModuleReadable(existing, toml)

FromTomlModule(toml) ==
    [load_from   |-> IF toml.load_from = Absent THEN Absent
                     ELSE Join(BasePath, toml.load_from),
     file_name   |-> OrElse(toml.file_name, WasmFile[toml.name]),
     import_name |-> toml.name,
     config      |->
        [logger_enabled |-> OrElse(toml.logger_enabled, TRUE),
         host_imports   |-> [b \in DOMAIN toml.mounted_binaries |->
                                Join(BasePath, toml.mounted_binaries[b])],
         wasi           |-> toml.wasi]]

ConfigReadable(existing, toml) ==
    /\ toml.readable
    /\ toml.modules_dir # Absent => CanBeRelative(existing, toml.modules_dir)
    /\ toml.default # Absent => ModuleReadable(existing, toml.default)
    /\ \A i \in DOMAIN toml.module : NamedModuleReadable(existing, toml.module[i])

FromTomlConfig(toml) ==
    [modules_dir    |-> IF toml.modules_dir = Absent THEN Absent
                        ELSE Join(BasePath, toml.modules_dir),
     modules_config |-> [i \in DOMAIN toml.module |->
                            FromTomlModule(toml.module[i])]]

\* Where the module is loaded from; Absent when nothing says it.
PathOf(descriptor, modules_dir, files) ==
    CASE descriptor.load_from = Absent /\ modules_dir = Absent -> Absent
      [] descriptor.load_from = Absent /\ modules_dir # Absent ->
            Append(modules_dir, descriptor.file_name)
      [] descriptor.load_from # Absent ->
            IF descriptor.load_from \in files
            THEN descriptor.load_from
            ELSE Append(descriptor.load_from, descriptor.file_name)

--------------------------------------------------------------------------
(* What a service lays over the configuration of each of its modules. *)

\* The slip of keeping what the configuration says.
ExtendWasiEnvsKeeping(config, new_envs) ==
    IF config.wasi = Nothing
    THEN [config EXCEPT !.wasi = [envs |-> new_envs, mapped_dirs |-> <<>>]]
    ELSE [config EXCEPT !.wasi.envs = Extended(new_envs, @)]

\* new_envs win over what the configuration says.
ExtendWasiEnvs(config, new_envs) ==
    IF config.wasi = Nothing
    THEN [config EXCEPT !.wasi = [envs |-> new_envs, mapped_dirs |-> <<>>]]
    ELSE [config EXCEPT !.wasi.envs = Extended(@, new_envs)]

RootWasiFilesAt(config, root) ==
    IF config.wasi = Nothing
    THEN config
    ELSE [config EXCEPT !.wasi.mapped_dirs =
            [alias \in DOMAIN @ |-> Join(root, @[alias])]]

--------------------------------------------------------------------------
(* The builder.  MModuleConfig::default() is empty. *)

EmptyModuleConfig ==
    [envs |-> <<>>, mapped_dirs |-> <<>>, host_imports |-> <<>>, raw_imports |-> {}]

PopulateLogger(built, logger_enabled, filter, name) ==
    IF ~logger_enabled
    THEN built
    ELSE LET level == ModuleLevel(filter, name)
         IN  [built EXCEPT
                !.envs = IF level = Absent THEN @
                         ELSE Inserted(@, "WASM_LOG", <<level>>),
                !.raw_imports = @ \cup {"log_utf8_string"}]

PopulateHostImports(built, host_imports) ==
    [built EXCEPT !.host_imports =
        Inserted(host_imports, "get_call_parameters", <<"call parameters">>)]

PopulateWasi(built, wasi) ==
    IF wasi = Nothing
    THEN built
    ELSE [built EXCEPT !.envs = Extended(wasi.envs, wasi.mapped_dirs),
                       !.mapped_dirs = wasi.mapped_dirs]

MakeMarineConfig(name, config, filter) ==
    PopulateWasi(
        PopulateHostImports(
            PopulateLogger(EmptyModuleConfig, config.logger_enabled, filter, name),
            config.host_imports),
        config.wasi)

=============================================================================
