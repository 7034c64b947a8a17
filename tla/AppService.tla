------------------------------ MODULE AppService ------------------------------
(***************************************************************************)
(* The life of an application service (fluence-app-service/src/service.rs) *)
(* on its way from a configuration to a running set of modules: the        *)
(* configuration is read, the directories of the modules are made on disk, *)
(* Marine is built module by module, and only then does the service exist. *)
(* Any step may fail; what was made on disk stays.  Afterwards modules are *)
(* loaded and unloaded by the raw module API.                              *)
(*                                                                         *)
(* Marine is here what Marine.tla shows it to be: a table of names, each   *)
(* with the configuration its module was loaded with.  Guest code runs     *)
(* while a module is loaded and while a function is called; it may never   *)
(* end.                                                                    *)
(***************************************************************************)
EXTENDS ModuleConfig

CONSTANTS
    Configs,      \* the configurations there are (TomlAppServiceConfig)
    ServiceIds,   \* identifiers of services, given out once each
    ServiceEnvs,  \* the environment the creator of a service passes
    WorkingDir,   \* service_working_dir
    Files,        \* paths that are files
    Filters,      \* what the host's own WASM_LOG may hold, as directives
    Names         \* names of modules

ASSUME PathsAssumption ==
    /\ IsAbsolute(BasePath) /\ IsAbsolute(WorkingDir)
    /\ {BasePath, WorkingDir} \subseteq Seq(STRING)

\* What the types of TomlMarineConfig say of a configuration.
WellFormed(toml) ==
    /\ toml.module \in Seq(Range(toml.module))
    /\ \A m \in Range(toml.module) :
        /\ m.name \in Names
        /\ m.wasi # Nothing =>
            /\ m.wasi = [envs |-> m.wasi.envs, mapped_dirs |-> m.wasi.mapped_dirs]
            /\ m.wasi.mapped_dirs \in [DOMAIN m.wasi.mapped_dirs -> Seq(STRING)]

ASSUME ConfigsAssumption == \A c \in Configs : WellFormed(c)

\* What the parts of a directive may be (log::LevelFilter).
WellDirected(directives) ==
    /\ directives \in Seq(Range(directives))
    /\ \A d \in Range(directives) :
        /\ d.shape \in {"name", "name=", "name=level"} => d.name # Absent
        /\ d.shape \in {"level", "name=level"} => d.level \in Levels

ASSUME FiltersAssumption ==
    /\ Absent \notin Levels \cup Names
    /\ \A f \in Filters : WellDirected(f)

VARIABLES
    filter,     \* the host's WASM_LOG: read from the environment, never set
    dirs,       \* the directories on disk
    used,       \* the identifiers of services given out
    creating,   \* the service in the making, or Nothing
    service,    \* the service: its id, facade, configuration and modules; or Nothing
    guest,      \* the guest code: "none", "running", "yielded" or "binary"
    request,    \* what the guest code runs for: "none", "create", "load", "call"
    argument,   \* the name the request is about, or Absent
    reply       \* how the last request ended

configVars == <<filter, dirs, used>>
serviceVars == <<filter, dirs, used, creating, service, guest, request, argument, reply>>

Ancestors(path) == {SubSeq(path, 1, n) : n \in 1..Len(path)}

ServiceInit ==
    /\ filter \in Filters
    /\ dirs = Ancestors(BasePath)
    /\ used = {}
    /\ creating = Nothing
    /\ service = Nothing
    /\ guest = "none"
    /\ request = "none"
    /\ argument = Absent
    /\ reply = "none"

Idle == request = "none" /\ reply # "panic"

\* The slip of forgetting to stop the guest.
ReplyRunning(r) ==
    /\ request' = "none"
    /\ guest' = guest
    /\ argument' = Absent
    /\ reply' = r

\* The request is over.
Reply(r) ==
    /\ request' = "none"
    /\ guest' = "none"
    /\ argument' = Absent
    /\ reply' = r

--------------------------------------------------------------------------
(* Creation.  The facade is the last module of the configuration, or the   *)
(* empty name in the service of a REPL.                                    *)

\* The slip of calling the facade by its file.
FacadeOfByFile(config) == Last(config.modules_config).file_name

FacadeOf(config) == Last(config.modules_config).import_name

Making(stage) == creating # Nothing /\ creating.stage = stage

Begun(toml, id, empty) ==
    [id |-> id, toml |-> toml, empty |-> empty, stage |-> "read",
     config |-> Absent, next |-> 1, table |-> <<>>]

\* The slip of giving up the old service before there is a new one.
BeginCreateReplacing(toml, id, empty) ==
    /\ Idle
    /\ id \notin used
    /\ used' = used \cup {id}
    /\ creating' = Begun(toml, id, empty)
    /\ request' = "create"
    /\ reply' = "none"
    /\ service' = Nothing
    /\ UNCHANGED <<filter, dirs, guest, argument>>

BeginCreate(toml, id, empty) ==
    /\ Idle
    /\ id \notin used
    /\ used' = used \cup {id}
    /\ creating' = Begun(toml, id, empty)
    /\ request' = "create"
    /\ reply' = "none"
    /\ UNCHANGED <<filter, dirs, service, guest, argument>>

CreateFails ==
    /\ creating' = Nothing
    /\ Reply("failed")
    /\ UNCHANGED <<filter, dirs, used, service>>

ConfigAccepted ==
    /\ ConfigReadable(dirs \cup Files, creating.toml)
    /\ ~creating.empty => creating.toml.module # <<>>

ReadConfig ==
    /\ Making("read")
    /\ ConfigAccepted
    /\ creating' = [creating EXCEPT !.stage = "prepare",
                                    !.config = FromTomlConfig(creating.toml)]
    /\ UNCHANGED <<filter, dirs, used, service, guest, request, argument, reply>>

ConfigRejected ==
    /\ Making("read")
    /\ ~ConfigAccepted
    /\ CreateFails

More == creating.next \in DOMAIN creating.config.modules_config

Current == creating.config.modules_config[creating.next]

\* The directories of a configuration that do not exist yet.
ToCreate(config) ==
    IF config.wasi = Nothing
    THEN {}
    ELSE {config.wasi.mapped_dirs[a] : a \in DOMAIN config.wasi.mapped_dirs}

Prepared ==
    LET envs == Inserted(ServiceEnvs, "service_id", <<creating.id>>)
    IN  RootWasiFilesAt(ExtendWasiEnvs(Current.config, envs), WorkingDir)

\* The slip of making the directories before they are put under the
\* working directory.
NewDirsEarly == UNION {Ancestors(d) : d \in ToCreate(Current.config) \ Files}

\* A file where a directory should be counts as success (AlreadyExists) and
\* is found out when it is opened.
NewDirs == UNION {Ancestors(d) : d \in ToCreate(Prepared) \ Files}

\* set_env_and_dirs for one module.
PrepareModule ==
    /\ Making("prepare") /\ More
    /\ creating' = [creating EXCEPT
                        !.config.modules_config[creating.next].config = Prepared,
                        !.next = @ + 1]
    /\ dirs' = dirs \cup NewDirs
    /\ UNCHANGED <<filter, used, service, guest, request, argument, reply>>

\* create_dir_all fails for another reason; the directories of the earlier
\* modules exist by now.
CreateDirFails ==
    /\ Making("prepare") /\ More
    /\ ToCreate(Current.config) # {}
    /\ CreateFails

Binaries ==
    {PathOf(m, creating.config.modules_dir, Files) :
        m \in {creating.config.modules_config[i] : i \in DOMAIN creating.config.modules_config}}

\* Every path is worked out and every file is read before any is loaded.
ReadBinaries ==
    /\ Making("prepare") /\ ~More
    /\ Binaries \subseteq Files
    /\ creating' = [creating EXCEPT !.stage = "load", !.next = 1]
    /\ UNCHANGED <<filter, dirs, used, service, guest, request, argument, reply>>

BinaryMissing ==
    /\ Making("prepare") /\ ~More
    /\ ~(Binaries \subseteq Files)
    /\ CreateFails

--------------------------------------------------------------------------
(* Loading. *)

\* What keeps a module from being loaded whatever its binary is: an import
\* defined twice, a directory that cannot be opened, a name in use.
Loadable(name, built, table) ==
    /\ built.raw_imports \cap DOMAIN built.host_imports = {}
    /\ \A a \in DOMAIN built.mapped_dirs : built.mapped_dirs[a] \in dirs
    /\ name \notin DOMAIN table

Built == MakeMarineConfig(Current.import_name, Current.config, FromEnvString(filter))

StartModule ==
    /\ Making("load") /\ More
    /\ guest = "none"
    /\ Loadable(Current.import_name, Built, creating.table)
    /\ guest' = "running"
    /\ UNCHANGED <<filter, dirs, used, creating, service, request, argument, reply>>

ModuleStarted ==
    /\ Making("load")
    /\ guest = "running"
    /\ guest' = "none"
    /\ creating' = [creating EXCEPT
                        !.table = Inserted(@, Current.import_name, Built),
                        !.next = @ + 1]
    /\ UNCHANGED <<filter, dirs, used, service, request, argument, reply>>

\* The slip of carrying on without a module that could not be loaded.
ModuleRefusedIgnored ==
    /\ Making("load") /\ More
    /\ guest \in {"none", "running"}
    /\ guest' = "none"
    /\ creating' = [creating EXCEPT !.next = @ + 1]
    /\ UNCHANGED <<filter, dirs, used, service, request, argument, reply>>

\* The binary is refused, does not link, or its start-up code traps.
ModuleRefused ==
    /\ Making("load") /\ More
    /\ guest \in {"none", "running"}
    /\ CreateFails

\* The service takes the place of the one before it.
Publish ==
    /\ Making("load") /\ ~More
    /\ service' = [id       |-> creating.id,
                   facade   |-> IF creating.empty THEN "" ELSE FacadeOf(creating.config),
                   toml     |-> creating.toml,
                   modules  |-> creating.table,
                   unloaded |-> {}]
    /\ creating' = Nothing
    /\ Reply("ok")
    /\ UNCHANGED <<filter, dirs, used>>

--------------------------------------------------------------------------
(* The raw module API and calls. *)

\* A module loaded by hand has a logger, and no WASI configuration at all.
ByHand == [logger_enabled |-> TRUE, host_imports |-> <<>>, wasi |-> Nothing]

BuiltByHand(name) == MakeMarineConfig(name, ByHand, FromEnvString(filter))

LoadModule(name) ==
    /\ Idle /\ service # Nothing
    /\ request' = "load"
    /\ argument' = name
    /\ guest' = "running"
    /\ reply' = "none"
    /\ UNCHANGED <<filter, dirs, used, creating, service>>

\* The binary was refused before any of its code ran, or its code trapped,
\* or the name turned out to be in use (after the code had run).
LoadFails ==
    /\ request = "load" /\ guest = "running"
    /\ Reply("failed")
    /\ UNCHANGED <<filter, dirs, used, creating, service>>

LoadEnds ==
    /\ request = "load" /\ guest = "running"
    /\ Loadable(argument, BuiltByHand(argument), service.modules)
    /\ service' = [service EXCEPT !.modules = Inserted(@, argument, BuiltByHand(argument))]
    /\ Reply("ok")
    /\ UNCHANGED <<filter, dirs, used, creating>>

UnloadModule(name) ==
    /\ Idle /\ service # Nothing
    /\ IF name \in DOMAIN service.modules
       THEN /\ service' = [service EXCEPT
                              !.modules = Restrict(@, DOMAIN @ \ {name}),
                              !.unloaded = @ \cup {name}]
            /\ reply' = "ok"
       ELSE UNCHANGED service /\ reply' = "failed"
    /\ UNCHANGED <<filter, dirs, used, creating, guest, request, argument>>

\* call_module of the REPL, and call_async, which asks for the facade.
CallModule(name) ==
    /\ Idle /\ service # Nothing
    /\ IF name \in DOMAIN service.modules
       THEN request' = "call" /\ argument' = name /\ guest' = "running" /\ reply' = "none"
       ELSE reply' = "failed" /\ UNCHANGED <<guest, request, argument>>
    /\ UNCHANGED <<filter, dirs, used, creating, service>>

CallEnds ==
    /\ request = "call" /\ guest = "running"
    /\ \E r \in {"ok", "failed"} : Reply(r)
    /\ UNCHANGED <<filter, dirs, used, creating, service>>

\* Some module that the guest code may be in has a mounted binary.
Mounted ==
    LET tables == IF request = "create"
                  THEN {Inserted(creating.table, Current.import_name, Built)}
                  ELSE {service.modules}
    IN  \E t \in tables : \E n \in DOMAIN t :
            DOMAIN t[n].host_imports # {"get_call_parameters"}

\* The host waits for another program (mounted_binary_import_impl).
RunBinary ==
    /\ guest = "running"
    /\ Mounted
    /\ guest' = "binary"
    /\ UNCHANGED <<filter, dirs, used, creating, service, request, argument, reply>>

BinaryEnds ==
    /\ guest = "binary"
    /\ guest' = "running"
    /\ UNCHANGED <<filter, dirs, used, creating, service, request, argument, reply>>

\* get_interface removes the facade from the interfaces and unwraps it.
GetInterface ==
    /\ Idle /\ service # Nothing
    /\ reply' = IF service.facade \in DOMAIN service.modules THEN "ok" ELSE "panic"
    /\ UNCHANGED <<filter, dirs, used, creating, service, guest, request, argument>>

=============================================================================
