--------------------------------- MODULE Repl ---------------------------------
(***************************************************************************)
(* The REPL (tools/repl/src) around an application service, and, for the   *)
(* part of AppService that the REPL does not use, an embedding program     *)
(* ("peer") that asks for a facade.  The REPL makes guest code yield by a  *)
(* thread that ticks the epoch, and gives each call a time after which its *)
(* future is dropped at the next yield.  Loading has no such limit, and    *)
(* the ticker starts only when the first service exists.                   *)
(***************************************************************************)
EXTENDS AppService

VARIABLES
    host,    \* who uses the service: "repl" or "peer"
    phase,   \* "starting", "ready" or "over"
    ticker,  \* the thread that increments the epoch runs
    due,     \* the deadline of the store is reached: guest code is to yield
    timer    \* of the call: "off", "armed" or "elapsed"

replVars == <<host, phase, ticker, due, timer>>
vars == <<serviceVars, replVars>>

Init ==
    /\ ServiceInit
    /\ host \in {"repl", "peer"}
    /\ phase = "starting"
    /\ ticker = FALSE
    /\ due = TRUE
    /\ timer = "off"

--------------------------------------------------------------------------
(* Creating a service.  A store begins with its deadline reached.          *)

NewService(toml, id) ==
    /\ phase = "ready" \/ (phase = "starting" /\ used = {})
    /\ BeginCreate(toml, id, host = "repl")
    /\ due' = TRUE
    /\ UNCHANGED <<host, phase, ticker, timer>>

Creating ==
    /\ ReadConfig \/ PrepareModule \/ ReadBinaries \/ StartModule \/ ModuleStarted
    /\ UNCHANGED replVars

\* The slip of a REPL without the ticker.
ServiceCreatedUnticked ==
    /\ Publish
    /\ phase' = "ready"
    /\ UNCHANGED <<host, ticker, due, timer>>

\* The ticker is spawned behind the first service.
ServiceCreated ==
    /\ Publish
    /\ phase' = "ready"
    /\ ticker' = (host = "repl")
    /\ UNCHANGED <<host, due, timer>>

\* The first failure ends the REPL; a later one leaves the service there
\* was, whose own store may have reached its deadline or not.
CreationFailed ==
    /\ ConfigRejected \/ CreateDirFails \/ BinaryMissing \/ ModuleRefused
    /\ phase' = IF phase = "starting" THEN "over" ELSE phase
    /\ due' \in BOOLEAN
    /\ UNCHANGED <<host, ticker, timer>>

--------------------------------------------------------------------------
(* The other commands. *)

Load(name) ==
    /\ phase = "ready"
    /\ LoadModule(name)
    /\ UNCHANGED replVars

Loading ==
    /\ LoadFails \/ LoadEnds
    /\ UNCHANGED replVars

Unload(name) ==
    /\ phase = "ready"
    /\ UnloadModule(name)
    /\ UNCHANGED replVars

\* The arguments do not parse (parse_call_module_arguments).
CallNotParsed ==
    /\ phase = "ready" /\ host = "repl" /\ Idle
    /\ reply' = "refused"
    /\ UNCHANGED <<filter, dirs, used, creating, service, guest, request, argument>>
    /\ UNCHANGED replVars

Call(name) ==
    /\ phase = "ready"
    /\ CallModule(name)
    /\ timer' = IF host = "repl" /\ request' = "call" THEN "armed" ELSE "off"
    /\ UNCHANGED <<host, phase, ticker, due>>

\* The result counts, whether the time has elapsed or not.
CallReturns ==
    /\ CallEnds
    /\ timer' = "off"
    /\ UNCHANGED <<host, phase, ticker, due>>

Interface ==
    /\ phase = "ready" /\ host = "peer"
    /\ GetInterface
    /\ UNCHANGED replVars

Quit ==
    /\ phase = "ready" /\ Idle
    /\ phase' = "over"
    /\ UNCHANGED <<serviceVars, host, ticker, due, timer>>

--------------------------------------------------------------------------
(* Time. *)

Tick ==
    /\ ticker /\ ~due
    /\ due' = TRUE
    /\ UNCHANGED <<serviceVars, host, phase, ticker, timer>>

TimerElapses ==
    /\ timer = "armed"
    /\ timer' = "elapsed"
    /\ UNCHANGED <<serviceVars, host, phase, ticker, due>>

\* At a loop or a function entry.  The timeout polls the call first and
\* looks at the time when it yields.
GuestYields ==
    /\ guest = "running" /\ due
    /\ IF timer = "elapsed"
       THEN Reply("interrupted") /\ timer' = "off"
       ELSE guest' = "yielded" /\ UNCHANGED <<request, argument, reply, timer>>
    /\ UNCHANGED <<filter, dirs, used, creating, service, host, phase, ticker, due>>

\* The deadline is now one tick away.
GuestResumes ==
    /\ guest = "yielded"
    /\ guest' = "running"
    /\ due' = FALSE
    /\ UNCHANGED <<filter, dirs, used, creating, service, request, argument, reply,
                   host, phase, ticker, timer>>

GuestWaits ==
    /\ RunBinary \/ BinaryEnds
    /\ UNCHANGED replVars

Next ==
    \/ \E c \in Configs, i \in ServiceIds : NewService(c, i)
    \/ Creating \/ ServiceCreated \/ CreationFailed
    \/ \E n \in Names : Load(n) \/ Unload(n) \/ Call(n)
    \/ Loading \/ CallNotParsed \/ CallReturns \/ Interface \/ Quit
    \/ Tick \/ TimerElapses \/ GuestYields \/ GuestResumes \/ GuestWaits

\* The ticker thread sleeps and ticks for ever, the runtime's timer fires,
\* and a future that yielded was woken at once and is polled again.  Guest
\* code cannot go on for ever without reaching a loop or a function, where
\* the compiled code looks at the epoch: strongly fair, because between two
\* such places it may be in a mounted binary.
Fairness ==
    /\ WF_vars(Tick)
    /\ WF_vars(TimerElapses)
    /\ SF_vars(GuestYields)
    /\ WF_vars(GuestResumes)

Spec == Init /\ [][Next]_vars /\ Fairness

--------------------------------------------------------------------------
(* Properties. *)

\* Every variable has its type, and guest code runs only for a request.
ReplTypeOK ==
    /\ filter \in Filters
    /\ dirs \subseteq Seq(STRING)
    /\ used \subseteq ServiceIds
    /\ (creating # Nothing) <=> (request = "create")
    /\ creating # Nothing =>
        /\ creating.stage \in {"read", "prepare", "load"}
        /\ DOMAIN creating.table \subseteq Names
        /\ creating.next \in 1..(Len(creating.toml.module) + 1)
    /\ service # Nothing =>
        /\ service.id \in used
        /\ DOMAIN service.modules \subseteq Names
    /\ guest \in {"none", "running", "yielded", "binary"}
    /\ request \in {"none", "create", "load", "call"}
    /\ request = "none" => guest = "none"
    /\ argument \in Names \cup {Absent}
    /\ reply \in {"none", "ok", "failed", "refused", "interrupted", "panic"}
    /\ host \in {"repl", "peer"}
    /\ phase \in {"starting", "ready", "over"}
    /\ ticker \in BOOLEAN /\ due \in BOOLEAN
    /\ timer \in {"off", "armed", "elapsed"}

\* Every directive of WASM_LOG counts for what it says: the level of a
\* module is that of the last directive that names it, or else of the first
\* that names no module (LoggerFilter::from_env_string, module_level).
LevelIsAsDirected ==
    \A n \in Names :
        LET parsed   == [i \in DOMAIN filter |-> Directive(filter[i])]
            valid    == {i \in DOMAIN filter : parsed[i] # Nothing}
            named    == {i \in valid : parsed[i].name = n}
            defaults == {i \in valid : parsed[i].name = Absent}
        IN  ModuleLevel(FromEnvString(filter), n) =
                IF named # {} THEN parsed[Max(named)].level
                ELSE IF defaults # {} THEN parsed[Min(defaults)].level
                ELSE Absent

\* The modules a service was configured with and that nobody unloaded.
Standing ==
    {m \in {service.toml.module[i] : i \in DOMAIN service.toml.module} :
        m.name \notin service.unloaded}

\* A service has every module of its configuration that was not unloaded,
\* whatever failed on the way to it and since (AppService::new).
ServiceComplete ==
    service # Nothing => \A m \in Standing : m.name \in DOMAIN service.modules

\* The modules of a service see its own identifier and what its creator
\* passed, whatever their configuration says and whichever services came
\* before, unless a directory is mapped under the same name; and they find
\* each of their directories under the service's working directory, or
\* where an absolute path says (set_env_and_dirs, populate_wasi).
OwnEnvironment ==
    service # Nothing => \A m \in Standing :
        LET built == service.modules[m.name]
            alias == IF m.wasi = Nothing THEN {} ELSE DOMAIN m.wasi.mapped_dirs
        IN  /\ "service_id" \in alias \/ built.envs["service_id"] = <<service.id>>
            /\ \A e \in DOMAIN ServiceEnvs \ (alias \cup {"service_id"}) :
                    built.envs[e] = ServiceEnvs[e]
            /\ \A a \in alias :
                    /\ built.mapped_dirs[a] = Join(WorkingDir, m.wasi.mapped_dirs[a])
                    /\ built.envs[a] = built.mapped_dirs[a]

\* When the first module is loaded, every directory of every module exists,
\* or is a file: no module is refused for a directory that nobody made
\* (set_env_and_dirs, create_wasi_dirs).
DirsMade ==
    Making("load") =>
        \A i \in DOMAIN creating.config.modules_config :
            ToCreate(creating.config.modules_config[i].config) \subseteq dirs \cup Files

\* A service that was created with a facade has it until somebody unloads
\* it, so that get_interface has one to unwrap.
FacadeStands ==
    /\ service # Nothing /\ service.facade # "" =>
            service.facade \in DOMAIN service.modules \cup service.unloaded
    /\ reply = "panic" => service.facade \in service.unloaded

\* A service gives way only to a complete one, when that has been created;
\* until then, and whenever creation fails, it stays as it is.  Apart from
\* that it changes by one module at a time (REPL::new_service).
ReplacedWhole ==
    [][service' # service =>
        \/ /\ creating # Nothing /\ creating' = Nothing /\ service' # Nothing
           /\ service'.id = creating.id
           /\ DOMAIN service'.modules =
                {creating.toml.module[i].name : i \in DOMAIN creating.toml.module}
        \/ /\ service # Nothing /\ service' # Nothing
           /\ service'.id = service.id
           /\ \E n \in Names :
                DOMAIN service'.modules \in
                    {DOMAIN service.modules \cup {n}, DOMAIN service.modules \ {n}}
      ]_vars

\* A call in the REPL comes to an end, even when its code never does,
\* unless a mounted binary that it waits for never ends (REPL::call_module,
\* spawn_ticker_thread).
CallsEnd ==
    [](host = "repl") /\ []<>(guest # "binary") =>
        ((request = "call") ~> (request # "call"))

\* A level that the host's WASM_LOG gives to a module is what the module
\* finds in its environment ("overwrite possibly installed log variable in
\* config", to_marine_config.rs).
LogLevelWins ==
    service # Nothing => \A n \in DOMAIN service.modules :
        LET built == service.modules[n]
            level == ModuleLevel(FromEnvString(filter), n)
        IN  "log_utf8_string" \in built.raw_imports /\ level # Absent =>
                "WASM_LOG" \in DOMAIN built.envs /\ built.envs["WASM_LOG"] = <<level>>

=============================================================================
